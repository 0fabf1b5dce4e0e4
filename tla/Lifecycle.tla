----------------------------- MODULE Lifecycle -----------------------------
(***************************************************************************)
(* The server's goroutines from Start to the return of Close (server.go):  *)
(* one accept loop per listener, one goroutine per accepted connection,    *)
(* the map of live connections, the admission limit, and any number of     *)
(* callers of Close, the goroutine that waits for the context included.    *)
(***************************************************************************)
EXTENDS Integers, FiniteSets

CONSTANTS
  Conns,          \* connections clients may dial, each once
  Closers,        \* goroutines that may call Close
  ListenerCount,  \* 1 is the plaintext listener, 2 the TLS one if configured
  Limits,         \* values of MaxConnections the operator sets; 0 is no limit
  InitialLimit,   \* the one Start installs
  MaxChanges,     \* bound: changes of the limit
  NoConn          \* no connection

Listeners == 1..ListenerCount

ASSUME ConnsAssumption    == IsFiniteSet(Conns) /\ NoConn \notin Conns
ASSUME ClosersAssumption  == Closers # {}
ASSUME ListenerAssumption == ListenerCount \in {1, 2}
ASSUME LimitsAssumption   == Limits \subseteq Nat /\ InitialLimit \in Nat /\ MaxChanges \in Nat

VARIABLES
  conn,            \* each connection, see ConnStates
  via,             \* the listener it was dialled on
  loop,            \* each accept loop: "accept", "spawn", "backoff" or "exited"
  accepted,        \* the connection an accept loop is about to serve
  handler,         \* each connection's goroutine, see HandlerStates
  clients,         \* Server.clients
  active,          \* Server.activeConnections
  ticket,          \* the value of active each goroutine's Add returned
  limit,           \* chaos.MaxConnections
  changes,         \* changes of the limit, for MaxChanges
  serveWG,         \* Server.serveWG
  closed,          \* Server.closed is closed
  closedListeners, \* listeners Close has closed, in their order
  once,            \* closeOnce: "free", "running" or "done"
  closer,          \* each caller of Close, see CloserStates
  present,         \* connections in the map when Range began
  visited,         \* connections Range has visited
  closeErr         \* the joined error of Close is not nil

(***************************************************************************)
(* History variables.                                                      *)
(***************************************************************************)
VARIABLES
  admitted,        \* goroutines that passed the limit and have not left
  loosest          \* the loosest limit that was ever in force

network  == <<conn, via>>
accepts  == <<loop, accepted>>
sessions == <<handler, clients, active, ticket, admitted>>
limits   == <<limit, changes, loosest>>
shutdown == <<closed, closedListeners, once, closer, present, visited, closeErr>>
vars     == <<network, accepts, sessions, limits, serveWG, shutdown>>

\* "broken" is closed by the client, "closed" by the server.
ConnStates    == {"idle", "queued", "open", "broken", "closed"}
LoopStates    == {"accept", "spawn", "backoff", "exited"}
HandlerStates == {"none", "start", "registered", "counted", "serving",
                  "leaving", "closing", "deleting", "finishing", "returned"}
CloserStates  == {"idle", "waiting", "announce", "listeners", "range", "wait", "returned"}

-----------------------------------------------------------------------------
LoopsUncounted == 0
CountedLoops == ListenerCount

(***************************************************************************)
(* Start: the accept loops run and are counted.                            *)
(***************************************************************************)
Init ==
  /\ conn = [c \in Conns |-> "idle"]
  /\ via = [c \in Conns |-> 1]
  /\ loop = [l \in Listeners |-> "accept"]
  /\ accepted = [l \in Listeners |-> NoConn]
  /\ handler = [c \in Conns |-> "none"]
  /\ clients = {}
  /\ active = 0
  /\ ticket = [c \in Conns |-> 0]
  /\ limit = InitialLimit
  /\ changes = 0
  /\ serveWG = CountedLoops
  /\ closed = FALSE
  /\ closedListeners = 0
  /\ once = "free"
  /\ closer = [k \in Closers |-> "idle"]
  /\ present = {}
  /\ visited = {}
  /\ closeErr = FALSE
  /\ admitted = {}
  /\ loosest = InitialLimit

Listening(l) == l > closedListeners

-----------------------------------------------------------------------------
(***************************************************************************)
(* Clients.                                                                *)
(***************************************************************************)

\* A client dials; the connection is queued until it is accepted.
Dial(c, l) ==
  /\ conn[c] = "idle" /\ Listening(l)
  /\ conn' = [conn EXCEPT ![c] = "queued"]
  /\ via' = [via EXCEPT ![c] = l]
  /\ UNCHANGED <<accepts, sessions, limits, serveWG, shutdown>>

\* A client closes its end.
Disconnect(c) ==
  /\ conn[c] = "open"
  /\ conn' = [conn EXCEPT ![c] = "broken"]
  /\ UNCHANGED <<via, accepts, sessions, limits, serveWG, shutdown>>

\* The operator changes max_conns; 0, no limit, is the loosest.
SetLimit(n) ==
  /\ changes < MaxChanges
  /\ changes' = changes + 1
  /\ limit' = n
  /\ loosest' = IF n = 0 \/ loosest = 0 THEN 0 ELSE IF n > loosest THEN n ELSE loosest
  /\ UNCHANGED <<network, accepts, sessions, serveWG, shutdown>>

-----------------------------------------------------------------------------
(***************************************************************************)
(* acceptLoop.                                                             *)
(***************************************************************************)

\* Accept returns a connection ...
Accept(l, c) ==
  /\ loop[l] = "accept" /\ Listening(l)
  /\ conn[c] = "queued" /\ via[c] = l
  /\ conn' = [conn EXCEPT ![c] = "open"]
  /\ accepted' = [accepted EXCEPT ![l] = c]
  /\ loop' = [loop EXCEPT ![l] = "spawn"]
  /\ UNCHANGED <<via, sessions, limits, serveWG, shutdown>>

SpawnUncounted(l) ==
  /\ loop[l] = "spawn"
  /\ handler' = [handler EXCEPT ![accepted[l]] = "start"]
  /\ accepted' = [accepted EXCEPT ![l] = NoConn]
  /\ loop' = [loop EXCEPT ![l] = "accept"]
  /\ UNCHANGED <<network, clients, active, ticket, admitted, limits, serveWG, shutdown>>

\* ... and a counted goroutine is started for it.
Spawn(l) ==
  /\ loop[l] = "spawn"
  /\ serveWG' = serveWG + 1
  /\ handler' = [handler EXCEPT ![accepted[l]] = "start"]
  /\ accepted' = [accepted EXCEPT ![l] = NoConn]
  /\ loop' = [loop EXCEPT ![l] = "accept"]
  /\ UNCHANGED <<network, clients, active, ticket, admitted, limits, shutdown>>

\* Accept fails for another reason than a closed listener.
AcceptFails(l) ==
  /\ loop[l] = "accept" /\ Listening(l)
  /\ loop' = [loop EXCEPT ![l] = "backoff"]
  /\ UNCHANGED <<network, accepted, sessions, limits, serveWG, shutdown>>

\* The back-off ends.
Retry(l) ==
  /\ loop[l] = "backoff"
  /\ loop' = [loop EXCEPT ![l] = "accept"]
  /\ UNCHANGED <<network, accepted, sessions, limits, serveWG, shutdown>>

\* The listener is closed, or the server is while the loop backs off.
ExitLoop(l) ==
  /\ \/ loop[l] = "accept" /\ ~Listening(l)
     \/ loop[l] = "backoff" /\ closed
  /\ loop' = [loop EXCEPT ![l] = "exited"]
  /\ serveWG' = serveWG - 1
  /\ UNCHANGED <<network, accepted, sessions, limits, shutdown>>

-----------------------------------------------------------------------------
(***************************************************************************)
(* handleConnection.                                                       *)
(***************************************************************************)
Move(c, from, to) ==
  /\ handler[c] = from
  /\ handler' = [handler EXCEPT ![c] = to]

Register(c) ==
  /\ Move(c, "start", "registered")
  /\ clients' = clients \cup {c}
  /\ UNCHANGED <<network, accepts, active, ticket, admitted, limits, serveWG, shutdown>>

\* activeConnections.Add(1)
Count(c) ==
  /\ Move(c, "registered", "counted")
  /\ active' = active + 1
  /\ ticket' = [ticket EXCEPT ![c] = active + 1]
  /\ UNCHANGED <<network, accepts, clients, admitted, limits, serveWG, shutdown>>

\* Above the limit: 502.
OverLimitOffByOne(c) == limit > 0 /\ ticket[c] > limit + 1
OverLimit(c) == limit > 0 /\ ticket[c] > limit

Reject(c) ==
  /\ OverLimit(c)
  /\ Move(c, "counted", "leaving")
  /\ UNCHANGED <<network, accepts, clients, active, ticket, admitted, limits, serveWG, shutdown>>

\* Within the limit: the greeting goes out, unless greet_400 or drop_conn ends
\* the session with it.
Admit(c) ==
  /\ ~OverLimit(c)
  /\ \/ Move(c, "counted", "serving")
     \/ Move(c, "counted", "leaving")
  /\ admitted' = admitted \cup {c}
  /\ UNCHANGED <<network, accepts, clients, active, ticket, limits, serveWG, shutdown>>

\* A command ends the session: QUIT, a fault, or a reply that must end it.
EndByCommand(c) ==
  /\ Move(c, "serving", "leaving")
  /\ UNCHANGED <<network, accepts, clients, active, ticket, admitted, limits, serveWG, shutdown>>

\* Reading the next command fails.
EndByRead(c) ==
  /\ conn[c] \in {"broken", "closed"}
  /\ Move(c, "serving", "leaving")
  /\ UNCHANGED <<network, accepts, clients, active, ticket, admitted, limits, serveWG, shutdown>>

\* The deferred calls, last one first: activeConnections.Add(-1),
Leave(c) ==
  /\ Move(c, "leaving", "closing")
  /\ active' = active - 1
  /\ admitted' = admitted \ {c}
  /\ UNCHANGED <<network, accepts, clients, ticket, limits, serveWG, shutdown>>

\* connection.Close,
CloseConn(c) ==
  /\ Move(c, "closing", "deleting")
  /\ conn' = [conn EXCEPT ![c] = "closed"]
  /\ UNCHANGED <<via, accepts, clients, active, ticket, admitted, limits, serveWG, shutdown>>

\* clients.Delete,
Delete(c) ==
  /\ Move(c, "deleting", "finishing")
  /\ clients' = clients \ {c}
  /\ UNCHANGED <<network, accepts, active, ticket, admitted, limits, serveWG, shutdown>>

\* and serveWG.Done.
Done(c) ==
  /\ Move(c, "finishing", "returned")
  /\ serveWG' = serveWG - 1
  /\ UNCHANGED <<network, accepts, clients, active, ticket, admitted, limits, shutdown>>

-----------------------------------------------------------------------------
(***************************************************************************)
(* Close.                                                                  *)
(***************************************************************************)
Goto(k, place) == closer' = [closer EXCEPT ![k] = place]

\* closeOnce lets the first caller in; the others wait for it.
CallClose(k) ==
  /\ closer[k] = "idle"
  /\ IF once = "free"
     THEN once' = "running" /\ Goto(k, "announce")
     ELSE Goto(k, "waiting") /\ UNCHANGED once
  /\ UNCHANGED <<network, accepts, sessions, limits, serveWG, closed,
                 closedListeners, present, visited, closeErr>>

LeaveOnceAtOnce(k) ==
  /\ closer[k] = "waiting"
  /\ Goto(k, "returned")
  /\ UNCHANGED <<network, accepts, sessions, limits, serveWG, closed,
                 closedListeners, once, present, visited, closeErr>>

LeaveOnce(k) ==
  /\ closer[k] = "waiting" /\ once = "done"
  /\ Goto(k, "returned")
  /\ UNCHANGED <<network, accepts, sessions, limits, serveWG, closed,
                 closedListeners, once, present, visited, closeErr>>

Announce(k) ==
  /\ closer[k] = "announce"
  /\ closed' = TRUE
  /\ Goto(k, "listeners")
  /\ UNCHANGED <<network, accepts, sessions, limits, serveWG,
                 closedListeners, once, present, visited, closeErr>>

\* A listener is closed; what it has queued is reset.
CloseListener(k) ==
  /\ closer[k] = "listeners" /\ closedListeners < ListenerCount
  /\ closedListeners' = closedListeners + 1
  /\ conn' = [c \in Conns |->
                IF conn[c] = "queued" /\ via[c] = closedListeners + 1
                THEN "closed" ELSE conn[c]]
  /\ UNCHANGED <<via, accepts, sessions, limits, serveWG, closed, once, closer,
                 present, visited, closeErr>>

\* Range begins: it will visit every key that stays in the map.
RangeClients(k) ==
  /\ closer[k] = "listeners" /\ closedListeners = ListenerCount
  /\ present' = clients
  /\ Goto(k, "range")
  /\ UNCHANGED <<network, accepts, sessions, limits, serveWG, closed,
                 closedListeners, once, visited, closeErr>>

\* Range visits a key that is in the map, one stored meanwhile perhaps: its
\* connection is closed, which fails if it already is.
Visit(k, c) ==
  /\ closer[k] = "range"
  /\ c \in clients \ visited
  /\ visited' = visited \cup {c}
  /\ conn' = [conn EXCEPT ![c] = "closed"]
  /\ closeErr' = (closeErr \/ conn[c] = "closed")
  /\ UNCHANGED <<via, accepts, sessions, limits, serveWG, closed,
                 closedListeners, once, closer, present>>

\* Range ends when no key is left that was there all the time.
EndRangeEarly(k) ==
  /\ closer[k] = "range"
  /\ Goto(k, "wait")
  /\ UNCHANGED <<network, accepts, sessions, limits, serveWG, closed,
                 closedListeners, once, present, visited, closeErr>>

EndRange(k) ==
  /\ closer[k] = "range" /\ (present \ visited) \cap clients = {}
  /\ Goto(k, "wait")
  /\ UNCHANGED <<network, accepts, sessions, limits, serveWG, closed,
                 closedListeners, once, present, visited, closeErr>>

\* serveWG.Wait returns, and so does closeOnce.Do.
ReturnFromWait(k) ==
  /\ closer[k] = "wait" /\ serveWG = 0
  /\ once' = "done"
  /\ Goto(k, "returned")
  /\ UNCHANGED <<network, accepts, sessions, limits, serveWG, closed,
                 closedListeners, present, visited, closeErr>>

\* Close has returned and nothing is left to do.
Stopped ==
  /\ once = "done"
  /\ UNCHANGED vars

-----------------------------------------------------------------------------
LoopStep(l) == Spawn(l) \/ Retry(l) \/ ExitLoop(l)

\* Steps a session goroutine takes without waiting for its client.
HandlerStep(c) ==
  \/ Register(c) \/ Count(c) \/ Reject(c) \/ Admit(c) \/ EndByRead(c)
  \/ Leave(c) \/ CloseConn(c) \/ Delete(c) \/ Done(c)

CloserStep(k) ==
  \/ LeaveOnce(k) \/ Announce(k) \/ CloseListener(k) \/ RangeClients(k)
  \/ (\E c \in Conns : Visit(k, c))
  \/ EndRange(k) \/ ReturnFromWait(k)

Next ==
  \/ \E l \in Listeners :
       LoopStep(l) \/ AcceptFails(l) \/ (\E c \in Conns : Dial(c, l) \/ Accept(l, c))
  \/ \E c \in Conns : HandlerStep(c) \/ EndByCommand(c) \/ Disconnect(c)
  \/ \E n \in Limits : SetLimit(n)
  \/ \E k \in Closers : CallClose(k) \/ CloserStep(k)
  \/ Stopped

(***************************************************************************)
(* Goroutines that can run do.  Clients need do nothing: they may dial,    *)
(* send commands and disconnect, or stay connected and silent.             *)
(***************************************************************************)
Fairness ==
  /\ \A l \in Listeners : WF_vars(LoopStep(l))
  /\ \A c \in Conns : WF_vars(HandlerStep(c))
  /\ \A k \in Closers : WF_vars(CloserStep(k))

Spec == Init /\ [][Next]_vars

FairSpec == Spec /\ Fairness

-----------------------------------------------------------------------------
(***************************************************************************)
(* Properties.                                                             *)
(***************************************************************************)

\* Every variable has its type; a negative serveWG would panic.
TypeOK ==
  /\ conn \in [Conns -> ConnStates]
  /\ via \in [Conns -> Listeners]
  /\ loop \in [Listeners -> LoopStates]
  /\ accepted \in [Listeners -> Conns \cup {NoConn}]
  /\ handler \in [Conns -> HandlerStates]
  /\ clients \subseteq Conns
  /\ active \in Nat
  /\ ticket \in [Conns -> Nat]
  /\ limit \in Nat /\ changes \in 0..MaxChanges /\ loosest \in Nat
  /\ serveWG \in Nat
  /\ closed \in BOOLEAN /\ closedListeners \in 0..ListenerCount
  /\ once \in {"free", "running", "done"}
  /\ closer \in [Closers -> CloserStates]
  /\ present \subseteq Conns /\ visited \subseteq Conns
  /\ closeErr \in BOOLEAN
  /\ admitted \subseteq Conns

RunningLoops    == {l \in Listeners : loop[l] # "exited"}
RunningHandlers == {c \in Conns : handler[c] \notin {"none", "returned"}}

(***************************************************************************)
(* Close "waits for all session goroutines to return": when any of its     *)
(* callers has come back, whether it did the closing or not, no accept     *)
(* loop and no session goroutine runs, none is left behind in the map and  *)
(* every connection a client has opened is closed, those that nobody told  *)
(* Close of included.                                                      *)
(***************************************************************************)
CloseWaitsForAll ==
  (\E k \in Closers : closer[k] = "returned") =>
    /\ RunningLoops = {} /\ RunningHandlers = {} /\ clients = {} /\ active = 0
    /\ \A c \in Conns : conn[c] \in {"idle", "closed"}

(***************************************************************************)
(* serveWG is only ever raised while it is positive, so that no Add races  *)
(* with the Wait of Close.  An accept loop that may still start a          *)
(* goroutine is itself counted.                                            *)
(***************************************************************************)
AddNeverRacesWait ==
  [][serveWG' > serveWG => serveWG > 0 /\ once # "done"]_vars

(***************************************************************************)
(* The limit binds: sessions that were admitted and have not left are no   *)
(* more than the loosest limit that was ever in force, although each       *)
(* goroutine counts itself before it reads the limit, and both may have    *)
(* changed in between.                                                     *)
(***************************************************************************)
AdmissionBound == loosest > 0 => Cardinality(admitted) <= loosest

(***************************************************************************)
(* The account behind AdmissionBound: however many goroutines that count   *)
(* themselves one looks at, one of them drew a ticket at least that high,  *)
(* and who was admitted drew one within the loosest limit.                 *)
(***************************************************************************)
Counting == {c \in Conns : handler[c] \in {"counted", "serving", "leaving"}}

TicketsAccounted ==
  /\ active = Cardinality(Counting)
  /\ \A S \in SUBSET Counting : S # {} => \E c \in S : Cardinality(S) <= ticket[c]
  /\ admitted \subseteq Counting
  /\ loosest > 0 => /\ limit > 0 /\ limit <= loosest
                    /\ \A c \in admitted : ticket[c] <= loosest

(***************************************************************************)
(* The account behind CloseWaitsForAll: serveWG counts exactly the running *)
(* goroutines, each accepted connection has one owner, the map holds the   *)
(* connections between Register and Delete, and closeOnce is done only     *)
(* after the last goroutine.                                               *)
(***************************************************************************)
GoroutinesCounted ==
  serveWG = Cardinality(RunningLoops) + Cardinality(RunningHandlers)

AcceptedOwned ==
  /\ \A l \in Listeners : loop[l] = "spawn" =>
       /\ accepted[l] \in Conns
       /\ handler[accepted[l]] = "none"
       /\ conn[accepted[l]] \notin {"idle", "queued"}
  /\ \A l, m \in Listeners :
       loop[l] = "spawn" /\ loop[m] = "spawn" /\ accepted[l] = accepted[m] => l = m
  /\ \A c \in Conns : handler[c] # "none" => conn[c] \notin {"idle", "queued"}

ClientsMapped ==
  clients = {c \in Conns :
               handler[c] \in {"registered", "counted", "serving", "leaving", "closing", "deleting"}}

OnceDone ==
  /\ once = "done" => serveWG = 0
  /\ (\E k \in Closers : closer[k] = "returned") => once = "done"

\* The inductive invariant.
LifecycleInv ==
  /\ TypeOK /\ GoroutinesCounted /\ AcceptedOwned /\ ClientsMapped /\ OnceDone
  /\ TicketsAccounted

(***************************************************************************)
(* closeOnce, the wait group, the listeners and the map keep the promise   *)
(* of Shutdown: the server goes down once and as a whole, although its     *)
(* goroutines start and end while any number of callers close it.          *)
(***************************************************************************)
Whole == INSTANCE Shutdown
           WITH accepting <- RunningLoops, serving <- RunningHandlers,
                ended <- {c \in Conns : handler[c] = "returned"},
                state <- CASE once = "free"    -> "up"
                           [] once = "running" -> "closing"
                           [] once = "done"    -> "down",
                call <- [k \in Closers |-> CASE closer[k] = "idle"     -> "out"
                                             [] closer[k] = "returned" -> "returned"
                                             [] OTHER                  -> "in"]

ImplementsShutdown == Whole!Spec

(***************************************************************************)
(* Close comes back, unless a connection that was not in the map when      *)
(* Range began stays open for ever.                                        *)
(***************************************************************************)
Missed ==
  \E c \in RunningHandlers \ present :
    conn[c] = "open" /\ \E k \in Closers : closer[k] = "wait"

CloseReturnsOrMissed == <>[]Missed \/ (once = "running" ~> once = "done")

-----------------------------------------------------------------------------
(***************************************************************************)
(* What the documentation and the tests say, and the code does not do.     *)
(***************************************************************************)

(***************************************************************************)
(* "Close stops listeners and live client sessions ... and waits for all   *)
(* session goroutines to return": it comes back, silent clients or not.    *)
(***************************************************************************)
CloseReturns == once = "running" ~> once = "done"

(***************************************************************************)
(* The tests fail on an error of Close, and the command exits with it: a   *)
(* shutdown in which every close was asked for once reports none.          *)
(***************************************************************************)
CloseReportsNoError == ~closeErr
=============================================================================
