------------------------------ MODULE BodyHold ------------------------------
(***************************************************************************)
(* BODY transfers and the synthetic holds that block them (server.go).     *)
(*                                                                         *)
(* An operator installs chaos configurations; each one may hold bodies     *)
(* after a budget of lines (hold_body) or hold the bodies of named         *)
(* articles (hold_ids).  Session goroutines serve BODY commands, each      *)
(* under the configuration it copied when the command was read, and wait   *)
(* on the channel that the release of a hold closes.  Close may interrupt  *)
(* any of it, and a client may disconnect at any time.                     *)
(***************************************************************************)
EXTENDS Integers, FiniteSets

CONSTANTS
  Sessions,          \* connections past authentication, one goroutine each
  Articles,          \* message IDs a client may ask for
  Stored,            \* those the article store has
  BodyLines,         \* number of body lines of each stored article
  Configs,           \* chaos configurations the operator installs
  InitialChaos,      \* the one Start installs
  EnableTestControl, \* Config.EnableTestControl
  MaxConfigs,        \* bound: configurations installed after Start
  MaxBodies          \* bound: BODY commands, over all sessions

Percent == 0..100

(***************************************************************************)
(* The fields of ChaosConfig that a BODY past its admission reads.  Of the *)
(* delay only whether it is zero matters.                                  *)
(***************************************************************************)
ChaosConfig ==
  [holdLines : Nat, holdIds : SUBSET Articles, slow : BOOLEAN,
   corrupt : Percent, dropMid : Percent, badTerm : Percent, splitTerm : Percent]

ASSUME SessionsAssumption == IsFiniteSet(Sessions)
ASSUME ArticlesAssumption == Articles # {} /\ Stored \subseteq Articles /\ BodyLines \in [Stored -> Nat]
ASSUME ConfigsAssumption  == Configs \subseteq ChaosConfig /\ InitialChaos \in ChaosConfig
ASSUME ControlAssumption  == EnableTestControl \in BOOLEAN
ASSUME BoundsAssumption   == MaxConfigs \in Nat /\ MaxBodies \in Nat

VARIABLES
  chaos,          \* Server.chaos, the live configuration
  holdRemaining,  \* Server.holdRemaining
  holdReleased,   \* Server.holdReleased: the armed channel, or NoChannel
  made,           \* channels made so far; they are numbered from 1
  closedChannels, \* channels closed so far
  closed,         \* Server.closed is closed
  conn,           \* each connection: "open", or "broken" at either end
  pc,             \* where each session goroutine stands
  article,        \* the article each BODY is about
  snapshot,       \* the configuration each BODY copied
  total,          \* lines the body being served has
  line,           \* lines of it already written
  waitsOn,        \* the channel a blocked body waits on
  transfers,      \* metrics.bodyXfers
  configs,        \* configurations installed, for MaxConfigs
  bodies          \* BODY commands read, for MaxBodies

(***************************************************************************)
(* History variables: what the clients and the operator can observe.       *)
(***************************************************************************)
VARIABLES
  fresh,          \* the sessions whose body began under the live configuration
  freshLines,     \* lines written since the live configuration, by fresh bodies
  staleLines,     \* and by bodies that began under an earlier one
  terminated      \* complete terminators written

control   == <<chaos, holdRemaining, holdReleased, made, closedChannels, configs>>
body      == <<article, snapshot, total, waitsOn, bodies>>
observed  == <<freshLines, staleLines, terminated>>
vars      == <<control, closed, conn, pc, body, line, transfers, fresh, observed>>

NoChannel == 0

Held == {"heldId", "heldLine"}
Locations == {"command", "status", "stream", "line", "write", "split", "record", "gone"} \cup Held

-----------------------------------------------------------------------------
(***************************************************************************)
(* Operators on configurations.                                            *)
(***************************************************************************)

\* The outcomes of server.roll: certain at 0 and at 100, open in between.
Roll(percent) == {hit \in BOOLEAN : (hit => percent > 0) /\ (~hit => percent < 100)}

\* The configuration holds something, so a channel must be armed.
Holds(config) == config.holdLines > 0 \/ config.holdIds # {}

holdsMessageID(config, a) == a \in config.holdIds

DroppedByAnyChange(previous, config) == previous # config

\* Replacing previous by config drops hold_body or an ID that was held.
Dropped(previous, config) ==
  \/ previous.holdLines > 0 /\ config.holdLines = 0
  \/ \E a \in previous.holdIds : ~holdsMessageID(config, a)

\* handleBody writes the whole body at once when no fault needs single lines.
FastPath(config) ==
  /\ ~config.slow
  /\ config.holdLines = 0
  /\ config.dropMid = 0
  /\ config.badTerm = 0
  /\ config.splitTerm = 0

\* Lines served of n: flipping one byte may destroy or create a line end.
LinesAfter(n, corrupted) ==
  IF corrupted /\ n > 0 THEN {k \in {n - 1, n, n + 1} : k > 0} ELSE {n}

-----------------------------------------------------------------------------
(***************************************************************************)
(* Start installs its configuration over the zero one.                     *)
(***************************************************************************)
Init ==
  /\ chaos = InitialChaos
  /\ holdRemaining = InitialChaos.holdLines
  /\ made = IF Holds(InitialChaos) THEN 1 ELSE 0
  /\ holdReleased = IF Holds(InitialChaos) THEN 1 ELSE NoChannel
  /\ closedChannels = {}
  /\ closed = FALSE
  /\ conn = [s \in Sessions |-> "open"]
  /\ pc = [s \in Sessions |-> "command"]
  /\ article = [s \in Sessions |-> CHOOSE a \in Articles : TRUE]
  /\ snapshot = [s \in Sessions |-> InitialChaos]
  /\ total = [s \in Sessions |-> 0]
  /\ line = [s \in Sessions |-> 0]
  /\ waitsOn = [s \in Sessions |-> NoChannel]
  /\ transfers = 0
  /\ configs = 0
  /\ bodies = 0
  /\ fresh = {}
  /\ freshLines = 0
  /\ staleLines = 0
  /\ terminated = 0

Goto(s, place) == pc' = [pc EXCEPT ![s] = place]

(***************************************************************************)
(* setChaosLocked, under chaosMu: the channel is closed when the new       *)
(* configuration drops a hold or holds nothing, and one is made when the   *)
(* new configuration holds something and none is armed.                    *)
(***************************************************************************)
Released(config) ==
  /\ holdReleased # NoChannel
  /\ Dropped(chaos, config) \/ ~Holds(config)

\* The field after the release, and the channel the release closes.
KeptStale(config) == holdReleased
Kept(config) == IF Released(config) THEN NoChannel ELSE holdReleased

ClosesNone(config) == {}
Closes(config) == IF Released(config) THEN {holdReleased} ELSE {}

\* Whether a new channel is made.
ArmsAlways(config) == Holds(config)
Arms(config) == Holds(config) /\ Kept(config) = NoChannel

setChaosLocked(config) ==
  /\ chaos' = config
  /\ holdRemaining' = config.holdLines
  /\ closedChannels' = closedChannels \cup Closes(config)
  /\ made' = IF Arms(config) THEN made + 1 ELSE made
  /\ holdReleased' = IF Arms(config) THEN made + 1 ELSE Kept(config)

\* SetChaos, called by the CHAOS command or by the embedding program.
SetChaos(config) ==
  /\ EnableTestControl
  /\ configs < MaxConfigs
  /\ setChaosLocked(config)
  /\ configs' = configs + 1
  /\ fresh' = {}
  /\ freshLines' = 0
  /\ staleLines' = 0
  /\ UNCHANGED <<closed, conn, pc, body, line, transfers, terminated>>

-----------------------------------------------------------------------------
(***************************************************************************)
(* One session goroutine.                                                  *)
(***************************************************************************)

\* A BODY command is read, copies the configuration and answers its status.  It
\* may be read after the connection broke, out of the reader's buffer.
BeginBody(s, a) ==
  /\ pc[s] = "command"
  /\ bodies < MaxBodies
  /\ bodies' = bodies + 1
  /\ snapshot' = [snapshot EXCEPT ![s] = chaos]
  /\ article' = [article EXCEPT ![s] = a]
  /\ \/ /\ a \notin Stored                              \* 430
        /\ UNCHANGED <<pc, total, line, fresh>>
     \/ /\ a \in Stored                                 \* 222
        /\ \E corrupted \in Roll(chaos.corrupt) :
             \E n \in LinesAfter(BodyLines[a], corrupted) : total' = [total EXCEPT ![s] = n]
        /\ line' = [line EXCEPT ![s] = 0]
        /\ fresh' = fresh \cup {s}
        /\ Goto(s, "status")
  /\ UNCHANGED <<control, closed, conn, waitsOn, transfers, observed>>

Serve(config) == IF FastPath(config) THEN "stream" ELSE "line"

\* heldBody: is this article held by the live configuration?
CheckHeld(s) ==
  /\ pc[s] = "status"
  /\ IF holdReleased # NoChannel /\ holdsMessageID(chaos, article[s])
     THEN /\ waitsOn' = [waitsOn EXCEPT ![s] = holdReleased]
          /\ Goto(s, "heldId")
     ELSE /\ UNCHANGED waitsOn
          /\ Goto(s, Serve(snapshot[s]))
  /\ UNCHANGED <<control, closed, conn, article, snapshot, total, bodies, line,
                 transfers, fresh, observed>>

\* The released channel is closed: the body goes on.
Resume(s) ==
  /\ pc[s] \in Held
  /\ waitsOn[s] \in closedChannels
  /\ Goto(s, IF pc[s] = "heldLine" THEN "write" ELSE Serve(snapshot[s]))
  /\ UNCHANGED <<control, closed, conn, body, line, transfers, fresh, observed>>

\* A session that ends closes its connection.
EndSession(s) ==
  /\ Goto(s, "gone")
  /\ conn' = [conn EXCEPT ![s] = "broken"]

GiveUpNever(s) == FALSE

\* Server.closed is closed: the held body ends its session.
GiveUp(s) ==
  /\ pc[s] \in Held
  /\ closed
  /\ EndSession(s)
  /\ UNCHANGED <<control, closed, body, line, transfers, fresh, observed>>

\* Lines handed to the writer, counted against the configuration in force.
Write(s, n) ==
  /\ line' = [line EXCEPT ![s] = @ + n]
  /\ IF s \in fresh
     THEN freshLines' = freshLines + n /\ UNCHANGED staleLines
     ELSE staleLines' = staleLines + n /\ UNCHANGED freshLines

TerminateUncounted(s) ==
  /\ terminated' = terminated + 1
  /\ Goto(s, "command")

\* A complete terminator is handed to the writer, which hides write errors.
Terminate(s) ==
  /\ terminated' = terminated + 1
  /\ Goto(s, "record")

\* The fast path: every line and the terminator.
StreamBody(s) ==
  /\ pc[s] = "stream"
  /\ Write(s, total[s])
  /\ Terminate(s)
  /\ UNCHANGED <<control, closed, conn, body, transfers, fresh>>

(***************************************************************************)
(* spendHoldLine, under chaosMu: no hold is armed, a line of its budget is *)
(* spent, or the budget is exhausted and the body waits.                   *)
(***************************************************************************)
BudgetLeftOffByOne == holdRemaining >= 0
BudgetLeft == holdRemaining > 0

Spend == holdRemaining' = holdRemaining - 1

spendHoldLine(s) ==
  \/ /\ holdReleased = NoChannel
     /\ Goto(s, "write")
     /\ UNCHANGED <<holdRemaining, waitsOn>>
  \/ /\ holdReleased # NoChannel /\ BudgetLeft
     /\ Spend
     /\ Goto(s, "write")
     /\ UNCHANGED waitsOn
  \/ /\ holdReleased # NoChannel /\ ~BudgetLeft
     /\ waitsOn' = [waitsOn EXCEPT ![s] = holdReleased]
     /\ Goto(s, "heldLine")
     /\ UNCHANGED holdRemaining

\* Only a body whose snapshot has a line budget asks.
GateLine(s) ==
  /\ pc[s] = "line" /\ line[s] < total[s]
  /\ IF snapshot[s].holdLines > 0
     THEN spendHoldLine(s)
     ELSE Goto(s, "write") /\ UNCHANGED <<holdRemaining, waitsOn>>
  /\ UNCHANGED <<chaos, holdReleased, made, closedChannels, configs, closed, conn,
                 article, snapshot, total, bodies, line, transfers, fresh, observed>>

\* One line, after which drop_mid_body may end the session.
WriteLine(s) ==
  /\ pc[s] = "write"
  /\ Write(s, 1)
  /\ \E drop \in Roll(snapshot[s].dropMid) :
       IF drop THEN EndSession(s) ELSE Goto(s, "line") /\ UNCHANGED conn
  /\ UNCHANGED <<control, closed, body, transfers, fresh, terminated>>

\* All lines are out: a bad, a split or a whole terminator.
EndBody(s) ==
  /\ pc[s] = "line" /\ line[s] = total[s]
  /\ \/ /\ TRUE \in Roll(snapshot[s].badTerm)
        /\ Goto(s, "command")
        /\ UNCHANGED terminated
     \/ /\ FALSE \in Roll(snapshot[s].badTerm) /\ TRUE \in Roll(snapshot[s].splitTerm)
        /\ Goto(s, "split")
        /\ UNCHANGED terminated
     \/ /\ FALSE \in Roll(snapshot[s].badTerm) /\ FALSE \in Roll(snapshot[s].splitTerm)
        /\ Terminate(s)
  /\ UNCHANGED <<control, closed, conn, body, line, transfers, fresh, freshLines, staleLines>>

\* The second half of a split terminator.
EndSplit(s) ==
  /\ pc[s] = "split"
  /\ Terminate(s)
  /\ UNCHANGED <<control, closed, conn, body, line, transfers, fresh, freshLines, staleLines>>

\* metrics.recordBody, after the terminator.
RecordBody(s) ==
  /\ pc[s] = "record"
  /\ transfers' = transfers + 1
  /\ Goto(s, "command")
  /\ UNCHANGED <<control, closed, conn, body, line, fresh, observed>>

\* With its buffer empty, the command loop reads an error from a broken
\* connection and returns.
ReadFails(s) ==
  /\ pc[s] = "command" /\ conn[s] = "broken"
  /\ Goto(s, "gone")
  /\ UNCHANGED <<control, closed, conn, body, line, transfers, fresh, observed>>

-----------------------------------------------------------------------------
(***************************************************************************)
(* Close and the clients.                                                  *)
(***************************************************************************)

\* Close announces the shutdown first.
Close ==
  /\ ~closed
  /\ closed' = TRUE
  /\ UNCHANGED <<control, conn, pc, body, line, transfers, fresh, observed>>

\* ... and then closes the registered connections one by one.
CloseConnection(s) ==
  /\ closed /\ conn[s] = "open"
  /\ conn' = [conn EXCEPT ![s] = "broken"]
  /\ UNCHANGED <<control, closed, pc, body, line, transfers, fresh, observed>>

\* A client goes away.
Disconnect(s) ==
  /\ conn[s] = "open"
  /\ conn' = [conn EXCEPT ![s] = "broken"]
  /\ UNCHANGED <<control, closed, pc, body, line, transfers, fresh, observed>>

\* Every session has ended and nothing remains to be done.
Stopped ==
  /\ closed
  /\ \A s \in Sessions : pc[s] = "gone"
  /\ UNCHANGED vars

-----------------------------------------------------------------------------
SessionStep(s) ==
  \/ CheckHeld(s) \/ Resume(s) \/ GiveUp(s)
  \/ StreamBody(s) \/ GateLine(s) \/ WriteLine(s)
  \/ EndBody(s) \/ EndSplit(s) \/ RecordBody(s) \/ ReadFails(s)

Next ==
  \/ \E config \in Configs : SetChaos(config)
  \/ \E s \in Sessions :
       \/ \E a \in Articles : BeginBody(s, a)
       \/ SessionStep(s)
       \/ CloseConnection(s)
       \/ Disconnect(s)
  \/ Close
  \/ Stopped

(***************************************************************************)
(* Goroutines are scheduled fairly, but a write to an open connection      *)
(* returns only if the client reads; once the connection is broken every   *)
(* write returns.  Close runs its loop to the end.                         *)
(***************************************************************************)
Fairness ==
  \A s \in Sessions :
    /\ WF_vars(Resume(s))
    /\ WF_vars(GiveUp(s))
    /\ WF_vars(conn[s] = "broken" /\ SessionStep(s))
    /\ WF_vars(CloseConnection(s))

Spec == Init /\ [][Next]_vars

FairSpec == Spec /\ Fairness

-----------------------------------------------------------------------------
(***************************************************************************)
(* Properties.                                                             *)
(***************************************************************************)

\* Every variable has its type, and no counter passes its bound.
TypeOK ==
  /\ chaos \in ChaosConfig
  /\ holdRemaining \in Nat /\ made \in Nat /\ holdReleased \in 0..made
  /\ closedChannels \subseteq 1..made
  /\ closed \in BOOLEAN
  /\ conn \in [Sessions -> {"open", "broken"}]
  /\ pc \in [Sessions -> Locations]
  /\ article \in [Sessions -> Articles]
  /\ snapshot \in [Sessions -> ChaosConfig]
  /\ total \in [Sessions -> Nat] /\ line \in [Sessions -> Nat]
  /\ waitsOn \in [Sessions -> 0..made]
  /\ transfers \in Nat /\ configs \in 0..MaxConfigs /\ bodies \in 0..MaxBodies
  /\ fresh \subseteq Sessions
  /\ freshLines \in Nat /\ staleLines \in Nat
  /\ terminated \in Nat

\* s waits on a channel nobody has closed.
Blocked(s) == pc[s] \in Held /\ waitsOn[s] \notin closedChannels

(***************************************************************************)
(* A channel is armed exactly while the live configuration holds           *)
(* something, and the armed channel is open: closing it again would panic  *)
(* with chaosMu held (setChaosLocked).                                     *)
(***************************************************************************)
HoldArmed ==
  /\ holdReleased # NoChannel <=> Holds(chaos)
  /\ holdReleased # NoChannel => holdReleased \in (1..made) \ closedChannels

(***************************************************************************)
(* No lost release: a body that is blocked waits on the channel the next   *)
(* release will close, never on one that was replaced without being        *)
(* closed, although the channel was copied before the wait began and the   *)
(* configuration may have changed any number of times since (heldBody,     *)
(* spendHoldLine).                                                         *)
(***************************************************************************)
NoLostRelease == \A s \in Sessions : Blocked(s) => waitsOn[s] = holdReleased

(***************************************************************************)
(* The budget of hold_body spans bodies: together, the bodies that began   *)
(* under the live configuration have never written more lines than it      *)
(* allows (spendHoldLine).                                                 *)
(***************************************************************************)
BudgetRespected == chaos.holdLines > 0 => freshLines <= chaos.holdLines

(***************************************************************************)
(* The transfer counter counts whole bodies and nothing else: a held body, *)
(* a dropped one and one with a bad terminator are not in it, and each     *)
(* body whose terminator was written is, or is about to be (handleBody).   *)
(***************************************************************************)
CountsWholeBodies ==
  transfers + Cardinality({s \in Sessions : pc[s] = "record"}) = terminated

(***************************************************************************)
(* The account behind BudgetRespected: a fresh body runs under the live    *)
(* configuration, one that waits for its line waits for a release that has *)
(* not come, and every line of the budget is left, in flight or written.   *)
(***************************************************************************)
InFlight == {s \in fresh : pc[s] = "write"}

BudgetAccounted ==
  /\ \A s \in fresh : snapshot[s] = chaos
  /\ \A s \in Sessions : pc[s] = "stream" => FastPath(snapshot[s])
  /\ \A s \in Sessions : pc[s] \in Held => waitsOn[s] # NoChannel
  /\ \A s \in fresh : pc[s] \in Held => waitsOn[s] = holdReleased
  /\ chaos.holdLines > 0 =>
       freshLines + Cardinality(InFlight) + holdRemaining <= chaos.holdLines

\* The inductive invariant.
HoldInv == TypeOK /\ HoldArmed /\ NoLostRelease /\ BudgetAccounted

\* Going from previous to config keeps every hold that previous had.
KeepsHolds(previous, config) ==
  /\ Holds(previous)
  /\ previous.holdLines > 0 => config.holdLines > 0
  /\ previous.holdIds \subseteq config.holdIds

(***************************************************************************)
(* A blocked body stays blocked, through every step of every goroutine,    *)
(* until a configuration drops a hold or the server closes.                *)
(***************************************************************************)
KeptHoldBlocks ==
  [][\A s \in Sessions :
       Blocked(s) /\ KeepsHolds(chaos, chaos') /\ ~closed => Blocked(s)']_vars

(***************************************************************************)
(* Channels, snapshots and budgets keep the promise of Hold: every body    *)
(* that waits does so until one and the same moment, when a change drops a *)
(* hold, or until the server closes, and no other.                         *)
(***************************************************************************)
Gate == INSTANCE Hold
          WITH config <- chaos, under <- snapshot, written <- freshLines,
               waiting <- {s \in Sessions : Blocked(s)}

ImplementsHold == Gate!Spec

(***************************************************************************)
(* A body that is held when a configuration without any hold arrives is    *)
(* released.                                                               *)
(***************************************************************************)
HoldLifted ==
  \A s \in Sessions : (pc[s] \in Held /\ ~Holds(chaos)) ~> (pc[s] \notin Held)

\* Close ends every session, the ones it finds held included.
CloseEndsSessions == closed ~> \A s \in Sessions : pc[s] = "gone"

-----------------------------------------------------------------------------
(***************************************************************************)
(* What the documentation says, and the code does not do.                  *)
(***************************************************************************)

(***************************************************************************)
(* README: hold_ids "blocks only the named articles' BODY".  A body is     *)
(* blocked only if the live configuration has a line budget or names its   *)
(* article.                                                                *)
(***************************************************************************)
OnlyNamedBodiesBlocked ==
  \A s \in Sessions :
    Blocked(s) => chaos.holdLines > 0 \/ holdsMessageID(chaos, article[s])

(***************************************************************************)
(* README: hold_body "serves that many more body lines, then blocks every  *)
(* BODY before its next line".  No more lines than the budget are written  *)
(* while the configuration is live, whenever their bodies began.           *)
(***************************************************************************)
HoldLimitsAllBodies ==
  chaos.holdLines > 0 => freshLines + staleLines <= chaos.holdLines
=============================================================================
