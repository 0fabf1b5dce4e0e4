-------------------------- MODULE LifecycleProofs --------------------------
(***************************************************************************)
(* Proofs about Lifecycle, for any number of connections and of callers of *)
(* Close, one or two listeners, and any limits.                            *)
(***************************************************************************)
EXTENDS Lifecycle, FiniteSetTheorems, TLAPS

\* The steps that move no session goroutine.
OtherStep ==
  \/ \E l \in Listeners :
       \/ Retry(l) \/ ExitLoop(l) \/ AcceptFails(l)
       \/ \E c \in Conns : Dial(c, l) \/ Accept(l, c)
  \/ \E c \in Conns : Disconnect(c)
  \/ \E n \in Limits : SetLimit(n)
  \/ \E k \in Closers : CallClose(k) \/ CloserStep(k)
  \/ Stopped
  \/ UNCHANGED vars

LEMMA Steps ==
  ASSUME [Next]_vars
  PROVE  \/ \E l \in Listeners : Spawn(l)
         \/ \E c \in Conns : HandlerStep(c) \/ EndByCommand(c)
         \/ OtherStep
BY DEF Next, LoopStep, OtherStep

LEMMA OtherKeepsSessions ==
  ASSUME OtherStep
  PROVE  UNCHANGED <<handler, clients, active, ticket, admitted>>
<1>. USE DEF sessions
<1>1. ASSUME NEW l \in Listeners,
             \/ Retry(l) \/ ExitLoop(l) \/ AcceptFails(l)
             \/ \E c \in Conns : Dial(c, l) \/ Accept(l, c)
      PROVE  UNCHANGED <<handler, clients, active, ticket, admitted>>
  BY <1>1 DEF Retry, ExitLoop, AcceptFails, Dial, Accept
<1>2. CASE (\E c \in Conns : Disconnect(c)) \/ (\E n \in Limits : SetLimit(n))
  BY <1>2 DEF Disconnect, SetLimit
<1>3. ASSUME NEW k \in Closers, CallClose(k) \/ LeaveOnce(k) \/ Announce(k) \/ CloseListener(k)
      PROVE  UNCHANGED <<handler, clients, active, ticket, admitted>>
  BY <1>3 DEF CallClose, LeaveOnce, Announce, CloseListener
<1>4. ASSUME NEW k \in Closers,
             RangeClients(k) \/ (\E c \in Conns : Visit(k, c)) \/ EndRange(k) \/ ReturnFromWait(k)
      PROVE  UNCHANGED <<handler, clients, active, ticket, admitted>>
  BY <1>4 DEF RangeClients, Visit, EndRange, ReturnFromWait
<1>5. CASE Stopped \/ UNCHANGED vars
  BY <1>5 DEF Stopped, vars
<1>. QED  BY <1>1, <1>2, <1>3, <1>4, <1>5 DEF OtherStep, CloserStep

LEMMA CountingFinite == IsFiniteSet(Counting) /\ IsFiniteSet(RunningHandlers)
<1>1. Counting \subseteq Conns /\ RunningHandlers \subseteq Conns
  BY DEF Counting, RunningHandlers
<1>. QED  BY <1>1, ConnsAssumption, FS_Subset

(***************************************************************************)
(* Admission.                                                              *)
(***************************************************************************)
\* A goroutine that counts itself joins with a ticket above all the others.
LEMMA CountKeepsTickets ==
  ASSUME TypeOK, TicketsAccounted, NEW c \in Conns, Count(c)
  PROVE  TicketsAccounted'
<1>. USE DEF TypeOK
<1>0. IsFiniteSet(Counting)
  BY CountingFinite
<1>1. /\ Counting' = Counting \cup {c} /\ c \notin Counting
      /\ active' = active + 1 /\ ticket' = [ticket EXCEPT ![c] = active + 1]
      /\ UNCHANGED <<admitted, limit, loosest>>
  BY DEF Count, Move, Counting, limits
<1>2. Cardinality(Counting') = active + 1
  BY <1>0, <1>1, FS_AddElement DEF TicketsAccounted
<1>3. ASSUME NEW S \in SUBSET Counting', S # {}
      PROVE  \E d \in S : Cardinality(S) <= ticket'[d]
  <2>1. CASE c \in S
    <3>1. IsFiniteSet(Counting')
      BY <1>0, <1>1, FS_AddElement
    <3>2. Cardinality(S) <= active + 1
      BY <1>2, <3>1, FS_Subset
    <3>. QED  BY <1>1, <2>1, <3>2
  <2>2. CASE c \notin S
    <3>1. S \in SUBSET Counting
      BY <1>1, <2>2
    <3>2. PICK d \in S : Cardinality(S) <= ticket[d]
      BY <1>3, <3>1 DEF TicketsAccounted
    <3>3. ticket'[d] = ticket[d]
      BY <1>1, <2>2, <3>1, <3>2 DEF Counting
    <3>. QED  BY <3>2, <3>3
  <2>. QED  BY <2>1, <2>2
<1>4. ASSUME loosest > 0, NEW d \in admitted PROVE ticket'[d] <= loosest
  BY <1>1, <1>4 DEF TicketsAccounted
<1>. QED  BY <1>1, <1>2, <1>3, <1>4 DEF TicketsAccounted

LEMMA LeaveKeepsTickets ==
  ASSUME TypeOK, TicketsAccounted, NEW c \in Conns, Leave(c)
  PROVE  TicketsAccounted'
<1>. USE DEF TypeOK
<1>0. IsFiniteSet(Counting)
  BY CountingFinite
<1>1. /\ Counting' = Counting \ {c} /\ c \in Counting
      /\ active' = active - 1 /\ admitted' = admitted \ {c}
      /\ UNCHANGED <<ticket, limit, loosest>>
  BY DEF Leave, Move, Counting, limits
<1>2. Cardinality(Counting') = active - 1
  BY <1>0, <1>1, FS_RemoveElement DEF TicketsAccounted
<1>. QED  BY <1>1, <1>2 DEF TicketsAccounted

LEMMA AdmitKeepsTickets ==
  ASSUME TypeOK, TicketsAccounted, NEW c \in Conns, Admit(c)
  PROVE  TicketsAccounted'
<1>. USE DEF TypeOK
<1>1. /\ Counting' = Counting /\ c \in Counting
      /\ admitted' = admitted \cup {c}
      /\ UNCHANGED <<active, ticket, limit, loosest>>
  BY DEF Admit, Move, Counting, limits
<1>2. ASSUME loosest > 0 PROVE ticket[c] <= loosest
  BY <1>2 DEF Admit, OverLimit, TicketsAccounted
<1>. QED  BY <1>1, <1>2 DEF TicketsAccounted

LEMMA StepTickets == LifecycleInv /\ [Next]_vars => TicketsAccounted'
<1>. SUFFICES ASSUME LifecycleInv, [Next]_vars PROVE TicketsAccounted'
  OBVIOUS
<1>0. TypeOK /\ TicketsAccounted
  BY DEF LifecycleInv
<1>1. ASSUME Counting' = Counting, UNCHANGED <<active, ticket, admitted, limit, loosest>>
      PROVE  TicketsAccounted'
  BY <1>0, <1>1 DEF TicketsAccounted
<1>2. ASSUME NEW l \in Listeners, Spawn(l) PROVE TicketsAccounted'
  <2>1. Counting' = Counting
    BY <1>2, <1>0 DEF Spawn, LifecycleInv, AcceptedOwned, Counting, TypeOK
  <2>. QED  BY <1>1, <1>2, <2>1 DEF Spawn, limits
<1>3. ASSUME NEW c \in Conns, Count(c) \/ Leave(c) \/ Admit(c) PROVE TicketsAccounted'
  BY <1>0, <1>3, CountKeepsTickets, LeaveKeepsTickets, AdmitKeepsTickets
<1>4. ASSUME NEW c \in Conns,
             Register(c) \/ Reject(c) \/ EndByRead(c) \/ EndByCommand(c)
               \/ CloseConn(c) \/ Delete(c) \/ Done(c)
      PROVE  TicketsAccounted'
  <2>1. \E from, to \in HandlerStates :
          /\ Move(c, from, to)
          /\ from \in {"counted", "serving", "leaving"} <=> to \in {"counted", "serving", "leaving"}
    BY <1>4 DEF Register, Reject, EndByRead, EndByCommand, CloseConn, Delete, Done, HandlerStates
  <2>2. Counting' = Counting
    BY <1>0, <2>1 DEF Move, Counting, TypeOK
  <2>3. UNCHANGED <<active, ticket, admitted, limit, loosest>>
    BY <1>4 DEF Register, Reject, EndByRead, EndByCommand, CloseConn, Delete, Done, limits
  <2>. QED  BY <1>1, <2>2, <2>3
<1>5. ASSUME NEW n \in Limits, SetLimit(n) PROVE TicketsAccounted'
  <2>1. /\ Counting' = Counting /\ UNCHANGED <<active, ticket, admitted>>
        /\ limit' = n /\ n \in Nat
    BY <1>5, LimitsAssumption DEF SetLimit, sessions, Counting
  <2>2. ASSUME loosest' > 0
        PROVE  limit' > 0 /\ limit' <= loosest' /\ loosest > 0 /\ loosest <= loosest'
    BY <1>0, <1>5, <2>1, <2>2 DEF SetLimit, TypeOK
  <2>3. ASSUME loosest' > 0, NEW c \in admitted PROVE ticket[c] <= loosest'
    <3>1. ticket[c] <= loosest /\ ticket[c] \in Nat
      BY <1>0, <2>2, <2>3 DEF TicketsAccounted, TypeOK
    <3>. QED  BY <1>0, <1>5, <2>2, <2>3, <3>1 DEF SetLimit, TypeOK
  <2>. QED  BY <1>0, <2>1, <2>2, <2>3 DEF TicketsAccounted
<1>6. CASE OtherStep /\ ~ \E n \in Limits : SetLimit(n)
  <2>1. Counting' = Counting /\ UNCHANGED <<active, ticket, admitted>>
    BY <1>6, OtherKeepsSessions DEF Counting
  <2>2. UNCHANGED <<limit, loosest>>
    <3>. USE DEF limits
    <3>1. ASSUME NEW l \in Listeners,
                 \/ Retry(l) \/ ExitLoop(l) \/ AcceptFails(l)
                 \/ \E c \in Conns : Dial(c, l) \/ Accept(l, c)
          PROVE  UNCHANGED <<limit, loosest>>
      BY <3>1 DEF Retry, ExitLoop, AcceptFails, Dial, Accept
    <3>2. CASE \E c \in Conns : Disconnect(c)
      BY <3>2 DEF Disconnect
    <3>3. ASSUME NEW k \in Closers,
                 CallClose(k) \/ LeaveOnce(k) \/ Announce(k) \/ CloseListener(k)
          PROVE  UNCHANGED <<limit, loosest>>
      BY <3>3 DEF CallClose, LeaveOnce, Announce, CloseListener
    <3>4. ASSUME NEW k \in Closers,
                 RangeClients(k) \/ (\E c \in Conns : Visit(k, c)) \/ EndRange(k) \/ ReturnFromWait(k)
          PROVE  UNCHANGED <<limit, loosest>>
      BY <3>4 DEF RangeClients, Visit, EndRange, ReturnFromWait
    <3>5. CASE Stopped \/ UNCHANGED vars
      BY <3>5 DEF Stopped, vars
    <3>. QED  BY <1>6, <3>1, <3>2, <3>3, <3>4, <3>5 DEF OtherStep, CloserStep
  <2>. QED  BY <1>1, <2>1, <2>2
<1>. QED  BY <1>2, <1>3, <1>4, <1>5, <1>6, Steps DEF HandlerStep

(***************************************************************************)
(* Counting goroutines.                                                    *)
(***************************************************************************)
LEMMA StepOwned == LifecycleInv /\ [Next]_vars => AcceptedOwned'
<1>. SUFFICES ASSUME LifecycleInv, [Next]_vars PROVE AcceptedOwned'
  OBVIOUS
<1>. USE DEF network, accepts
<1>0. AcceptedOwned /\ TypeOK
  BY DEF LifecycleInv
<1>1. ASSUME NEW l \in Listeners, Spawn(l) PROVE AcceptedOwned'
  BY <1>0, <1>1 DEF Spawn, AcceptedOwned, TypeOK
<1>2. ASSUME NEW l \in Listeners, NEW c \in Conns, Accept(l, c) PROVE AcceptedOwned'
  <2>1. handler[c] = "none" /\ \A m \in Listeners : loop[m] = "spawn" => accepted[m] # c
    BY <1>0, <1>2 DEF Accept, AcceptedOwned, TypeOK
  <2>. QED  BY <1>0, <1>2, <2>1 DEF Accept, AcceptedOwned, TypeOK, sessions
<1>3. ASSUME NEW l \in Listeners, NEW c \in Conns, Dial(c, l) PROVE AcceptedOwned'
  BY <1>0, <1>3 DEF Dial, AcceptedOwned, TypeOK, sessions
<1>4. ASSUME NEW l \in Listeners, Retry(l) \/ ExitLoop(l) \/ AcceptFails(l)
      PROVE  AcceptedOwned'
  <2>1. /\ UNCHANGED <<conn, handler, accepted>>
        /\ loop[l] # "spawn"
        /\ \E to \in LoopStates \ {"spawn"} : loop' = [loop EXCEPT ![l] = to]
    BY <1>4 DEF Retry, ExitLoop, AcceptFails, sessions, LoopStates
  <2>. QED  BY <1>0, <2>1 DEF AcceptedOwned, TypeOK
<1>5. ASSUME NEW c \in Conns, HandlerStep(c) \/ EndByCommand(c) PROVE AcceptedOwned'
  <2>1. /\ UNCHANGED <<loop, accepted>> /\ handler[c] # "none"
        /\ \E to \in HandlerStates \ {"none"} : handler' = [handler EXCEPT ![c] = to]
    <3>1. CASE Register(c) \/ Count(c) \/ Reject(c) \/ Admit(c)
      BY <3>1 DEF Register, Count, Reject, Admit, Move, HandlerStates
    <3>2. CASE EndByRead(c) \/ EndByCommand(c) \/ Leave(c)
      BY <3>2 DEF EndByRead, EndByCommand, Leave, Move, HandlerStates
    <3>3. CASE CloseConn(c) \/ Delete(c) \/ Done(c)
      BY <3>3 DEF CloseConn, Delete, Done, Move, HandlerStates
    <3>. QED  BY <1>5, <3>1, <3>2, <3>3 DEF HandlerStep
  <2>2. conn' \in {conn, [conn EXCEPT ![c] = "closed"]}
    <3>1. CASE CloseConn(c)
      BY <3>1 DEF CloseConn
    <3>2. CASE ~CloseConn(c)
      BY <1>5, <3>2 DEF HandlerStep, EndByCommand, Register, Count, Reject, Admit,
                        EndByRead, Leave, Delete, Done
    <3>. QED  BY <3>1, <3>2
  <2>. QED  BY <1>0, <2>1, <2>2 DEF AcceptedOwned, TypeOK
<1>6. ASSUME UNCHANGED <<loop, accepted, handler>>,
             \A c \in Conns : conn'[c] \in {conn[c], "broken", "closed"}
      PROVE  AcceptedOwned'
  BY <1>0, <1>6 DEF AcceptedOwned, TypeOK
<1>7. ASSUME NEW c \in Conns, Disconnect(c) PROVE AcceptedOwned'
  BY <1>0, <1>6, <1>7 DEF Disconnect, sessions, TypeOK
<1>8. ASSUME NEW k \in Closers, CallClose(k) \/ CloserStep(k) PROVE AcceptedOwned'
  <2>1. CASE CloseListener(k)
    BY <1>0, <1>6, <2>1 DEF CloseListener, sessions, TypeOK
  <2>2. CASE \E c \in Conns : Visit(k, c)
    BY <1>0, <1>6, <2>2 DEF Visit, sessions, TypeOK
  <2>3. CASE CallClose(k) \/ LeaveOnce(k) \/ Announce(k)
    BY <1>6, <2>3 DEF CallClose, LeaveOnce, Announce, sessions
  <2>4. CASE RangeClients(k) \/ EndRange(k) \/ ReturnFromWait(k)
    BY <1>6, <2>4 DEF RangeClients, EndRange, ReturnFromWait, sessions
  <2>. QED  BY <1>8, <2>1, <2>2, <2>3, <2>4 DEF CloserStep
<1>9. CASE (\E n \in Limits : SetLimit(n)) \/ Stopped \/ UNCHANGED vars
  BY <1>6, <1>9 DEF SetLimit, Stopped, vars, sessions
<1>. QED
  BY <1>1, <1>2, <1>3, <1>4, <1>5, <1>7, <1>8, <1>9, Steps DEF OtherStep

LEMMA StepMapped == LifecycleInv /\ [Next]_vars => ClientsMapped'
<1>. SUFFICES ASSUME LifecycleInv, [Next]_vars PROVE ClientsMapped'
  OBVIOUS
<1>0. /\ ClientsMapped /\ AcceptedOwned
      /\ handler \in [Conns -> HandlerStates] /\ accepted \in [Listeners -> Conns \cup {NoConn}]
  BY DEF LifecycleInv, TypeOK
<1>1. ASSUME NEW l \in Listeners, Spawn(l) PROVE ClientsMapped'
  BY <1>0, <1>1 DEF Spawn, ClientsMapped, AcceptedOwned
<1>2. ASSUME NEW c \in Conns, HandlerStep(c) \/ EndByCommand(c) PROVE ClientsMapped'
  <2>1. CASE Register(c)
    BY <1>0, <2>1 DEF Register, Move, ClientsMapped
  <2>2. CASE Count(c) \/ Reject(c) \/ EndByRead(c) \/ EndByCommand(c)
    BY <1>0, <2>2 DEF Count, Reject, EndByRead, EndByCommand, Move, ClientsMapped
  <2>3. CASE Admit(c)
    BY <1>0, <2>3 DEF Admit, Move, ClientsMapped
  <2>4. CASE Leave(c) \/ CloseConn(c)
    BY <1>0, <2>4 DEF Leave, CloseConn, Move, ClientsMapped
  <2>5. CASE Delete(c)
    BY <1>0, <2>5 DEF Delete, Move, ClientsMapped
  <2>6. CASE Done(c)
    BY <1>0, <2>6 DEF Done, Move, ClientsMapped
  <2>. QED  BY <1>2, <2>1, <2>2, <2>3, <2>4, <2>5, <2>6 DEF HandlerStep
<1>3. CASE OtherStep
  BY <1>0, <1>3, OtherKeepsSessions DEF ClientsMapped
<1>. QED  BY <1>1, <1>2, <1>3, Steps

LEMMA LoopsFinite == IsFiniteSet(RunningLoops)
<1>1. RunningLoops \subseteq Listeners
  BY DEF RunningLoops
<1>2. IsFiniteSet(Listeners)
  BY ListenerAssumption, 1 \in Int, ListenerCount \in Int, FS_Interval DEF Listeners
<1>. QED  BY <1>1, <1>2, FS_Subset

\* The counts of the running goroutines are numbers.
LEMMA RunningCounts ==
  /\ Cardinality(RunningLoops) \in Nat /\ Cardinality(RunningHandlers) \in Nat
  /\ Cardinality(Counting) \in Nat
BY LoopsFinite, CountingFinite, FS_CardinalityType

LEMMA StepCounted == LifecycleInv /\ [Next]_vars => GoroutinesCounted'
<1>. SUFFICES ASSUME LifecycleInv, [Next]_vars PROVE GoroutinesCounted'
  OBVIOUS
<1>0. /\ GoroutinesCounted /\ AcceptedOwned
      /\ handler \in [Conns -> HandlerStates] /\ accepted \in [Listeners -> Conns \cup {NoConn}]
      /\ loop \in [Listeners -> LoopStates] /\ serveWG \in Nat
  BY DEF LifecycleInv, TypeOK
<1>1. ASSUME RunningLoops' = RunningLoops, RunningHandlers' = RunningHandlers, UNCHANGED serveWG
      PROVE  GoroutinesCounted'
  BY <1>0, <1>1 DEF GoroutinesCounted
<1>2. ASSUME NEW l \in Listeners, Spawn(l) PROVE GoroutinesCounted'
  <2>1. RunningLoops' = RunningLoops /\ serveWG' = serveWG + 1
    BY <1>0, <1>2 DEF Spawn, RunningLoops
  <2>2. /\ RunningHandlers' = RunningHandlers \cup {accepted[l]}
        /\ accepted[l] \notin RunningHandlers
    BY <1>0, <1>2 DEF Spawn, AcceptedOwned, RunningHandlers
  <2>3. Cardinality(RunningHandlers') = Cardinality(RunningHandlers) + 1
    BY <2>2, CountingFinite, FS_AddElement
  <2>. QED  BY <1>0, <2>1, <2>3, RunningCounts DEF GoroutinesCounted
<1>3. ASSUME NEW l \in Listeners, ExitLoop(l) PROVE GoroutinesCounted'
  <2>1. /\ RunningLoops' = RunningLoops \ {l} /\ l \in RunningLoops
        /\ serveWG' = serveWG - 1 /\ RunningHandlers' = RunningHandlers
    BY <1>0, <1>3 DEF ExitLoop, RunningLoops, RunningHandlers, sessions
  <2>2. Cardinality(RunningLoops') = Cardinality(RunningLoops) - 1
    BY <2>1, LoopsFinite, FS_RemoveElement
  <2>. QED  BY <1>0, <2>1, <2>2, RunningCounts DEF GoroutinesCounted
<1>4. ASSUME NEW c \in Conns, Done(c) PROVE GoroutinesCounted'
  <2>1. /\ RunningHandlers' = RunningHandlers \ {c} /\ c \in RunningHandlers
        /\ serveWG' = serveWG - 1 /\ RunningLoops' = RunningLoops
    BY <1>0, <1>4 DEF Done, Move, RunningLoops, RunningHandlers, accepts
  <2>2. Cardinality(RunningHandlers') = Cardinality(RunningHandlers) - 1
    BY <2>1, CountingFinite, FS_RemoveElement
  <2>. QED  BY <1>0, <2>1, <2>2, RunningCounts DEF GoroutinesCounted
<1>5. ASSUME NEW c \in Conns, HandlerStep(c) \/ EndByCommand(c), ~Done(c)
      PROVE  GoroutinesCounted'
  <2>1. \E from, to \in HandlerStates \ {"none", "returned"} : Move(c, from, to)
    BY <1>5 DEF HandlerStep, EndByCommand, Register, Count, Reject, Admit, EndByRead,
                Leave, CloseConn, Delete, HandlerStates
  <2>2. RunningHandlers' = RunningHandlers
    BY <1>0, <2>1 DEF Move, RunningHandlers
  <2>3. UNCHANGED <<loop, serveWG>>
    BY <1>5 DEF HandlerStep, EndByCommand, Register, Count, Reject, Admit, EndByRead,
                Leave, CloseConn, Delete, accepts
  <2>. QED  BY <1>1, <2>2, <2>3 DEF RunningLoops
<1>6. ASSUME NEW l \in Listeners,
             \/ Retry(l) \/ AcceptFails(l)
             \/ \E c \in Conns : Dial(c, l) \/ Accept(l, c)
      PROVE  GoroutinesCounted'
  <2>1. UNCHANGED <<handler, serveWG>>
    BY <1>6 DEF Retry, AcceptFails, Dial, Accept, sessions
  <2>2. RunningLoops' = RunningLoops
    BY <1>0, <1>6 DEF Retry, AcceptFails, Dial, Accept, RunningLoops, accepts
  <2>. QED  BY <1>1, <2>1, <2>2 DEF RunningHandlers
<1>7. ASSUME UNCHANGED <<loop, handler, serveWG>> PROVE GoroutinesCounted'
  BY <1>1, <1>7 DEF RunningLoops, RunningHandlers
<1>8. CASE (\E c \in Conns : Disconnect(c)) \/ (\E n \in Limits : SetLimit(n))
  BY <1>7, <1>8 DEF Disconnect, SetLimit, sessions, accepts
<1>9. ASSUME NEW k \in Closers, CallClose(k) \/ LeaveOnce(k) \/ Announce(k) \/ CloseListener(k)
      PROVE  GoroutinesCounted'
  BY <1>7, <1>9 DEF CallClose, LeaveOnce, Announce, CloseListener, sessions, accepts
<1>10. ASSUME NEW k \in Closers,
              RangeClients(k) \/ (\E c \in Conns : Visit(k, c)) \/ EndRange(k) \/ ReturnFromWait(k)
       PROVE  GoroutinesCounted'
  BY <1>7, <1>10 DEF RangeClients, Visit, EndRange, ReturnFromWait, sessions, accepts
<1>11. CASE Stopped \/ UNCHANGED vars
  BY <1>7, <1>11 DEF Stopped, vars, sessions, accepts
<1>. QED
  BY <1>2, <1>3, <1>4, <1>5, <1>6, <1>8, <1>9, <1>10, <1>11, Steps DEF OtherStep, CloserStep

\* No goroutine runs once serveWG is zero.
LEMMA ZeroMeansNone ==
  ASSUME LifecycleInv, serveWG = 0
  PROVE  RunningLoops = {} /\ RunningHandlers = {}
<1>1. Cardinality(RunningLoops) = 0 /\ Cardinality(RunningHandlers) = 0
  BY RunningCounts DEF LifecycleInv, GoroutinesCounted
<1>. QED  BY <1>1, LoopsFinite, CountingFinite, FS_EmptySet

LEMMA StepOnce == LifecycleInv /\ [Next]_vars => OnceDone'
<1>. SUFFICES ASSUME LifecycleInv, [Next]_vars PROVE OnceDone'
  OBVIOUS
<1>. USE DEF shutdown
<1>0. /\ OnceDone /\ closer \in [Closers -> CloserStates]
  BY DEF LifecycleInv, TypeOK
<1>1. once = "done" => UNCHANGED serveWG
  <2>. SUFFICES ASSUME once = "done", ~ UNCHANGED serveWG PROVE FALSE
    OBVIOUS
  <2>0. RunningLoops = {} /\ RunningHandlers = {}
    BY <1>0, ZeroMeansNone DEF OnceDone
  <2>1. ASSUME NEW l \in Listeners PROVE ~Spawn(l) /\ ~ExitLoop(l)
    BY <2>0 DEF Spawn, ExitLoop, RunningLoops
  <2>2. ASSUME NEW c \in Conns PROVE ~Done(c)
    BY <2>0 DEF Done, Move, RunningHandlers
  <2>3. ASSUME NEW c \in Conns, HandlerStep(c) \/ EndByCommand(c), ~Done(c)
        PROVE  UNCHANGED serveWG
    BY <2>3 DEF HandlerStep, EndByCommand, Register, Count, Reject, Admit, EndByRead,
                Leave, CloseConn, Delete
  <2>4. ASSUME NEW l \in Listeners,
               \/ Retry(l) \/ AcceptFails(l)
               \/ \E c \in Conns : Dial(c, l) \/ Accept(l, c)
        PROVE  UNCHANGED serveWG
    BY <2>4 DEF Retry, AcceptFails, Dial, Accept
  <2>5. ASSUME NEW k \in Closers, CallClose(k) \/ CloserStep(k) PROVE UNCHANGED serveWG
    BY <2>5 DEF CallClose, CloserStep, LeaveOnce, Announce, CloseListener, RangeClients,
                Visit, EndRange, ReturnFromWait
  <2>6. ASSUME (\E c \in Conns : Disconnect(c)) \/ (\E n \in Limits : SetLimit(n))
                 \/ Stopped \/ UNCHANGED vars
        PROVE  UNCHANGED serveWG
    BY <2>6 DEF Disconnect, SetLimit, Stopped, vars
  <2>. QED  BY <2>1, <2>2, <2>3, <2>4, <2>5, <2>6, Steps DEF OtherStep
<1>2. ASSUME UNCHANGED <<once, closer>> PROVE OnceDone'
  BY <1>0, <1>1, <1>2 DEF OnceDone
<1>3. ASSUME NEW k \in Closers, CallClose(k) PROVE OnceDone'
  BY <1>0, <1>1, <1>3 DEF CallClose, Goto, OnceDone
<1>4. ASSUME NEW k \in Closers, LeaveOnce(k) PROVE OnceDone'
  BY <1>0, <1>1, <1>4 DEF LeaveOnce, Goto, OnceDone
<1>5. ASSUME NEW k \in Closers, Announce(k) \/ RangeClients(k) \/ EndRange(k) PROVE OnceDone'
  BY <1>0, <1>1, <1>5 DEF Announce, RangeClients, EndRange, Goto, OnceDone
<1>6. ASSUME NEW k \in Closers, CloseListener(k) \/ \E c \in Conns : Visit(k, c) PROVE OnceDone'
  BY <1>2, <1>6 DEF CloseListener, Visit
<1>7. ASSUME NEW k \in Closers, ReturnFromWait(k) PROVE OnceDone'
  BY <1>0, <1>7 DEF ReturnFromWait, Goto, OnceDone
<1>8. ASSUME NEW l \in Listeners, Spawn(l) PROVE OnceDone'
  BY <1>2, <1>8 DEF Spawn
<1>9. ASSUME NEW c \in Conns, HandlerStep(c) \/ EndByCommand(c) PROVE OnceDone'
  <2>1. UNCHANGED <<once, closer>>
    BY <1>9 DEF HandlerStep, EndByCommand, Register, Count, Reject, Admit, EndByRead,
                Leave, CloseConn, Delete, Done
  <2>. QED  BY <1>2, <2>1
<1>10. ASSUME NEW l \in Listeners,
              \/ Retry(l) \/ ExitLoop(l) \/ AcceptFails(l)
              \/ \E c \in Conns : Dial(c, l) \/ Accept(l, c)
       PROVE  OnceDone'
  BY <1>2, <1>10 DEF Retry, ExitLoop, AcceptFails, Dial, Accept
<1>11. CASE (\E c \in Conns : Disconnect(c)) \/ (\E n \in Limits : SetLimit(n))
              \/ Stopped \/ UNCHANGED vars
  BY <1>2, <1>11 DEF Disconnect, SetLimit, Stopped, vars
<1>. QED
  BY <1>3, <1>4, <1>5, <1>6, <1>7, <1>8, <1>9, <1>10, <1>11, Steps DEF OtherStep, CloserStep

(***************************************************************************)
(* Types.                                                                  *)
(***************************************************************************)
LEMMA StepTyped == LifecycleInv /\ [Next]_vars => TypeOK'
<1>. SUFFICES ASSUME LifecycleInv, [Next]_vars PROVE TypeOK'
  OBVIOUS
<1>. USE DEF TypeOK, network, accepts, sessions, limits, shutdown
<1>0. TypeOK /\ AcceptedOwned
  BY DEF LifecycleInv
<1>1. serveWG' \in Nat
  <2>1. GoroutinesCounted'
    BY StepCounted
  <2>2. (Cardinality(RunningLoops) \in Nat /\ Cardinality(RunningHandlers) \in Nat)'
    BY RunningCounts, PTL
  <2>. QED  BY <2>1, <2>2 DEF GoroutinesCounted
<1>2. active' \in Nat
  <2>1. TicketsAccounted'
    BY StepTickets
  <2>2. (Cardinality(Counting) \in Nat)'
    BY RunningCounts, PTL
  <2>. QED  BY <2>1, <2>2 DEF TicketsAccounted
<1>3. ASSUME NEW l \in Listeners, Spawn(l) PROVE TypeOK'
  BY <1>0, <1>1, <1>3 DEF Spawn, AcceptedOwned, HandlerStates, LoopStates
<1>4. ASSUME NEW l \in Listeners, ExitLoop(l) \/ Retry(l) \/ AcceptFails(l) PROVE TypeOK'
  <2>1. CASE ExitLoop(l)
    BY <1>0, <1>1, <2>1 DEF ExitLoop, LoopStates
  <2>2. CASE Retry(l) \/ AcceptFails(l)
    BY <1>0, <2>2 DEF Retry, AcceptFails, LoopStates
  <2>. QED  BY <1>4, <2>1, <2>2
<1>5. ASSUME NEW l \in Listeners, NEW c \in Conns, Dial(c, l) \/ Accept(l, c) PROVE TypeOK'
  <2>1. CASE Dial(c, l)
    BY <1>0, <2>1 DEF Dial, ConnStates
  <2>2. CASE Accept(l, c)
    BY <1>0, <2>2 DEF Accept, ConnStates, LoopStates
  <2>. QED  BY <1>5, <2>1, <2>2
<1>6. ASSUME NEW c \in Conns, HandlerStep(c) \/ EndByCommand(c) PROVE TypeOK'
  <2>1. CASE Register(c) \/ Reject(c) \/ Delete(c)
    BY <1>0, <2>1 DEF Register, Reject, Delete, Move, HandlerStates
  <2>2. CASE Count(c)
    BY <1>0, <2>2 DEF Count, Move, HandlerStates
  <2>3. CASE Admit(c)
    BY <1>0, <2>3 DEF Admit, Move, HandlerStates
  <2>4. CASE EndByRead(c) \/ EndByCommand(c)
    BY <1>0, <2>4 DEF EndByRead, EndByCommand, Move, HandlerStates
  <2>5. CASE Leave(c)
    BY <1>0, <1>2, <2>5 DEF Leave, Move, HandlerStates
  <2>6. CASE CloseConn(c)
    BY <1>0, <2>6 DEF CloseConn, Move, HandlerStates, ConnStates
  <2>7. CASE Done(c)
    BY <1>0, <1>1, <2>7 DEF Done, Move, HandlerStates
  <2>. QED  BY <1>6, <2>1, <2>2, <2>3, <2>4, <2>5, <2>6, <2>7 DEF HandlerStep
<1>7. ASSUME NEW c \in Conns, Disconnect(c) PROVE TypeOK'
  BY <1>0, <1>7 DEF Disconnect, ConnStates
<1>8. ASSUME NEW n \in Limits, SetLimit(n) PROVE TypeOK'
  BY <1>0, <1>8, LimitsAssumption DEF SetLimit
<1>9. ASSUME NEW k \in Closers, CallClose(k) \/ CloserStep(k) PROVE TypeOK'
  <2>1. CASE CallClose(k) \/ LeaveOnce(k)
    BY <1>0, <2>1 DEF CallClose, LeaveOnce, Goto, CloserStates
  <2>2. CASE Announce(k) \/ EndRange(k)
    BY <1>0, <2>2 DEF Announce, EndRange, Goto, CloserStates
  <2>3. CASE CloseListener(k)
    BY <1>0, <2>3, ListenerAssumption DEF CloseListener, ConnStates
  <2>4. CASE RangeClients(k) \/ ReturnFromWait(k)
    BY <1>0, <2>4 DEF RangeClients, ReturnFromWait, Goto, CloserStates
  <2>5. ASSUME NEW c \in Conns, Visit(k, c) PROVE TypeOK'
    BY <1>0, <2>5 DEF Visit, ConnStates
  <2>. QED  BY <1>9, <2>1, <2>2, <2>3, <2>4, <2>5 DEF CloserStep
<1>10. CASE Stopped \/ UNCHANGED vars
  BY <1>0, <1>10 DEF Stopped, vars
<1>. HIDE DEF TypeOK
<1>. QED
  BY <1>3, <1>4, <1>5, <1>6, <1>7, <1>8, <1>9, <1>10, Steps DEF OtherStep

-----------------------------------------------------------------------------
LEMMA InitInv == Init => LifecycleInv
<1>. SUFFICES ASSUME Init PROVE LifecycleInv
  OBVIOUS
<1>1. ListenerCount \in Nat /\ 1 \in Listeners
  BY ListenerAssumption DEF Listeners
<1>2. TypeOK
  <2>1. serveWG \in Nat /\ closedListeners \in 0..ListenerCount
    BY <1>1 DEF Init, CountedLoops
  <2>2. /\ conn \in [Conns -> ConnStates] /\ via \in [Conns -> Listeners]
        /\ handler \in [Conns -> HandlerStates] /\ ticket \in [Conns -> Nat]
    BY <1>1 DEF Init, ConnStates, HandlerStates
  <2>3. /\ loop \in [Listeners -> LoopStates]
        /\ accepted \in [Listeners -> Conns \cup {NoConn}]
        /\ closer \in [Closers -> CloserStates]
    BY DEF Init, LoopStates, CloserStates
  <2>4. /\ clients \subseteq Conns /\ present \subseteq Conns /\ visited \subseteq Conns
        /\ admitted \subseteq Conns /\ active \in Nat
    BY DEF Init
  <2>5. limit \in Nat /\ changes \in 0..MaxChanges /\ loosest \in Nat
    BY LimitsAssumption DEF Init
  <2>6. closed \in BOOLEAN /\ once \in {"free", "running", "done"} /\ closeErr \in BOOLEAN
    BY DEF Init
  <2>. QED  BY <2>1, <2>2, <2>3, <2>4, <2>5, <2>6 DEF TypeOK
<1>3. GoroutinesCounted
  <2>1. RunningLoops = 1..ListenerCount /\ RunningHandlers = {}
    BY DEF Init, RunningLoops, RunningHandlers, Listeners
  <2>2. Cardinality(RunningLoops) = ListenerCount
    <3>1. 1 \in Int /\ ListenerCount \in Int /\ 1 <= ListenerCount
      BY ListenerAssumption
    <3>2. Cardinality(1..ListenerCount) = ListenerCount
      BY <3>1, FS_Interval, ListenerAssumption
    <3>. QED  BY <2>1, <3>2
  <2>3. Cardinality(RunningHandlers) = 0
    BY <2>1, FS_EmptySet
  <2>. QED  BY <1>1, <2>2, <2>3 DEF Init, CountedLoops, GoroutinesCounted
<1>4. AcceptedOwned /\ ClientsMapped /\ OnceDone
  <2>1. AcceptedOwned
    BY DEF Init, AcceptedOwned
  <2>2. ClientsMapped
    BY DEF Init, ClientsMapped
  <2>3. OnceDone
    BY DEF Init, OnceDone
  <2>. QED  BY <2>1, <2>2, <2>3
<1>5. TicketsAccounted
  <2>1. Counting = {} /\ Cardinality(Counting) = 0
    BY FS_EmptySet DEF Init, Counting
  <2>. QED  BY <2>1, LimitsAssumption DEF Init, TicketsAccounted
<1>. QED  BY <1>2, <1>3, <1>4, <1>5 DEF LifecycleInv

(***************************************************************************)
(* The inductive invariant: the wait group, the map, the counters and the  *)
(* tickets agree with the goroutines at every step (handleConnection,      *)
(* acceptLoop, Close).                                                     *)
(***************************************************************************)
THEOREM LifecycleInvariant == Spec => []LifecycleInv
<1>1. LifecycleInv /\ [Next]_vars => LifecycleInv'
  BY StepTyped, StepCounted, StepOwned, StepMapped, StepOnce, StepTickets DEF LifecycleInv
<1>. QED  BY InitInv, <1>1, PTL DEF Spec

\* Every variable of Lifecycle keeps its type; serveWG never falls below zero, where
\* sync.WaitGroup panics (acceptLoop, handleConnection).
THEOREM TypeCorrect == Spec => []TypeOK
BY LifecycleInvariant, PTL DEF LifecycleInv

(***************************************************************************)
(* max_conns binds: no more sessions are admitted at once than the loosest *)
(* limit that was ever in force (handleConnection).                        *)
(***************************************************************************)
THEOREM AdmissionBounded == Spec => []AdmissionBound
<1>1. LifecycleInv => AdmissionBound
  <2>. SUFFICES ASSUME LifecycleInv, loosest > 0 PROVE Cardinality(admitted) <= loosest
    BY DEF AdmissionBound
  <2>0. loosest \in Nat /\ ticket \in [Conns -> Nat] /\ admitted \subseteq Conns
    BY DEF LifecycleInv, TypeOK
  <2>1. CASE admitted = {}
    BY <2>0, <2>1, FS_EmptySet
  <2>2. CASE admitted # {}
    <3>1. PICK c \in admitted : Cardinality(admitted) <= ticket[c]
      BY <2>2 DEF LifecycleInv, TicketsAccounted
    <3>2. ticket[c] <= loosest
      BY DEF LifecycleInv, TicketsAccounted
    <3>3. Cardinality(admitted) \in Nat
      BY <2>0, ConnsAssumption, FS_Subset, FS_CardinalityType
    <3>. QED  BY <2>0, <3>1, <3>2, <3>3
  <2>. QED  BY <2>1, <2>2
<1>. QED  BY <1>1, LifecycleInvariant, PTL

(***************************************************************************)
(* The wait group is raised only while it is positive and before closeOnce *)
(* is done: no Add races with the Wait of Close (acceptLoop, Close).       *)
(***************************************************************************)
THEOREM AddsBeforeWait == Spec => AddNeverRacesWait
<1>1. ASSUME LifecycleInv, [Next]_vars, serveWG' > serveWG
      PROVE  serveWG > 0 /\ once # "done"
  <2>0. serveWG \in Nat
    BY <1>1 DEF LifecycleInv, TypeOK
  <2>1. \E l \in Listeners : Spawn(l)
    <3>1. ASSUME NEW c \in Conns, HandlerStep(c) \/ EndByCommand(c) PROVE serveWG' <= serveWG
      BY <2>0, <3>1 DEF HandlerStep, EndByCommand, Register, Count, Reject, Admit, EndByRead,
                  Leave, CloseConn, Delete, Done
    <3>2. ASSUME NEW l \in Listeners,
                 \/ Retry(l) \/ ExitLoop(l) \/ AcceptFails(l)
                 \/ \E c \in Conns : Dial(c, l) \/ Accept(l, c)
          PROVE  serveWG' <= serveWG
      BY <2>0, <3>2 DEF Retry, ExitLoop, AcceptFails, Dial, Accept
    <3>3. ASSUME NEW k \in Closers, CallClose(k) \/ CloserStep(k) PROVE UNCHANGED serveWG
      BY <3>3 DEF CallClose, CloserStep, LeaveOnce, Announce, CloseListener, RangeClients,
                  Visit, EndRange, ReturnFromWait
    <3>4. ASSUME (\E c \in Conns : Disconnect(c)) \/ (\E n \in Limits : SetLimit(n))
                   \/ Stopped \/ UNCHANGED vars
          PROVE  UNCHANGED serveWG
      BY <3>4 DEF Disconnect, SetLimit, Stopped, vars
    <3>5. OtherStep => serveWG' <= serveWG
      BY <2>0, <3>2, <3>3, <3>4 DEF OtherStep
    <3>6. ~(serveWG' <= serveWG)
      <4>1. serveWG' \in Nat
        BY <1>1, StepTyped DEF TypeOK
      <4>. QED  BY <1>1, <2>0, <4>1
    <3>. QED  BY <1>1, <3>1, <3>5, <3>6, Steps
  <2>2. serveWG # 0
    <3>1. serveWG = 0 => RunningLoops = {}
      BY <1>1, ZeroMeansNone
    <3>. QED  BY <2>1, <3>1 DEF Spawn, RunningLoops
  <2>. QED  BY <1>1, <2>0, <2>2 DEF LifecycleInv, OnceDone
<1>2. LifecycleInv /\ [Next]_vars =>
        [serveWG' > serveWG => serveWG > 0 /\ once # "done"]_vars
  BY <1>1
<1>. QED  BY <1>2, LifecycleInvariant, PTL DEF Spec, AddNeverRacesWait

-----------------------------------------------------------------------------
(***************************************************************************)
(* Shutdown: what Close has done by the time it waits, and what is left    *)
(* when it returns.                                                        *)
(***************************************************************************)
Closing == {"announce", "listeners", "range", "wait"}

\* One caller does the closing, while closeOnce runs.
OneCloses ==
  /\ \A k \in Closers : closer[k] \in Closing => once = "running"
  /\ \A j, k \in Closers : closer[j] \in Closing /\ closer[k] \in Closing => j = k

ListenersClosed ==
  /\ \A k \in Closers : closer[k] \in {"range", "wait"} => closedListeners = ListenerCount
  /\ once = "done" => closedListeners = ListenerCount
  /\ closed \/ closedListeners > 0 => once # "free"

\* What the server has closed stays closed.
ClosedConns ==
  /\ \A c \in visited : conn[c] = "closed"
  /\ \A c \in Conns : handler[c] \in {"deleting", "finishing", "returned"} => conn[c] = "closed"

\* A queued connection has a listener, an open one somebody to close it.
ConnsOwned ==
  \A c \in Conns :
    /\ conn[c] = "queued" => Listening(via[c])
    /\ conn[c] \in {"open", "broken"} /\ handler[c] = "none" =>
         \E l \in Listeners : loop[l] = "spawn" /\ accepted[l] = c

\* Range visits every connection that was in the map when it began and still is.
RangeSeesPresent ==
  \A k \in Closers :
    /\ closer[k] \in {"range", "wait"} => \A c \in present : handler[c] \notin {"none", "start"}
    /\ closer[k] = "wait" => present \cap clients \subseteq visited

ShutdownInv == OneCloses /\ ListenersClosed /\ ClosedConns /\ ConnsOwned /\ RangeSeesPresent

\* While Close waits, only connections it did not find in the map are not closed.
OnlyLateConnsLeft ==
  \A k \in Closers, c \in RunningHandlers :
    closer[k] = "wait" /\ conn[c] # "closed" => c \notin present

\* When closeOnce is done, nothing in the server changes any more.
QuietAfterClose ==
  [][once = "done" =>
       UNCHANGED <<network, accepts, sessions, serveWG, closed, closedListeners,
                   once, present, visited, closeErr>>]_vars

LEMMA InitShutdown == Init => ShutdownInv
  BY DEF Init, ShutdownInv, OneCloses, ListenersClosed, ClosedConns, ConnsOwned, RangeSeesPresent,
         Closing

\* The facts of LifecycleInv that the shutdown rests on.
LEMMA Typed ==
  ASSUME LifecycleInv
  PROVE  /\ conn \in [Conns -> ConnStates] /\ via \in [Conns -> Listeners]
         /\ loop \in [Listeners -> LoopStates] /\ accepted \in [Listeners -> Conns \cup {NoConn}]
         /\ handler \in [Conns -> HandlerStates] /\ closer \in [Closers -> CloserStates]
         /\ closedListeners \in 0..ListenerCount /\ present \subseteq Conns /\ visited \subseteq Conns
         /\ AcceptedOwned /\ ClientsMapped
  BY DEF LifecycleInv, TypeOK

\* An accept loop starts a goroutine for a connection that had none.
LEMMA SpawnKeepsShutdown ==
  ASSUME LifecycleInv, ShutdownInv, NEW l \in Listeners, Spawn(l)
  PROVE  ShutdownInv'
<1>. USE DEF ShutdownInv
<1>1. /\ accepted[l] \in Conns /\ handler[accepted[l]] = "none"
      /\ handler' = [handler EXCEPT ![accepted[l]] = "start"]
      /\ \A m \in Listeners \ {l} : loop[m] = "spawn" => accepted[m] # accepted[l]
  BY Typed DEF Spawn, AcceptedOwned
<1>2. UNCHANGED <<conn, via, clients, closed, closedListeners, once, closer, present, visited>>
  BY DEF Spawn, network, shutdown
<1>3. OneCloses' /\ ListenersClosed'
  BY <1>2 DEF OneCloses, ListenersClosed
<1>4. ClosedConns'
  BY <1>1, <1>2, Typed DEF ClosedConns
<1>5. ConnsOwned'
  <2>1. ASSUME NEW c \in Conns, conn[c] \in {"open", "broken"}, handler'[c] = "none"
        PROVE  \E m \in Listeners : loop'[m] = "spawn" /\ accepted'[m] = c
    <3>1. c # accepted[l] /\ handler[c] = "none"
      BY <1>1, <2>1, Typed
    <3>2. PICK m \in Listeners : loop[m] = "spawn" /\ accepted[m] = c
      BY <2>1, <3>1 DEF ConnsOwned
    <3>. QED  BY <3>1, <3>2, Typed DEF Spawn
  <2>. QED  BY <1>2, <2>1 DEF ConnsOwned, Listening
<1>6. RangeSeesPresent'
  BY <1>1, <1>2, Typed DEF RangeSeesPresent
<1>. QED  BY <1>3, <1>4, <1>5, <1>6

\* A session goroutine never returns to its start, and closes only.
LEMMA HandlerMoves ==
  ASSUME LifecycleInv, NEW c \in Conns, HandlerStep(c) \/ EndByCommand(c)
  PROVE  /\ UNCHANGED <<via, loop, accepted, closed, closedListeners, once, closer, present, visited>>
         /\ handler[c] # "none"
         /\ \E to \in HandlerStates \ {"none", "start"} : handler' = [handler EXCEPT ![c] = to]
         /\ conn' = conn \/ conn' = [conn EXCEPT ![c] = "closed"]
         /\ handler'[c] \in {"deleting", "finishing", "returned"} =>
              conn'[c] = "closed" \/ handler[c] \in {"deleting", "finishing"}
         /\ clients' = clients \/ clients' = clients \ {c} \/ (handler[c] = "start" /\ clients' = clients \cup {c})
<1>. USE Typed DEF Move, network, accepts, shutdown, HandlerStates
<1>1. CASE Register(c)
  BY <1>1 DEF Register
<1>2. CASE Count(c) \/ Reject(c)
  BY <1>2 DEF Count, Reject
<1>3. CASE Admit(c)
  BY <1>3 DEF Admit
<1>4. CASE EndByRead(c) \/ EndByCommand(c)
  BY <1>4 DEF EndByRead, EndByCommand
<1>5. CASE Leave(c) \/ CloseConn(c)
  BY <1>5 DEF Leave, CloseConn
<1>6. CASE Delete(c) \/ Done(c)
  BY <1>6 DEF Delete, Done
<1>. QED  BY <1>1, <1>2, <1>3, <1>4, <1>5, <1>6 DEF HandlerStep

LEMMA HandlerKeepsShutdown ==
  ASSUME LifecycleInv, ShutdownInv, NEW c \in Conns, HandlerStep(c) \/ EndByCommand(c)
  PROVE  ShutdownInv'
<1>. USE DEF ShutdownInv
<1>1. PICK to \in HandlerStates \ {"none", "start"} : handler' = [handler EXCEPT ![c] = to]
  BY HandlerMoves
<1>2. UNCHANGED <<via, loop, accepted, closed, closedListeners, once, closer, present, visited>>
  BY HandlerMoves
<1>3. \A d \in Conns : conn'[d] = conn[d] \/ conn'[d] = "closed"
  BY HandlerMoves, Typed
<1>4. OneCloses' /\ ListenersClosed'
  BY <1>2 DEF OneCloses, ListenersClosed
<1>5. ClosedConns'
  <2>1. ASSUME NEW d \in Conns, handler'[d] \in {"deleting", "finishing", "returned"}
        PROVE  conn'[d] = "closed"
    <3>1. CASE d = c
      BY <1>3, <2>1, <3>1, HandlerMoves DEF ClosedConns
    <3>2. CASE d # c
      BY <1>1, <1>3, <2>1, <3>2, Typed DEF ClosedConns
    <3>. QED  BY <3>1, <3>2
  <2>. QED  BY <1>2, <1>3, <2>1, Typed DEF ClosedConns
<1>6. ConnsOwned'
  <2>1. \A d \in Conns : handler'[d] = "none" => handler[d] = "none"
    BY <1>1, Typed
  <2>. QED  BY <1>2, <1>3, <2>1 DEF ConnsOwned, Listening
<1>7. RangeSeesPresent'
  <2>1. \A d \in Conns : handler[d] \notin {"none", "start"} => handler'[d] \notin {"none", "start"}
    BY <1>1, Typed
  <2>2. ASSUME NEW k \in Closers, closer[k] = "wait"
        PROVE  present \cap clients' \subseteq visited
    BY <2>2, HandlerMoves DEF RangeSeesPresent
  <2>. QED  BY <1>2, <2>1, <2>2, Typed DEF RangeSeesPresent
<1>. QED  BY <1>4, <1>5, <1>6, <1>7

\* The other accept loops' steps, the clients and the limit.
LEMMA NetworkKeepsShutdown ==
  ASSUME LifecycleInv, ShutdownInv,
         \/ \E l \in Listeners :
              \/ Retry(l) \/ ExitLoop(l) \/ AcceptFails(l)
              \/ \E c \in Conns : Dial(c, l) \/ Accept(l, c)
         \/ \E c \in Conns : Disconnect(c)
         \/ \E n \in Limits : SetLimit(n)
         \/ Stopped \/ UNCHANGED vars
  PROVE  ShutdownInv'
<1>. USE DEF network, accepts, sessions, shutdown
<1>1. UNCHANGED <<handler, clients, closed, closedListeners, once, closer, present, visited>>
  BY DEF Retry, ExitLoop, AcceptFails, Dial, Accept, Disconnect, SetLimit, Stopped, vars
<1>2. OneCloses' /\ ListenersClosed' /\ RangeSeesPresent'
  BY <1>1 DEF ShutdownInv, OneCloses, ListenersClosed, RangeSeesPresent
<1>3. ClosedConns'
  <2>1. \A c \in Conns : conn[c] = "closed" => conn'[c] = "closed"
    BY Typed DEF Retry, ExitLoop, AcceptFails, Dial, Accept, Disconnect, SetLimit, Stopped, vars
  <2>. QED  BY <1>1, <2>1, Typed DEF ShutdownInv, ClosedConns
<1>4. ConnsOwned'
  <2>. USE Typed DEF ShutdownInv, ConnsOwned, Listening
  <2>1. ASSUME NEW l \in Listeners, NEW c \in Conns, Dial(c, l) PROVE ConnsOwned'
    BY <2>1 DEF Dial
  <2>2. ASSUME NEW l \in Listeners, NEW c \in Conns, Accept(l, c) PROVE ConnsOwned'
    <3>1. ASSUME NEW d \in Conns, conn'[d] \in {"open", "broken"}, handler'[d] = "none"
          PROVE  \E m \in Listeners : loop'[m] = "spawn" /\ accepted'[m] = d
      <4>1. CASE d = c
        BY <2>2, <4>1 DEF Accept
      <4>2. CASE d # c
        <5>1. PICK m \in Listeners : loop[m] = "spawn" /\ accepted[m] = d
          BY <2>2, <3>1, <4>2 DEF Accept
        <5>. QED  BY <2>2, <5>1 DEF Accept
      <4>. QED  BY <4>1, <4>2
    <3>2. \A d \in Conns : conn'[d] = "queued" => Listening(via[d])'
      BY <2>2 DEF Accept
    <3>. QED  BY <3>1, <3>2
  <2>3. ASSUME NEW l \in Listeners, Retry(l) \/ ExitLoop(l) \/ AcceptFails(l) PROVE ConnsOwned'
    <3>1. loop[l] # "spawn" /\ \A m \in Listeners \ {l} : loop'[m] = loop[m]
      BY <2>3 DEF Retry, ExitLoop, AcceptFails
    <3>2. UNCHANGED <<conn, via, accepted>>
      BY <2>3 DEF Retry, ExitLoop, AcceptFails
    <3>3. ASSUME NEW m \in Listeners, loop[m] = "spawn" PROVE loop'[m] = "spawn"
      BY <3>1, <3>3
    <3>. QED  BY <1>1, <3>2, <3>3
  <2>4. CASE \E c \in Conns : Disconnect(c)
    BY <2>4 DEF Disconnect
  <2>5. CASE (\E n \in Limits : SetLimit(n)) \/ Stopped \/ UNCHANGED vars
    BY <2>5 DEF SetLimit, Stopped, vars
  <2>. QED  BY <2>1, <2>2, <2>3, <2>4, <2>5
<1>. QED  BY <1>2, <1>3, <1>4 DEF ShutdownInv

\* The callers of Close: one conjunct of the invariant at a time.
LEMMA CloserStays ==
  ASSUME NEW k \in Closers, CallClose(k) \/ CloserStep(k)
  PROVE  UNCHANGED <<via, loop, accepted, handler, clients>>
  BY DEF CallClose, CloserStep, LeaveOnce, Announce, CloseListener, RangeClients, Visit, EndRange,
         ReturnFromWait, network, accepts, sessions

LEMMA CloserKeepsOnce ==
  ASSUME LifecycleInv, ShutdownInv, NEW k \in Closers, CallClose(k) \/ CloserStep(k)
  PROVE  OneCloses' /\ ListenersClosed'
<1>. USE Typed DEF ShutdownInv, OneCloses, ListenersClosed, Closing, Goto
<1>1. CASE CallClose(k)
  BY <1>1 DEF CallClose
<1>2. CASE LeaveOnce(k) \/ Announce(k)
  BY <1>2 DEF LeaveOnce, Announce
<1>3. CASE CloseListener(k)
  BY <1>3 DEF CloseListener
<1>4. CASE RangeClients(k) \/ EndRange(k)
  BY <1>4 DEF RangeClients, EndRange
<1>5. CASE \E c \in Conns : Visit(k, c)
  BY <1>5 DEF Visit
<1>6. CASE ReturnFromWait(k)
  BY <1>6 DEF ReturnFromWait
<1>. QED  BY <1>1, <1>2, <1>3, <1>4, <1>5, <1>6 DEF CloserStep

LEMMA CloserKeepsConns ==
  ASSUME LifecycleInv, ShutdownInv, NEW k \in Closers, CallClose(k) \/ CloserStep(k)
  PROVE  ClosedConns' /\ ConnsOwned'
<1>. USE DEF ShutdownInv
<1>1. UNCHANGED <<via, loop, accepted, handler>>
  BY CloserStays
<1>2. CASE UNCHANGED <<conn, closedListeners, visited>>
  BY <1>1, <1>2 DEF ClosedConns, ConnsOwned, Listening
<1>3. CASE CloseListener(k)
  <2>1. /\ UNCHANGED visited /\ closedListeners' = closedListeners + 1
        /\ \A c \in Conns : conn'[c] = conn[c] \/ conn'[c] = "closed"
        /\ \A c \in Conns : conn'[c] = "queued" => via[c] # closedListeners + 1
    BY <1>3 DEF CloseListener
  <2>2. closedListeners \in Nat /\ \A c \in Conns : via[c] \in Nat
    BY Typed, ListenerAssumption DEF Listeners
  <2>. QED  BY <1>1, <2>1, <2>2, Typed DEF ClosedConns, ConnsOwned, Listening
<1>4. ASSUME NEW c \in Conns, Visit(k, c) PROVE ClosedConns' /\ ConnsOwned'
  <2>1. /\ visited' = visited \cup {c} /\ conn' = [conn EXCEPT ![c] = "closed"]
        /\ UNCHANGED closedListeners
    BY <1>4 DEF Visit
  <2>. QED  BY <1>1, <2>1, Typed DEF ClosedConns, ConnsOwned, Listening
<1>. QED
  BY <1>2, <1>3, <1>4 DEF CallClose, CloserStep, LeaveOnce, Announce, RangeClients, EndRange,
                          ReturnFromWait, network

LEMMA CloserKeepsRange ==
  ASSUME LifecycleInv, ShutdownInv, NEW k \in Closers, CallClose(k) \/ CloserStep(k)
  PROVE  RangeSeesPresent'
<1>. USE DEF ShutdownInv, Goto
<1>1. UNCHANGED <<handler, clients>>
  BY CloserStays
<1>2. CASE CallClose(k) \/ LeaveOnce(k) \/ Announce(k) \/ ReturnFromWait(k)
  BY <1>1, <1>2, Typed DEF CallClose, LeaveOnce, Announce, ReturnFromWait, RangeSeesPresent
<1>3. CASE CloseListener(k)
  BY <1>1, <1>3 DEF CloseListener, RangeSeesPresent
<1>4. CASE RangeClients(k)
  <2>1. \A j \in Closers \ {k} : closer[j] \notin {"range", "wait"}
    BY <1>4 DEF RangeClients, OneCloses, Closing
  <2>2. \A c \in clients : handler[c] \notin {"none", "start"}
    BY Typed DEF ClientsMapped
  <2>. QED  BY <1>1, <1>4, <2>1, <2>2, Typed DEF RangeClients, RangeSeesPresent
<1>5. CASE \E c \in Conns : Visit(k, c)
  BY <1>1, <1>5 DEF Visit, RangeSeesPresent
<1>6. CASE EndRange(k)
  BY <1>1, <1>6, Typed DEF EndRange, RangeSeesPresent
<1>. QED  BY <1>2, <1>3, <1>4, <1>5, <1>6 DEF CloserStep

(***************************************************************************)
(* What Close has closed, whatever it runs against.                        *)
(***************************************************************************)
THEOREM ShutdownInvariant == Spec => []ShutdownInv
<1>1. ASSUME LifecycleInv, ShutdownInv, NEW k \in Closers, CallClose(k) \/ CloserStep(k)
      PROVE  ShutdownInv'
  BY <1>1, CloserKeepsOnce, CloserKeepsConns, CloserKeepsRange DEF ShutdownInv
<1>2. LifecycleInv /\ ShutdownInv /\ [Next]_vars => ShutdownInv'
  BY <1>1, Steps, SpawnKeepsShutdown, HandlerKeepsShutdown, NetworkKeepsShutdown DEF OtherStep
<1>. QED  BY InitShutdown, <1>2, LifecycleInvariant, PTL DEF Spec

(***************************************************************************)
(* While Close waits for the sessions, the only ones whose connections are *)
(* not closed are those it did not find in the map: an accepted connection *)
(* is registered by its own goroutine, and may be so too late (Close,      *)
(* handleConnection).                                                      *)
(***************************************************************************)
THEOREM OnlyLateConns == Spec => []OnlyLateConnsLeft
<1>1. ASSUME LifecycleInv, ShutdownInv, NEW k \in Closers, NEW c \in RunningHandlers,
             closer[k] = "wait", c \in present
      PROVE  conn[c] = "closed"
  <2>1. c \in Conns /\ handler[c] \in HandlerStates \ {"none", "returned", "start"}
    BY <1>1, Typed DEF RunningHandlers, ShutdownInv, RangeSeesPresent
  <2>2. CASE handler[c] = "finishing"
    BY <1>1, <2>1, <2>2 DEF ShutdownInv, ClosedConns
  <2>3. CASE c \in clients
    BY <1>1, <2>3 DEF ShutdownInv, ClosedConns, RangeSeesPresent
  <2>. QED  BY <1>1, <2>1, <2>2, <2>3, Typed DEF ClientsMapped, HandlerStates
<1>2. LifecycleInv /\ ShutdownInv => OnlyLateConnsLeft
  BY <1>1 DEF OnlyLateConnsLeft
<1>. QED  BY <1>2, LifecycleInvariant, ShutdownInvariant, PTL

\* Once closeOnce is done nothing runs and nothing is open.
LEMMA DoneMeansClosed ==
  ASSUME LifecycleInv, ShutdownInv, once = "done"
  PROVE  /\ RunningLoops = {} /\ RunningHandlers = {}
         /\ \A l \in Listeners : ~Listening(l)
         /\ \A c \in Conns : conn[c] \in {"idle", "closed"}
<1>1. RunningLoops = {} /\ RunningHandlers = {}
  BY ZeroMeansNone DEF LifecycleInv, OnceDone
<1>2. \A l \in Listeners : ~Listening(l)
  <2>1. closedListeners = ListenerCount
    BY DEF ShutdownInv, ListenersClosed
  <2>. QED  BY <2>1, ListenerAssumption DEF Listening, Listeners
<1>3. ASSUME NEW c \in Conns PROVE conn[c] \in {"idle", "closed"}
  <2>1. conn[c] # "queued"
    BY <1>2, Typed DEF ShutdownInv, ConnsOwned
  <2>2. \A l \in Listeners : loop[l] # "spawn"
    BY <1>1 DEF RunningLoops
  <2>3. handler[c] \in {"none", "returned"}
    BY <1>1 DEF RunningHandlers
  <2>. QED  BY <2>1, <2>2, <2>3, Typed DEF ShutdownInv, ConnsOwned, ClosedConns, ConnStates
<1>. QED  BY <1>1, <1>2, <1>3

(***************************************************************************)
(* When any caller of Close has come back, no goroutine of the server      *)
(* runs, the map of clients is empty, no connection is counted, and each   *)
(* one a client has ever opened is closed on the server's side, those that *)
(* Close found nowhere included (Close, acceptLoop, handleConnection).     *)
(***************************************************************************)
THEOREM CloseWaits == Spec => []CloseWaitsForAll
<1>1. LifecycleInv /\ ShutdownInv => CloseWaitsForAll
  <2>. SUFFICES ASSUME LifecycleInv, ShutdownInv, \E k \in Closers : closer[k] = "returned"
                PROVE  /\ RunningLoops = {} /\ RunningHandlers = {} /\ clients = {} /\ active = 0
                       /\ \A c \in Conns : conn[c] \in {"idle", "closed"}
    BY DEF CloseWaitsForAll
  <2>1. once = "done"
    BY DEF LifecycleInv, OnceDone
  <2>2. /\ RunningLoops = {} /\ RunningHandlers = {}
        /\ \A c \in Conns : conn[c] \in {"idle", "closed"}
    BY <2>1, DoneMeansClosed
  <2>3. clients = {} /\ Counting = {}
    BY <2>2 DEF LifecycleInv, ClientsMapped, RunningHandlers, Counting
  <2>. QED  BY <2>2, <2>3, FS_EmptySet DEF LifecycleInv, TicketsAccounted
<1>. QED  BY <1>1, LifecycleInvariant, ShutdownInvariant, PTL

(***************************************************************************)
(* After Close nothing happens in the server: no connection is accepted or *)
(* closed, no goroutine moves and no counter changes, whatever clients and *)
(* further callers of Close do (Close, acceptLoop, handleConnection).      *)
(***************************************************************************)
THEOREM Quiet == Spec => QuietAfterClose
<1>. DEFINE Still == UNCHANGED <<network, accepts, sessions, serveWG, closed, closedListeners,
                                 once, present, visited, closeErr>>
<1>1. ASSUME LifecycleInv, ShutdownInv, [Next]_vars, once = "done" PROVE Still
  <2>1. ASSUME NEW l \in Listeners
        PROVE  /\ ~LoopStep(l) /\ ~AcceptFails(l)
               /\ \A c \in Conns : ~Dial(c, l) /\ ~Accept(l, c)
    <3>1. loop[l] = "exited" /\ ~Listening(l)
      BY <1>1, DoneMeansClosed DEF RunningLoops
    <3>. QED  BY <3>1 DEF LoopStep, Spawn, Retry, ExitLoop, AcceptFails, Dial, Accept
  <2>2. ASSUME NEW c \in Conns PROVE ~HandlerStep(c) /\ ~EndByCommand(c) /\ ~Disconnect(c)
    <3>1. handler[c] \in {"none", "returned"} /\ conn[c] # "open"
      BY <1>1, DoneMeansClosed DEF RunningHandlers
    <3>. QED
      BY <3>1 DEF HandlerStep, EndByCommand, Disconnect, Register, Count, Reject, Admit, EndByRead,
                  Leave, CloseConn, Delete, Done, Move
  <2>3. ASSUME NEW k \in Closers, CallClose(k) \/ CloserStep(k) PROVE Still
    <3>1. closer[k] \notin Closing
      BY <1>1 DEF ShutdownInv, OneCloses
    <3>2. CallClose(k) \/ LeaveOnce(k)
      BY <2>3, <3>1 DEF CloserStep, Closing, Announce, CloseListener, RangeClients, Visit,
                        EndRange, ReturnFromWait
    <3>. QED  BY <1>1, <3>2 DEF CallClose, LeaveOnce
  <2>4. CASE (\E n \in Limits : SetLimit(n)) \/ Stopped \/ UNCHANGED vars
    BY <2>4 DEF SetLimit, Stopped, vars, shutdown
  <2>. QED  BY <1>1, <2>1, <2>2, <2>3, <2>4 DEF Next
<1>2. LifecycleInv /\ ShutdownInv /\ [Next]_vars => [once = "done" => Still]_vars
  BY <1>1
<1>. QED  BY <1>2, LifecycleInvariant, ShutdownInvariant, PTL DEF Spec, QuietAfterClose

-----------------------------------------------------------------------------
(***************************************************************************)
(* Lifecycle implements Shutdown.                                          *)
(***************************************************************************)
Ended == {c \in Conns : handler[c] = "returned"}

CallOf(k) ==
  CASE closer[k] = "idle" -> "out" [] closer[k] = "returned" -> "returned" [] OTHER -> "in"

State ==
  CASE once = "free" -> "up" [] once = "running" -> "closing" [] once = "done" -> "down"

\* The steps that Shutdown does not see.
LEMMA UnseenStep ==
  ASSUME UNCHANGED <<RunningLoops, RunningHandlers, Ended, once, closer>>
  PROVE  UNCHANGED Whole!vars
  BY DEF Whole!vars, Ended

LEMMA InitWhole == Init => Whole!Init
<1>. SUFFICES ASSUME Init PROVE Whole!Init
  OBVIOUS
<1>1. RunningLoops = Listeners /\ RunningHandlers = {} /\ Ended = {}
  BY DEF Init, RunningLoops, RunningHandlers, Ended
<1>2. once = "free" /\ \A k \in Closers : closer[k] = "idle"
  BY DEF Init
<1>. QED  BY <1>1, <1>2 DEF Whole!Init, Ended

LEMMA SpawnStarts ==
  ASSUME LifecycleInv, NEW l \in Listeners, Spawn(l)
  PROVE  Whole!Start(accepted[l])
<1>1. accepted[l] \in Conns /\ handler[accepted[l]] = "none" /\ l \in RunningLoops
  BY Typed DEF Spawn, AcceptedOwned, RunningLoops
<1>2. RunningLoops' = RunningLoops
  BY Typed DEF Spawn, RunningLoops
<1>3. RunningHandlers' = RunningHandlers \cup {accepted[l]} /\ Ended' = Ended
  BY <1>1, Typed DEF Spawn, RunningHandlers, Ended
<1>4. UNCHANGED <<once, closer>>
  BY DEF Spawn, shutdown
<1>5. accepted[l] \notin RunningHandlers \cup Ended
  BY <1>1 DEF RunningHandlers, Ended
<1>. QED  BY <1>1, <1>2, <1>3, <1>4, <1>5 DEF Whole!Start, Ended

LEMMA HandlerEnds ==
  ASSUME LifecycleInv, NEW c \in Conns, HandlerStep(c) \/ EndByCommand(c)
  PROVE  Whole!End(c) \/ UNCHANGED Whole!vars
<1>1. UNCHANGED <<loop, once, closer>>
  BY HandlerMoves
<1>2. RunningLoops' = RunningLoops
  BY <1>1 DEF RunningLoops
<1>3. CASE Done(c)
  <2>1. /\ RunningHandlers' = RunningHandlers \ {c} /\ c \in RunningHandlers
        /\ Ended' = Ended \cup {c}
    BY <1>3, Typed DEF Done, Move, RunningHandlers, Ended
  <2>. QED  BY <1>1, <1>2, <2>1 DEF Whole!End, Ended
<1>4. CASE ~Done(c)
  <2>1. PICK to \in HandlerStates \ {"none", "returned"} : handler' = [handler EXCEPT ![c] = to]
    BY <1>4 DEF HandlerStep, EndByCommand, Register, Count, Reject, Admit, EndByRead, Leave,
                CloseConn, Delete, Move, HandlerStates
  <2>2. handler[c] \notin {"none", "returned"}
    BY <1>4 DEF HandlerStep, EndByCommand, Register, Count, Reject, Admit, EndByRead, Leave,
                CloseConn, Delete, Move
  <2>3. RunningHandlers' = RunningHandlers /\ Ended' = Ended
    BY <2>1, <2>2, Typed DEF RunningHandlers, Ended
  <2>. QED  BY <1>1, <1>2, <2>3, UnseenStep
<1>. QED  BY <1>3, <1>4

LEMMA ExitStops ==
  ASSUME LifecycleInv, ShutdownInv, NEW l \in Listeners, ExitLoop(l)
  PROVE  Whole!StopAccepting(l)
<1>1. l \in RunningLoops /\ RunningLoops' = RunningLoops \ {l}
  BY Typed DEF ExitLoop, RunningLoops
<1>2. closed \/ closedListeners > 0
  <2>1. closedListeners \in Nat /\ l \in Nat /\ l >= 1
    BY Typed, ListenerAssumption DEF Listeners
  <2>. QED  BY <2>1 DEF ExitLoop, Listening
<1>3. once = "running"
  <2>1. once # "done"
    BY <1>1, DoneMeansClosed
  <2>. QED  BY <1>2, <2>1 DEF ShutdownInv, ListenersClosed, LifecycleInv, TypeOK
<1>4. UNCHANGED <<handler, once, closer>>
  BY DEF ExitLoop, sessions, shutdown
<1>5. RunningHandlers' = RunningHandlers /\ Ended' = Ended
  BY <1>4 DEF RunningHandlers, Ended
<1>. QED  BY <1>1, <1>3, <1>4, <1>5 DEF Whole!StopAccepting, Ended

\* Accepting and the clients.
LEMMA NetworkUnseen ==
  ASSUME LifecycleInv,
         \/ \E l \in Listeners :
              Retry(l) \/ AcceptFails(l) \/ \E c \in Conns : Dial(c, l) \/ Accept(l, c)
         \/ \E c \in Conns : Disconnect(c)
         \/ \E n \in Limits : SetLimit(n)
         \/ Stopped \/ UNCHANGED vars
  PROVE  UNCHANGED Whole!vars
<1>. USE DEF accepts, sessions, shutdown
<1>1. UNCHANGED <<handler, once, closer>>
  BY DEF Retry, AcceptFails, Dial, Accept, Disconnect, SetLimit, Stopped, vars
<1>2. RunningLoops' = RunningLoops
  <2>1. ASSUME NEW l \in Listeners, Retry(l) \/ AcceptFails(l) \/ \E c \in Conns : Accept(l, c)
        PROVE  RunningLoops' = RunningLoops
    <3>1. PICK to \in LoopStates \ {"exited"} : loop' = [loop EXCEPT ![l] = to]
      BY <2>1 DEF Retry, AcceptFails, Accept, LoopStates
    <3>2. loop[l] # "exited"
      BY <2>1 DEF Retry, AcceptFails, Accept
    <3>. QED  BY <3>1, <3>2, Typed DEF RunningLoops
  <2>2. CASE UNCHANGED loop
    BY <2>2 DEF RunningLoops
  <2>. QED  BY <2>1, <2>2 DEF Dial, Disconnect, SetLimit, Stopped, vars
<1>3. RunningHandlers' = RunningHandlers /\ Ended' = Ended
  BY <1>1 DEF RunningHandlers, Ended
<1>. QED  BY <1>1, <1>2, <1>3, UnseenStep

LEMMA CloserCloses ==
  ASSUME LifecycleInv, ShutdownInv, NEW k \in Closers, CallClose(k) \/ CloserStep(k)
  PROVE  Whole!Call(k) \/ Whole!Finish(k) \/ Whole!Return(k) \/ UNCHANGED Whole!vars
<1>. DEFINE calls == [j \in Closers |-> CallOf(j)]
<1>1. RunningLoops' = RunningLoops /\ RunningHandlers' = RunningHandlers /\ Ended' = Ended
  BY CloserStays DEF RunningLoops, RunningHandlers, Ended
<1>2. ASSUME NEW place \in CloserStates, Goto(k, place), CallOf(k)' = CallOf(k), UNCHANGED once
      PROVE  UNCHANGED Whole!vars
  <2>1. \A j \in Closers : CallOf(j)' = CallOf(j)
    BY <1>2, Typed DEF Goto, CallOf
  <2>2. calls' = calls
    BY <2>1
  <2>. QED  BY <1>1, <1>2, <2>2 DEF Whole!vars, Ended, CallOf
<1>3. ASSUME NEW place \in CloserStates, Goto(k, place)
      PROVE  calls' = [calls EXCEPT ![k] = CallOf(k)']
  <2>1. \A j \in Closers \ {k} : CallOf(j)' = CallOf(j)
    BY <1>3, Typed DEF Goto, CallOf
  <2>. QED  BY <2>1
<1>4. CASE CallClose(k)
  <2>1. PICK place \in {"announce", "waiting"} : Goto(k, place)
    BY <1>4 DEF CallClose
  <2>2. CallOf(k) = "out" /\ CallOf(k)' = "in"
    BY <1>4, <2>1, Typed DEF CallClose, Goto, CallOf
  <2>3. calls' = [calls EXCEPT ![k] = "in"] /\ calls[k] = "out"
    BY <1>3, <2>1, <2>2 DEF CloserStates
  <2>4. State' = IF State = "up" THEN "closing" ELSE State
    BY <1>4 DEF CallClose, State, LifecycleInv, TypeOK
  <2>. QED  BY <1>1, <2>3, <2>4 DEF Whole!Call, Ended, CallOf, State
<1>5. CASE LeaveOnce(k)
  <2>1. Goto(k, "returned") /\ UNCHANGED once /\ once = "done"
    BY <1>5 DEF LeaveOnce
  <2>2. CallOf(k) = "in" /\ CallOf(k)' = "returned"
    BY <1>5, <2>1, Typed DEF LeaveOnce, Goto, CallOf
  <2>3. calls' = [calls EXCEPT ![k] = "returned"] /\ calls[k] = "in"
    BY <1>3, <2>1, <2>2 DEF CloserStates
  <2>. QED  BY <1>1, <2>1, <2>3 DEF Whole!Return, Ended, CallOf
<1>6. CASE ReturnFromWait(k)
  <2>1. Goto(k, "returned") /\ once' = "done" /\ once = "running"
    BY <1>6 DEF ReturnFromWait, ShutdownInv, OneCloses, Closing
  <2>2. CallOf(k) = "in" /\ CallOf(k)' = "returned"
    BY <1>6, <2>1, Typed DEF ReturnFromWait, Goto, CallOf
  <2>3. calls' = [calls EXCEPT ![k] = "returned"] /\ calls[k] = "in"
    BY <1>3, <2>1, <2>2 DEF CloserStates
  <2>4. RunningLoops = {} /\ RunningHandlers = {}
    BY <1>6, ZeroMeansNone DEF ReturnFromWait
  <2>. QED  BY <1>1, <2>1, <2>3, <2>4 DEF Whole!Finish, Ended, CallOf
<1>7. CASE CloseListener(k) \/ \E c \in Conns : Visit(k, c)
  BY <1>1, <1>7, UnseenStep DEF CloseListener, Visit
<1>8. CASE Announce(k) \/ RangeClients(k) \/ EndRange(k)
  <2>1. PICK place \in {"listeners", "range", "wait"} : Goto(k, place)
    BY <1>8 DEF Announce, RangeClients, EndRange
  <2>2. CallOf(k)' = CallOf(k) /\ UNCHANGED once
    BY <1>8, <2>1, Typed DEF Announce, RangeClients, EndRange, Goto, CallOf
  <2>. QED  BY <1>2, <2>1, <2>2 DEF CloserStates
<1>. QED  BY <1>4, <1>5, <1>6, <1>7, <1>8 DEF CloserStep

(***************************************************************************)
(* Close takes the server down once and as a whole: accept loops, session  *)
(* goroutines, the wait group, closeOnce and the map of clients, step by   *)
(* step, do what Shutdown allows (Close, acceptLoop, handleConnection).    *)
(***************************************************************************)
THEOREM ImplementsWhole == Spec => ImplementsShutdown
<1>1. ASSUME LifecycleInv, ShutdownInv, [Next]_vars PROVE [Whole!Next]_(Whole!vars)
  <2>1. ASSUME NEW l \in Listeners, Spawn(l) PROVE Whole!Next
    <3>1. accepted[l] \in Conns
      BY <1>1, <2>1, Typed DEF Spawn, AcceptedOwned
    <3>. QED  BY <1>1, <2>1, <3>1, SpawnStarts DEF Whole!Next
  <2>2. ASSUME NEW c \in Conns, HandlerStep(c) \/ EndByCommand(c)
        PROVE  [Whole!Next]_(Whole!vars)
    BY <1>1, <2>2, HandlerEnds DEF Whole!Next
  <2>3. ASSUME NEW l \in Listeners, ExitLoop(l) PROVE Whole!Next
    BY <1>1, <2>3, ExitStops DEF Whole!Next
  <2>4. ASSUME NEW k \in Closers, CallClose(k) \/ CloserStep(k)
        PROVE  [Whole!Next]_(Whole!vars)
    BY <1>1, <2>4, CloserCloses DEF Whole!Next
  <2>. QED  BY <1>1, <2>1, <2>2, <2>3, <2>4, NetworkUnseen, Steps DEF OtherStep
<1>2. LifecycleInv /\ ShutdownInv /\ [Next]_vars => [Whole!Next]_(Whole!vars)
  BY <1>1
<1>. QED
  BY <1>2, InitWhole, LifecycleInvariant, ShutdownInvariant, PTL
     DEF Spec, ImplementsShutdown, Whole!Spec
=============================================================================
