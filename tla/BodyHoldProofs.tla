--------------------------- MODULE BodyHoldProofs ---------------------------
(***************************************************************************)
(* Proofs about BodyHold, for any number of sessions and articles and any  *)
(* configurations.                                                         *)
(***************************************************************************)
EXTENDS BodyHold, FiniteSetTheorems, TLAPS

LEMMA InitTyped == Init => TypeOK
<1>. SUFFICES ASSUME Init PROVE TypeOK
  OBVIOUS
<1>1. InitialChaos \in ChaosConfig /\ InitialChaos.holdLines \in Nat
  BY ConfigsAssumption DEF ChaosConfig
<1>2. article \in [Sessions -> Articles]
  BY ArticlesAssumption DEF Init
<1>3. made \in Nat /\ holdReleased \in 0..made
  BY DEF Init, NoChannel
<1>4. waitsOn \in [Sessions -> 0..made] /\ closedChannels \subseteq 1..made
  BY <1>3 DEF Init, NoChannel
<1>5. pc \in [Sessions -> Locations]
  BY DEF Init, Locations
<1>6. conn \in [Sessions -> {"open", "broken"}] /\ fresh \subseteq Sessions
  BY DEF Init
<1>7. total \in [Sessions -> Nat] /\ line \in [Sessions -> Nat] /\ snapshot \in [Sessions -> ChaosConfig]
  BY <1>1 DEF Init
<1>8. configs \in 0..MaxConfigs /\ bodies \in 0..MaxBodies
  BY BoundsAssumption DEF Init
<1>. QED  BY <1>1, <1>2, <1>3, <1>4, <1>5, <1>6, <1>7, <1>8 DEF Init, TypeOK

(***************************************************************************)
(* Every step keeps every variable in its range.                           *)
(***************************************************************************)
LEMMA StepTyped == TypeOK /\ [Next]_vars => TypeOK'
<1>. SUFFICES ASSUME TypeOK, [Next]_vars PROVE TypeOK'
  OBVIOUS
<1>. USE DEF TypeOK, control, body, observed, Locations, Held, Goto, NoChannel
<1>1. ASSUME NEW config \in Configs, SetChaos(config) PROVE TypeOK'
  <2>1. config \in ChaosConfig /\ config.holdLines \in Nat
    BY ConfigsAssumption DEF ChaosConfig
  <2>2. Closes(config) \subseteq 1..made
    BY DEF Closes, Released
  <2>3. Kept(config) \in 0..made
    BY DEF Kept
  <2>. HIDE DEF Closes, Kept, Arms
  <2>4. made' \in Nat /\ made <= made' /\ holdReleased' \in 0..made'
    BY <1>1, <2>3 DEF SetChaos, setChaosLocked
  <2>5. closedChannels' \subseteq 1..made' /\ waitsOn' \in [Sessions -> 0..made']
    <3>1. 0..made \subseteq 0..made' /\ 1..made \subseteq 1..made'
      BY <2>4
    <3>2. closedChannels' = closedChannels \cup Closes(config) /\ waitsOn' = waitsOn
      BY <1>1 DEF SetChaos, setChaosLocked
    <3>. QED  BY <2>2, <3>1, <3>2
  <2>6. configs' \in 0..MaxConfigs
    BY <1>1, BoundsAssumption DEF SetChaos
  <2>. QED  BY <1>1, <2>1, <2>4, <2>5, <2>6 DEF SetChaos, setChaosLocked
<1>2. ASSUME NEW s \in Sessions, NEW a \in Articles, BeginBody(s, a) PROVE TypeOK'
  <2>1. ASSUME a \in Stored, NEW corrupted \in Roll(chaos.corrupt)
        PROVE  LinesAfter(BodyLines[a], corrupted) \subseteq Nat
    BY <2>1, ArticlesAssumption DEF LinesAfter
  <2>2. total' \in [Sessions -> Nat]
    BY <1>2, <2>1 DEF BeginBody
  <2>3. bodies' \in 0..MaxBodies
    BY <1>2, BoundsAssumption DEF BeginBody
  <2>4. pc' \in [Sessions -> Locations]
    BY <1>2 DEF BeginBody
  <2>7. line' \in [Sessions -> Nat] /\ fresh' \subseteq Sessions
    BY <1>2 DEF BeginBody
  <2>5. article' \in [Sessions -> Articles] /\ snapshot' \in [Sessions -> ChaosConfig]
    BY <1>2 DEF BeginBody
  <2>6. /\ UNCHANGED <<chaos, holdRemaining, holdReleased, made, closedChannels, configs>>
        /\ UNCHANGED <<closed, conn, waitsOn, transfers, freshLines, staleLines, terminated>>
    BY <1>2 DEF BeginBody
  <2>. QED  BY <2>2, <2>3, <2>4, <2>5, <2>6, <2>7 DEF TypeOK
<1>3. ASSUME NEW s \in Sessions, CheckHeld(s) PROVE TypeOK'
  BY <1>3 DEF CheckHeld, Serve
<1>4. ASSUME NEW s \in Sessions, Resume(s) PROVE TypeOK'
  BY <1>4 DEF Resume, Serve
<1>5. ASSUME NEW s \in Sessions, GiveUp(s) PROVE TypeOK'
  BY <1>5 DEF GiveUp, EndSession
<1>6. ASSUME NEW s \in Sessions, StreamBody(s) PROVE TypeOK'
  BY <1>6 DEF StreamBody, Write, Terminate
<1>7. ASSUME NEW s \in Sessions, GateLine(s) PROVE TypeOK'
  BY <1>7 DEF GateLine, spendHoldLine, BudgetLeft, Spend
<1>8. ASSUME NEW s \in Sessions, WriteLine(s) PROVE TypeOK'
  BY <1>8 DEF WriteLine, Write, EndSession
<1>9. ASSUME NEW s \in Sessions, EndBody(s) PROVE TypeOK'
  <2>1. pc' \in [Sessions -> Locations]
    BY <1>9 DEF EndBody, Terminate
  <2>3. terminated' \in Nat
    <3>1. UNCHANGED terminated \/ terminated' = terminated + 1
      BY <1>9 DEF EndBody, Terminate
    <3>. QED  BY <3>1
  <2>2. UNCHANGED <<control, closed, conn, body, line, transfers, fresh, freshLines, staleLines>>
    BY <1>9 DEF EndBody
  <2>. QED  BY <2>1, <2>2, <2>3
<1>10. ASSUME NEW s \in Sessions, EndSplit(s) PROVE TypeOK'
  BY <1>10 DEF EndSplit, Terminate
<1>11. ASSUME NEW s \in Sessions, RecordBody(s) PROVE TypeOK'
  BY <1>11 DEF RecordBody
<1>12. ASSUME NEW s \in Sessions, ReadFails(s) PROVE TypeOK'
  BY <1>12 DEF ReadFails
<1>13. ASSUME Close PROVE TypeOK'
  BY <1>13 DEF Close
<1>14. ASSUME NEW s \in Sessions, CloseConnection(s) \/ Disconnect(s) PROVE TypeOK'
  BY <1>14 DEF CloseConnection, Disconnect
<1>15. CASE UNCHANGED vars
  BY <1>15 DEF vars
<1>. HIDE DEF TypeOK
<1>. QED
  BY <1>1, <1>2, <1>3, <1>4, <1>5, <1>6, <1>7, <1>8, <1>9, <1>10, <1>11, <1>12,
     <1>13, <1>14, <1>15 DEF Next, SessionStep, Stopped

(***************************************************************************)
(* Type correctness: every handler keeps every variable in its range       *)
(* (server.go, handleBody, setChaosLocked and spendHoldLine).              *)
(***************************************************************************)
THEOREM TypeCorrect == Spec => []TypeOK
<1>. QED  BY InitTyped, StepTyped, PTL DEF Spec

-----------------------------------------------------------------------------
(***************************************************************************)
(* The hold: HoldInv is inductive.                                         *)
(***************************************************************************)

\* Only setChaosLocked changes the configuration and the channels.
LEMMA OnlySetChaosArms ==
  ASSUME [Next]_vars
  PROVE  \/ \E config \in Configs : SetChaos(config)
         \/ UNCHANGED <<chaos, holdReleased, made, closedChannels>>
<1>. USE DEF control, body
<1>1. CASE \E s \in Sessions, a \in Articles : BeginBody(s, a)
  BY <1>1 DEF BeginBody
<1>2. ASSUME NEW s \in Sessions, SessionStep(s)
      PROVE  UNCHANGED <<chaos, holdReleased, made, closedChannels>>
  <2>1. CASE CheckHeld(s)
    BY <2>1 DEF CheckHeld
  <2>2. CASE Resume(s) \/ GiveUp(s)
    BY <2>2 DEF Resume, GiveUp
  <2>3. CASE StreamBody(s) \/ WriteLine(s)
    BY <2>3 DEF StreamBody, WriteLine
  <2>4. CASE GateLine(s)
    BY <2>4 DEF GateLine
  <2>5. CASE EndBody(s) \/ EndSplit(s)
    BY <2>5 DEF EndBody, EndSplit
  <2>6. CASE RecordBody(s) \/ ReadFails(s)
    BY <2>6 DEF RecordBody, ReadFails
  <2>. QED  BY <1>2, <2>1, <2>2, <2>3, <2>4, <2>5, <2>6 DEF SessionStep
<1>3. CASE \E s \in Sessions : CloseConnection(s) \/ Disconnect(s)
  BY <1>3 DEF CloseConnection, Disconnect
<1>4. CASE Close \/ Stopped \/ UNCHANGED vars
  BY <1>4 DEF Close, Stopped, vars
<1>. QED  BY <1>1, <1>2, <1>3, <1>4 DEF Next

LEMMA StepArmed == TypeOK /\ HoldArmed /\ [Next]_vars => HoldArmed'
<1>. SUFFICES ASSUME TypeOK, HoldArmed, [Next]_vars PROVE HoldArmed'
  OBVIOUS
<1>. USE DEF HoldArmed, NoChannel
<1>1. ASSUME NEW config \in Configs, SetChaos(config) PROVE HoldArmed'
  <2>1. /\ chaos' = config
        /\ closedChannels' = closedChannels \cup Closes(config)
        /\ made' = IF Arms(config) THEN made + 1 ELSE made
        /\ holdReleased' = IF Arms(config) THEN made + 1 ELSE Kept(config)
    BY <1>1 DEF SetChaos, setChaosLocked
  <2>2. made \in Nat /\ closedChannels \subseteq 1..made /\ holdReleased \in 0..made
    BY DEF TypeOK
  <2>3. CASE Arms(config)
    <3>1. closedChannels' \subseteq 1..made
      BY <2>1, <2>2 DEF Closes, Released
    <3>. QED  BY <2>1, <2>2, <2>3, <3>1 DEF Arms, Holds
  <2>4. CASE ~Arms(config) /\ Holds(config)
    <3>1. ~Released(config) /\ holdReleased # 0
      BY <2>4 DEF Arms, Kept
    <3>. QED  BY <2>1, <2>2, <2>4, <3>1 DEF Kept, Closes, Holds
  <2>5. CASE ~Holds(config)
    <3>1. ~Arms(config) /\ Kept(config) = 0
      BY <2>5 DEF Arms, Kept, Released
    <3>. QED  BY <2>1, <2>5, <3>1 DEF Holds
  <2>. QED  BY <2>3, <2>4, <2>5
<1>2. CASE UNCHANGED <<chaos, holdReleased, made, closedChannels>>
  BY <1>2 DEF Holds
<1>. QED  BY <1>1, <1>2, OnlySetChaosArms

\* A body starts to wait only in CheckHeld and in spendHoldLine, each time on
\* the armed channel.
LEMMA WaitsOnArmed ==
  ASSUME TypeOK, [Next]_vars, NEW s \in Sessions, pc'[s] \in Held
  PROVE  \/ pc[s] \in Held /\ waitsOn'[s] = waitsOn[s]
         \/ /\ waitsOn'[s] = holdReleased /\ holdReleased # NoChannel
            /\ UNCHANGED <<chaos, holdReleased, closedChannels>>
<1>. USE DEF TypeOK, control, body, Held, Goto
<1>1. ASSUME NEW config \in Configs, SetChaos(config)
      PROVE  pc[s] \in Held /\ waitsOn'[s] = waitsOn[s]
  BY <1>1 DEF SetChaos
<1>2. ASSUME NEW r \in Sessions, NEW a \in Articles, BeginBody(r, a)
      PROVE  pc[s] \in Held /\ waitsOn'[s] = waitsOn[s]
  BY <1>2 DEF BeginBody
<1>3. ASSUME NEW r \in Sessions, CheckHeld(r)
      PROVE  \/ pc[s] \in Held /\ waitsOn'[s] = waitsOn[s]
             \/ /\ waitsOn'[s] = holdReleased /\ holdReleased # NoChannel
                /\ UNCHANGED <<chaos, holdReleased, closedChannels>>
  BY <1>3 DEF CheckHeld, Serve
<1>4. ASSUME NEW r \in Sessions, GateLine(r)
      PROVE  \/ pc[s] \in Held /\ waitsOn'[s] = waitsOn[s]
             \/ /\ waitsOn'[s] = holdReleased /\ holdReleased # NoChannel
                /\ UNCHANGED <<chaos, holdReleased, closedChannels>>
  BY <1>4 DEF GateLine, spendHoldLine
<1>5. ASSUME NEW r \in Sessions,
             Resume(r) \/ GiveUp(r) \/ StreamBody(r) \/ WriteLine(r) \/ EndBody(r)
               \/ EndSplit(r) \/ RecordBody(r) \/ ReadFails(r)
      PROVE  pc[s] \in Held /\ waitsOn'[s] = waitsOn[s]
  <2>1. CASE Resume(r) \/ GiveUp(r)
    BY <2>1 DEF Resume, GiveUp, EndSession, Serve
  <2>2. CASE StreamBody(r) \/ EndSplit(r)
    BY <2>2 DEF StreamBody, EndSplit, Terminate
  <2>3. CASE WriteLine(r)
    BY <2>3 DEF WriteLine, EndSession
  <2>4. CASE EndBody(r)
    BY <2>4 DEF EndBody, Terminate
  <2>5. CASE RecordBody(r) \/ ReadFails(r)
    BY <2>5 DEF RecordBody, ReadFails
  <2>. QED  BY <1>5, <2>1, <2>2, <2>3, <2>4, <2>5
<1>6. CASE \E r \in Sessions : CloseConnection(r) \/ Disconnect(r)
  BY <1>6 DEF CloseConnection, Disconnect
<1>7. CASE Close \/ Stopped \/ UNCHANGED vars
  BY <1>7 DEF Close, Stopped, vars
<1>. QED
  BY <1>1, <1>2, <1>3, <1>4, <1>5, <1>6, <1>7 DEF Next, SessionStep

LEMMA StepNoLostRelease == HoldInv /\ [Next]_vars => NoLostRelease'
<1>. SUFFICES ASSUME HoldInv, [Next]_vars, NEW s \in Sessions, Blocked(s)'
              PROVE  waitsOn'[s] = holdReleased'
  BY DEF NoLostRelease
<1>1. closedChannels \subseteq closedChannels'
  <2>1. CASE \E config \in Configs : SetChaos(config)
    BY <2>1 DEF SetChaos, setChaosLocked
  <2>. QED  BY <2>1, OnlySetChaosArms
<1>2. CASE pc[s] \in Held /\ waitsOn'[s] = waitsOn[s]
  <2>1. Blocked(s) /\ waitsOn[s] = holdReleased /\ waitsOn[s] # NoChannel
    BY <1>1, <1>2 DEF Blocked, HoldInv, NoLostRelease, BudgetAccounted
  <2>2. ASSUME NEW config \in Configs, SetChaos(config)
        PROVE  holdReleased' = holdReleased
    <3>1. ~Released(config)
      BY <1>2, <2>1, <2>2 DEF Blocked, SetChaos, setChaosLocked, Closes
    <3>2. Kept(config) = holdReleased /\ ~Arms(config)
      BY <2>1, <3>1 DEF Kept, Arms
    <3>. QED  BY <2>2, <3>2 DEF SetChaos, setChaosLocked
  <2>. QED  BY <1>2, <2>1, <2>2, OnlySetChaosArms
<1>3. CASE waitsOn'[s] = holdReleased /\ UNCHANGED holdReleased
  BY <1>3
<1>. QED  BY <1>2, <1>3, WaitsOnArmed DEF HoldInv, Blocked

LEMMA InFlightFinite == TypeOK => IsFiniteSet(InFlight) /\ Cardinality(InFlight) \in Nat
<1>1. TypeOK => InFlight \subseteq Sessions
  BY DEF TypeOK, InFlight
<1>. QED  BY <1>1, SessionsAssumption, FS_Subset, FS_CardinalityType

\* The lines fresh bodies have written, are about to write and may still
\* write never grow, whoever moves.
LEMMA StepBudget ==
  ASSUME HoldInv, [Next]_vars, chaos.holdLines > 0, UNCHANGED chaos,
         ~ \E config \in Configs : SetChaos(config)
  PROVE  freshLines' + Cardinality(InFlight') + holdRemaining'
           <= freshLines + Cardinality(InFlight) + holdRemaining
<1>. USE DEF control, body, observed, Held, Goto
<1>0. /\ TypeOK /\ holdReleased # NoChannel
      /\ \A s \in fresh : snapshot[s] = chaos
      /\ fresh \subseteq Sessions /\ pc \in [Sessions -> Locations]
      /\ freshLines \in Nat /\ holdRemaining \in Nat
      /\ IsFiniteSet(InFlight) /\ Cardinality(InFlight) \in Nat
  BY InFlightFinite DEF HoldInv, TypeOK, HoldArmed, Holds, BudgetAccounted
<1>1. ASSUME InFlight' = InFlight, UNCHANGED <<freshLines, holdRemaining>>
      PROVE  freshLines' + Cardinality(InFlight') + holdRemaining'
               <= freshLines + Cardinality(InFlight) + holdRemaining
  BY <1>0, <1>1
<1>2. ASSUME NEW s \in Sessions, NEW a \in Articles, BeginBody(s, a)
      PROVE  InFlight' = InFlight /\ UNCHANGED <<freshLines, holdRemaining>>
  BY <1>0, <1>2 DEF BeginBody, InFlight
<1>3. ASSUME NEW s \in Sessions, CheckHeld(s)
      PROVE  InFlight' = InFlight /\ UNCHANGED <<freshLines, holdRemaining>>
  BY <1>0, <1>3 DEF CheckHeld, Serve, InFlight
<1>4. ASSUME NEW s \in Sessions, Resume(s)
      PROVE  InFlight' = InFlight /\ UNCHANGED <<freshLines, holdRemaining>>
  <2>1. s \notin fresh
    BY <1>4 DEF Resume, HoldInv, BudgetAccounted, HoldArmed
  <2>. QED  BY <1>0, <1>4, <2>1 DEF Resume, Serve, InFlight
<1>5. ASSUME NEW s \in Sessions, GiveUp(s)
      PROVE  InFlight' = InFlight /\ UNCHANGED <<freshLines, holdRemaining>>
  BY <1>0, <1>5 DEF GiveUp, EndSession, InFlight
<1>6. ASSUME NEW s \in Sessions, StreamBody(s)
      PROVE  InFlight' = InFlight /\ UNCHANGED <<freshLines, holdRemaining>>
  <2>1. s \notin fresh
    BY <1>0, <1>6 DEF StreamBody, HoldInv, BudgetAccounted, FastPath
  <2>. QED  BY <1>0, <1>6, <2>1 DEF StreamBody, Write, Terminate, InFlight
<1>7. ASSUME NEW s \in Sessions, GateLine(s)
      PROVE  freshLines' + Cardinality(InFlight') + holdRemaining'
               <= freshLines + Cardinality(InFlight) + holdRemaining
  <2>1. UNCHANGED <<fresh, freshLines>>
    BY <1>7 DEF GateLine
  <2>2. CASE s \notin fresh
    <3>1. InFlight' = InFlight
      BY <1>0, <1>7, <2>1, <2>2 DEF GateLine, spendHoldLine, InFlight
    <3>2. holdRemaining' \in {holdRemaining, holdRemaining - 1}
      BY <1>7 DEF GateLine, spendHoldLine, Spend
    <3>. QED  BY <1>0, <2>1, <3>1, <3>2
  <2>3. CASE s \in fresh
    <3>1. spendHoldLine(s) /\ pc[s] = "line"
      BY <1>0, <1>7, <2>3 DEF GateLine
    <3>2. CASE holdRemaining' = holdRemaining - 1 /\ pc' = [pc EXCEPT ![s] = "write"]
      <4>1. InFlight' = InFlight \cup {s} /\ s \notin InFlight
        BY <1>0, <2>1, <2>3, <3>1, <3>2 DEF InFlight
      <4>2. Cardinality(InFlight') = Cardinality(InFlight) + 1
        BY <1>0, <4>1, FS_AddElement
      <4>. QED  BY <1>0, <2>1, <3>2, <4>2
    <3>3. CASE UNCHANGED holdRemaining /\ pc' = [pc EXCEPT ![s] = "heldLine"]
      <4>1. InFlight' = InFlight
        BY <1>0, <2>1, <3>1, <3>3 DEF InFlight
      <4>. QED  BY <1>0, <2>1, <3>3, <4>1
    <3>. QED  BY <1>0, <3>1, <3>2, <3>3 DEF spendHoldLine, Spend
  <2>. QED  BY <2>2, <2>3
<1>8. ASSUME NEW s \in Sessions, WriteLine(s)
      PROVE  freshLines' + Cardinality(InFlight') + holdRemaining'
               <= freshLines + Cardinality(InFlight) + holdRemaining
  <2>1. /\ pc[s] = "write" /\ UNCHANGED <<fresh, holdRemaining>>
        /\ pc' \in {[pc EXCEPT ![s] = "gone"], [pc EXCEPT ![s] = "line"]}
    BY <1>8 DEF WriteLine, EndSession
  <2>2. CASE s \in fresh
    <3>1. InFlight' = InFlight \ {s} /\ s \in InFlight
      BY <1>0, <2>1, <2>2 DEF InFlight
    <3>2. Cardinality(InFlight') = Cardinality(InFlight) - 1
      BY <1>0, <3>1, FS_RemoveElement
    <3>3. freshLines' = freshLines + 1
      BY <1>8, <2>2 DEF WriteLine, Write
    <3>. QED  BY <1>0, <2>1, <3>2, <3>3
  <2>3. CASE s \notin fresh
    <3>1. InFlight' = InFlight
      BY <1>0, <2>1, <2>3 DEF InFlight
    <3>2. UNCHANGED freshLines
      BY <1>8, <2>3 DEF WriteLine, Write
    <3>. QED  BY <1>1, <2>1, <3>1, <3>2
  <2>. QED  BY <2>2, <2>3
<1>9. ASSUME NEW s \in Sessions,
             EndBody(s) \/ EndSplit(s) \/ RecordBody(s) \/ ReadFails(s)
      PROVE  InFlight' = InFlight /\ UNCHANGED <<freshLines, holdRemaining>>
  <2>1. CASE EndBody(s) \/ EndSplit(s)
    BY <1>0, <2>1 DEF EndBody, EndSplit, Terminate, InFlight
  <2>2. CASE RecordBody(s) \/ ReadFails(s)
    BY <1>0, <2>2 DEF RecordBody, ReadFails, InFlight
  <2>. QED  BY <1>9, <2>1, <2>2
<1>10. CASE \E s \in Sessions : CloseConnection(s) \/ Disconnect(s)
  <2>1. UNCHANGED <<fresh, pc, freshLines, holdRemaining>>
    BY <1>10 DEF CloseConnection, Disconnect
  <2>. QED  BY <1>1, <2>1 DEF InFlight
<1>11. CASE Close \/ Stopped \/ UNCHANGED vars
  <2>1. UNCHANGED <<fresh, pc, freshLines, holdRemaining>>
    BY <1>11 DEF Close, Stopped, vars
  <2>. QED  BY <1>1, <2>1 DEF InFlight
<1>. QED
  BY <1>1, <1>2, <1>3, <1>4, <1>5, <1>6, <1>7, <1>8, <1>9, <1>10, <1>11
     DEF Next, SessionStep

\* A body that is streamed needs no single lines; a fresh one began under the
\* live configuration.
LEMMA StepSnapshots ==
  ASSUME HoldInv, [Next]_vars
  PROVE  /\ \A s \in fresh' : snapshot'[s] = chaos'
         /\ \A s \in Sessions : pc'[s] = "stream" => FastPath(snapshot'[s])
<1>. USE DEF control, body, observed, Held, Goto
<1>0. /\ \A s \in fresh : snapshot[s] = chaos
      /\ \A s \in Sessions : pc[s] = "stream" => FastPath(snapshot[s])
      /\ fresh \subseteq Sessions
      /\ pc \in [Sessions -> Locations] /\ snapshot \in [Sessions -> ChaosConfig]
  BY DEF HoldInv, BudgetAccounted, TypeOK
<1>1. CASE \E config \in Configs : SetChaos(config)
  BY <1>0, <1>1 DEF SetChaos
<1>2. ASSUME NEW s \in Sessions, NEW a \in Articles, BeginBody(s, a)
      PROVE  /\ \A r \in fresh' : snapshot'[r] = chaos'
             /\ \A r \in Sessions : pc'[r] = "stream" => FastPath(snapshot'[r])
  <2>1. /\ snapshot' = [snapshot EXCEPT ![s] = chaos] /\ UNCHANGED chaos
        /\ fresh' \subseteq fresh \cup {s} /\ pc[s] = "command"
        /\ pc' \in {pc, [pc EXCEPT ![s] = "status"]}
    BY <1>2 DEF BeginBody
  <2>. QED  BY <1>0, <2>1
<1>3. ASSUME NEW s \in Sessions, CheckHeld(s) \/ Resume(s)
      PROVE  /\ UNCHANGED <<fresh, snapshot, chaos>>
             /\ \A r \in Sessions : pc'[r] = "stream" => FastPath(snapshot'[r])
  <2>1. CASE CheckHeld(s)
    BY <1>0, <2>1 DEF CheckHeld, Serve
  <2>2. CASE Resume(s)
    BY <1>0, <2>2 DEF Resume, Serve
  <2>. QED  BY <1>3, <2>1, <2>2
<1>4. ASSUME NEW s \in Sessions,
             GiveUp(s) \/ StreamBody(s) \/ GateLine(s) \/ WriteLine(s) \/ EndBody(s)
               \/ EndSplit(s) \/ RecordBody(s) \/ ReadFails(s)
      PROVE  /\ UNCHANGED <<fresh, snapshot, chaos>>
             /\ \A r \in Sessions : pc'[r] = "stream" => FastPath(snapshot'[r])
  <2>1. CASE GiveUp(s)
    BY <1>0, <2>1 DEF GiveUp, EndSession
  <2>2. CASE StreamBody(s) \/ EndSplit(s)
    BY <1>0, <2>2 DEF StreamBody, EndSplit, Terminate
  <2>3. CASE GateLine(s)
    BY <1>0, <2>3 DEF GateLine, spendHoldLine
  <2>4. CASE WriteLine(s)
    BY <1>0, <2>4 DEF WriteLine, EndSession
  <2>5. CASE EndBody(s)
    BY <1>0, <2>5 DEF EndBody, Terminate
  <2>6. CASE RecordBody(s) \/ ReadFails(s)
    BY <1>0, <2>6 DEF RecordBody, ReadFails
  <2>. QED  BY <1>4, <2>1, <2>2, <2>3, <2>4, <2>5, <2>6
<1>5. CASE \E s \in Sessions : CloseConnection(s) \/ Disconnect(s)
  BY <1>0, <1>5 DEF CloseConnection, Disconnect
<1>6. CASE Close \/ Stopped \/ UNCHANGED vars
  BY <1>0, <1>6 DEF Close, Stopped, vars
<1>. QED  BY <1>0, <1>1, <1>2, <1>3, <1>4, <1>5, <1>6 DEF Next, SessionStep

\* A fresh body that waits was fresh before, under the same armed channel.
LEMMA FreshStays ==
  ASSUME TypeOK, [Next]_vars, NEW s \in Sessions, s \in fresh', pc'[s] \in Held
  PROVE  s \in fresh /\ UNCHANGED holdReleased
<1>. USE DEF Goto, Held
<1>1. ASSUME NEW config \in Configs, SetChaos(config) PROVE FALSE
  BY <1>1 DEF SetChaos
<1>2. ASSUME NEW r \in Sessions, NEW a \in Articles, BeginBody(r, a) PROVE s \in fresh
  <2>1. pc \in [Sessions -> Locations]
    BY DEF TypeOK
  <2>. QED  BY <1>2, <2>1 DEF BeginBody
<1>3. ASSUME NEW r \in Sessions, SessionStep(r) PROVE UNCHANGED fresh
  <2>1. CASE CheckHeld(r) \/ Resume(r) \/ GiveUp(r)
    BY <2>1 DEF CheckHeld, Resume, GiveUp
  <2>2. CASE StreamBody(r) \/ GateLine(r) \/ WriteLine(r)
    BY <2>2 DEF StreamBody, GateLine, WriteLine
  <2>3. CASE EndBody(r) \/ EndSplit(r) \/ RecordBody(r) \/ ReadFails(r)
    BY <2>3 DEF EndBody, EndSplit, RecordBody, ReadFails
  <2>. QED  BY <1>3, <2>1, <2>2, <2>3 DEF SessionStep
<1>4. ASSUME \E r \in Sessions : CloseConnection(r) \/ Disconnect(r) PROVE UNCHANGED fresh
  BY <1>4 DEF CloseConnection, Disconnect
<1>5. ASSUME Close \/ Stopped \/ UNCHANGED vars PROVE UNCHANGED fresh
  BY <1>5 DEF Close, Stopped, vars
<1>6. s \in fresh
  BY <1>1, <1>2, <1>3, <1>4, <1>5 DEF Next
<1>. QED  BY <1>1, <1>6, OnlySetChaosArms

LEMMA StepAccounted == HoldInv /\ [Next]_vars => BudgetAccounted'
<1>. SUFFICES ASSUME HoldInv, [Next]_vars PROVE BudgetAccounted'
  OBVIOUS
<1>0. TypeOK /\ TypeOK'
  BY StepTyped DEF HoldInv
<1>1. ASSUME NEW s \in Sessions, pc'[s] \in Held PROVE waitsOn'[s] # NoChannel
  BY <1>0, <1>1, WaitsOnArmed DEF HoldInv, BudgetAccounted
<1>2. ASSUME NEW s \in fresh', pc'[s] \in Held PROVE waitsOn'[s] = holdReleased'
  <2>1. s \in Sessions
    BY <1>0 DEF TypeOK
  <2>2. s \in fresh /\ UNCHANGED holdReleased
    BY <1>0, <1>2, <2>1, FreshStays
  <2>. QED  BY <1>0, <1>2, <2>1, <2>2, WaitsOnArmed DEF HoldInv, BudgetAccounted
<1>3. ASSUME chaos'.holdLines > 0
      PROVE  freshLines' + Cardinality(InFlight') + holdRemaining' <= chaos'.holdLines
  <2>1. ASSUME NEW config \in Configs, SetChaos(config)
        PROVE  freshLines' + Cardinality(InFlight') + holdRemaining' <= chaos'.holdLines
    <3>1. freshLines' = 0 /\ holdRemaining' = chaos'.holdLines /\ fresh' = {}
      BY <2>1 DEF SetChaos, setChaosLocked
    <3>2. InFlight' = {}
      BY <3>1 DEF InFlight
    <3>3. chaos'.holdLines \in Nat
      BY <1>0 DEF TypeOK, ChaosConfig
    <3>. QED  BY <3>1, <3>2, <3>3, FS_EmptySet
  <2>2. CASE ~ \E config \in Configs : SetChaos(config)
    <3>1. UNCHANGED chaos
      BY <2>2, OnlySetChaosArms
    <3>2. freshLines' + Cardinality(InFlight') + holdRemaining'
            <= freshLines + Cardinality(InFlight) + holdRemaining
      BY <1>3, <2>2, <3>1, StepBudget
    <3>3. freshLines + Cardinality(InFlight) + holdRemaining <= chaos.holdLines
      BY <1>3, <3>1 DEF HoldInv, BudgetAccounted
    <3>4. /\ Cardinality(InFlight) \in Nat /\ Cardinality(InFlight') \in Nat
          /\ freshLines \in Nat /\ freshLines' \in Nat
          /\ holdRemaining \in Nat /\ holdRemaining' \in Nat
          /\ chaos.holdLines \in Nat
      <4>1. (TypeOK => Cardinality(InFlight) \in Nat)'
        BY InFlightFinite, PTL
      <4>. QED  BY <1>0, <4>1, InFlightFinite DEF TypeOK, ChaosConfig
    <3>. HIDE DEF InFlight
    <3>. QED  BY <3>1, <3>2, <3>3, <3>4
  <2>. QED  BY <2>1, <2>2
<1>. QED  BY <1>1, <1>2, <1>3, StepSnapshots DEF BudgetAccounted

THEOREM HoldInvariant == Spec => []HoldInv
<1>1. Init => HoldInv
  <2>. SUFFICES ASSUME Init PROVE HoldInv
    OBVIOUS
  <2>1. TypeOK
    BY InitTyped
  <2>2. HoldArmed
    BY DEF Init, HoldArmed, NoChannel
  <2>3. NoLostRelease
    BY DEF Init, NoLostRelease, Blocked, Held
  <2>4. BudgetAccounted
    <3>1. InFlight = {} /\ Cardinality(InFlight) = 0
      BY FS_EmptySet DEF Init, InFlight
    <3>2. InitialChaos.holdLines \in Nat
      BY ConfigsAssumption DEF ChaosConfig
    <3>. QED  BY <3>1, <3>2 DEF Init, BudgetAccounted, Held
  <2>. QED  BY <2>1, <2>2, <2>3, <2>4 DEF HoldInv
<1>2. HoldInv /\ [Next]_vars => HoldInv'
  BY StepTyped, StepArmed, StepNoLostRelease, StepAccounted DEF HoldInv
<1>. QED  BY <1>1, <1>2, PTL DEF Spec

(***************************************************************************)
(* The armed channel is open, and it is the one every blocked body waits   *)
(* on: no release is lost and no channel is closed twice (setChaosLocked,  *)
(* heldBody, spendHoldLine).                                               *)
(***************************************************************************)
THEOREM NoReleaseIsLost == Spec => [](HoldArmed /\ NoLostRelease)
<1>1. HoldInv => HoldArmed /\ NoLostRelease
  BY DEF HoldInv
<1>. QED  BY <1>1, HoldInvariant, PTL

(***************************************************************************)
(* A channel is armed exactly while something is held, and it is open: no  *)
(* sequence of configurations closes a channel twice (setChaosLocked).     *)
(***************************************************************************)
THEOREM ArmedIsOpen == Spec => []HoldArmed
BY HoldInvariant, PTL DEF HoldInv

(***************************************************************************)
(* hold_body: the bodies that begin under a configuration together write   *)
(* at most its budget of lines (spendHoldLine).                            *)
(***************************************************************************)
THEOREM BudgetHolds == Spec => []BudgetRespected
<1>1. HoldInv => BudgetRespected
  <2>. SUFFICES ASSUME HoldInv, chaos.holdLines > 0 PROVE freshLines <= chaos.holdLines
    BY DEF BudgetRespected
  <2>1. freshLines + Cardinality(InFlight) + holdRemaining <= chaos.holdLines
    BY DEF HoldInv, BudgetAccounted
  <2>2. /\ Cardinality(InFlight) \in Nat /\ freshLines \in Nat
        /\ holdRemaining \in Nat /\ chaos.holdLines \in Nat
    BY InFlightFinite DEF HoldInv, TypeOK, ChaosConfig
  <2>. HIDE DEF InFlight
  <2>. QED  BY <2>1, <2>2
<1>. QED  BY <1>1, HoldInvariant, PTL

(***************************************************************************)
(* The transfer counter is exact: it and the bodies about to be counted    *)
(* are the terminators written, no more and no fewer (handleBody).         *)
(***************************************************************************)
THEOREM CounterExact == Spec => []CountsWholeBodies
<1>. DEFINE Counted == {s \in Sessions : pc[s] = "record"}
<1>1. Init => CountsWholeBodies
  <2>. SUFFICES ASSUME Init PROVE transfers + Cardinality(Counted) = terminated
    BY DEF CountsWholeBodies
  <2>1. Counted = {}
    BY DEF Init
  <2>2. Cardinality(Counted) = 0
    BY <2>1, FS_EmptySet
  <2>. QED  BY <2>2 DEF Init
<1>2. TypeOK => Cardinality(Counted) \in Nat /\ IsFiniteSet(Counted)
  BY SessionsAssumption, FS_Subset, FS_CardinalityType
<1>3. ASSUME TypeOK, CountsWholeBodies, [Next]_vars PROVE CountsWholeBodies'
  <2>. USE DEF Goto, Held, body, control, observed
  <2>0. /\ pc \in [Sessions -> Locations] /\ transfers \in Nat /\ terminated \in Nat
        /\ Cardinality(Counted) \in Nat /\ IsFiniteSet(Counted)
        /\ transfers + Cardinality(Counted) = terminated
    BY <1>2, <1>3 DEF TypeOK, CountsWholeBodies
  <2>1. ASSUME Counted' = Counted, UNCHANGED <<transfers, terminated>>
        PROVE  CountsWholeBodies'
    BY <2>0, <2>1 DEF CountsWholeBodies
  <2>2. ASSUME NEW s \in Sessions, Terminate(s), pc[s] # "record", UNCHANGED transfers
        PROVE  CountsWholeBodies'
    <3>1. Counted' = Counted \cup {s} /\ s \notin Counted
      BY <2>0, <2>2 DEF Terminate
    <3>2. Cardinality(Counted') = Cardinality(Counted) + 1
      BY <2>0, <3>1, FS_AddElement
    <3>3. terminated' = terminated + 1
      BY <2>2 DEF Terminate
    <3>. QED  BY <2>0, <2>2, <3>2, <3>3 DEF CountsWholeBodies
  <2>3. ASSUME NEW s \in Sessions, RecordBody(s) PROVE CountsWholeBodies'
    <3>1. Counted' = Counted \ {s} /\ s \in Counted
      BY <2>0, <2>3 DEF RecordBody
    <3>2. Cardinality(Counted') = Cardinality(Counted) - 1
      BY <2>0, <3>1, FS_RemoveElement
    <3>. QED  BY <2>0, <2>3, <3>2 DEF RecordBody, CountsWholeBodies
  <2>4. ASSUME NEW s \in Sessions, NEW p \in Locations \ {"record"}, pc[s] # "record",
               pc' = [pc EXCEPT ![s] = p], UNCHANGED <<transfers, terminated>>
        PROVE  CountsWholeBodies'
    <3>1. Counted' = Counted
      BY <2>0, <2>4
    <3>. QED  BY <2>1, <2>4, <3>1
  <2>5. ASSUME NEW s \in Sessions, UNCHANGED <<pc, transfers, terminated>>
        PROVE  CountsWholeBodies'
    BY <2>0, <2>5 DEF CountsWholeBodies
  <2>6. CASE \E config \in Configs : SetChaos(config)
    BY <2>1, <2>6 DEF SetChaos
  <2>7. ASSUME NEW s \in Sessions, NEW a \in Articles, BeginBody(s, a)
        PROVE  CountsWholeBodies'
    BY <2>4, <2>5, <2>7 DEF BeginBody, Locations
  <2>8. ASSUME NEW s \in Sessions, CheckHeld(s) \/ Resume(s) \/ GiveUp(s)
        PROVE  CountsWholeBodies'
    <3>1. CASE CheckHeld(s)
      BY <2>4, <3>1 DEF CheckHeld, Serve, Locations
    <3>2. CASE Resume(s)
      BY <2>4, <3>2 DEF Resume, Serve, Locations
    <3>3. CASE GiveUp(s)
      BY <2>4, <3>3 DEF GiveUp, EndSession, Locations
    <3>. QED  BY <2>8, <3>1, <3>2, <3>3
  <2>9. ASSUME NEW s \in Sessions, GateLine(s) PROVE CountsWholeBodies'
    BY <2>4, <2>9 DEF GateLine, spendHoldLine, Locations
  <2>10. ASSUME NEW s \in Sessions, WriteLine(s) PROVE CountsWholeBodies'
    BY <2>4, <2>10 DEF WriteLine, EndSession, Locations
  <2>11. ASSUME NEW s \in Sessions, StreamBody(s) \/ EndSplit(s) PROVE CountsWholeBodies'
    BY <2>2, <2>11 DEF StreamBody, EndSplit
  <2>12. ASSUME NEW s \in Sessions, EndBody(s) PROVE CountsWholeBodies'
    BY <2>2, <2>4, <2>12 DEF EndBody, Locations
  <2>13. ASSUME NEW s \in Sessions, ReadFails(s) PROVE CountsWholeBodies'
    BY <2>4, <2>13 DEF ReadFails, Locations
  <2>14. CASE \E s \in Sessions : CloseConnection(s) \/ Disconnect(s)
    BY <2>5, <2>14 DEF CloseConnection, Disconnect
  <2>15. CASE Close \/ Stopped \/ UNCHANGED vars
    BY <2>1, <2>15 DEF Close, Stopped, vars
  <2>. QED
    BY <1>3, <2>3, <2>6, <2>7, <2>8, <2>9, <2>10, <2>11, <2>12, <2>13, <2>14, <2>15
       DEF Next, SessionStep
<1>. QED  BY <1>1, <1>3, TypeCorrect, PTL DEF Spec
-----------------------------------------------------------------------------
(***************************************************************************)
(* BodyHold implements Hold, step by step.                                 *)
(***************************************************************************)
Waiting == {s \in Sessions : Blocked(s)}

\* A step of one goroutine that closes no channel changes only who it is that
\* waits.
LEMMA OneMoves ==
  ASSUME TypeOK, NEW s \in Sessions, UNCHANGED closedChannels,
         \A r \in Sessions \ {s} : pc'[r] = pc[r] /\ waitsOn'[r] = waitsOn[r]
  PROVE  Waiting' = IF Blocked(s)' THEN Waiting \cup {s} ELSE Waiting \ {s}
BY DEF Waiting, Blocked

\* What Hold does not see.
LEMMA Unseen ==
  ASSUME UNCHANGED <<chaos, closed, article, snapshot, fresh, freshLines, Waiting>>
  PROVE  UNCHANGED Gate!vars
BY DEF Gate!vars, Waiting

LEMMA HoldsMeans == \A config : Gate!Holds(config) <=> Holds(config)
BY DEF Gate!Holds, Holds

\* setChaosLocked closes the armed channel when a hold is dropped: everybody
\* who waits goes on.
LEMMA InstallMaps ==
  ASSUME HoldInv, NEW config \in Configs, SetChaos(config)
  PROVE  Gate!Install(config)
<1>1. /\ EnableTestControl /\ chaos' = config /\ fresh' = {} /\ freshLines' = 0
      /\ closedChannels' = closedChannels \cup Closes(config)
      /\ UNCHANGED <<closed, article, snapshot, pc, waitsOn>>
  BY DEF SetChaos, setChaosLocked, body
<1>2. \A s \in Sessions : Blocked(s) => waitsOn[s] = holdReleased /\ holdReleased # NoChannel
  BY DEF HoldInv, NoLostRelease, BudgetAccounted, Blocked
<1>3. Gate!Drops(chaos, config) <=> Dropped(chaos, config)
  BY DEF Gate!Drops, Dropped, holdsMessageID
<1>4. Waiting' = IF Dropped(chaos, config) THEN {} ELSE Waiting
  <2>1. CASE Released(config)
    <3>1. Waiting' = {}
      BY <1>1, <1>2, <2>1 DEF Waiting, Blocked, Closes
    <3>2. Dropped(chaos, config)
      <4>1. Holds(chaos)
        BY <2>1 DEF Released, HoldInv, HoldArmed
      <4>2. chaos.holdLines \in Nat /\ config.holdLines \in Nat
        BY ConfigsAssumption DEF HoldInv, TypeOK, ChaosConfig
      <4>. QED  BY <2>1, <4>1, <4>2 DEF Released, Dropped, Holds, holdsMessageID
    <3>. QED  BY <3>1, <3>2
  <2>2. CASE ~Released(config)
    <3>1. Waiting' = Waiting
      BY <1>1, <2>2 DEF Waiting, Blocked, Closes
    <3>2. Dropped(chaos, config) => Waiting = {}
      BY <1>2, <2>2 DEF Released, Waiting
    <3>. QED  BY <3>1, <3>2
  <2>. QED  BY <2>1, <2>2
<1>. QED  BY <1>1, <1>3, <1>4 DEF Gate!Install, Waiting

LEMMA BeginMaps ==
  ASSUME HoldInv, NEW s \in Sessions, NEW a \in Articles, BeginBody(s, a)
  PROVE  Gate!Begin(s, a)
<1>. USE DEF Goto, Held, control, body
<1>1. pc \in [Sessions -> Locations] /\ TypeOK
  BY DEF HoldInv, TypeOK
<1>2. /\ pc[s] = "command" /\ pc'[s] \in {"command", "status"}
      /\ \A r \in Sessions \ {s} : pc'[r] = pc[r] /\ waitsOn'[r] = waitsOn[r]
      /\ UNCHANGED <<chaos, closed, closedChannels, freshLines>>
      /\ fresh' \in {fresh, fresh \cup {s}}
      /\ article' = [article EXCEPT ![s] = a]
      /\ snapshot' = [snapshot EXCEPT ![s] = chaos]
  BY <1>1 DEF BeginBody, observed
<1>3. s \notin Waiting /\ Waiting' = Waiting
  BY <1>1, <1>2, OneMoves DEF Waiting, Blocked
<1>. QED  BY <1>2, <1>3 DEF Gate!Begin, Waiting

\* The gate, at the first byte of a body and before each of its lines.
LEMMA WaitMaps ==
  ASSUME HoldInv, NEW s \in Sessions, CheckHeld(s) \/ GateLine(s)
  PROVE  Gate!Wait(s) \/ UNCHANGED Gate!vars
<1>. USE DEF Goto, control, body, observed
<1>1. pc \in [Sessions -> Locations] /\ waitsOn \in [Sessions -> 0..made] /\ TypeOK
  BY DEF HoldInv, TypeOK
<1>2. /\ pc[s] \in {"status", "line"}
      /\ \A r \in Sessions \ {s} : pc'[r] = pc[r] /\ waitsOn'[r] = waitsOn[r]
      /\ UNCHANGED <<chaos, closed, closedChannels, article, snapshot, fresh, freshLines>>
  <2>1. CASE CheckHeld(s)
    BY <1>1, <2>1 DEF CheckHeld
  <2>2. CASE GateLine(s)
    BY <1>1, <2>2 DEF GateLine, spendHoldLine
  <2>. QED  BY <2>1, <2>2
<1>3. s \notin Waiting
  BY <1>2 DEF Waiting, Blocked, Held
<1>4. CASE ~Blocked(s)'
  <2>1. Waiting' = Waiting
    BY <1>1, <1>2, <1>3, <1>4, OneMoves
  <2>. QED  BY <1>2, <2>1, Unseen
<1>5. CASE Blocked(s)'
  <2>1. Waiting' = Waiting \cup {s}
    BY <1>1, <1>2, <1>5, OneMoves
  <2>2. /\ holdReleased # NoChannel
        /\ holdsMessageID(chaos, article[s]) \/ snapshot[s].holdLines > 0
    <3>1. pc'[s] \in Held
      BY <1>5 DEF Blocked
    <3>2. CASE CheckHeld(s)
      BY <1>1, <3>1, <3>2 DEF CheckHeld, Serve, Held
    <3>3. CASE GateLine(s)
      BY <1>1, <3>1, <3>3 DEF GateLine, spendHoldLine, Held
    <3>. QED  BY <3>2, <3>3
  <2>3. Holds(chaos)
    BY <2>2 DEF HoldInv, HoldArmed
  <2>. QED  BY <1>2, <1>3, <2>1, <2>2, <2>3, HoldsMeans DEF Gate!Wait, Waiting, holdsMessageID
<1>. QED  BY <1>4, <1>5

\* A goroutine that waits leaves by the release, which has let it go already,
\* or by the end of the server.
LEMMA LeaveMaps ==
  ASSUME HoldInv, NEW s \in Sessions, Resume(s) \/ GiveUp(s)
  PROVE  Gate!GiveUp(s) \/ UNCHANGED Gate!vars
<1>. USE DEF Goto, control, body, observed
<1>1. pc \in [Sessions -> Locations] /\ TypeOK
  BY DEF HoldInv, TypeOK
<1>2. /\ pc'[s] \notin Held
      /\ \A r \in Sessions \ {s} : pc'[r] = pc[r] /\ waitsOn'[r] = waitsOn[r]
      /\ UNCHANGED <<chaos, closed, closedChannels, article, snapshot, fresh, freshLines>>
      /\ Blocked(s) => closed
  <2>1. CASE Resume(s)
    BY <1>1, <2>1 DEF Resume, Serve, Held, Blocked
  <2>2. CASE GiveUp(s)
    BY <1>1, <2>2 DEF GiveUp, EndSession, Held
  <2>. QED  BY <2>1, <2>2
<1>3. Waiting' = Waiting \ {s}
  BY <1>1, <1>2, OneMoves DEF Blocked
<1>4. CASE Blocked(s)
  BY <1>2, <1>3, <1>4 DEF Gate!GiveUp, Waiting
<1>5. CASE ~Blocked(s)
  <2>1. Waiting' = Waiting
    BY <1>3, <1>5 DEF Waiting
  <2>. QED  BY <1>2, <2>1, Unseen
<1>. QED  BY <1>4, <1>5

\* Lines go out, or the body goes on without any.
LEMMA ServeMaps ==
  ASSUME HoldInv, BudgetRespected', NEW s \in Sessions,
         \/ StreamBody(s) \/ WriteLine(s) \/ EndBody(s)
         \/ EndSplit(s) \/ RecordBody(s) \/ ReadFails(s)
  PROVE  Gate!Write(s) \/ UNCHANGED Gate!vars
<1>. USE DEF Goto, control, body, observed, Terminate
<1>1. pc \in [Sessions -> Locations] /\ TypeOK /\ freshLines \in Nat /\ total[s] \in Nat
  BY DEF HoldInv, TypeOK
<1>2. /\ pc[s] \notin Held /\ pc'[s] \notin Held
      /\ \A r \in Sessions \ {s} : pc'[r] = pc[r] /\ waitsOn'[r] = waitsOn[r]
      /\ UNCHANGED <<chaos, closed, closedChannels, article, snapshot, fresh>>
      /\ freshLines' = freshLines \/ (s \in fresh /\ freshLines' >= freshLines)
  <2>1. CASE StreamBody(s)
    BY <1>1, <2>1 DEF StreamBody, Write, Held
  <2>2. CASE WriteLine(s)
    BY <1>1, <2>2 DEF WriteLine, Write, EndSession, Held
  <2>3. CASE EndBody(s)
    <3>1. /\ pc[s] = "line" /\ \E place \in {"command", "split", "record"} : Goto(s, place)
          /\ UNCHANGED <<control, closed, conn, body, line, transfers, fresh, freshLines>>
      BY <2>3 DEF EndBody
    <3>. QED  BY <1>1, <3>1 DEF Held
  <2>4. CASE EndSplit(s)
    BY <1>1, <2>4 DEF EndSplit, Held
  <2>5. CASE RecordBody(s) \/ ReadFails(s)
    BY <1>1, <2>5 DEF RecordBody, ReadFails, Held
  <2>. QED  BY <2>1, <2>2, <2>3, <2>4, <2>5
<1>3. Waiting' = Waiting /\ s \notin Waiting
  BY <1>1, <1>2, OneMoves DEF Waiting, Blocked
<1>4. CASE freshLines' = freshLines
  BY <1>2, <1>3, <1>4, Unseen
<1>5. CASE s \in fresh /\ freshLines' >= freshLines
  BY <1>2, <1>3, <1>5 DEF Gate!Write, Waiting, BudgetRespected
<1>. QED  BY <1>2, <1>4, <1>5

(***************************************************************************)
(* Channels that are copied under the lock and waited on without it, the   *)
(* snapshot of each body and a budget all bodies share keep the promise of *)
(* a gate: bodies that wait wait together, through every change that keeps *)
(* what is held, and go on together when one does not (setChaosLocked,     *)
(* heldBody, spendHoldLine, handleBody).                                   *)
(***************************************************************************)
THEOREM ImplementsGate == Spec => ImplementsHold
<1>1. Init => Gate!Init
  <2>. SUFFICES ASSUME Init PROVE Gate!Init
    OBVIOUS
  <2>1. Waiting = {}
    BY DEF Init, Waiting, Blocked, Held
  <2>2. (CHOOSE a \in Articles : TRUE) \in Articles
    BY ArticlesAssumption
  <2>. QED  BY <2>1, <2>2 DEF Init, Gate!Init, Waiting
<1>2. ASSUME HoldInv, BudgetRespected', [Next]_vars PROVE [Gate!Next]_(Gate!vars)
  <2>1. ASSUME NEW config \in Configs, SetChaos(config) PROVE Gate!Next
    BY <1>2, <2>1, InstallMaps DEF Gate!Next
  <2>2. ASSUME NEW s \in Sessions, NEW a \in Articles, BeginBody(s, a) PROVE Gate!Next
    BY <1>2, <2>2, BeginMaps DEF Gate!Next
  <2>3. ASSUME NEW s \in Sessions, SessionStep(s) PROVE [Gate!Next]_(Gate!vars)
    BY <1>2, <2>3, WaitMaps, LeaveMaps, ServeMaps DEF SessionStep, Gate!Next
  <2>4. CASE Close
    <3>1. Waiting' = Waiting
      BY <2>4 DEF Close, Waiting, Blocked, control, body
    <3>2. Gate!Close
      BY <2>4, <3>1 DEF Close, Gate!Close, Waiting, control, body, observed
    <3>. QED  BY <3>2 DEF Gate!Next
  <2>5. CASE (\E s \in Sessions : CloseConnection(s) \/ Disconnect(s)) \/ Stopped \/ UNCHANGED vars
    <3>1. /\ UNCHANGED <<chaos, closed, article, snapshot, fresh, freshLines>>
          /\ UNCHANGED <<pc, waitsOn, closedChannels>>
      BY <2>5 DEF CloseConnection, Disconnect, Stopped, vars, control, body, observed
    <3>2. Waiting' = Waiting
      BY <3>1 DEF Waiting, Blocked
    <3>. QED  BY <3>1, <3>2, Unseen
  <2>. QED  BY <1>2, <2>1, <2>2, <2>3, <2>4, <2>5 DEF Next
<1>3. HoldInv /\ BudgetRespected' /\ [Next]_vars => [Gate!Next]_(Gate!vars)
  BY <1>2
<1>. QED
  BY <1>1, <1>3, HoldInvariant, BudgetHolds, PTL DEF Spec, ImplementsHold, Gate!Spec

(***************************************************************************)
(* So a blocked body stays blocked until a configuration drops a hold or   *)
(* the server closes, whatever else happens (handleBody, setChaosLocked).  *)
(***************************************************************************)
THEOREM HoldsBlock == Spec => KeptHoldBlocks
<1>1. ASSUME [Gate!Next]_(Gate!vars), NEW s \in Sessions,
             Blocked(s), KeepsHolds(chaos, chaos'), ~closed
      PROVE  Blocked(s)'
  <2>1. s \in Waiting
    BY <1>1 DEF Waiting
  <2>2. ASSUME NEW config \in Configs, Gate!Install(config) PROVE Waiting' = Waiting
    <3>1. ~Gate!Drops(chaos, config)
      <4>1. chaos' = config
        BY <2>2 DEF Gate!Install
      <4>2. ASSUME chaos.holdLines > 0, config.holdLines = 0 PROVE FALSE
        BY <1>1, <4>1, <4>2 DEF KeepsHolds
      <4>. QED  BY <1>1, <4>1, <4>2 DEF KeepsHolds, Gate!Drops
    <3>. QED  BY <2>2, <3>1 DEF Gate!Install, Waiting
  <2>3. ASSUME NEW r \in Sessions,
               Gate!Write(r) \/ Gate!Wait(r) \/ Gate!GiveUp(r) \/ \E a \in Articles : Gate!Begin(r, a)
        PROVE  Waiting \subseteq Waiting'
    BY <1>1, <2>3 DEF Gate!Write, Gate!Wait, Gate!GiveUp, Gate!Begin, Waiting
  <2>4. CASE Gate!Close \/ UNCHANGED Gate!vars
    BY <2>1, <2>4 DEF Gate!Close, Gate!vars, Waiting
  <2>. QED  BY <1>1, <2>1, <2>2, <2>3, <2>4 DEF Gate!Next, Waiting
<1>2. [Gate!Next]_(Gate!vars) =>
        [\A s \in Sessions :
           Blocked(s) /\ KeepsHolds(chaos, chaos') /\ ~closed => Blocked(s)']_vars
  BY <1>1
<1>. QED  BY <1>2, ImplementsGate, PTL DEF ImplementsHold, Gate!Spec, KeptHoldBlocks

(***************************************************************************)
(* Nobody waits where nothing is held: each body that is still in its wait *)
(* has been let go (setChaosLocked).                                       *)
(***************************************************************************)
THEOREM NobodyWaitsForNothing ==
  Spec => [](~Holds(chaos) => \A s \in Sessions : ~Blocked(s))
<1>1. HoldInv => (~Holds(chaos) => \A s \in Sessions : ~Blocked(s))
  BY DEF HoldInv, HoldArmed, NoLostRelease, BudgetAccounted, Blocked
<1>. QED  BY <1>1, HoldInvariant, PTL
-----------------------------------------------------------------------------
(***************************************************************************)
(* A session whose connection is broken runs down.                         *)
(***************************************************************************)
\* Lines are written up to the last one and not beyond.
LinesLeft ==
  \A s \in Sessions :
    /\ pc[s] \in {"status", "heldId", "line"} => line[s] <= total[s]
    /\ pc[s] \in {"heldLine", "write"} => line[s] < total[s]

\* The most steps a session can still take without another command.
StepsLeft(s) ==
  LET left == 3 * (total[s] - line[s])
  IN  CASE pc[s] = "gone"               -> 0
        [] pc[s] = "command"            -> 1
        [] pc[s] = "record"             -> 2
        [] pc[s] \in {"split", "stream"} -> 3
        [] pc[s] = "write"              -> left + 2
        [] pc[s] = "heldLine"           -> left + 3
        [] pc[s] = "line"               -> left + 4
        [] pc[s] = "heldId"             -> left + 5
        [] pc[s] = "status"             -> left + 6

\* s takes another command, one of those its reader had buffered.
TakesCommand(s) ==
  pc[s] = "command" /\ pc'[s] = "status" /\ bodies' = bodies + 1

\* The commands still to come, and the steps of each session, run down
\* lexicographically.
RunsDown ==
  /\ bodies' \in {bodies, bodies + 1}
  /\ \A s \in Sessions : conn[s] = "broken" =>
       /\ conn'[s] = "broken"
       /\ \/ TakesCommand(s)
          \/ /\ StepsLeft(s)' <= StepsLeft(s)
             /\ pc'[s] # pc[s] => StepsLeft(s)' < StepsLeft(s)
             /\ pc'[s] = pc[s] => waitsOn'[s] = waitsOn[s] /\ line'[s] = line[s]

StepsLeftAreNumbers ==
  MaxBodies - bodies \in Nat /\ \A s \in Sessions : StepsLeft(s) \in Nat

\* A session takes its own steps only: the others stay where they are.
LEMMA OwnStep ==
  ASSUME TypeOK, NEW s \in Sessions, SessionStep(s)
  PROVE  \A r \in Sessions \ {s} :
           pc'[r] = pc[r] /\ line'[r] = line[r] /\ waitsOn'[r] = waitsOn[r] /\ conn'[r] = conn[r]
  BY DEF TypeOK, SessionStep, CheckHeld, Resume, GiveUp, StreamBody, GateLine, WriteLine, EndBody,
         EndSplit, RecordBody, ReadFails, Goto, EndSession, Write, Terminate, spendHoldLine,
         control, body, observed, vars

\* What the step of a session past its command does to the lines of its body.
LEMMA OwnLines ==
  ASSUME TypeOK, LinesLeft, NEW s \in Sessions, SessionStep(s)
  PROVE  /\ total' = total
         /\ conn[s] = "broken" => conn'[s] = "broken"
         /\ \/ pc[s] = "status" /\ pc'[s] \in {"heldId", "line", "stream"} /\ line'[s] = line[s]
            \/ pc[s] = "heldId" /\ pc'[s] \in {"line", "stream", "gone"} /\ line'[s] = line[s]
            \/ pc[s] = "heldLine" /\ pc'[s] \in {"write", "gone"} /\ line'[s] = line[s]
            \/ pc[s] = "stream" /\ pc'[s] = "record"
            \/ /\ pc[s] = "line" /\ line[s] < total[s]
               /\ pc'[s] \in {"write", "heldLine"} /\ line'[s] = line[s]
            \/ pc[s] = "line" /\ line[s] = total[s] /\ pc'[s] \in {"command", "split", "record"}
            \/ pc[s] = "write" /\ pc'[s] \in {"line", "gone"} /\ line'[s] = line[s] + 1
            \/ pc[s] = "split" /\ pc'[s] = "record"
            \/ pc[s] = "record" /\ pc'[s] = "command"
            \/ pc[s] = "command" /\ pc'[s] = "gone"
<1>1. CASE CheckHeld(s)
  BY <1>1 DEF TypeOK, CheckHeld, Goto, Serve, control, observed
<1>2. CASE Resume(s)
  BY <1>2 DEF TypeOK, Resume, Goto, Serve, Held, control, body, observed
<1>3. CASE GiveUp(s)
  BY <1>3 DEF TypeOK, GiveUp, EndSession, Goto, Held, control, body, observed
<1>4. CASE StreamBody(s)
  BY <1>4 DEF TypeOK, StreamBody, Terminate, Goto, control, body
<1>5. CASE GateLine(s)
  BY <1>5 DEF TypeOK, GateLine, spendHoldLine, Goto, observed
<1>6. CASE WriteLine(s)
  BY <1>6 DEF TypeOK, WriteLine, Write, EndSession, Goto, control, body
<1>7. CASE EndBody(s)
  BY <1>7 DEF TypeOK, EndBody, Terminate, Goto, control, body
<1>8. CASE EndSplit(s)
  BY <1>8 DEF TypeOK, EndSplit, Terminate, Goto, control, body
<1>9. CASE RecordBody(s)
  BY <1>9 DEF TypeOK, RecordBody, Goto, control, body, observed
<1>10. CASE ReadFails(s)
  BY <1>10 DEF TypeOK, ReadFails, Goto, control, body, observed
<1>. QED
  BY <1>1, <1>2, <1>3, <1>4, <1>5, <1>6, <1>7, <1>8, <1>9, <1>10 DEF SessionStep

\* Every other step, the commands of other sessions included, leaves the
\* connections that are broken and their sessions alone.
LEMMA OthersStep ==
  ASSUME TypeOK, [Next]_vars, \A s \in Sessions : ~SessionStep(s),
         NEW r \in Sessions, conn[r] = "broken", \A a \in Articles : ~BeginBody(r, a)
  PROVE  /\ conn'[r] = "broken" /\ pc'[r] = pc[r]
         /\ line'[r] = line[r] /\ total'[r] = total[r] /\ waitsOn'[r] = waitsOn[r]
  BY DEF TypeOK, Next, SetChaos, BeginBody, CloseConnection, Disconnect, Close, Stopped, Goto,
         control, body, observed, vars

LEMMA InitLinesLeft == Init => LinesLeft
  BY DEF Init, LinesLeft

LEMMA StepLinesLeft == TypeOK /\ LinesLeft /\ [Next]_vars => LinesLeft'
<1>. SUFFICES ASSUME TypeOK, LinesLeft, [Next]_vars PROVE LinesLeft'
  OBVIOUS
<1>1. ASSUME NEW s \in Sessions, SessionStep(s)
      PROVE  LinesLeft'
  <2>1. \A r \in Sessions : line[r] \in Nat /\ total[r] \in Nat
    BY DEF TypeOK
  <2>2. \A r \in Sessions \ {s} : pc'[r] = pc[r] /\ line'[r] = line[r] /\ total' = total
    BY <1>1, OwnStep, OwnLines
  <2>3. /\ pc'[s] \in {"status", "heldId", "line"} => line'[s] <= total'[s]
        /\ pc'[s] \in {"heldLine", "write"} => line'[s] < total'[s]
    BY <1>1, <2>1, OwnLines DEF LinesLeft
  <2>. QED  BY <2>2, <2>3 DEF LinesLeft
<1>2. ASSUME NEW s \in Sessions, NEW a \in Articles, BeginBody(s, a)
      PROVE  LinesLeft'
  <2>1. CASE a \notin Stored
    BY <1>2, <2>1 DEF BeginBody, LinesLeft
  <2>2. CASE a \in Stored
    <3>1. PICK n \in Nat : total' = [total EXCEPT ![s] = n]
      <4>1. BodyLines[a] \in Nat
        BY <2>2, ArticlesAssumption
      <4>. QED  BY <1>2, <2>2, <4>1 DEF BeginBody, LinesAfter
    <3>2. pc' = [pc EXCEPT ![s] = "status"] /\ line' = [line EXCEPT ![s] = 0]
      BY <1>2, <2>2 DEF BeginBody, Goto
    <3>. QED  BY <3>1, <3>2 DEF LinesLeft, TypeOK
  <2>. QED  BY <2>1, <2>2
<1>3. CASE \/ \E config \in Configs : SetChaos(config)
           \/ \E s \in Sessions : CloseConnection(s) \/ Disconnect(s)
           \/ Close \/ Stopped \/ UNCHANGED vars
  BY <1>3 DEF LinesLeft, SetChaos, CloseConnection, Disconnect, Close, Stopped, body, vars
<1>. QED  BY <1>1, <1>2, <1>3 DEF Next

\* The value of StepsLeft at each place.
LEMMA StepsLeftAt ==
  ASSUME TypeOK, LinesLeft, NEW s \in Sessions
  PROVE  /\ StepsLeft(s) \in Nat
         /\ pc[s] = "gone" => StepsLeft(s) = 0
         /\ pc[s] = "command" => StepsLeft(s) = 1
         /\ pc[s] = "record" => StepsLeft(s) = 2
         /\ pc[s] \in {"split", "stream"} => StepsLeft(s) = 3
         /\ pc[s] = "write" => StepsLeft(s) = 3 * (total[s] - line[s]) + 2
         /\ pc[s] = "heldLine" => StepsLeft(s) = 3 * (total[s] - line[s]) + 3
         /\ pc[s] = "line" => StepsLeft(s) = 3 * (total[s] - line[s]) + 4
         /\ pc[s] = "heldId" => StepsLeft(s) = 3 * (total[s] - line[s]) + 5
         /\ pc[s] = "status" => StepsLeft(s) = 3 * (total[s] - line[s]) + 6
<1>1. line[s] \in Nat /\ total[s] \in Nat /\ pc[s] \in Locations
  BY DEF TypeOK
<1>2. /\ pc[s] \in {"status", "heldId", "line"} => line[s] <= total[s]
      /\ pc[s] \in {"heldLine", "write"} => line[s] < total[s]
  BY DEF LinesLeft
<1>. QED  BY <1>1, <1>2 DEF StepsLeft, Locations, Held

\* One command at a time is read, and only so many.
LEMMA CommandsStep == TypeOK /\ [Next]_vars => bodies' \in {bodies, bodies + 1}
<1>. SUFFICES ASSUME TypeOK, [Next]_vars PROVE bodies' \in {bodies, bodies + 1}
  OBVIOUS
<1>1. ASSUME NEW s \in Sessions, SessionStep(s) PROVE bodies' = bodies
  BY <1>1 DEF SessionStep, CheckHeld, Resume, GiveUp, StreamBody, GateLine, WriteLine,
              EndBody, EndSplit, RecordBody, ReadFails, body
<1>. QED
  BY <1>1 DEF Next, SetChaos, BeginBody, CloseConnection, Disconnect, Close, Stopped,
              body, vars

LEMMA StepRunsDown ==
  TypeOK /\ LinesLeft /\ TypeOK' /\ LinesLeft' /\ [Next]_vars => RunsDown
<1>. SUFFICES ASSUME TypeOK, LinesLeft, TypeOK', LinesLeft', [Next]_vars,
                     NEW r \in Sessions, conn[r] = "broken"
              PROVE  /\ conn'[r] = "broken"
                     /\ \/ TakesCommand(r)
                        \/ /\ StepsLeft(r)' <= StepsLeft(r)
                           /\ pc'[r] # pc[r] => StepsLeft(r)' < StepsLeft(r)
                           /\ pc'[r] = pc[r] =>
                                waitsOn'[r] = waitsOn[r] /\ line'[r] = line[r]
  BY CommandsStep DEF RunsDown
<1>1. StepsLeft(r) \in Nat
  BY StepsLeftAt
<1>2. ASSUME pc'[r] = pc[r], line'[r] = line[r], total'[r] = total[r]
      PROVE  StepsLeft(r)' = StepsLeft(r)
  BY <1>2 DEF StepsLeft
<1>3. CASE SessionStep(r)
  <2>1. line[r] \in Nat /\ total[r] \in Nat
    BY DEF TypeOK
  <2>2. conn'[r] = "broken" /\ pc'[r] # pc[r] /\ total'[r] = total[r]
    BY <1>3, OwnLines
  <2>3. StepsLeft(r)' \in Nat /\ StepsLeft(r)' < StepsLeft(r)
    <3>1. /\ StepsLeft(r)' \in Nat
          /\ pc'[r] = "gone" => StepsLeft(r)' = 0
          /\ pc'[r] = "command" => StepsLeft(r)' = 1
          /\ pc'[r] = "record" => StepsLeft(r)' = 2
          /\ pc'[r] \in {"split", "stream"} => StepsLeft(r)' = 3
          /\ pc'[r] = "write" => StepsLeft(r)' = 3 * (total'[r] - line'[r]) + 2
          /\ pc'[r] = "heldLine" => StepsLeft(r)' = 3 * (total'[r] - line'[r]) + 3
          /\ pc'[r] = "line" => StepsLeft(r)' = 3 * (total'[r] - line'[r]) + 4
          /\ pc'[r] = "heldId" => StepsLeft(r)' = 3 * (total'[r] - line'[r]) + 5
          /\ pc'[r] = "status" => StepsLeft(r)' = 3 * (total'[r] - line'[r]) + 6
      <4>1. line'[r] \in Nat /\ total'[r] \in Nat /\ pc'[r] \in Locations
        BY DEF TypeOK
      <4>2. /\ pc'[r] \in {"status", "heldId", "line"} => line'[r] <= total'[r]
            /\ pc'[r] \in {"heldLine", "write"} => line'[r] < total'[r]
        BY DEF LinesLeft
      <4>. QED  BY <4>1, <4>2 DEF StepsLeft, Locations, Held
    <3>2. /\ pc[r] \in {"status", "heldId", "line"} => line[r] <= total[r]
          /\ pc[r] \in {"heldLine", "write"} => line[r] < total[r]
      BY DEF LinesLeft
    <3>3. line'[r] \in Nat
      BY DEF TypeOK
    <3>. QED  BY <1>1, <1>3, <2>1, <2>2, <3>1, <3>2, <3>3, StepsLeftAt, OwnLines
  <2>. QED  BY <1>1, <2>2, <2>3
<1>4. ASSUME NEW s \in Sessions \ {r}, SessionStep(s)
      PROVE  /\ conn'[r] = "broken" /\ pc'[r] = pc[r]
             /\ line'[r] = line[r] /\ total'[r] = total[r] /\ waitsOn'[r] = waitsOn[r]
  BY <1>4, OwnStep, OwnLines
<1>5. ASSUME NEW a \in Articles, BeginBody(r, a)
      PROVE  /\ conn'[r] = "broken"
             /\ \/ TakesCommand(r)
                \/ /\ pc'[r] = pc[r] /\ line'[r] = line[r]
                   /\ total'[r] = total[r] /\ waitsOn'[r] = waitsOn[r]
  BY <1>5 DEF BeginBody, TakesCommand, Goto, TypeOK
<1>6. CASE \A s \in Sessions, a \in Articles : ~SessionStep(s) /\ ~BeginBody(r, a)
  BY <1>1, <1>2, <1>6, ArticlesAssumption, OthersStep
<1>. QED  BY <1>1, <1>2, <1>3, <1>4, <1>5, <1>6

(***************************************************************************)
(* Once its connection is broken, from either end, a session serves what   *)
(* its reader has buffered and ends: each step it takes leaves it fewer    *)
(* commands (the model's bound on them stands for the buffer's size), or   *)
(* fewer steps in the one it serves, a number the body bounds, whatever    *)
(* the configuration, the other sessions and Close do meanwhile, and it    *)
(* stays where it is only in a wait (handleBody, heldBody, spendHoldLine   *)
(* and the command loop).                                                  *)
(***************************************************************************)
THEOREM BrokenRunDown ==
  Spec => []StepsLeftAreNumbers /\ [][RunsDown]_vars
<1>1. Init => LinesLeft
  BY InitLinesLeft
<1>2. TypeOK /\ LinesLeft /\ [Next]_vars => LinesLeft'
  BY StepLinesLeft
<1>3. TypeOK /\ LinesLeft => StepsLeftAreNumbers
  <2>1. TypeOK => MaxBodies - bodies \in Nat
    BY BoundsAssumption DEF TypeOK
  <2>. QED  BY <2>1, StepsLeftAt DEF StepsLeftAreNumbers
<1>4. TypeOK /\ LinesLeft /\ TypeOK' /\ LinesLeft' /\ [Next]_vars => [RunsDown]_vars
  BY StepRunsDown
<1>. QED  BY <1>1, <1>2, <1>3, <1>4, TypeCorrect, PTL DEF Spec
=============================================================================
