------------------------- MODULE ArticleStoreProofs -------------------------
(***************************************************************************)
(* Proofs about ArticleStore, for any message IDs, sessions, temporary     *)
(* names and bounds, with and without power loss.                          *)
(***************************************************************************)
EXTENDS ArticleStore, Induction

(***************************************************************************)
(* The next victim of a deletion is one of its victims.                    *)
(***************************************************************************)
LEMMA NextVictimIsOne ==
  ASSUME TypeOK, NEW s \in Sessions, removing[s] # {}
  PROVE  NextVictim(s) \in removing[s]
<1>1. removing[s] \subseteq Int /\ IsFiniteSet(removing[s])
  BY IdsAssumption, FS_Subset DEF TypeOK
<1>2. \E id \in removing[s] : \A other \in removing[s] : id <= other
  BY <1>1, LeastElement
<1>. QED  BY <1>2 DEF NextVictim

(***************************************************************************)
(* The steps.                                                              *)
(***************************************************************************)
PostingStep(s) ==
  \/ CreateTemp(s) \/ CreateFails(s) \/ Receive(s) \/ Sync(s) \/ Abort(s) \/ CommitDuplicate(s)
  \/ CommitRename(s) \/ CommitFails(s) \/ Insert(s) \/ Discard(s)

WorldStep ==
  (\E id \in StagedIds : Stage(id)) \/ WriteBack \/ Crash \/ LosePower \/ Start

LEMMA NextCases ==
  ASSUME [Next]_vars
  PROVE  \/ \E s \in Sessions :
              \/ Invoke(s) \/ PostingStep(s) \/ Lookup(s) \/ Find(s) \/ Read(s)
              \/ Pick(s) \/ Remove(s) \/ Unlist(s) \/ RemoveFails(s) \/ RemovedAll(s)
              \/ Reload(s) \/ Return(s)
         \/ WorldStep
         \/ UNCHANGED vars
BY DEF Next, SessionStep, PostStep, ReadStep, DeleteStep, PostingStep, WorldStep, Quiet

(***************************************************************************)
(* Types.                                                                  *)
(***************************************************************************)
LEMMA FaultType ==
  ASSUME TypeOK, Fault
  PROVE  faults' \in 0..MaxFaults
BY BoundsAssumption DEF TypeOK, Fault

LEMMA OnDiskType ==
  ASSUME TypeOK
  PROVE  /\ OnDisk \subseteq Ids /\ Cardinality(OnDisk) \in Nat
         /\ \A name \in Ids \ HiddenIds : name \in OnDisk <=> disk[name] # NoFile
<1>1. OnDisk \subseteq Ids /\ \A name \in Ids \ HiddenIds : name \in OnDisk <=> disk[name] # NoFile
  BY IdsAssumption DEF OnDisk, Skipped, Names
<1>. QED  BY <1>1, IdsAssumption, FS_Subset, FS_CardinalityType

LEMMA VictimsType ==
  ASSUME TypeOK, NEW c \in Deletions
  PROVE  Victims(c) \subseteq index /\ Cardinality(Victims(c)) \in Nat
<1>1. Victims(c) \subseteq index
  BY DEF Victims, Share
<1>. QED  BY <1>1, IdsAssumption, FS_Subset, FS_CardinalityType DEF TypeOK

LEMMA PostingTypes ==
  ASSUME TypeOK, CallsPlaced, TempsOwned, NEW s \in Sessions, PostingStep(s)
  PROVE  TypeOK'
<1>. USE DEF TypeOK, At, Goto, Answers, Names, Files, Places, Replies, counters, history, files
<1>1. CASE CreateTemp(s)
  BY <1>1 DEF CreateTemp
<1>2. CASE CreateFails(s)
  BY <1>2, FaultType DEF CreateFails
<1>3. CASE Receive(s)
  BY <1>3 DEF Receive, CallsPlaced, Posts, HaveTemp
<1>4. CASE Sync(s)
  BY <1>4 DEF Sync, TempsOwned, HaveTemp
<1>5. CASE Abort(s) \/ Discard(s)
  <2>1. temp[s] \in TempNames
    BY <1>5 DEF Abort, Discard, TempsOwned, HaveTemp
  <2>2. Discards(s)
    BY <1>5 DEF Abort, Discard
  <2>3. UNCHANGED <<up, index, holder, call, removing, calls, crashes, staged, promised, touched>>
    BY <1>5 DEF Abort, Discard
  <2>4. answer' \in [Sessions -> Replies \cup {NoCall}]
    BY <1>5 DEF Abort, Discard
  <2>5. disk' \in [Names -> Files] /\ saved' \in [Names -> Files] /\ dirty' \subseteq Names
    BY <2>2 DEF Discards, Unlink
  <2>6. faults' \in 0..MaxFaults
    BY <2>2, FaultType DEF Discards
  <2>7. strays' \subseteq TempNames
    BY <2>1, <2>2 DEF Discards
  <2>8. temp' \in [Sessions -> TempNames \cup {NoFile}] /\ pc' \in [Sessions -> Places]
    BY <2>2 DEF Discards
  <2>. QED  BY <2>3, <2>4, <2>5, <2>6, <2>7, <2>8
<1>6. CASE CommitDuplicate(s) \/ CommitFails(s)
  BY <1>6, FaultType DEF CommitDuplicate, CommitFails
<1>7. CASE CommitRename(s)
  BY <1>7 DEF CommitRename, Locks, Free, CallsPlaced, TempsOwned, Posts, HaveTemp
<1>8. CASE Insert(s)
  BY <1>8 DEF Insert, Unlocks, CallsPlaced, Posts, HaveTemp
<1>. QED  BY <1>1, <1>2, <1>3, <1>4, <1>5, <1>6, <1>7, <1>8 DEF PostingStep

LEMMA OtherTypes ==
  ASSUME TypeOK, CallsPlaced, NEW s \in Sessions,
         \/ Invoke(s) \/ Lookup(s) \/ Find(s) \/ Read(s) \/ Pick(s) \/ Remove(s) \/ Unlist(s)
         \/ RemoveFails(s) \/ RemovedAll(s) \/ Reload(s) \/ Return(s)
  PROVE  TypeOK'
<1>. USE DEF TypeOK, At, Goto, Answers, Names, Files, Places, Replies, counters, history, files
<1>1. CASE Invoke(s)
  BY <1>1, BoundsAssumption DEF Invoke, FirstPlace
<1>2. CASE Lookup(s)
  <2>1. (call[s].id \in index) \in BOOLEAN
    OBVIOUS
  <2>2. <<"exists", call[s].id \in index>> \in Replies
    BY <2>1
  <2>. QED  BY <1>2, <2>2 DEF Lookup
<1>3. CASE Find(s)
  BY <1>3 DEF Find
<1>4. CASE Read(s)
  BY <1>4, FaultType DEF Read, CallsPlaced, Singles
<1>5. CASE Pick(s)
  <2>1. call[s] \in Deletions
    BY <1>5 DEF Pick, CallsPlaced
  <2>2. Victims(call[s]) \subseteq index /\ Cardinality(Victims(call[s])) \in Nat
    BY <2>1, VictimsType
  <2>. QED  BY <1>5, <2>2 DEF Pick, Locks, Free
<1>6. CASE Remove(s)
  <2>1. NextVictim(s) \in Ids
    BY <1>6, NextVictimIsOne DEF Remove
  <2>. QED  BY <1>6, <2>1 DEF Remove, Unlink
<1>7. CASE Unlist(s)
  BY <1>7 DEF Unlist
<1>8. CASE RemoveFails(s)
  BY <1>8, FaultType DEF RemoveFails, GivesUp, Unlocks
<1>9. CASE RemovedAll(s)
  BY <1>9 DEF RemovedAll, Unlocks
<1>10. CASE Reload(s)
  BY <1>10, FaultType, OnDiskType DEF Reload
<1>11. CASE Return(s)
  BY <1>11 DEF Return
<1>. QED  BY <1>1, <1>2, <1>3, <1>4, <1>5, <1>6, <1>7, <1>8, <1>9, <1>10, <1>11

LEMMA WorldTypes ==
  ASSUME TypeOK, WorldStep
  PROVE  TypeOK'
<1>. USE DEF TypeOK, Names, Files, Places, Replies, counters, sessions, history, files
<1>1. ASSUME NEW id \in StagedIds, Stage(id) PROVE TypeOK'
  <2>1. id \in Ids
    BY IdsAssumption
  <2>2. staged' \in 0..MaxStaged
    BY <1>1, BoundsAssumption DEF Stage
  <2>3. disk' \in [Names -> Files] /\ saved' \in [Names -> Files]
    BY <1>1, <2>1 DEF Stage
  <2>. QED  BY <1>1, <2>1, <2>2, <2>3 DEF Stage
<1>2. CASE WriteBack
  BY <1>2 DEF WriteBack
<1>3. CASE Crash
  <2>1. crashes' \in 0..MaxCrashes
    BY <1>3, BoundsAssumption DEF Crash
  <2>. QED  BY <1>3, <2>1 DEF Crash, Stops
<1>4. CASE LosePower
  <2>1. crashes' \in 0..MaxCrashes
    BY <1>4, BoundsAssumption DEF LosePower
  <2>. QED  BY <1>4, <2>1 DEF LosePower, Stops
<1>5. CASE Start
  BY <1>5, OnDiskType DEF Start
<1>. QED  BY <1>1, <1>2, <1>3, <1>4, <1>5 DEF WorldStep

(***************************************************************************)
(* Where the sessions stand, their calls and the lock.                     *)
(***************************************************************************)
LEMMA StepCalls ==
  ASSUME TypeOK, CallsPlaced, [Next]_vars
  PROVE  CallsPlaced'
<1>. USE DEF TypeOK, At, Goto, CallsPlaced, HaveTemp, Places
<1>1. ASSUME NEW s \in Sessions, PostingStep(s) PROVE CallsPlaced'
  <2>1. CASE CreateTemp(s) \/ CreateFails(s) \/ Receive(s) \/ Sync(s)
    BY <2>1 DEF CreateTemp, CreateFails, Receive, Sync
  <2>2. CASE CommitDuplicate(s) \/ CommitRename(s) \/ CommitFails(s) \/ Insert(s)
    BY <2>2 DEF CommitDuplicate, CommitRename, CommitFails, Insert
  <2>3. CASE Abort(s) \/ Discard(s)
    BY <2>3 DEF Abort, Discard, Discards
  <2>. QED  BY <1>1, <2>1, <2>2, <2>3 DEF PostingStep
<1>2. ASSUME NEW s \in Sessions, Invoke(s) PROVE CallsPlaced'
  BY <1>2 DEF Invoke, Calls, FirstPlace, Posts, Singles, Deletions
<1>3. ASSUME NEW s \in Sessions,
             Lookup(s) \/ Find(s) \/ Read(s) \/ Reload(s) \/ Return(s)
      PROVE  CallsPlaced'
  BY <1>3 DEF Lookup, Find, Read, Reload, Return
<1>4. ASSUME NEW s \in Sessions,
             Pick(s) \/ Remove(s) \/ Unlist(s) \/ RemoveFails(s) \/ RemovedAll(s)
      PROVE  CallsPlaced'
  BY <1>4 DEF Pick, Remove, Unlist, RemoveFails, GivesUp, RemovedAll
<1>5. CASE WorldStep
  BY <1>5 DEF WorldStep, Stage, WriteBack, Crash, LosePower, Start, Stops, sessions
<1>6. CASE UNCHANGED vars
  BY <1>6 DEF vars, sessions
<1>. QED  BY <1>1, <1>2, <1>3, <1>4, <1>5, <1>6, NextCases

LEMMA StepLock ==
  ASSUME TypeOK, LockHeld, [Next]_vars
  PROVE  LockHeld'
<1>. USE SessionsAssumption DEF TypeOK, At, Goto, LockHeld, Writing, Locks, Free, Unlocks, Places
<1>1. ASSUME NEW s \in Sessions, PostingStep(s) PROVE LockHeld'
  <2>1. CASE CreateTemp(s) \/ CreateFails(s) \/ Receive(s) \/ Sync(s)
    BY <2>1 DEF CreateTemp, CreateFails, Receive, Sync
  <2>2. CASE CommitDuplicate(s) \/ CommitRename(s) \/ CommitFails(s) \/ Insert(s)
    BY <2>2 DEF CommitDuplicate, CommitRename, CommitFails, Insert
  <2>3. CASE Abort(s) \/ Discard(s)
    BY <2>3 DEF Abort, Discard, Discards
  <2>. QED  BY <1>1, <2>1, <2>2, <2>3 DEF PostingStep
<1>2. ASSUME NEW s \in Sessions, Invoke(s) PROVE LockHeld'
  BY <1>2 DEF Invoke, FirstPlace
<1>3. ASSUME NEW s \in Sessions,
             Lookup(s) \/ Find(s) \/ Read(s) \/ Reload(s) \/ Return(s)
      PROVE  LockHeld'
  BY <1>3 DEF Lookup, Find, Read, Reload, Return
<1>4. ASSUME NEW s \in Sessions,
             Pick(s) \/ Remove(s) \/ Unlist(s) \/ RemoveFails(s) \/ RemovedAll(s)
      PROVE  LockHeld'
  BY <1>4 DEF Pick, Remove, Unlist, RemoveFails, GivesUp, RemovedAll
<1>5. CASE WorldStep
  BY <1>5 DEF WorldStep, Stage, WriteBack, Crash, LosePower, Start, Stops, sessions
<1>6. CASE UNCHANGED vars
  BY <1>6 DEF vars, sessions
<1>. QED  BY <1>1, <1>2, <1>3, <1>4, <1>5, <1>6, NextCases

(***************************************************************************)
(* The temporary files.                                                    *)
(***************************************************************************)
\* Of two postings neither writes, removes or renames the other's file.
LEMMA StepTemps ==
  ASSUME TypeOK, CallsPlaced, TempsOwned, LockHeld, [Next]_vars
  PROVE  TempsOwned'
<1>. USE IdsAssumption, FilesAssumption DEF TypeOK, At, Goto, HaveTemp, Places, Names, Files
<1>1. ASSUME NEW s \in Sessions, PostingStep(s) PROVE TempsOwned'
  <2>. USE DEF TempsOwned
  <2>1. CASE CreateTemp(s)
    BY <2>1 DEF CreateTemp
  <2>2. CASE CreateFails(s)
    BY <2>2 DEF CreateFails, files
  <2>3. CASE Receive(s)
    BY <2>3 DEF Receive, CallsPlaced, Posts
  <2>4. CASE Sync(s)
    BY <2>4 DEF Sync
  <2>5. CASE CommitDuplicate(s) \/ CommitFails(s)
    BY <2>5 DEF CommitDuplicate, CommitFails, files
  <2>6. CASE CommitRename(s)
    BY <2>6 DEF CommitRename, CallsPlaced, Posts
  <2>7. CASE Insert(s)
    BY <2>7 DEF Insert, files
  <2>8. CASE Abort(s) \/ Discard(s)
    <3>1. /\ pc' = [pc EXCEPT ![s] = "reply"] /\ temp' = [temp EXCEPT ![s] = NoFile]
          /\ pc[s] \in HaveTemp /\ UNCHANGED call
      BY <2>8 DEF Abort, Discard, Discards
    <3>2. \A name \in TempNames : name # temp[s] =>
             disk'[name] = disk[name] /\ (name \in dirty' <=> name \in dirty)
      BY <2>8 DEF Abort, Discard, Discards, Unlink, files
    <3>. QED  BY <3>1, <3>2
  <2>. QED  BY <1>1, <2>1, <2>2, <2>3, <2>4, <2>5, <2>6, <2>7, <2>8 DEF PostingStep
<1>2. ASSUME NEW s \in Sessions,
             Invoke(s) \/ Lookup(s) \/ Find(s) \/ Read(s) \/ Reload(s) \/ Return(s)
      PROVE  TempsOwned'
  BY <1>2 DEF TempsOwned, Invoke, FirstPlace, Lookup, Find, Read, Reload, Return, files
<1>3. ASSUME NEW s \in Sessions, Pick(s) \/ Unlist(s) \/ RemoveFails(s) \/ RemovedAll(s)
      PROVE  TempsOwned'
  BY <1>3 DEF TempsOwned, Pick, Unlist, RemoveFails, GivesUp, RemovedAll, files
<1>4. ASSUME NEW s \in Sessions, Remove(s) PROVE TempsOwned'
  <2>1. NextVictim(s) \in Ids
    BY <1>4, NextVictimIsOne DEF Remove
  <2>. QED  BY <1>4, <2>1 DEF TempsOwned, Remove, Unlink
<1>5. ASSUME NEW id \in StagedIds, Stage(id) PROVE TempsOwned'
  BY <1>5 DEF TempsOwned, Stage, sessions
<1>6. CASE WriteBack \/ Crash \/ LosePower \/ Start
  BY <1>6 DEF TempsOwned, LockHeld, WriteBack, Crash, LosePower, Start, Stops, sessions, files
<1>7. CASE UNCHANGED vars
  BY <1>7 DEF TempsOwned, vars, sessions, files
<1>. QED  BY <1>1, <1>2, <1>3, <1>4, <1>5, <1>6, <1>7, NextCases DEF WorldStep

\* Only synced files become articles.
LEMMA StepTorn ==
  ASSUME TypeOK, CallsPlaced, TempsOwned, NeverTorn, [Next]_vars
  PROVE  NeverTorn'
<1>. USE IdsAssumption, FilesAssumption DEF TypeOK, At, NeverTorn, HaveTemp, Names, Files
<1>1. ASSUME NEW s \in Sessions, PostingStep(s) PROVE NeverTorn'
  <2>0. pc[s] \in HaveTemp => temp[s] \in TempNames
    BY DEF TempsOwned
  <2>1. CASE CreateTemp(s)
    BY <2>1 DEF CreateTemp
  <2>2. CASE CreateFails(s) \/ CommitDuplicate(s) \/ CommitFails(s) \/ Insert(s)
    BY <2>2 DEF CreateFails, CommitDuplicate, CommitFails, Insert, files
  <2>3. CASE Receive(s)
    BY <2>0, <2>3 DEF Receive
  <2>4. CASE Sync(s)
    BY <2>0, <2>4 DEF Sync
  <2>5. CASE CommitRename(s)
    BY <2>0, <2>5 DEF CommitRename, TempsOwned, CallsPlaced, Posts
  <2>6. CASE Abort(s) \/ Discard(s)
    BY <2>0, <2>6 DEF Abort, Discard, Discards, Unlink, files
  <2>. QED  BY <1>1, <2>1, <2>2, <2>3, <2>4, <2>5, <2>6 DEF PostingStep
<1>2. ASSUME NEW s \in Sessions,
             \/ Invoke(s) \/ Lookup(s) \/ Find(s) \/ Read(s) \/ Reload(s) \/ Return(s)
             \/ Pick(s) \/ Unlist(s) \/ RemoveFails(s) \/ RemovedAll(s)
      PROVE  NeverTorn'
  BY <1>2 DEF Invoke, Lookup, Find, Read, Reload, Return, Pick, Unlist, RemoveFails,
              GivesUp, RemovedAll, files
<1>3. ASSUME NEW s \in Sessions, Remove(s) PROVE NeverTorn'
  BY <1>3 DEF Remove, Unlink
<1>4. ASSUME NEW id \in StagedIds, Stage(id) PROVE NeverTorn'
  BY <1>4 DEF Stage
<1>5. CASE WriteBack
  BY <1>5 DEF WriteBack
<1>6. CASE Crash \/ LosePower \/ Start
  BY <1>6 DEF Crash, LosePower, Start, Stops, files
<1>7. CASE UNCHANGED vars
  BY <1>7 DEF vars, files
<1>. QED  BY <1>1, <1>2, <1>3, <1>4, <1>5, <1>6, <1>7, NextCases DEF WorldStep

LEMMA StepTempLeft ==
  ASSUME TypeOK, CallsPlaced, TempsOwned, NoTempLeft, [Next]_vars
  PROVE  NoTempLeft'
<1>. USE IdsAssumption, FilesAssumption DEF TypeOK, At, NoTempLeft, HaveTemp, Names, Files
<1>1. ASSUME NEW s \in Sessions, PostingStep(s) PROVE NoTempLeft'
  <2>0. pc[s] \in HaveTemp => temp[s] \in TempNames
    BY DEF TempsOwned
  <2>1. CASE CreateTemp(s)
    <3>1. PICK name \in TempNames :
            disk' = [disk EXCEPT ![name] = Partial] /\ temp' = [temp EXCEPT ![s] = name]
      BY <2>1 DEF CreateTemp
    <3>2. temp[s] = NoFile /\ UNCHANGED strays
      BY <2>1 DEF CreateTemp, TempsOwned, history
    <3>. QED  BY <3>1, <3>2
  <2>2. CASE CreateFails(s) \/ CommitDuplicate(s) \/ CommitFails(s) \/ Insert(s)
    BY <2>2 DEF CreateFails, CommitDuplicate, CommitFails, Insert, files, history
  <2>3. CASE Receive(s)
    BY <2>0, <2>3 DEF Receive, history
  <2>4. CASE Sync(s)
    BY <2>0, <2>4 DEF Sync, history
  <2>5. CASE CommitRename(s)
    BY <2>0, <2>5 DEF CommitRename, CallsPlaced, Posts, history
  <2>6. CASE Abort(s) \/ Discard(s)
    BY <2>0, <2>6 DEF Abort, Discard, Discards, Unlink, files
  <2>. QED  BY <1>1, <2>1, <2>2, <2>3, <2>4, <2>5, <2>6 DEF PostingStep
<1>2. ASSUME NEW s \in Sessions,
             \/ Invoke(s) \/ Lookup(s) \/ Find(s) \/ Read(s) \/ Reload(s) \/ Return(s)
             \/ Pick(s) \/ Unlist(s) \/ RemoveFails(s) \/ RemovedAll(s)
      PROVE  NoTempLeft'
  BY <1>2 DEF Invoke, Lookup, Find, Read, Reload, Return, Pick, Unlist, RemoveFails,
              GivesUp, RemovedAll, files, history
<1>3. ASSUME NEW s \in Sessions, Remove(s) PROVE NoTempLeft'
  BY <1>3 DEF Remove, Unlink
<1>4. ASSUME NEW id \in StagedIds, Stage(id) PROVE NoTempLeft'
  BY <1>4 DEF Stage, sessions
<1>5. CASE Crash \/ LosePower
  BY <1>5 DEF Crash, LosePower, Stops, files
<1>6. CASE WriteBack \/ Start
  BY <1>6 DEF WriteBack, Start, files, sessions, history
<1>7. CASE UNCHANGED vars
  BY <1>7 DEF vars, files, sessions, history
<1>. QED  BY <1>1, <1>2, <1>3, <1>4, <1>5, <1>6, <1>7, NextCases DEF WorldStep

(***************************************************************************)
(* The index, the directory and the promises.                              *)
(***************************************************************************)
Accounted == Underway /\ IndexAccounted /\ PromisesKept

LEMMA OneWriter ==
  ASSUME LockHeld
  PROVE  /\ \A s, t \in Sessions : pc[s] \in Writing /\ pc[t] \in Writing => s = t
         /\ Free => \A s \in Sessions : pc[s] \notin Writing
BY SessionsAssumption DEF LockHeld, Free

\* Steps that touch no article, no entry of the index and no writer.
BesidesArticles ==
  /\ UNCHANGED <<index, touched, promised, up>>
  /\ \A id \in Ids : disk'[id] = disk[id]
  /\ \A s \in Sessions :
       \/ pc[s] \notin Writing /\ pc'[s] \notin Writing
       \/ pc'[s] = pc[s] /\ call'[s] = call[s] /\ removing'[s] = removing[s]

LEMMA BesidesKeepsAccount ==
  ASSUME TypeOK, CallsPlaced, Accounted, BesidesArticles
  PROVE  Accounted'
<1>. USE DEF BesidesArticles, Writing
<1>0. ASSUME NEW s \in Sessions, pc[s] \in Writing \/ pc'[s] \in Writing
      PROVE  /\ pc'[s] = pc[s] /\ call'[s] = call[s] /\ removing'[s] = removing[s]
             /\ NextVictim(s)' = NextVictim(s)
  BY <1>0 DEF NextVictim
<1>1. ASSUME NEW s \in Sessions
      PROVE  /\ pc[s] = "insert" => call[s].id \in Ids
             /\ pc[s] = "unlist" /\ Underway => NextVictim(s) \in Ids
  BY NextVictimIsOne DEF CallsPlaced, HaveTemp, Posts, Underway, TypeOK
<1>2. Underway'
  BY <1>0, <1>1 DEF Accounted, Underway
<1>3. \A id \in Ids : (Inserting(id)' <=> Inserting(id)) /\ (Unlisting(id)' <=> Unlisting(id))
  BY <1>0 DEF Inserting, Unlisting
<1>4. IndexAccounted'
  BY <1>3 DEF Accounted, IndexAccounted
<1>5. PromisesKept'
  BY DEF Accounted, PromisesKept
<1>. QED  BY <1>2, <1>4, <1>5 DEF Accounted

\* The rename: the file is there, and the entry is still to come.
LEMMA RenameKeepsAccount ==
  ASSUME TypeOK, CallsPlaced, LockHeld, TempsOwned, Accounted, NEW s \in Sessions, CommitRename(s)
  PROVE  Accounted'
<1>. DEFINE new == call[s].id
<1>1. /\ new \in Ids /\ new \notin index /\ up /\ Free
      /\ call[s].content \in Contents /\ pc[s] = "commit"
      /\ UNCHANGED <<index, call, up, touched, promised>>
      /\ pc' = [pc EXCEPT ![s] = "insert"]
  BY DEF CommitRename, At, Locks, Goto, Duplicate, CallsPlaced, HaveTemp, Posts, history
<1>2. \A id \in Ids : disk'[id] = IF id = new THEN call[s].content ELSE disk[id]
  BY <1>1, IdsAssumption DEF CommitRename, TempsOwned, HaveTemp, TypeOK, Names
<1>3. /\ \A t \in Sessions : pc[t] \notin Writing /\ (t # s => pc'[t] \notin Writing)
      /\ pc'[s] = "insert"
  BY <1>1, OneWriter DEF TypeOK
<1>4. \A id \in Ids : /\ ~Inserting(id) /\ ~Unlisting(id)
                      /\ Inserting(id)' <=> id = new
                      /\ ~Unlisting(id)'
  BY <1>1, <1>3 DEF Inserting, Unlisting, Writing
<1>5. Underway'
  BY <1>1, <1>2, <1>3 DEF Underway, Writing
<1>. HIDE DEF new
<1>6. IndexAccounted'
  <2>1. ASSUME NEW id \in Ids \ (HiddenIds \cup touched)
        PROVE  id \in index' <=> (disk'[id] # NoFile /\ ~Inserting(id)') \/ Unlisting(id)'
    <3>1. id \in index <=> (disk[id] # NoFile /\ ~Inserting(id)) \/ Unlisting(id)
      BY <1>1 DEF Accounted, IndexAccounted
    <3>. QED  BY <1>1, <1>2, <1>4, <3>1
  <2>. QED  BY <1>1, <2>1 DEF Accounted, IndexAccounted
<1>7. PromisesKept'
  BY <1>1, <1>2 DEF Accounted, PromisesKept
<1>. QED  BY <1>5, <1>6, <1>7 DEF Accounted

\* The entry: the article is listed and promised.
LEMMA InsertKeepsAccount ==
  ASSUME TypeOK, CallsPlaced, LockHeld, Accounted, NEW s \in Sessions, Insert(s)
  PROVE  Accounted'
<1>. DEFINE new == call[s].id
<1>1. /\ new \in Ids /\ up /\ pc[s] = "insert" /\ call[s].content \in Contents
      /\ UNCHANGED <<disk, call, up, touched>>
      /\ index' = index \cup {new}
      /\ promised' = [promised EXCEPT ![new] = call[s].content]
      /\ pc' = [pc EXCEPT ![s] = "reply"]
  BY DEF Insert, At, Goto, CallsPlaced, HaveTemp, Posts, files
<1>2. new \notin touched => disk[new] = call[s].content
  BY <1>1 DEF Accounted, Underway
<1>3. \A t \in Sessions : pc'[t] \notin Writing /\ (t # s => pc[t] \notin Writing)
  BY <1>1, OneWriter DEF TypeOK, Writing
<1>4. \A id \in Ids : /\ Inserting(id) <=> id = new
                      /\ ~Unlisting(id) /\ ~Inserting(id)' /\ ~Unlisting(id)'
  BY <1>1, <1>3 DEF Inserting, Unlisting, Writing
<1>5. Underway'
  BY <1>3 DEF Underway, Writing
<1>. HIDE DEF new
<1>6. IndexAccounted'
  <2>1. ASSUME NEW id \in Ids \ (HiddenIds \cup touched)
        PROVE  id \in index' <=> (disk'[id] # NoFile /\ ~Inserting(id)') \/ Unlisting(id)'
    <3>1. id \in index <=> (disk[id] # NoFile /\ ~Inserting(id)) \/ Unlisting(id)
      BY <1>1 DEF Accounted, IndexAccounted
    <3>. QED  BY <1>1, <1>2, <1>4, <3>1, FilesAssumption
  <2>. QED  BY <1>1, <2>1 DEF Accounted, IndexAccounted
<1>7. PromisesKept'
  <2>1. touched \subseteq StagedIds
    BY DEF Accounted, IndexAccounted
  <2>. QED  BY <1>1, <1>2, <2>1 DEF Accounted, PromisesKept, TypeOK
<1>. QED  BY <1>5, <1>6, <1>7 DEF Accounted

\* A deletion begins: what it is going to remove is listed.
LEMMA PickKeepsAccount ==
  ASSUME TypeOK, CallsPlaced, LockHeld, Accounted, NEW s \in Sessions, Pick(s)
  PROVE  Accounted'
<1>1. /\ up /\ pc[s] = "pick" /\ Free /\ call[s] \in Deletions
      /\ UNCHANGED <<disk, index, call, up, touched, promised>>
      /\ removing' = [removing EXCEPT ![s] = Victims(call[s])]
      /\ pc' = [pc EXCEPT ![s] = "remove"]
  BY DEF Pick, At, Goto, Locks, CallsPlaced, HaveTemp, files, history
<1>2. removing'[s] \subseteq index
  BY <1>1, VictimsType DEF TypeOK
<1>3. /\ \A t \in Sessions : pc[t] \notin Writing /\ (t # s => pc'[t] \notin Writing)
      /\ pc'[s] = "remove"
  BY <1>1, OneWriter DEF TypeOK
<1>4. \A id \in Ids : ~Inserting(id) /\ ~Unlisting(id) /\ ~Inserting(id)' /\ ~Unlisting(id)'
  BY <1>3 DEF Inserting, Unlisting, Writing
<1>5. Underway'
  BY <1>1, <1>2, <1>3 DEF Underway, Writing
<1>6. IndexAccounted' /\ PromisesKept'
  BY <1>1, <1>4 DEF Accounted, IndexAccounted, PromisesKept
<1>. QED  BY <1>5, <1>6 DEF Accounted

\* The file is gone, the entry is not.
LEMMA RemoveKeepsAccount ==
  ASSUME TypeOK, LockHeld, Accounted, NEW s \in Sessions, Remove(s)
  PROVE  Accounted'
<1>. DEFINE victim == NextVictim(s)
<1>1. /\ up /\ pc[s] = "remove" /\ removing[s] # {}
      /\ UNCHANGED <<index, call, up, touched, removing>>
      /\ disk' = [disk EXCEPT ![victim] = NoFile]
      /\ promised' = [promised EXCEPT ![victim] = NoFile]
      /\ pc' = [pc EXCEPT ![s] = "unlist"]
  BY DEF Remove, At, Goto, Unlink
<1>2. victim \in removing[s] /\ removing[s] \subseteq index /\ victim \in Ids
  BY <1>1, NextVictimIsOne DEF TypeOK, Accounted, Underway
<1>3. /\ \A t \in Sessions : t # s => pc[t] \notin Writing /\ pc'[t] \notin Writing
      /\ pc'[s] = "unlist" /\ NextVictim(s)' = victim
  BY <1>1, OneWriter DEF TypeOK, Writing, NextVictim
<1>. HIDE DEF victim
<1>4. \A id \in Ids : /\ disk'[id] = IF id = victim THEN NoFile ELSE disk[id]
                      /\ promised'[id] = IF id = victim THEN NoFile ELSE promised[id]
  <2>1. /\ disk \in [Names -> Files] /\ Ids \subseteq Names
        /\ promised \in [Ids -> Contents \cup {NoFile}]
    BY DEF TypeOK, Names
  <2>. QED  BY <1>1, <2>1
<1>5. \A id \in Ids : /\ ~Inserting(id) /\ ~Unlisting(id) /\ ~Inserting(id)'
                      /\ Unlisting(id)' <=> id = victim
  BY <1>1, <1>3 DEF Inserting, Unlisting, Writing
<1>6. Underway'
  BY <1>1, <1>2, <1>3, <1>4 DEF Underway, Writing
<1>7. IndexAccounted'
  <2>1. ASSUME NEW id \in Ids \ (HiddenIds \cup touched)
        PROVE  id \in index' <=> (disk'[id] # NoFile /\ ~Inserting(id)') \/ Unlisting(id)'
    <3>1. id \in index <=> (disk[id] # NoFile /\ ~Inserting(id)) \/ Unlisting(id)
      BY <1>1 DEF Accounted, IndexAccounted
    <3>. QED  BY <1>1, <1>2, <1>4, <1>5, <3>1
  <2>. QED  BY <1>1, <2>1 DEF Accounted, IndexAccounted
<1>8. PromisesKept'
  <2>1. ASSUME NEW id \in Ids \ (HiddenIds \cup StagedIds), promised'[id] # NoFile
        PROVE  disk'[id] = promised'[id] /\ (up' => id \in index')
    <3>1. promised[id] # NoFile => disk[id] = promised[id] /\ id \in index
      BY <1>1 DEF Accounted, PromisesKept
    <3>. QED  BY <1>1, <1>4, <2>1, <3>1
  <2>. QED  BY <2>1 DEF PromisesKept
<1>. QED  BY <1>6, <1>7, <1>8 DEF Accounted

\* The entry is gone as well.
LEMMA UnlistKeepsAccount ==
  ASSUME TypeOK, LockHeld, Accounted, NEW s \in Sessions, Unlist(s)
  PROVE  Accounted'
<1>. DEFINE victim == NextVictim(s)
<1>1. /\ up /\ pc[s] = "unlist"
      /\ UNCHANGED <<disk, call, up, touched, promised>>
      /\ index' = index \ {victim}
      /\ removing' = [removing EXCEPT ![s] = @ \ {victim}]
      /\ pc' = [pc EXCEPT ![s] = "remove"]
  BY DEF Unlist, At, Goto, files, history
<1>2. /\ removing[s] \subseteq index /\ victim \in removing[s] /\ victim \in Ids
      /\ promised[victim] = NoFile
      /\ victim \notin touched => disk[victim] = NoFile
  BY <1>1, NextVictimIsOne DEF TypeOK, Accounted, Underway
<1>3. /\ \A t \in Sessions : t # s => pc[t] \notin Writing /\ pc'[t] \notin Writing
      /\ pc'[s] = "remove"
  BY <1>1, OneWriter DEF TypeOK, Writing
<1>. HIDE DEF victim
<1>4. \A id \in Ids : ~Inserting(id) /\ ~Inserting(id)' /\ ~Unlisting(id)'
  BY <1>1, <1>3 DEF Inserting, Unlisting, Writing
<1>5. \A id \in Ids : Unlisting(id) <=> id = victim
  BY <1>1, <1>3 DEF Unlisting, Writing, victim
<1>6. Underway'
  <2>1. removing'[s] = removing[s] \ {victim}
    BY <1>1 DEF TypeOK
  <2>. QED  BY <1>1, <1>2, <1>3, <2>1 DEF Underway, Writing
<1>7. IndexAccounted'
  <2>1. ASSUME NEW id \in Ids \ (HiddenIds \cup touched)
        PROVE  id \in index' <=> (disk'[id] # NoFile /\ ~Inserting(id)') \/ Unlisting(id)'
    <3>1. id \in index <=> (disk[id] # NoFile /\ ~Inserting(id)) \/ Unlisting(id)
      BY <1>1 DEF Accounted, IndexAccounted
    <3>. QED  BY <1>1, <1>2, <1>4, <1>5, <3>1
  <2>. QED  BY <1>1, <2>1 DEF Accounted, IndexAccounted
<1>8. PromisesKept'
  BY <1>1, <1>2 DEF Accounted, PromisesKept
<1>. QED  BY <1>6, <1>7, <1>8 DEF Accounted

\* A deletion ends, or gives up: it has left nothing half done.
LEMMA EndOfDeletionKeepsAccount ==
  ASSUME TypeOK, LockHeld, Accounted, NEW s \in Sessions, RemoveFails(s) \/ RemovedAll(s)
  PROVE  Accounted'
<1>1. /\ up /\ pc[s] = "remove"
      /\ UNCHANGED <<disk, index, call, up, touched, promised>>
      /\ pc' = [pc EXCEPT ![s] = "reply"]
  BY DEF RemoveFails, GivesUp, RemovedAll, At, Goto, files, history
<1>2. \A t \in Sessions : pc'[t] \notin Writing /\ (t # s => pc[t] \notin Writing)
  BY <1>1, OneWriter DEF TypeOK, Writing
<1>3. \A id \in Ids : ~Inserting(id) /\ ~Unlisting(id) /\ ~Inserting(id)' /\ ~Unlisting(id)'
  BY <1>1, <1>2 DEF Inserting, Unlisting, Writing
<1>4. Underway'
  BY <1>2 DEF Underway, Writing
<1>5. IndexAccounted' /\ PromisesKept'
  BY <1>1, <1>3 DEF Accounted, IndexAccounted, PromisesKept
<1>. QED  BY <1>4, <1>5 DEF Accounted

\* The index is read from the directory, with nobody writing.
LEMMA RereadKeepsAccount ==
  ASSUME TypeOK, Accounted,
         \A s \in Sessions : pc[s] \notin Writing /\ pc'[s] \notin Writing,
         index' = OnDisk, touched' = {}, UNCHANGED <<disk, promised>>
  PROVE  Accounted'
<1>1. \A id \in Ids : ~Inserting(id)' /\ ~Unlisting(id)'
  BY DEF Inserting, Unlisting, Writing
<1>2. Underway'
  BY DEF Underway, Writing
<1>3. IndexAccounted'
  BY <1>1, OnDiskType DEF IndexAccounted
<1>4. PromisesKept'
  BY OnDiskType DEF Accounted, PromisesKept
<1>. QED  BY <1>2, <1>3, <1>4 DEF Accounted

LEMMA ReloadKeepsAccount ==
  ASSUME TypeOK, CallsPlaced, LockHeld, Accounted, NEW s \in Sessions, Reload(s)
  PROVE  Accounted'
<1>1. Free /\ pc[s] = "reload" /\ pc' = [pc EXCEPT ![s] = "reply"] /\ UNCHANGED <<disk, promised>>
  BY DEF Reload, At, Goto, files
<1>2. \A t \in Sessions : pc[t] \notin Writing /\ pc'[t] \notin Writing
  BY <1>1, OneWriter DEF TypeOK, Writing
<1>3. CASE index' = OnDisk /\ touched' = {}
  BY <1>1, <1>2, <1>3, RereadKeepsAccount
<1>4. CASE UNCHANGED <<index, touched>>
  <2>1. BesidesArticles
    BY <1>1, <1>2, <1>4 DEF BesidesArticles, Reload
  <2>. QED  BY <2>1, BesidesKeepsAccount
<1>. QED  BY <1>3, <1>4 DEF Reload

LEMMA WorldKeepsAccount ==
  ASSUME TypeOK, CallsPlaced, LockHeld, Accounted, WorldStep
  PROVE  Accounted'
<1>1. ASSUME NEW id \in StagedIds, Stage(id) PROVE Accounted'
  <2>1. /\ touched' = touched \cup {id}
        /\ UNCHANGED <<index, up, pc, call, removing, promised>>
        /\ \A other \in Ids : other # id => disk'[other] = disk[other]
    BY <1>1, IdsAssumption DEF Stage, sessions, TypeOK, Names
  <2>2. Underway'
    <3>1. ASSUME NEW s \in Sessions
          PROVE  /\ pc[s] = "insert" => call[s].id \in Ids
                 /\ pc[s] = "unlist" => NextVictim(s) \in Ids
      BY NextVictimIsOne DEF CallsPlaced, HaveTemp, Posts, Accounted, Underway, TypeOK
    <3>2. \A s \in Sessions : NextVictim(s)' = NextVictim(s)
      BY <2>1 DEF NextVictim
    <3>. QED  BY <2>1, <3>1, <3>2 DEF Accounted, Underway
  <2>3. \A other \in Ids : /\ Inserting(other)' <=> Inserting(other)
                           /\ Unlisting(other)' <=> Unlisting(other)
    BY <2>1 DEF Inserting, Unlisting, NextVictim
  <2>4. IndexAccounted'
    BY <2>1, <2>3 DEF Accounted, IndexAccounted
  <2>5. PromisesKept'
    BY <2>1 DEF Accounted, PromisesKept
  <2>. QED  BY <2>2, <2>4, <2>5 DEF Accounted
<1>2. CASE WriteBack
  <2>1. BesidesArticles
    BY <1>2 DEF BesidesArticles, WriteBack, sessions, history
  <2>. QED  BY <2>1, BesidesKeepsAccount
<1>3. CASE Crash \/ LosePower
  <2>1. ~up' /\ touched' = touched /\ \A s \in Sessions : pc'[s] = "idle"
    BY <1>3 DEF Crash, LosePower, Stops
  <2>2. Underway' /\ IndexAccounted'
    BY <2>1 DEF Accounted, Underway, IndexAccounted
  <2>3. PromisesKept'
    BY <1>3, <2>1 DEF Crash, LosePower, Accounted, PromisesKept, files
  <2>. QED  BY <2>2, <2>3 DEF Accounted
<1>4. CASE Start
  <2>1. \A s \in Sessions : pc[s] \notin Writing /\ pc'[s] \notin Writing
    BY <1>4 DEF Start, LockHeld, Writing, sessions
  <2>. QED  BY <1>4, <2>1, RereadKeepsAccount DEF Start, files
<1>. QED  BY <1>1, <1>2, <1>3, <1>4 DEF WorldStep

LEMMA StepAccount ==
  ASSUME TypeOK, CallsPlaced, LockHeld, TempsOwned, Accounted, [Next]_vars
  PROVE  Accounted'
<1>. USE DEF At, Goto
<1>1. ASSUME NEW s \in Sessions,
             \/ CreateTemp(s) \/ CreateFails(s) \/ Receive(s) \/ Sync(s) \/ Abort(s)
             \/ CommitDuplicate(s) \/ CommitFails(s) \/ Discard(s)
      PROVE  Accounted'
  <2>1. pc[s] \in HaveTemp => temp[s] \in TempNames
    BY DEF TempsOwned
  <2>2. pc[s] \notin Writing /\ \E place \in Places \ Writing : pc' = [pc EXCEPT ![s] = place]
    BY <1>1 DEF CreateTemp, CreateFails, Receive, Sync, Abort, CommitDuplicate, CommitFails,
                Discard, Discards, Writing, Places
  <2>3. UNCHANGED <<index, touched, promised, up, call, removing>>
    BY <1>1 DEF CreateTemp, CreateFails, Receive, Sync, Abort, CommitDuplicate, CommitFails,
                Discard, history
  <2>4. \A id \in Ids : disk'[id] = disk[id]
    BY <1>1, <2>1, IdsAssumption
       DEF CreateTemp, CreateFails, Receive, Sync, Abort, CommitDuplicate, CommitFails,
           Discard, Discards, Unlink, HaveTemp, TypeOK, Names, files
  <2>5. BesidesArticles
    BY <2>2, <2>3, <2>4 DEF BesidesArticles, TypeOK
  <2>. QED  BY <2>5, BesidesKeepsAccount
<1>2. ASSUME NEW s \in Sessions, Invoke(s) \/ Lookup(s) \/ Find(s) \/ Read(s) \/ Return(s)
      PROVE  Accounted'
  <2>1. BesidesArticles
    BY <1>2 DEF BesidesArticles, Invoke, FirstPlace, Lookup, Find, Read, Return, Writing,
                TypeOK, files, history
  <2>. QED  BY <2>1, BesidesKeepsAccount
<1>3. CASE UNCHANGED vars
  <2>1. BesidesArticles
    BY <1>3 DEF BesidesArticles, vars, files, sessions, history
  <2>. QED  BY <2>1, BesidesKeepsAccount
<1>. QED
  BY <1>1, <1>2, <1>3, NextCases, RenameKeepsAccount, InsertKeepsAccount, PickKeepsAccount,
     RemoveKeepsAccount, UnlistKeepsAccount, EndOfDeletionKeepsAccount, ReloadKeepsAccount,
     WorldKeepsAccount
     DEF PostingStep

(***************************************************************************)
(* The inductive invariant.                                                *)
(***************************************************************************)
LEMMA InitialStore ==
  ASSUME Init
  PROVE  StoreInv /\ NoTempLeft
<1>. USE IdsAssumption, FilesAssumption DEF Init, Names, Files
<1>1. PICK present \in [StagedIds -> Contents \cup {NoFile}] :
        disk = [name \in Names |-> IF name \in StagedIds THEN present[name] ELSE NoFile]
  OBVIOUS
<1>2. /\ disk \in [Names -> Files] /\ saved \in [Names -> Files]
      /\ \A name \in TempNames : disk[name] = NoFile
      /\ \A id \in Ids \ StagedIds : disk[id] = NoFile
      /\ \A id \in Ids : Partial \notin {disk[id], saved[id]}
  BY <1>1
<1>3. /\ index \subseteq Ids
      /\ \A id \in Ids \ HiddenIds : id \in index <=> disk[id] # NoFile
  BY DEF OnDisk, Skipped
<1>4. \A s \in Sessions : pc[s] = "idle" /\ temp[s] = NoFile
  OBVIOUS
<1>5. TypeOK
  BY <1>2, <1>3, BoundsAssumption DEF TypeOK, Places, Replies
<1>6. CallsPlaced /\ LockHeld /\ TempsOwned /\ NeverTorn
  BY <1>2, <1>4 DEF CallsPlaced, LockHeld, TempsOwned, NeverTorn, HaveTemp, Writing
<1>7. Underway /\ IndexAccounted /\ PromisesKept
  BY <1>3, <1>4 DEF Underway, IndexAccounted, PromisesKept, Inserting, Unlisting
<1>8. NoTempLeft
  BY <1>2 DEF NoTempLeft
<1>. QED  BY <1>5, <1>6, <1>7, <1>8 DEF StoreInv

LEMMA StepTypes ==
  ASSUME TypeOK, CallsPlaced, TempsOwned, [Next]_vars
  PROVE  TypeOK'
<1>1. CASE UNCHANGED vars
  BY <1>1 DEF TypeOK, vars, files, sessions, counters, history
<1>. QED  BY <1>1, NextCases, PostingTypes, OtherTypes, WorldTypes

(***************************************************************************)
(* The lock, the temporary files, what the holder of the lock has done and *)
(* not yet listed, and the promises, through every step, failure and crash *)
(* of commit, deleteByID, deleteByPrefix and reload.                       *)
(***************************************************************************)
THEOREM StoreInvariant == Spec => []StoreInv
<1>1. Init => StoreInv
  BY InitialStore
<1>2. StoreInv /\ [Next]_vars => StoreInv'
  <2>. SUFFICES ASSUME StoreInv, [Next]_vars PROVE StoreInv'
    OBVIOUS
  <2>1. TypeOK'
    BY StepTypes DEF StoreInv
  <2>2. CallsPlaced' /\ LockHeld'
    BY StepCalls, StepLock DEF StoreInv
  <2>3. TempsOwned' /\ NeverTorn'
    BY StepTemps, StepTorn DEF StoreInv
  <2>4. Accounted'
    BY StepAccount DEF StoreInv, Accounted
  <2>. QED  BY <2>1, <2>2, <2>3, <2>4 DEF StoreInv, Accounted
<1>. QED  BY <1>1, <1>2, PTL DEF Spec

(***************************************************************************)
(* Every variable keeps its type: the index lists no temporary file, and   *)
(* the files of a session are those CreateTemp has drawn.                  *)
(***************************************************************************)
THEOREM TypeCorrect == Spec => []TypeOK
<1>1. StoreInv => TypeOK
  BY DEF StoreInv
<1>. QED  BY <1>1, StoreInvariant, PTL

(***************************************************************************)
(* Whenever the lock is free the index lists exactly what the directory    *)
(* holds, whatever failed or crashed before (commit, deleteByPrefix,       *)
(* reload), but for hidden IDs and what the operator has touched.          *)
(***************************************************************************)
THEOREM IndexMatches == Spec => []IndexMatchesDisk
<1>1. StoreInv => IndexMatchesDisk
  <2>. SUFFICES ASSUME StoreInv, up, Free,
                       NEW id \in Ids \ (HiddenIds \cup touched)
                PROVE  id \in index <=> disk[id] # NoFile
    BY DEF IndexMatchesDisk
  <2>1. \A s \in Sessions : pc[s] \notin Writing
    BY SessionsAssumption DEF StoreInv, LockHeld, Free
  <2>2. ~Inserting(id) /\ ~Unlisting(id)
    BY <2>1 DEF Inserting, Unlisting, Writing
  <2>. QED  BY <2>2 DEF StoreInv, IndexAccounted
<1>. QED  BY <1>1, StoreInvariant, PTL

(***************************************************************************)
(* Only whole articles are ever listed, a power loss at any moment         *)
(* included: a file is synced before it gets an article's name.            *)
(***************************************************************************)
THEOREM WholeArticles == Spec => []OnlyWholeArticles
<1>1. StoreInv => OnlyWholeArticles
  BY DEF StoreInv, TypeOK, NeverTorn, OnlyWholeArticles
<1>. QED  BY <1>1, StoreInvariant, PTL

(***************************************************************************)
(* A posting that was answered with 240 stays listed with its content      *)
(* until it is deleted, through later postings of the same ID, failed      *)
(* deletions, reloads and restarts of the process.                         *)
(***************************************************************************)
THEOREM PromisesHold == Spec => []PromisesKept
<1>1. StoreInv => PromisesKept
  BY DEF StoreInv
<1>. QED  BY <1>1, StoreInvariant, PTL

(***************************************************************************)
(* No posting leaves its temporary file behind, unless a crash or a failed *)
(* removal made it (readPostedArticle's cleanup, handlePost, commit).      *)
(***************************************************************************)
THEOREM NoTempIsLeft == Spec => []NoTempLeft
<1>1. Init => NoTempLeft
  BY InitialStore
<1>2. StoreInv /\ NoTempLeft /\ [Next]_vars => NoTempLeft'
  BY StepTempLeft DEF StoreInv
<1>. QED  BY <1>1, <1>2, StoreInvariant, PTL DEF Spec

-----------------------------------------------------------------------------
(***************************************************************************)
(* ArticleStore implements ArticleMap, where no file name is hidden,       *)
(* nobody else changes the directory and the machine stays up.             *)
(***************************************************************************)

(***************************************************************************)
(* When a call is answered.                                                *)
(***************************************************************************)
LEMMA StepAnswered ==
  ASSUME TypeOK, CallsPlaced, CallsAnswered, [Next]_vars
  PROVE  CallsAnswered'
<1>. USE CallsAssumption DEF TypeOK, At, Goto, Answers, Places, Asked, Replies
<1>1. ASSUME NEW s \in Sessions, PostingStep(s) PROVE CallsAnswered'
  <2>. USE DEF CallsAnswered
  <2>1. CASE CreateTemp(s) \/ Receive(s) \/ Sync(s) \/ Insert(s)
    BY <2>1 DEF CreateTemp, Receive, Sync, Insert
  <2>2. CASE CreateFails(s) \/ CommitDuplicate(s) \/ CommitRename(s) \/ CommitFails(s)
    BY <2>2 DEF CreateFails, CommitDuplicate, CommitRename, CommitFails
  <2>3. CASE Abort(s)
    BY <2>3 DEF Abort, Discards
  <2>4. CASE Discard(s)
    BY <2>4 DEF Discard, Discards
  <2>. QED  BY <1>1, <2>1, <2>2, <2>3, <2>4 DEF PostingStep
<1>2. ASSUME NEW s \in Sessions, Invoke(s) PROVE CallsAnswered'
  <2>1. PICK c \in Calls : call' = [call EXCEPT ![s] = c] /\ pc' = [pc EXCEPT ![s] = FirstPlace(c)]
    BY <1>2 DEF Invoke
  <2>2. /\ FirstPlace(c) \in Asked
        /\ FirstPlace(c) \in {"find", "read"} => c.op = "load"
        /\ FirstPlace(c) = "lookup" => c.op = "exists"
        /\ FirstPlace(c) = "reload" => c.op = "reload"
        /\ FirstPlace(c) \in {"pick", "remove", "unlist"} => c.op \in {"delete", "deletePrefix"}
    BY DEF FirstPlace, Calls
  <2>3. pc[s] = "idle" /\ UNCHANGED <<answer, removing>>
    BY <1>2 DEF Invoke
  <2>. QED  BY <2>1, <2>2, <2>3 DEF CallsAnswered
<1>3. ASSUME NEW s \in Sessions, Lookup(s) \/ Find(s) \/ Read(s) \/ Reload(s)
      PROVE  CallsAnswered'
  <2>2. /\ pc[s] \in Asked /\ UNCHANGED <<call, removing>>
        /\ \/ /\ pc[s] = "find" /\ pc' = [pc EXCEPT ![s] = "read"] /\ UNCHANGED answer
           \/ /\ pc' = [pc EXCEPT ![s] = "reply"]
              /\ \E reply \in Replies : answer' = [answer EXCEPT ![s] = reply]
    <3>1. CASE Lookup(s)
      <4>1. (call[s].id \in index) \in BOOLEAN
        OBVIOUS
      <4>2. <<"exists", call[s].id \in index>> \in Replies
        BY <4>1
      <4>. QED  BY <3>1, <4>2 DEF Lookup
    <3>2. CASE Find(s)
      BY <3>2 DEF Find, Files
    <3>3. CASE Read(s)
      BY <3>3 DEF Read, Files, Names, CallsPlaced, Singles
    <3>4. CASE Reload(s)
      BY <3>4, OnDiskType DEF Reload
    <3>. QED  BY <1>3, <3>1, <3>2, <3>3, <3>4
  <2>. QED  BY <2>2 DEF CallsAnswered
<1>8. ASSUME NEW s \in Sessions, Return(s) PROVE CallsAnswered'
  BY <1>8 DEF CallsAnswered, Return
<1>4. ASSUME NEW s \in Sessions, Pick(s) PROVE CallsAnswered'
  <2>1. Cardinality(Victims(call[s])) \in Nat
    BY <1>4, VictimsType DEF Pick, CallsPlaced
  <2>. QED  BY <1>4, <2>1 DEF CallsAnswered, Pick
<1>5. ASSUME NEW s \in Sessions,
             Remove(s) \/ Unlist(s) \/ RemoveFails(s) \/ RemovedAll(s)
      PROVE  CallsAnswered'
  BY <1>5 DEF CallsAnswered, Remove, Unlist, RemoveFails, GivesUp, RemovedAll
<1>6. CASE WorldStep
  BY <1>6 DEF CallsAnswered, WorldStep, Stage, WriteBack, Crash, LosePower, Start, Stops, sessions
<1>7. CASE UNCHANGED vars
  BY <1>7 DEF CallsAnswered, vars, sessions
<1>. QED  BY <1>1, <1>2, <1>3, <1>4, <1>5, <1>6, <1>7, <1>8, NextCases

LEMMA InitialAnswers == Init => CallsAnswered
BY CallsAssumption DEF Init, CallsAnswered, Asked

(***************************************************************************)
(* Where the map's steps are.                                              *)
(***************************************************************************)
NothingElse == StagedIds = {} /\ HiddenIds = {} /\ ~PowerLoss

\* ArticleMap has its own instance of FiniteSets.
LEMMA SameCardinality == \A S : Map!Cardinality(S) = Cardinality(S)
BY DEF Cardinality, Map!Cardinality

LEMMA IndexIsMap ==
  ASSUME NothingElse, StoreInv, up, Free
  PROVE  index = Map!Present /\ OnDisk = Map!Present
<1>1. touched = {} /\ \A s \in Sessions : pc[s] \notin Writing
  BY OneWriter DEF NothingElse, StoreInv, IndexAccounted
<1>2. \A id \in Ids : id \in index <=> disk[id] # NoFile
  BY <1>1 DEF StoreInv, IndexAccounted, Inserting, Unlisting, Writing, NothingElse
<1>3. index \subseteq Ids
  BY DEF StoreInv, TypeOK
<1>4. index = Map!Present
  BY <1>2, <1>3 DEF Map!Present
<1>5. OnDisk = Map!Present
  BY OnDiskType DEF StoreInv, NothingElse, Map!Present
<1>. QED  BY <1>4, <1>5

\* An article of the map changes with its file, and only with it.
LEMMA MapIsDisk ==
  ASSUME TypeOK, \A id \in Ids : disk'[id] = disk[id]
  PROVE  [id \in Ids |-> disk[id]]' = [id \in Ids |-> disk[id]]
OBVIOUS

\* Steps that change no file of an article, no call, no answer and no deletion.
LEMMA BesidesMap ==
  ASSUME TypeOK,
         \A id \in Ids : disk'[id] = disk[id],
         UNCHANGED <<call, answer, removing>>,
         \A s \in Sessions : pc'[s] = pc[s] \/ "unlist" \notin {pc[s], pc'[s]}
  PROVE  StillRemoving' = StillRemoving /\ (UNCHANGED faults => UNCHANGED Map!vars)
<1>1. \A s \in Sessions : removing'[s] = removing[s] /\ NextVictim(s)' = NextVictim(s)
  BY DEF NextVictim
<1>2. StillRemoving' = StillRemoving
  BY <1>1 DEF StillRemoving
<1>. QED  BY <1>2, MapIsDisk DEF Map!vars

\* Nor does a session that deletes nothing change what is left to remove.
LEMMA DeletionsElsewhere ==
  ASSUME TypeOK, NEW s \in Sessions, pc[s] \notin {"remove", "unlist"}, removing[s] = {},
         UNCHANGED removing, \A t \in Sessions \ {s} : pc'[t] = pc[t], pc'[s] # "unlist"
  PROVE  StillRemoving' = StillRemoving /\ StillRemoving[s] = {}
<1>1. \A t \in Sessions : removing'[t] = removing[t] /\ NextVictim(t)' = NextVictim(t)
  BY DEF NextVictim
<1>. QED  BY <1>1 DEF StillRemoving

(***************************************************************************)
(* Step by step.                                                           *)
(***************************************************************************)
LEMMA PostingMaps ==
  ASSUME NothingElse, StoreInv, CallsAnswered, NEW s \in Sessions, PostingStep(s)
  PROVE  [Map!Next]_(Map!vars)
<1>. USE CallsAssumption, IdsAssumption DEF At, Goto, Answers
<1>0. TypeOK /\ CallsPlaced /\ TempsOwned /\ LockHeld
  BY DEF StoreInv
<1>1. pc[s] \in HaveTemp => temp[s] \in TempNames
  BY <1>0 DEF TempsOwned
<1>2. /\ pc[s] \in {"create", "receive", "sync", "commit", "insert", "discard"}
      /\ pc'[s] # "unlist" /\ \A t \in Sessions \ {s} : pc'[t] = pc[t]
      /\ UNCHANGED <<call, removing>>
  BY <1>0 DEF PostingStep, CreateTemp, CreateFails, Receive, Sync, Abort, CommitDuplicate,
              CommitRename, CommitFails, Insert, Discard, Discards, TypeOK
<1>3. StillRemoving' = StillRemoving /\ StillRemoving[s] = {}
  BY <1>0, <1>2, DeletionsElsewhere DEF CallsAnswered
<1>4. CASE CreateTemp(s) \/ Receive(s) \/ Sync(s) \/ Insert(s) \/ Discard(s)
  <2>1. \A id \in Ids : disk'[id] = disk[id]
    BY <1>0, <1>1, <1>4 DEF CreateTemp, Receive, Sync, Insert, Discard, Discards, Unlink,
                            HaveTemp, TypeOK, Names, files
  <2>2. UNCHANGED answer /\ (UNCHANGED faults \/ Fault)
    BY <1>4 DEF CreateTemp, Receive, Sync, Insert, Discard, Discards, counters
  <2>. QED
    BY <1>0, <1>2, <1>3, <2>1, <2>2, MapIsDisk DEF Map!vars, Map!Next, Map!FailUnseen, Fault
<1>. SUFFICES ASSUME \/ CreateFails(s) \/ Abort(s) \/ CommitDuplicate(s)
                     \/ CommitRename(s) \/ CommitFails(s)
              PROVE  Map!Post(s) \/ Map!PostRefused(s) \/ Map!Fail(s)
  BY <1>4 DEF PostingStep, Map!Next
<1>5. call[s] \in Posts /\ call[s] # NoCall /\ answer[s] = NoCall
  BY <1>0 DEF CreateFails, Abort, CommitDuplicate, CommitRename, CommitFails, CallsPlaced,
              HaveTemp, CallsAnswered, Asked
<1>6. Map!Pending(s, "post") /\ call[s].op = "post"
  BY <1>5 DEF Map!Pending, Posts
<1>7. CASE CreateFails(s) \/ Abort(s) \/ CommitFails(s)
  <2>1. \A id \in Ids : disk'[id] = disk[id]
    BY <1>0, <1>1, <1>7 DEF CreateFails, Abort, CommitFails, Discards, Unlink, HaveTemp,
                            TypeOK, Names, files
  <2>2. answer' = [answer EXCEPT ![s] = <<"post", "failed">>] /\ (UNCHANGED faults \/ Fault)
    BY <1>7 DEF CreateFails, Abort, CommitFails, Discards
  <2>3. CASE UNCHANGED faults
    BY <1>0, <1>2, <1>3, <1>6, <2>1, <2>2, <2>3, MapIsDisk DEF Map!PostRefused, Map!Answers
  <2>4. CASE Fault
    <3>1. StillRemoving' = [StillRemoving EXCEPT ![s] = {}]
      BY <1>3 DEF StillRemoving
    <3>. QED
      BY <1>0, <1>2, <1>5, <1>6, <2>1, <2>2, <2>4, <3>1, MapIsDisk DEF Map!Fail, Fault
  <2>. QED  BY <2>2, <2>3, <2>4
<1>8. call[s].id \in Ids
  BY <1>5 DEF Posts
<1>9. CASE CommitDuplicate(s)
  <2>1. disk[call[s].id] # NoFile
    BY <1>0, <1>9, IndexIsMap DEF CommitDuplicate, Duplicate, Map!Present
  <2>. QED
    BY <1>2, <1>3, <1>6, <1>8, <1>9, <2>1
       DEF CommitDuplicate, Map!Post, Map!Answers, files, counters
<1>10. CASE CommitRename(s)
  <2>1. disk[call[s].id] = NoFile
    BY <1>0, <1>8, <1>10, IndexIsMap DEF CommitRename, Locks, Duplicate, Map!Present
  <2>2. disk[temp[s]] = call[s].content /\ temp[s] \notin Ids
    BY <1>0, <1>1, <1>10 DEF CommitRename, TempsOwned, HaveTemp
  <2>3. \A id \in Ids : disk'[id] = IF id = call[s].id THEN call[s].content ELSE disk[id]
    BY <1>0, <1>8, <1>10, <2>2 DEF CommitRename, TypeOK, Names
  <2>4. [id \in Ids |-> disk'[id]]
          = [[id \in Ids |-> disk[id]] EXCEPT ![call[s].id] = call[s].content]
    BY <2>3
  <2>. QED
    BY <1>2, <1>3, <1>6, <1>8, <1>10, <2>1, <2>4
       DEF CommitRename, Map!Post, Map!Answers, counters
<1>. QED  BY <1>7, <1>9, <1>10

LEMMA AnsweringMaps ==
  ASSUME NothingElse, StoreInv, CallsAnswered, NEW s \in Sessions,
         Invoke(s) \/ Lookup(s) \/ Find(s) \/ Read(s) \/ Reload(s) \/ Return(s)
  PROVE  [Map!Next]_(Map!vars)
<1>. USE CallsAssumption DEF At, Goto, Answers
<1>0. TypeOK /\ CallsPlaced
  BY DEF StoreInv
<1>1. /\ pc[s] \in {"idle", "lookup", "find", "read", "reload", "reply"}
      /\ pc'[s] # "unlist" /\ \A t \in Sessions \ {s} : pc'[t] = pc[t]
      /\ UNCHANGED <<disk, removing>>
  BY <1>0 DEF Invoke, FirstPlace, Lookup, Find, Read, Reload, Return, TypeOK, files
<1>2. StillRemoving' = StillRemoving /\ StillRemoving[s] = {}
  BY <1>0, <1>1, DeletionsElsewhere DEF CallsAnswered
<1>3. StillRemoving' = [StillRemoving EXCEPT ![s] = {}]
  BY <1>2 DEF StillRemoving
<1>4. CASE Invoke(s)
  <2>1. call[s] = NoCall
    BY <1>4 DEF Invoke, CallsAnswered
  <2>2. Map!Invoke(s)
    BY <1>1, <1>2, <1>4, <2>1 DEF Invoke, Map!Invoke, Calls, Map!Calls
  <2>. QED  BY <2>2 DEF Map!Next
<1>5. CASE Return(s)
  <2>1. answer[s] # NoCall
    BY <1>5 DEF Return, CallsAnswered, Asked
  <2>2. Map!Return(s)
    BY <1>1, <1>2, <1>5, <2>1 DEF Return, Map!Return, counters
  <2>. QED  BY <2>2 DEF Map!Next
<1>6. ASSUME Lookup(s) \/ Find(s) \/ Read(s) \/ Reload(s)
      PROVE  /\ call[s] \in Calls /\ call[s] # NoCall /\ answer[s] = NoCall
             /\ UNCHANGED call
  BY <1>6 DEF Lookup, Find, Read, Reload, CallsAnswered, Asked
<1>7. CASE Lookup(s)
  <2>1. call[s].op = "exists" /\ call[s].id \in Ids
    BY <1>0, <1>7 DEF Lookup, CallsAnswered, CallsPlaced, Singles
  <2>2. (call[s].id \in index) <=> disk[call[s].id] # NoFile
    BY <1>7, <2>1, IndexIsMap DEF Lookup, Map!Present
  <2>3. Map!Pending(s, "exists")
    BY <1>6, <1>7, <2>1 DEF Map!Pending
  <2>4. answer' = [answer EXCEPT ![s] = <<"exists", disk[call[s].id] # NoFile>>]
    <3>1. (call[s].id \in index) = (disk[call[s].id] # NoFile)
      BY <2>2
    <3>2. answer' = [answer EXCEPT ![s] = <<"exists", call[s].id \in index>>]
      BY <1>7 DEF Lookup
    <3>. QED  BY <3>1, <3>2, Zenon
  <2>5. Map!Exists(s)
    BY <1>1, <1>2, <1>7, <2>1, <2>3, <2>4 DEF Lookup, Map!Exists, Map!Answers, counters
  <2>. QED  BY <2>5 DEF Map!Next
<1>8. CASE Find(s) \/ Read(s)
  <2>1. call[s].op = "load" /\ call[s].id \in Ids
    BY <1>0, <1>8 DEF Find, Read, CallsAnswered, CallsPlaced, Singles
  <2>2. Map!Pending(s, "load")
    BY <1>6, <1>8, <2>1 DEF Map!Pending
  <2>3. CASE UNCHANGED <<answer, faults>>
    BY <1>1, <1>2, <1>6, <1>8, <2>3 DEF Map!vars
  <2>4. CASE /\ answer' = [answer EXCEPT ![s] = <<"article", disk[call[s].id]>>]
             /\ UNCHANGED faults
    <3>1. Map!Load(s)
      BY <1>1, <1>2, <1>6, <1>8, <2>1, <2>2, <2>4 DEF Map!Load, Map!Answers
    <3>. QED  BY <3>1 DEF Map!Next
  <2>5. CASE answer' = [answer EXCEPT ![s] = <<"article", NoFile>>] /\ Fault
    <3>1. Map!Fail(s)
      BY <1>1, <1>3, <1>6, <1>8, <2>1, <2>5 DEF Map!Fail, Fault
    <3>. QED  BY <3>1 DEF Map!Next
  <2>6. CASE Find(s)
    <3>1. disk[call[s].id] = NoFile \/ call[s].id \in index
      BY <2>1, <2>6, IndexIsMap DEF Find, Map!Present
    <3>. QED  BY <2>3, <2>4, <2>6, <3>1 DEF Find, counters
  <2>. QED  BY <1>8, <2>4, <2>5, <2>6 DEF Read
<1>9. CASE Reload(s)
  <2>1. call[s].op = "reload" /\ Map!Pending(s, "reload")
    BY <1>6, <1>9 DEF Reload, CallsAnswered, Map!Pending
  <2>2. OnDisk = Map!Present
    BY <1>9, IndexIsMap DEF Reload
  <2>3. \/ answer' = [answer EXCEPT ![s] = <<"count", Cardinality(OnDisk)>>] /\ UNCHANGED faults
        \/ answer' = [answer EXCEPT ![s] = <<"failed", 0>>] /\ Fault
    BY <1>9 DEF Reload
  <2>4. CASE answer' = [answer EXCEPT ![s] = <<"count", Cardinality(OnDisk)>>] /\ UNCHANGED faults
    <3>1. Map!Reload(s)
      BY <1>1, <1>2, <1>6, <1>9, <2>1, <2>2, <2>4, SameCardinality DEF Map!Reload, Map!Answers
    <3>. QED  BY <3>1 DEF Map!Next
  <2>5. CASE answer' = [answer EXCEPT ![s] = <<"failed", 0>>] /\ Fault
    <3>1. Map!Fail(s)
      BY <1>1, <1>3, <1>6, <1>9, <2>1, <2>5 DEF Map!Fail, Fault
    <3>. QED  BY <3>1 DEF Map!Next
  <2>. QED  BY <2>3, <2>4, <2>5
<1>. QED  BY <1>4, <1>5, <1>7, <1>8, <1>9

LEMMA DeletingMaps ==
  ASSUME NothingElse, StoreInv, CallsAnswered, NEW s \in Sessions,
         Pick(s) \/ Remove(s) \/ Unlist(s) \/ RemoveFails(s) \/ RemovedAll(s)
  PROVE  [Map!Next]_(Map!vars)
<1>. USE CallsAssumption DEF At, Goto, Answers
<1>0. TypeOK /\ CallsPlaced
  BY DEF StoreInv
<1>1. /\ call[s] \in Calls /\ call[s] # NoCall /\ UNCHANGED call
      /\ call[s].op \in {"delete", "deletePrefix"}
      /\ pc[s] \in {"pick", "remove", "unlist"}
      /\ \A t \in Sessions \ {s} : pc'[t] = pc[t] /\ removing'[t] = removing[t]
  BY <1>0 DEF Pick, Remove, Unlist, RemoveFails, GivesUp, RemovedAll, CallsAnswered, TypeOK
<1>2. /\ \A t \in Sessions \ {s} : StillRemoving'[t] = StillRemoving[t]
      /\ StillRemoving[s] =
           IF pc[s] = "unlist" THEN removing[s] \ {NextVictim(s)} ELSE removing[s]
      /\ StillRemoving'[s] =
           IF pc'[s] = "unlist" THEN removing'[s] \ {NextVictim(s)'} ELSE removing'[s]
  BY <1>1 DEF StillRemoving, NextVictim
<1>3. \A R : StillRemoving'[s] = R => StillRemoving' = [StillRemoving EXCEPT ![s] = R]
  BY <1>2 DEF StillRemoving
<1>4. StillRemoving'[s] = StillRemoving[s] => StillRemoving' = StillRemoving
  BY <1>2 DEF StillRemoving
<1>5. CASE Pick(s)
  <2>1. index = Map!Present /\ answer[s] = NoCall
    BY <1>5, IndexIsMap DEF Pick, Locks, CallsAnswered, Asked
  <2>2. Victims(call[s]) = Map!Victims(call[s])
    BY <2>1, SameCardinality DEF Victims, Share, Map!Victims, Map!Share
  <2>3. StillRemoving'[s] = Victims(call[s])
    BY <1>0, <1>2, <1>5 DEF Pick, TypeOK
  <2>4. Map!Pending(s, "delete") \/ Map!Pending(s, "deletePrefix")
    BY <1>1, <2>1 DEF Map!Pending
  <2>5. answer' = [answer EXCEPT ![s] = <<"deleted", Cardinality(Victims(call[s]))>>]
        /\ UNCHANGED <<disk, faults>>
    BY <1>5 DEF Pick, files, counters
  <2>6. Map!Delete(s)
    BY <1>1, <1>3, <2>2, <2>3, <2>4, <2>5, SameCardinality DEF Map!Delete, Map!Answers
  <2>. QED  BY <2>6 DEF Map!Next
<1>6. CASE Remove(s)
  <2>. DEFINE victim == NextVictim(s)
  <2>1. /\ pc[s] = "remove" /\ pc'[s] = "unlist" /\ removing[s] # {}
        /\ UNCHANGED <<answer, faults, removing>>
        /\ disk' = [disk EXCEPT ![victim] = NoFile]
    BY <1>0, <1>6 DEF Remove, Unlink, TypeOK, counters
  <2>2. victim \in removing[s] /\ victim \in Ids /\ NextVictim(s)' = victim
    BY <1>0, <2>1, NextVictimIsOne DEF TypeOK, NextVictim
  <2>. HIDE DEF victim
  <2>3. StillRemoving[s] = removing[s] /\ StillRemoving'[s] = StillRemoving[s] \ {victim}
    BY <1>2, <2>1, <2>2
  <2>4. [id \in Ids |-> disk'[id]] = [[id \in Ids |-> disk[id]] EXCEPT ![victim] = NoFile]
    BY <1>0, <2>1, <2>2 DEF TypeOK, Names
  <2>5. StillRemoving' = [StillRemoving EXCEPT ![s] = StillRemoving[s] \ {victim}]
    BY <1>3, <2>3
  <2>6. Map!RemoveOne(s)
    BY <1>1, <2>1, <2>2, <2>3, <2>4, <2>5 DEF Map!RemoveOne
  <2>. QED  BY <2>6 DEF Map!Next
<1>7. CASE Unlist(s)
  <2>1. StillRemoving'[s] = StillRemoving[s] /\ UNCHANGED <<disk, answer, faults>>
    BY <1>0, <1>2, <1>7 DEF Unlist, TypeOK, files, counters
  <2>. QED  BY <1>1, <1>4, <2>1 DEF Map!vars
<1>8. CASE RemoveFails(s)
  <2>1. /\ StillRemoving[s] # {} /\ StillRemoving'[s] = {} /\ Fault /\ UNCHANGED disk
        /\ answer' = [answer EXCEPT ![s] = <<"failed", 0>>]
    BY <1>0, <1>2, <1>8 DEF RemoveFails, GivesUp, TypeOK, files
  <2>2. Map!Fail(s)
    BY <1>1, <1>3, <2>1 DEF Map!Fail, Fault
  <2>. QED  BY <2>2 DEF Map!Next
<1>9. CASE RemovedAll(s)
  <2>1. StillRemoving'[s] = StillRemoving[s] /\ UNCHANGED <<disk, answer, faults>>
    BY <1>0, <1>2, <1>9 DEF RemovedAll, TypeOK, files, counters
  <2>. QED  BY <1>1, <1>4, <2>1 DEF Map!vars
<1>. QED  BY <1>5, <1>6, <1>7, <1>8, <1>9

LEMMA WorldMaps ==
  ASSUME NothingElse, StoreInv, CallsAnswered, WorldStep
  PROVE  [Map!Next]_(Map!vars)
<1>1. CASE Crash
  <2>1. StillRemoving' = [s \in Sessions |-> {}]
    BY <1>1 DEF Crash, Stops, StillRemoving
  <2>2. Map!Crash
    BY <1>1, <2>1 DEF Crash, Stops, Map!Crash, files
  <2>. QED  BY <2>2 DEF Map!Next
<1>2. CASE Start
  <2>1. UNCHANGED <<disk, call, answer, removing, pc, faults>>
    BY <1>2 DEF Start, files, sessions, counters
  <2>. QED  BY <2>1, BesidesMap DEF StoreInv
<1>. QED  BY <1>1, <1>2 DEF WorldStep, WriteBack, LosePower, NothingElse

(***************************************************************************)
(* Where no file name is hidden, nobody else changes the directory and     *)
(* the machine stays up, the store is the map of ArticleMap: each call of  *)
(* commit, load, exists, deleteByID, deleteByPrefix and reload takes       *)
(* effect at one moment (a deletion by prefix at one moment per article),  *)
(* failures of the disk change nothing but the answer, and a crash of the  *)
(* process loses nothing.                                                  *)
(***************************************************************************)
THEOREM ImplementsArticleMap ==
  ASSUME NothingElse
  PROVE  Spec => ImplementsMap
<1>1. Init => Map!Init
  <2>. SUFFICES ASSUME Init PROVE Map!Init
    OBVIOUS
  <2>1. [id \in Ids |-> disk[id]] = [id \in Ids |-> NoFile]
    BY DEF Init, NothingElse, Names
  <2>2. StillRemoving = [s \in Sessions |-> {}]
    BY DEF Init, StillRemoving
  <2>. QED  BY <2>1, <2>2 DEF Init, Map!Init
<1>2. Init => CallsAnswered
  BY InitialAnswers
<1>3. StoreInv /\ CallsAnswered /\ [Next]_vars => CallsAnswered'
  BY StepAnswered DEF StoreInv
<1>4. StoreInv /\ CallsAnswered /\ [Next]_vars => [Map!Next]_(Map!vars)
  <2>. SUFFICES ASSUME StoreInv, CallsAnswered, [Next]_vars PROVE [Map!Next]_(Map!vars)
    OBVIOUS
  <2>1. CASE UNCHANGED vars
    BY <2>1, BesidesMap DEF StoreInv, vars, files, sessions, counters
  <2>. QED  BY <2>1, NextCases, PostingMaps, AnsweringMaps, DeletingMaps, WorldMaps
<1>. QED
  BY <1>1, <1>2, <1>3, <1>4, StoreInvariant, PTL DEF Spec, ImplementsMap, Map!Spec

-----------------------------------------------------------------------------
(***************************************************************************)
(* Every call runs down, and with it every hold of the lock.               *)
(***************************************************************************)
\* The most steps a call can still take.
StepsLeft(s) ==
  CASE pc[s] = "idle"                                    -> 0
    [] pc[s] = "reply"                                   -> 1
    [] pc[s] \in {"insert", "discard", "read", "reload"} -> 2
    [] pc[s] \in {"commit", "lookup", "find"}            -> 3
    [] pc[s] = "sync"                                    -> 4
    [] pc[s] = "receive"                                 -> 5
    [] pc[s] = "create"                                  -> 6
    [] pc[s] = "unlist"                                  -> 2 * Cardinality(removing[s]) + 1
    [] pc[s] = "remove"                                  -> 2 * Cardinality(removing[s]) + 2
    [] pc[s] = "pick"                                    -> 2 * Cardinality(Ids) + 3

CallsAreFinite ==
  /\ \A s \in Sessions : StepsLeft(s) \in Nat
  /\ holder # NoSession => pc[holder] \in Writing

RunsDown ==
  /\ \A s \in Sessions : pc[s] # "idle" =>
       \/ StepsLeft(s)' < StepsLeft(s)
       \/ UNCHANGED <<pc[s], call[s], removing[s]>>
  /\ holder # NoSession => holder' \in {holder, NoSession}

LEMMA CardinalitiesOfIds ==
  ASSUME NEW S \in SUBSET Ids
  PROVE  /\ IsFiniteSet(S) /\ Cardinality(S) \in Nat /\ Cardinality(Ids) \in Nat
         /\ Cardinality(S) <= Cardinality(Ids)
         /\ \A id \in S : Cardinality(S \ {id}) = Cardinality(S) - 1
<1>1. IsFiniteSet(Ids) /\ IsFiniteSet(S) /\ Cardinality(S) <= Cardinality(Ids)
  BY IdsAssumption, FS_Subset
<1>2. Cardinality(S) \in Nat /\ Cardinality(Ids) \in Nat
  BY <1>1, FS_CardinalityType
<1>3. \A id \in S : Cardinality(S \ {id}) = Cardinality(S) - 1
  BY <1>1, FS_RemoveElement
<1>. QED  BY <1>1, <1>2, <1>3

LEMMA StepsLeftIsNumber ==
  ASSUME TypeOK, NEW s \in Sessions
  PROVE  StepsLeft(s) \in Nat /\ (pc[s] # "idle" => StepsLeft(s) > 0)
<1>1. pc[s] \in Places /\ removing[s] \in SUBSET Ids
  BY DEF TypeOK
<1>2. Cardinality(removing[s]) \in Nat /\ Cardinality(Ids) \in Nat
  BY <1>1, CardinalitiesOfIds
<1>. QED  BY <1>1, <1>2 DEF StepsLeft, Places

\* The call a session is in: any of its steps but the first.
CallStep(s) ==
  \/ PostingStep(s) \/ Lookup(s) \/ Find(s) \/ Read(s)
  \/ Pick(s) \/ Remove(s) \/ Unlist(s) \/ RemoveFails(s) \/ RemovedAll(s)
  \/ Reload(s) \/ Return(s)

LEMMA OwnCall ==
  ASSUME TypeOK, NEW s \in Sessions, CallStep(s) \/ Invoke(s)
  PROVE  /\ \A r \in Sessions \ {s} : UNCHANGED <<pc[r], call[r], removing[r]>>
         /\ up /\ (CallStep(s) => pc[s] # "idle")
<1>. USE DEF TypeOK, At, Goto
<1>1. CASE CreateTemp(s) \/ CreateFails(s) \/ Receive(s) \/ Sync(s)
  BY <1>1 DEF CreateTemp, CreateFails, Receive, Sync
<1>2. CASE CommitDuplicate(s) \/ CommitRename(s) \/ CommitFails(s) \/ Insert(s)
  BY <1>2 DEF CommitDuplicate, CommitRename, CommitFails, Insert
<1>3. CASE Abort(s) \/ Discard(s)
  BY <1>3 DEF Abort, Discard, Discards
<1>4. CASE Lookup(s) \/ Find(s) \/ Read(s) \/ Reload(s) \/ Return(s)
  BY <1>4 DEF Lookup, Find, Read, Reload, Return
<1>5. CASE Pick(s) \/ Remove(s) \/ Unlist(s) \/ RemoveFails(s) \/ RemovedAll(s)
  BY <1>5 DEF Pick, Remove, Unlist, RemoveFails, GivesUp, RemovedAll
<1>6. CASE Invoke(s)
  <2>1. /\ \A r \in Sessions \ {s} : UNCHANGED <<pc[r], call[r], removing[r]>>
        /\ up /\ pc[s] = "idle"
    BY <1>6 DEF Invoke
  <2>2. ~CallStep(s)
    BY <2>1 DEF CallStep, PostingStep, CreateTemp, CreateFails, Receive, Sync, CommitDuplicate,
                CommitRename, CommitFails, Insert, Abort, Discard, Lookup, Find, Read, Reload,
                Return, Pick, Remove, Unlist, RemoveFails, GivesUp, RemovedAll
  <2>. QED  BY <2>1, <2>2
<1>. QED  BY <1>1, <1>2, <1>3, <1>4, <1>5, <1>6 DEF CallStep, PostingStep

\* Each step of a call leaves it fewer.
LEMMA CallRunsDown ==
  ASSUME StoreInv, TypeOK', NEW s \in Sessions, CallStep(s)
  PROVE  StepsLeft(s)' < StepsLeft(s)
<1>0. TypeOK /\ CallsPlaced /\ Underway
  BY DEF StoreInv
<1>. DEFINE more == Cardinality(removing[s])
            less == Cardinality(removing'[s])
<1>1. /\ removing[s] \in SUBSET Ids /\ removing'[s] \in SUBSET Ids
      /\ more \in Nat /\ less \in Nat /\ Cardinality(Ids) \in Nat /\ less <= Cardinality(Ids)
  BY <1>0, CardinalitiesOfIds DEF TypeOK
<1>. HIDE DEF more, less
<1>. DEFINE Onward(from, to) ==
              \/ from = "reply" /\ to = "idle"
              \/ from \notin {"idle", "reply", "unlist"} /\ to = "reply"
              \/ from = "create" /\ to = "receive"
              \/ from = "receive" /\ to = "sync"
              \/ from = "sync" /\ to = "commit"
              \/ from = "commit" /\ to \in {"insert", "discard"}
              \/ from = "find" /\ to = "read"
              \/ from = "pick" /\ to = "remove"
              \/ from = "remove" /\ to = "unlist" /\ less = more
              \/ from = "unlist" /\ to = "remove" /\ less = more - 1
<1>2. ASSUME Onward(pc[s], pc'[s]) PROVE StepsLeft(s)' < StepsLeft(s)
  <2>1. pc[s] \in Places
    BY <1>0 DEF TypeOK
  <2>2. /\ pc[s] \in {"insert", "discard", "read", "reload"} => StepsLeft(s) = 2
        /\ pc[s] \in {"commit", "lookup", "find"} => StepsLeft(s) = 3
        /\ pc[s] = "reply" => StepsLeft(s) = 1
        /\ pc[s] = "sync" => StepsLeft(s) = 4
        /\ pc[s] = "receive" => StepsLeft(s) = 5
        /\ pc[s] = "create" => StepsLeft(s) = 6
        /\ pc[s] = "unlist" => StepsLeft(s) = 2 * more + 1
        /\ pc[s] = "remove" => StepsLeft(s) = 2 * more + 2
        /\ pc[s] = "pick" => StepsLeft(s) = 2 * Cardinality(Ids) + 3
    BY DEF StepsLeft, more
  <2>3. /\ pc'[s] = "idle" => StepsLeft(s)' = 0
        /\ pc'[s] = "reply" => StepsLeft(s)' = 1
        /\ pc'[s] \in {"insert", "discard", "read"} => StepsLeft(s)' = 2
        /\ pc'[s] = "commit" => StepsLeft(s)' = 3
        /\ pc'[s] = "sync" => StepsLeft(s)' = 4
        /\ pc'[s] = "receive" => StepsLeft(s)' = 5
        /\ pc'[s] = "unlist" => StepsLeft(s)' = 2 * less + 1
        /\ pc'[s] = "remove" => StepsLeft(s)' = 2 * less + 2
    BY DEF StepsLeft, less
  <2>4. CASE pc[s] \in {"pick", "remove", "unlist"}
    BY <1>1, <1>2, <2>2, <2>3, <2>4
  <2>5. CASE pc[s] \in {"create", "receive", "sync", "commit", "find"}
    BY <1>2, <2>2, <2>3, <2>5
  <2>6. CASE pc[s] \in {"insert", "discard", "read", "reload", "lookup", "reply", "idle"}
    BY <1>2, <2>2, <2>3, <2>6
  <2>. QED  BY <2>1, <2>4, <2>5, <2>6 DEF Places
<1>. USE DEF At, Goto
<1>3. pc \in [Sessions -> Places]
  BY <1>0 DEF TypeOK
<1>4. CASE CreateTemp(s) \/ CreateFails(s) \/ Receive(s) \/ Sync(s)
  BY <1>2, <1>3, <1>4 DEF CreateTemp, CreateFails, Receive, Sync
<1>5. CASE CommitDuplicate(s) \/ CommitRename(s) \/ CommitFails(s) \/ Insert(s)
  BY <1>2, <1>3, <1>5 DEF CommitDuplicate, CommitRename, CommitFails, Insert
<1>6. CASE Abort(s) \/ Discard(s)
  BY <1>2, <1>3, <1>6 DEF Abort, Discard, Discards
<1>7. CASE Lookup(s) \/ Find(s) \/ Read(s) \/ Reload(s) \/ Return(s)
  BY <1>2, <1>3, <1>7 DEF Lookup, Find, Read, Reload, Return
<1>8. CASE Pick(s) \/ RemoveFails(s) \/ RemovedAll(s)
  BY <1>2, <1>3, <1>8 DEF Pick, RemoveFails, GivesUp, RemovedAll
<1>9. CASE Remove(s)
  <2>1. less = more
    BY <1>9 DEF Remove, more, less
  <2>. QED  BY <1>2, <1>3, <1>9, <2>1 DEF Remove
<1>10. CASE Unlist(s)
  <2>1. NextVictim(s) \in removing[s]
    BY <1>0, <1>10, NextVictimIsOne DEF Unlist, Underway
  <2>2. removing'[s] = removing[s] \ {NextVictim(s)}
    BY <1>0, <1>10 DEF Unlist, TypeOK
  <2>3. less = more - 1
    BY <1>1, <2>1, <2>2, CardinalitiesOfIds DEF more, less
  <2>. QED  BY <1>2, <1>3, <1>10, <2>3 DEF Unlist
<1>. QED
  BY <1>4, <1>5, <1>6, <1>7, <1>8, <1>9, <1>10 DEF CallStep, PostingStep

LEMMA LockMoves ==
  ASSUME StoreInv, [Next]_vars, holder # NoSession
  PROVE  holder' \in {holder, NoSession}
<1>1. ASSUME NEW s \in Sessions, PostingStep(s) \/ Invoke(s) PROVE holder' \in {holder, NoSession}
  BY <1>1 DEF PostingStep, Invoke, CreateTemp, CreateFails, Receive, Sync, CommitDuplicate,
              CommitRename, CommitFails, Insert, Abort, Discard, Locks, Free, Unlocks
<1>2. ASSUME NEW s \in Sessions,
             \/ Lookup(s) \/ Find(s) \/ Read(s) \/ Reload(s) \/ Return(s)
             \/ Pick(s) \/ Remove(s) \/ Unlist(s) \/ RemoveFails(s) \/ RemovedAll(s)
      PROVE  holder' \in {holder, NoSession}
  BY <1>2 DEF Lookup, Find, Read, Reload, Return, Pick, Remove, Unlist, RemoveFails, GivesUp,
              RemovedAll, Locks, Free, Unlocks
<1>3. CASE WorldStep \/ UNCHANGED vars
  BY <1>3 DEF WorldStep, Stage, WriteBack, Crash, LosePower, Start, Stops, vars
<1>. QED  BY <1>1, <1>2, <1>3, NextCases

(***************************************************************************)
(* Every call runs down: each of its steps leaves it fewer, a number that  *)
(* the articles bound, whatever the disk, the other sessions and the       *)
(* operator do in between, and one that stands still has lost nothing.     *)
(* The lock is held by a session on its way to give it up, in steps that   *)
(* wait for nobody, and nobody takes it away (store.go).                   *)
(***************************************************************************)
THEOREM CallsRunDown == Spec => []CallsAreFinite /\ [][RunsDown]_vars
<1>1. StoreInv => CallsAreFinite
  BY StepsLeftIsNumber DEF StoreInv, LockHeld, CallsAreFinite
<1>2. ASSUME StoreInv, StoreInv', [Next]_vars PROVE RunsDown
  <2>1. TypeOK /\ TypeOK'
    BY <1>2 DEF StoreInv
  <2>2. ASSUME NEW r \in Sessions, pc[r] # "idle"
        PROVE  StepsLeft(r)' < StepsLeft(r) \/ UNCHANGED <<pc[r], call[r], removing[r]>>
    <3>1. ASSUME NEW s \in Sessions, CallStep(s) \/ Invoke(s)
          PROVE  StepsLeft(r)' < StepsLeft(r) \/ UNCHANGED <<pc[r], call[r], removing[r]>>
      <4>1. CASE s # r
        BY <2>1, <3>1, <4>1, OwnCall
      <4>2. CASE s = r
        <5>1. CallStep(r)
          BY <2>2, <3>1, <4>2 DEF Invoke, At
        <5>. QED  BY <1>2, <2>1, <5>1, CallRunsDown
      <4>. QED  BY <4>1, <4>2
    <3>2. CASE Crash \/ LosePower
      <4>1. pc'[r] = "idle"
        BY <3>2 DEF Crash, LosePower, Stops
      <4>2. StepsLeft(r)' = 0
        BY <4>1 DEF StepsLeft
      <4>. QED  BY <2>1, <2>2, <4>2, StepsLeftIsNumber
    <3>3. CASE (\E id \in StagedIds : Stage(id)) \/ WriteBack \/ Start \/ UNCHANGED vars
      BY <3>3 DEF Stage, WriteBack, Start, vars, sessions
    <3>. QED  BY <1>2, <3>1, <3>2, <3>3, NextCases DEF CallStep, WorldStep
  <2>. QED  BY <1>2, <2>2, LockMoves DEF RunsDown
<1>3. StoreInv /\ StoreInv' /\ [Next]_vars => [RunsDown]_vars
  BY <1>2
<1>. QED  BY <1>1, <1>3, StoreInvariant, PTL DEF Spec
=============================================================================
