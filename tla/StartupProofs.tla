--------------------------- MODULE StartupProofs ---------------------------
(***************************************************************************)
(* What the files of the TLS material are, whatever crashed, failed or was *)
(* deleted, for any configurations, host names and bounds.                 *)
(***************************************************************************)
EXTENDS Startup, TLAPS

\* The two orders, file by file.
LEMMA Orders ==
  /\ LastStep = 4
  /\ WriteOrder[1] = "ca.pem" /\ WriteOrder[2] = "ca.key"
  /\ WriteOrder[3] = "server.pem" /\ WriteOrder[4] = "server.key"
  /\ RemoveOrder[1] = "server.pem" /\ RemoveOrder[2] = "server.key"
  /\ RemoveOrder[3] = "ca.pem" /\ RemoveOrder[4] = "ca.key"
BY DEF LastStep, WriteOrder, RemoveOrder

-----------------------------------------------------------------------------
(***************************************************************************)
(* The inductive invariant.                                                *)
(***************************************************************************)
\* What is removed is gone; something was missing from the beginning, or an
\* os.Stat failed.
RemovedIsGone ==
  place = "remove" =>
    /\ ~allFilesExist \/ faulted
    /\ \A i \in 1..4 : i < step => file[RemoveOrder[i]] = Missing

\* What is written is whole, the rest is missing, and what is being written is
\* missing or torn.
WrittenIsWhole ==
  place \in {"write", "fill"} =>
    /\ generation > 0
    /\ \A i \in 1..4 :
         /\ i < step => file[WriteOrder[i]] = generation
         /\ i = step => file[WriteOrder[i]] = IF place = "fill" THEN Torn ELSE Missing
         /\ i > step => file[WriteOrder[i]] = Missing

\* Material is loaded only when it is there.
LoadedExists == place = "load" /\ config.generated => allFilesExist

\* What is to be served is of one generation with the CA.
ServedFits ==
  place \in {"bind", "serving"} /\ config.listen # "none" /\ config.generated =>
    served = <<file["ca.pem"]>> /\ file["server.key"] = file["ca.pem"]

\* Only a crash or a failed write leaves a torn file behind.
TornByFailure ==
  place # "fill" /\ (\E f \in Files : file[f] = Torn) => crashes + faults > 0

DiskInv ==
  /\ ExistingIsWholeButLast
  /\ RemovedIsGone /\ WrittenIsWhole /\ LoadedExists
  /\ TornByFailure

StartInv == TypeOK /\ DiskInv /\ ServedFits /\ FailsForAReason

LEMMA InitStart == Init => StartInv
<1> SUFFICES ASSUME Init PROVE StartInv
  OBVIOUS
<1>1. TypeOK
  <2>1. madeFor \in Seq(SUBSET HostNames) /\ Len(madeFor) = generation
    BY DEF Init
  <2>2. file \in [Files -> {Missing, Torn} \cup 1..generation]
    BY DEF Init
  <2>3. {starts, crashes, faults, deletions} \subseteq Nat
    BY DEF Init
  <2>4. served \in {<<>>} \cup {<<g>> : g \in 1..generation}
    BY DEF Init
  <2>5. place \in Places /\ step \in 1..4 /\ config \in Configs /\ generation \in Nat
    BY DEF Init, Places
  <2>6. listening \in BOOLEAN /\ faulted \in BOOLEAN
    BY DEF Init
  <2> QED
    BY <2>1, <2>2, <2>3, <2>4, <2>5, <2>6 DEF TypeOK
<1>2. \A f \in Files : file[f] = Missing
  BY DEF Init
<1>3. DiskInv
  BY <1>2, FilesAssumption
     DEF Init, DiskInv, ExistingIsWholeButLast, allFilesExist, RemovedIsGone, WrittenIsWhole,
         LoadedExists, TornByFailure, Files
<1>4. ServedFits /\ FailsForAReason
  BY DEF Init, ServedFits, FailsForAReason
<1> QED
  BY <1>1, <1>3, <1>4 DEF StartInv

-----------------------------------------------------------------------------
\* A step that leaves the disk alone.
LEMMA DiskKept ==
  ASSUME StartInv, UNCHANGED disk, place' \notin {"remove", "write", "fill"},
         place' = "load" /\ config'.generated => allFilesExist,
         crashes' \in Nat, faults' \in Nat, crashes' >= crashes, faults' >= faults,
         place = "fill" => crashes' + faults' > 0
  PROVE  DiskInv'
<1>1. crashes \in Nat /\ faults \in Nat
  BY DEF StartInv, TypeOK
<1>2. ExistingIsWholeButLast' /\ LoadedExists'
  BY DEF StartInv, DiskInv, ExistingIsWholeButLast, allFilesExist, LoadedExists, disk
<1>3. TornByFailure'
  BY <1>1 DEF StartInv, TypeOK, DiskInv, TornByFailure, disk
<1> QED
  BY <1>2, <1>3 DEF DiskInv, RemovedIsGone, WrittenIsWhole

LEMMA TypeStep ==
  ASSUME TypeOK, WrittenIsWhole, LastStep = 4, [Next]_vars
  PROVE  TypeOK'
<1> USE DEF Next, vars, process, disk, counts, Begin, OpenStore, Listen, Material, Remove,
            Create, Fill, Load, Bind, Stop, Crash, Delete, Finished, Fail, Fault, Works, GoTo
<1>1. place' \in Places /\ config' \in Configs
  BY DEF TypeOK, Places
<1>2. listening' \in BOOLEAN /\ faulted' \in BOOLEAN
  BY DEF TypeOK
<1>3. step' \in 1..4
  BY DEF TypeOK
<1>4. starts' \in Nat /\ crashes' \in Nat /\ faults' \in Nat /\ deletions' \in Nat
  <2>1. starts \in Nat /\ crashes \in Nat /\ faults \in Nat /\ deletions \in Nat
    BY DEF TypeOK
  <2> QED
    BY <2>1
<1>5. generation' \in Nat /\ generation' >= generation
  BY DEF TypeOK
<1>6. generation \in Nat /\ file \in [Files -> {Missing, Torn} \cup 1..generation]
  BY DEF TypeOK
<1>7. file' \in [Files -> {Missing, Torn} \cup 1..generation']
  <2>1. CASE UNCHANGED <<file, generation>>
    BY <1>6, <2>1
  <2>2. CASE /\ generation' \in {generation, generation + 1}
             /\ \E f \in Files : file' = [file EXCEPT ![f] = Missing]
    BY <1>6, <2>2
  <2>3. CASE generation' = generation /\ \E f \in Files : file' = [file EXCEPT ![f] = Torn]
    BY <1>6, <2>3
  <2>4. CASE /\ generation > 0 /\ generation' = generation
             /\ \E f \in Files : file' = [file EXCEPT ![f] = generation]
    BY <1>6, <2>4
  <2>5. step \in 1..4
    BY DEF TypeOK
  <2>6. RemoveOrder[step] \in Files /\ WriteOrder[step] \in Files
    BY <2>5, Orders DEF Files
  <2> QED
    BY <2>1, <2>2, <2>3, <2>4, <2>6 DEF WrittenIsWhole
<1>8. madeFor' \in Seq(SUBSET HostNames) /\ Len(madeFor') = generation'
  <2>1. madeFor \in Seq(SUBSET HostNames) /\ Len(madeFor) = generation
    BY DEF TypeOK
  <2>2. CASE UNCHANGED <<madeFor, generation>>
    BY <2>1, <2>2
  <2>3. CASE madeFor' = Append(madeFor, config.names) /\ generation' = generation + 1
    <3>1. config.names \in SUBSET HostNames
      BY ConfigsAssumption DEF TypeOK, Config
    <3> QED
      BY <2>1, <2>3, <3>1
  <2> QED
    BY <2>2, <2>3
<1>9. served' \in {<<>>} \cup {<<g>> : g \in 1..generation'}
  <2>1. CASE served' = served
    BY <1>5, <1>6, <2>1 DEF TypeOK
  <2>2. CASE served' = <<>>
    BY <2>2
  <2>3. CASE Load /\ PairFits /\ served' = <<file["server.pem"]>>
    <3>1. file["server.pem"] \in 1..generation
      BY <1>6, <2>3 DEF PairFits, Files
    <3> QED
      BY <2>3, <3>1
  <2> QED
    BY <2>1, <2>2, <2>3 DEF Loads
<1> QED
  BY <1>1, <1>2, <1>3, <1>4, <1>5, <1>7, <1>8, <1>9 DEF TypeOK

\* What ServedFits and FailsForAReason are about does not change.
LEMMA ReasonsKept ==
  ASSUME StartInv, UNCHANGED file, place' \notin {"bind", "serving", "failed"}
  PROVE  ServedFits' /\ FailsForAReason'
BY DEF ServedFits, FailsForAReason

\* A start that fails because an operation did.
LEMMA FaultFails ==
  ASSUME StartInv, Fault, Fail
  PROVE  ServedFits' /\ FailsForAReason' /\ crashes' \in Nat /\ faults' \in Nat
         /\ crashes' >= crashes /\ faults' >= faults /\ crashes' + faults' > 0
         /\ place' = "failed"
<1>1. place' = "failed" /\ faulted' = TRUE
  BY DEF Fault, Fail, GoTo
<1>2. crashes \in Nat /\ faults \in Nat /\ crashes' = crashes /\ faults' = faults + 1
  BY DEF StartInv, TypeOK, Fault, Fail
<1> QED
  BY <1>1, <1>2 DEF ServedFits, FailsForAReason

-----------------------------------------------------------------------------
(***************************************************************************)
(* The steps that write to the disk.                                       *)
(***************************************************************************)
LEMMA RemoveKeeps ==
  ASSUME StartInv, Remove
  PROVE  DiskInv' /\ ServedFits' /\ FailsForAReason'
<1>1. /\ step \in 1..4 /\ generation \in Nat /\ crashes \in Nat /\ faults \in Nat
      /\ file \in [Files -> {Missing, Torn} \cup 1..generation]
  BY DEF StartInv, TypeOK
<1>2. CASE Fault /\ Fail /\ UNCHANGED disk
  BY <1>2, FaultFails, DiskKept DEF Remove
<1>3. CASE file' = [file EXCEPT ![RemoveOrder[step]] = Missing] /\ Works
  <2>1. \A f \in Files : file'[f] \in {file[f], Missing}
    BY <1>1, <1>3
  <2>2. ~allFilesExist'
    BY <1>1, <1>3, Orders DEF allFilesExist, Files
  <2>3. \A i \in 1..4 : i <= step => file'[RemoveOrder[i]] = Missing
    BY <1>1, <1>3, Orders DEF StartInv, DiskInv, RemovedIsGone, Remove, Files
  <2>4. TornByFailure'
    BY <1>3, <2>1, FilesAssumption DEF StartInv, DiskInv, TornByFailure, Remove, Works, counts
  <2>5. CASE step < 4
    <3>1. place' = "remove" /\ step' = step + 1
      BY <1>1, <1>3, <2>5, Orders, FilesAssumption DEF Remove, GoTo, Fail, Fault, Works, counts,
         StartInv, TypeOK
    <3> QED
      BY <1>1, <2>2, <2>3, <2>4, <3>1
         DEF DiskInv, ExistingIsWholeButLast, RemovedIsGone, WrittenIsWhole, LoadedExists,
             ServedFits, FailsForAReason
  <2>6. CASE step = 4
    <3>1. place' = "write" /\ step' = 1 /\ generation' = generation + 1
      BY <1>1, <1>3, <2>6, Orders DEF Remove, GoTo, Fail, Fault, Works, counts, StartInv, TypeOK
    <3>2. WrittenIsWhole'
      BY <1>1, <2>3, <2>6, <3>1, Orders DEF WrittenIsWhole
    <3> QED
      BY <2>2, <2>4, <3>1, <3>2
         DEF DiskInv, ExistingIsWholeButLast, RemovedIsGone, LoadedExists,
             ServedFits, FailsForAReason
  <2> QED
    BY <1>1, <2>5, <2>6
<1> QED
  BY <1>2, <1>3 DEF Remove

LEMMA CreateKeeps ==
  ASSUME StartInv, Create
  PROVE  DiskInv' /\ ServedFits' /\ FailsForAReason'
<1>1. /\ step \in 1..4 /\ generation \in Nat /\ crashes \in Nat /\ faults \in Nat
      /\ file \in [Files -> {Missing, Torn} \cup 1..generation]
  BY DEF StartInv, TypeOK
<1>2. CASE Fault /\ Fail /\ UNCHANGED disk
  BY <1>2, FaultFails, DiskKept DEF Create
<1>3. CASE /\ file' = [file EXCEPT ![WriteOrder[step]] = Torn]
           /\ place' = "fill" /\ step' = step /\ generation' = generation
  <2>1. WrittenIsWhole'
    BY <1>1, <1>3, Orders DEF StartInv, DiskInv, WrittenIsWhole, Create, Files
  <2>2. ExistingIsWholeButLast'
    BY <1>1, <1>3, <2>1, Orders, FilesAssumption
       DEF WrittenIsWhole, ExistingIsWholeButLast, allFilesExist, Files
  <2> QED
    BY <1>3, <2>1, <2>2
       DEF DiskInv, RemovedIsGone, LoadedExists, TornByFailure, ServedFits, FailsForAReason
<1> QED
  BY <1>2, <1>3 DEF Create, GoTo

LEMMA FillKeeps ==
  ASSUME StartInv, Fill
  PROVE  DiskInv' /\ ServedFits' /\ FailsForAReason'
<1>1. /\ step \in 1..4 /\ generation \in Nat /\ crashes \in Nat /\ faults \in Nat
      /\ file \in [Files -> {Missing, Torn} \cup 1..generation]
  BY DEF StartInv, TypeOK
<1>2. CASE Fault /\ Fail /\ UNCHANGED disk
  BY <1>2, FaultFails, DiskKept DEF Fill
<1>3. CASE /\ file' = [file EXCEPT ![WriteOrder[step]] = generation]
           /\ generation' = generation
           /\ \/ step < 4 /\ place' = "write" /\ step' = step + 1
              \/ step = 4 /\ place' = "load"
  <2>1. /\ generation > 0
        /\ \A i \in 1..4 :
             /\ i <= step => file'[WriteOrder[i]] = generation
             /\ i > step => file'[WriteOrder[i]] = Missing
    BY <1>1, <1>3, Orders DEF StartInv, DiskInv, WrittenIsWhole, Fill, Files
  <2>2. WrittenIsWhole'
    <3>1. CASE place' = "load"
      BY <3>1 DEF WrittenIsWhole
    <3>2. CASE step < 4 /\ place' = "write" /\ step' = step + 1
      <4> SUFFICES ASSUME NEW i \in 1..4
                   PROVE  /\ i < step' => file'[WriteOrder[i]] = generation'
                          /\ i >= step' => file'[WriteOrder[i]] = Missing
        BY <1>3, <2>1, <3>2 DEF WrittenIsWhole
      <4>1. (i < step' => i <= step) /\ (i >= step' => i > step)
        BY <1>1, <3>2
      <4> QED
        BY <1>3, <2>1, <4>1
    <3> QED
      BY <1>3, <3>1, <3>2
  <2>3. \A f \in Files : \E i \in 1..4 : f = WriteOrder[i]
    BY Orders DEF Files
  <2>4. \A f \in Files : file'[f] # Torn
    <3> SUFFICES ASSUME NEW f \in Files PROVE file'[f] # Torn
      OBVIOUS
    <3>1. PICK i \in 1..4 : f = WriteOrder[i]
      BY <2>3
    <3>2. file'[WriteOrder[i]] \in {generation, Missing}
      BY <1>1, <2>1
    <3> QED
      BY <1>1, <3>1, <3>2, FilesAssumption
  <2>5. allFilesExist' => step = 4
    BY <1>1, <2>1, Orders DEF allFilesExist, Files
  <2>6. ASSUME step = 4, NEW f \in Files PROVE file'[f] = generation
    <3>1. PICK i \in 1..4 : f = WriteOrder[i]
      BY <2>3
    <3>2. i <= step
      BY <2>6
    <3> QED
      BY <2>1, <3>1, <3>2
  <2>7. ExistingIsWholeButLast' /\ LoadedExists'
    BY <1>1, <1>3, <2>5, <2>6, FilesAssumption
       DEF ExistingIsWholeButLast, LoadedExists, allFilesExist, Files
  <2> QED
    BY <1>3, <2>2, <2>4, <2>7
       DEF DiskInv, RemovedIsGone, TornByFailure, ServedFits, FailsForAReason
<1> QED
  BY <1>1, <1>2, <1>3, Orders DEF Fill, GoTo

-----------------------------------------------------------------------------
(***************************************************************************)
(* The steps that read it.                                                 *)
(***************************************************************************)
LEMMA LoadKeeps ==
  ASSUME StartInv, Load
  PROVE  DiskInv' /\ ServedFits' /\ FailsForAReason'
<1>1. crashes \in Nat /\ faults \in Nat
  BY DEF StartInv, TypeOK
<1>2. CASE Fault /\ Fail
  BY <1>2, FaultFails, DiskKept DEF Load
<1>3. CASE ~Loads /\ Fail /\ UNCHANGED <<faults, faulted>>
  <2>1. /\ place' = "failed" /\ config' = config /\ UNCHANGED disk
        /\ crashes' = crashes /\ faults' = faults
    BY <1>3 DEF Load, Fail, GoTo
  <2>2. DiskInv'
    BY <1>1, <2>1, DiskKept DEF Load
  <2>3. CASE config.listen = "blank"
    BY <2>1, <2>2, <2>3 DEF FailsForAReason, Refused, ServedFits
  <2>4. CASE config.generated /\ ~PairFits
    <3>1. allFilesExist
      BY <2>4 DEF StartInv, DiskInv, LoadedExists, Load
    <3>2. file["server.key"] = Torn
      BY <2>4, <3>1, FilesAssumption DEF StartInv, DiskInv, ExistingIsWholeButLast, PairFits
    <3>3. crashes + faults > 0
      BY <3>2 DEF StartInv, DiskInv, TornByFailure, Load, Files
    <3>4. FailsForAReason' /\ ServedFits'
      BY <2>1, <3>1, <3>2, <3>3
         DEF FailsForAReason, ServedFits, Stuck, allFilesExist, disk
    <3> QED
      BY <2>2, <3>4
  <2> QED
    BY <1>3, <2>3, <2>4 DEF Loads
<1>4. CASE /\ config.generated => PairFits
           /\ place' = "bind" /\ UNCHANGED <<config, crashes, faults, disk>>
           /\ served' = IF config.generated THEN <<file["server.pem"]>> ELSE <<>>
  <2>1. DiskInv'
    BY <1>1, <1>4, DiskKept DEF Load
  <2>2. config.generated => allFilesExist
    BY DEF StartInv, DiskInv, LoadedExists, Load
  <2>3. ServedFits'
    BY <1>4, <2>2 DEF StartInv, DiskInv, ExistingIsWholeButLast, ServedFits, PairFits, disk
  <2> QED
    BY <1>4, <2>1, <2>3 DEF FailsForAReason
<1> QED
  BY <1>2, <1>3, <1>4 DEF Load, Loads, GoTo, Works, counts

LEMMA BindKeeps ==
  ASSUME StartInv, Bind
  PROVE  DiskInv' /\ ServedFits' /\ FailsForAReason'
<1>1. crashes \in Nat /\ faults \in Nat
  BY DEF StartInv, TypeOK
<1>2. CASE Fault /\ Fail
  BY <1>2, FaultFails, DiskKept DEF Bind
<1>3. CASE place' = "serving" /\ Works /\ UNCHANGED <<config, served, disk>>
  <2>1. DiskInv'
    BY <1>1, <1>3, DiskKept DEF Bind, Works, counts
  <2> QED
    BY <1>3, <2>1 DEF StartInv, ServedFits, FailsForAReason, Bind, disk
<1> QED
  BY <1>2, <1>3 DEF Bind, GoTo

LEMMA MaterialKeeps ==
  ASSUME StartInv, Material
  PROVE  DiskInv' /\ ServedFits' /\ FailsForAReason'
<1>1. crashes \in Nat /\ faults \in Nat
  BY DEF StartInv, TypeOK
<1>2. CASE Fault /\ Fail
  BY <1>2, FaultFails, DiskKept DEF Material
<1>3. CASE /\ GoTo(IF config.generated /\ ~allFilesExist THEN "remove" ELSE "load", 1)
           /\ Works /\ UNCHANGED config
  <2>1. file' = file /\ UNCHANGED disk
    BY DEF Material, disk
  <2>2. ServedFits' /\ FailsForAReason'
    BY <1>3, <2>1, ReasonsKept DEF GoTo
  <2>3. CASE config.generated /\ ~allFilesExist
    <3>1. place' = "remove" /\ step' = 1
      BY <1>3, <2>3 DEF GoTo
    <3>2. TornByFailure' /\ ExistingIsWholeButLast'
      BY <1>3, <2>1, <2>3
         DEF StartInv, DiskInv, TornByFailure, Material, Works, counts,
             ExistingIsWholeButLast, allFilesExist
    <3> QED
      BY <2>1, <2>2, <2>3, <3>1, <3>2
         DEF DiskInv, RemovedIsGone, WrittenIsWhole, LoadedExists, allFilesExist
  <2>4. CASE ~(config.generated /\ ~allFilesExist)
    <3>1. DiskInv'
      BY <1>1, <1>3, <2>1, <2>4, DiskKept DEF Material, GoTo, Works, counts
    <3> QED
      BY <2>2, <3>1
  <2> QED
    BY <2>3, <2>4
<1>4. CASE Fault /\ GoTo("remove", 1) /\ UNCHANGED <<config, crashes>>
  <2>1. UNCHANGED disk
    BY DEF Material
  <2>2. ServedFits' /\ FailsForAReason'
    BY <1>4, <2>1, ReasonsKept DEF GoTo, disk
  <2>3. TornByFailure'
    BY <1>1, <1>4 DEF TornByFailure, Fault
  <2>4. ExistingIsWholeButLast'
    BY <2>1 DEF StartInv, DiskInv, ExistingIsWholeButLast, allFilesExist, disk
  <2>5. RemovedIsGone' /\ WrittenIsWhole' /\ LoadedExists'
    BY <1>4 DEF RemovedIsGone, WrittenIsWhole, LoadedExists, Fault, GoTo
  <2> QED
    BY <2>2, <2>3, <2>4, <2>5 DEF DiskInv
<1> QED
  BY <1>2, <1>3, <1>4 DEF Material

\* Begin, OpenStore, Listen, Stop, Crash, Delete and the end.
LEMMA OthersKeep ==
  ASSUME StartInv,
         \/ \E c \in Configs : Begin(c)
         \/ OpenStore \/ Listen \/ Stop \/ Crash \/ Finished \/ UNCHANGED vars
         \/ \E f \in Files : Delete(f)
  PROVE  DiskInv' /\ ServedFits' /\ FailsForAReason'
<1>1. crashes \in Nat /\ faults \in Nat
  BY DEF StartInv, TypeOK
<1>2. ASSUME NEW c \in Configs, Begin(c) PROVE DiskInv' /\ ServedFits' /\ FailsForAReason'
  <2>1. /\ place = "down" /\ place' \in {"store", "failed"} /\ config' = c
        /\ place' = "failed" => ~normalized(c)
        /\ crashes' = crashes /\ faults' = faults /\ UNCHANGED disk
    BY <1>2 DEF Begin, GoTo
  <2>2. DiskInv'
    BY <1>1, <2>1, DiskKept
  <2> QED
    BY <2>1, <2>2 DEF ServedFits, FailsForAReason, Refused
<1>3. CASE OpenStore \/ Listen
  <2>1. CASE Fault /\ Fail
    BY <1>3, <2>1, FaultFails, DiskKept DEF OpenStore, Listen
  <2>2. CASE /\ place' \in {"listen", "material", "serving"} /\ Works
             /\ place' = "serving" => config.listen = "none"
             /\ config' = config
    <3>1. DiskInv'
      BY <1>1, <1>3, <2>2, DiskKept DEF OpenStore, Listen, Works, counts
    <3>2. CASE place' # "serving"
      BY <1>3, <2>2, <3>1, <3>2 DEF ServedFits, FailsForAReason
    <3> QED
      BY <3>1, <3>2, <2>2 DEF ServedFits, FailsForAReason
  <2> QED
    BY <1>3, <2>1, <2>2 DEF OpenStore, Listen, GoTo
<1>4. CASE Stop
  <2>1. /\ place \in {"serving", "failed"} /\ place' = "down"
        /\ crashes' = crashes /\ faults' = faults /\ UNCHANGED disk
    BY <1>4 DEF Stop, GoTo, counts
  <2>2. DiskInv'
    BY <1>1, <2>1, DiskKept
  <2> QED
    BY <2>1, <2>2 DEF ServedFits, FailsForAReason
<1>5. CASE Crash
  <2>1. /\ place' = "down" /\ crashes' = crashes + 1 /\ faults' = faults /\ UNCHANGED disk
    BY <1>5 DEF Crash, GoTo
  <2>2. DiskInv'
    BY <1>1, <2>1, DiskKept
  <2> QED
    BY <2>1, <2>2 DEF ServedFits, FailsForAReason
<1>6. ASSUME NEW f \in Files, Delete(f) PROVE DiskInv' /\ ServedFits' /\ FailsForAReason'
  <2>1. /\ place = "down" /\ place' = "down" /\ crashes' = crashes /\ faults' = faults
        /\ file' = [file EXCEPT ![f] = Missing]
    BY <1>6 DEF Delete, process
  <2>2. \A g \in Files : file'[g] \in {file[g], Missing}
    BY <2>1 DEF StartInv, TypeOK
  <2>3. file'[f] = Missing
    BY <2>1 DEF StartInv, TypeOK
  <2>4. ~allFilesExist'
    BY <2>3 DEF allFilesExist
  <2>5. TornByFailure'
    BY <2>1, <2>2, FilesAssumption DEF StartInv, DiskInv, TornByFailure
  <2> QED
    BY <2>1, <2>4, <2>5
       DEF DiskInv, ExistingIsWholeButLast, RemovedIsGone, WrittenIsWhole, LoadedExists,
           ServedFits, FailsForAReason
<1>7. CASE Finished \/ UNCHANGED vars
  BY <1>7 DEF Finished, vars, process, disk, counts, StartInv, DiskInv, ExistingIsWholeButLast,
              allFilesExist, RemovedIsGone, WrittenIsWhole, LoadedExists, TornByFailure,
              ServedFits, FailsForAReason, Stuck
<1> QED
  BY <1>2, <1>3, <1>4, <1>5, <1>6, <1>7

-----------------------------------------------------------------------------
(***************************************************************************)
(* The theorems.                                                           *)
(***************************************************************************)
THEOREM StartupInvariant == Spec => []StartInv
<1>1. Init => StartInv
  BY InitStart
<1>2. StartInv /\ [Next]_vars => StartInv'
  <2> SUFFICES ASSUME StartInv, [Next]_vars PROVE StartInv'
    OBVIOUS
  <2>1. TypeOK'
    BY TypeStep, Orders DEF StartInv, DiskInv
  <2>2. DiskInv' /\ ServedFits' /\ FailsForAReason'
    BY RemoveKeeps, CreateKeeps, FillKeeps, LoadKeeps, BindKeeps, MaterialKeeps, OthersKeep
       DEF Next
  <2> QED
    BY <2>1, <2>2 DEF StartInv
<1> QED
  BY <1>1, <1>2, PTL DEF Spec

\* Every variable of Startup keeps its type.
THEOREM TypeCorrect == Spec => []TypeOK
BY StartupInvariant, PTL DEF StartInv

\* What allFilesExist (tls.go) finds is whole, but for the file written last,
\* after any crashes, failures and deletions.
THEOREM ExistingIsWhole == Spec => []ExistingIsWholeButLast
BY StartupInvariant, PTL DEF StartInv, DiskInv

\* A generated certificate that is served fits its key and the CA file.
THEOREM ServedTrusted == Spec => []ServedIsTrusted
<1>1. StartInv => ServedIsTrusted
  BY DEF StartInv, ServedFits, ServedIsTrusted
<1> QED
  BY <1>1, StartupInvariant, PTL

\* Start fails for its configuration (a blank TLS address included), for an
\* operation that failed, or because
\* an earlier crash or failure has left server.key torn.
THEOREM FailuresHaveReasons == Spec => []FailsForAReason
BY StartupInvariant, PTL DEF StartInv

\* A start in which no operation has failed, no os.Stat in particular, touches
\* no whole material (ensureGeneratedTLS).
THEOREM WholeIsKept == Spec => MaterialIsKept
<1>1. StartInv /\ [Next]_vars =>
        [Whole /\ ~faulted /\ deletions' = deletions => file' = file]_vars
  <2> SUFFICES ASSUME StartInv, Next, \A f \in Files : file[f] \in Nat, ~faulted,
                      deletions' = deletions
               PROVE  file' = file
    BY DEF Whole
  <2>1. deletions \in Nat /\ step \in 1..4
    BY DEF StartInv, TypeOK
  <2>2. allFilesExist
    BY FilesAssumption DEF allFilesExist
  <2>3. ~Remove
    BY <2>2 DEF Remove, StartInv, DiskInv, RemovedIsGone
  <2>4. WriteOrder[step] \in Files
    BY <2>1, Orders DEF Files
  <2>5. ~Create /\ ~Fill
    BY <2>1, <2>4, FilesAssumption DEF Create, Fill, StartInv, DiskInv, WrittenIsWhole
  <2>6. \A f \in Files : ~Delete(f)
    BY <2>1 DEF Delete
  <2> QED
    BY <2>3, <2>5, <2>6
       DEF Next, Begin, OpenStore, Listen, Material, Load, Bind, Stop, Crash, Finished,
           vars, disk
<1> QED
  BY <1>1, StartupInvariant, PTL DEF Spec, MaterialIsKept
=============================================================================
