---------------------------- MODULE ArticleStore ----------------------------
(***************************************************************************)
(* The disk-backed article store (store.go, and handlePost of server.go):  *)
(* one file per article, an index of the message IDs in memory, a lock     *)
(* around the index, temporary files for articles that are being posted.   *)
(* The process may be killed between any two steps and started again on    *)
(* what the disk holds; so may the machine, when PowerLoss.                *)
(***************************************************************************)
EXTENDS Integers, FiniteSets

CONSTANTS
  Ids,          \* message IDs; their order is the order of sort.Strings
  HiddenIds,    \* those whose file name begins with ".incoming-"
  TempNames,    \* names os.CreateTemp may draw; all begin with ".incoming-"
  Contents,     \* whole articles
  Sessions,     \* callers of the store: sessions and users of the Go methods
  Prefixes,     \* a prefix stands for the IDs that begin with it
  Percentages,  \* of a deletion by prefix
  StagedIds,    \* IDs whose files the operator puts into the directory
  PowerLoss,    \* the machine may fail, and not the process only
  Partial,      \* the content of a file that is not written yet, or is torn
  NoFile,       \* no such file
  NoCall,       \* no call, no answer
  NoSession,    \* nobody holds the lock
  MaxCalls,     \* bound: calls
  MaxCrashes,   \* bound: crashes
  MaxFaults,    \* bound: failures of the disk
  MaxStaged     \* bound: changes the operator makes

Names == Ids \cup TempNames
Files == Contents \cup {Partial, NoFile}

ASSUME IdsAssumption ==
  /\ Ids \subseteq Int /\ IsFiniteSet(Ids) /\ HiddenIds \subseteq Ids
  /\ StagedIds \subseteq Ids /\ TempNames \cap Ids = {} /\ IsFiniteSet(TempNames)
ASSUME FilesAssumption    == /\ NoFile # Partial /\ Contents \cap {NoFile, Partial} = {}
                             /\ NoFile \notin TempNames
ASSUME SessionsAssumption == NoSession \notin Sessions
ASSUME BulkAssumption     == /\ Prefixes \subseteq SUBSET Ids /\ Percentages \subseteq 0..100
                             /\ PowerLoss \in BOOLEAN
ASSUME BoundsAssumption   == {MaxCalls, MaxCrashes, MaxFaults, MaxStaged} \subseteq Nat

VARIABLES
  disk,      \* the directory: the content of each file
  dirty,     \* files whose content is not synced
  saved,     \* the directory a power loss leaves
  up,        \* the process runs
  index,     \* articleStore.articles
  holder,    \* the session that holds the lock for writing
  pc,        \* where each session is in its call, see Places
  call,      \* the call each session has made
  answer,    \* the answer it is going to get
  temp,      \* the temporary file of its posting
  removing   \* articles its deletion has yet to remove

(***************************************************************************)
(* Counters of the bounds, and history variables.                          *)
(***************************************************************************)
VARIABLES
  calls, crashes, faults, staged,
  promised,  \* what a 240 has promised and no deletion has removed
  strays,    \* temporary files that a crash or a failed removal has left
  touched    \* IDs the operator changed since the index was last read

files    == <<disk, dirty, saved>>
sessions == <<pc, call, answer, temp, removing>>
history  == <<promised, strays, touched>>
counters == <<calls, crashes, faults, staged>>
vars     == <<files, up, index, holder, sessions, counters, history>>

Places ==
  {"idle", "create", "receive", "sync", "commit", "insert", "discard", "find", "read",
   "lookup", "pick", "remove", "unlist", "reload", "reply"}

-----------------------------------------------------------------------------
(***************************************************************************)
(* reload, and what it skips.                                              *)
(***************************************************************************)
SkippedNothing(name) == FALSE
Skipped(name) == name \in TempNames \cup HiddenIds

OnDisk == {name \in Names : disk[name] # NoFile /\ ~Skipped(name)}

\* openArticleStore on a directory that may hold articles already.
Init ==
  /\ \E present \in [StagedIds -> Contents \cup {NoFile}] :
       disk = [name \in Names |-> IF name \in StagedIds THEN present[name] ELSE NoFile]
  /\ dirty = {}
  /\ saved = disk
  /\ up = TRUE
  /\ index = OnDisk
  /\ holder = NoSession
  /\ pc = [s \in Sessions |-> "idle"]
  /\ call = [s \in Sessions |-> NoCall]
  /\ answer = [s \in Sessions |-> NoCall]
  /\ temp = [s \in Sessions |-> NoFile]
  /\ removing = [s \in Sessions |-> {}]
  /\ calls = 0 /\ crashes = 0 /\ faults = 0 /\ staged = 0
  /\ promised = [id \in Ids |-> NoFile]
  /\ strays = {}
  /\ touched = {}

-----------------------------------------------------------------------------
(***************************************************************************)
(* Helpers of the steps.                                                   *)
(***************************************************************************)
At(s, place) == up /\ pc[s] = place
Goto(s, place) == pc' = [pc EXCEPT ![s] = place]
Answers(s, reply) == answer' = [answer EXCEPT ![s] = reply]

\* The lock: one writer, or readers only.
Free == holder = NoSession
LocksToRead(s) == Free /\ UNCHANGED holder
Locks(s) == Free /\ holder' = s
Unlocks == holder' = NoSession

\* The disk fails.
Fault == faults < MaxFaults /\ faults' = faults + 1

Unlink(name) ==
  /\ disk' = [disk EXCEPT ![name] = NoFile]
  /\ dirty' = dirty \ {name}
  /\ UNCHANGED saved

Calls ==
       [op : {"post"}, id : Ids, content : Contents]
  \cup [op : {"load", "exists", "delete"}, id : Ids]
  \cup [op : {"deletePrefix"}, prefix : Prefixes, percentage : Percentages]
  \cup [op : {"reload"}]

Replies ==
       {"post"} \X {"received", "duplicate", "failed"}
  \cup {"article"} \X Files
  \cup {"exists"} \X BOOLEAN
  \cup {"count", "deleted", "failed"} \X Nat

ASSUME CallsAssumption == NoCall \notin Calls \cup Replies

FirstPlace(c) ==
  CASE c.op = "post"   -> "create"
    [] c.op = "load"   -> "find"
    [] c.op = "exists" -> "lookup"
    [] c.op = "reload" -> "reload"
    [] OTHER           -> "pick"

-----------------------------------------------------------------------------
\* A session calls the store.
Invoke(s) ==
  /\ At(s, "idle") /\ calls < MaxCalls
  /\ calls' = calls + 1
  /\ \E c \in Calls : call' = [call EXCEPT ![s] = c] /\ Goto(s, FirstPlace(c))
  /\ UNCHANGED <<files, up, index, holder, answer, temp, removing,
                 crashes, faults, staged, history>>

\* The answer goes out.
Return(s) ==
  /\ At(s, "reply")
  /\ Goto(s, "idle")
  /\ call' = [call EXCEPT ![s] = NoCall]
  /\ answer' = [answer EXCEPT ![s] = NoCall]
  /\ UNCHANGED <<files, up, index, holder, temp, removing, counters, history>>

-----------------------------------------------------------------------------
(***************************************************************************)
(* handlePost: readPostedArticle, commit.                                  *)
(***************************************************************************)

\* CreateTemp draws a name that no file has, or fails for want of one.
CreateTemp(s) ==
  /\ At(s, "create")
  /\ \E name \in TempNames :
       /\ disk[name] = NoFile
       /\ disk' = [disk EXCEPT ![name] = Partial]
       /\ dirty' = dirty \cup {name}
       /\ temp' = [temp EXCEPT ![s] = name]
  /\ Goto(s, "receive")
  /\ UNCHANGED <<saved, up, index, holder, call, answer, removing, counters, history>>

CreateFails(s) ==
  /\ At(s, "create")
  /\ \/ Fault
     \/ (\A name \in TempNames : disk[name] # NoFile) /\ UNCHANGED faults
  /\ Answers(s, <<"post", "failed">>) /\ Goto(s, "reply")
  /\ UNCHANGED <<files, up, index, holder, call, temp, removing,
                 calls, crashes, staged, history>>

\* The article came in to its last line and is flushed.
Receive(s) ==
  /\ At(s, "receive")
  /\ disk' = [disk EXCEPT ![temp[s]] = call[s].content]
  /\ Goto(s, "sync")
  /\ UNCHANGED <<dirty, saved, up, index, holder, call, answer, temp, removing,
                 counters, history>>

SyncNothing(s) ==
  /\ At(s, "sync")
  /\ Goto(s, "commit")
  /\ UNCHANGED <<files, up, index, holder, call, answer, temp, removing,
                 counters, history>>

\* temporary.Sync, Close, and the message ID is read from the header.
Sync(s) ==
  /\ At(s, "sync")
  /\ dirty' = dirty \ {temp[s]}
  /\ saved' = [saved EXCEPT ![temp[s]] = IF @ = NoFile THEN @ ELSE disk[temp[s]]]
  /\ Goto(s, "commit")
  /\ UNCHANGED <<disk, up, index, holder, call, answer, temp, removing,
                 counters, history>>

\* The temporary file is removed; that may fail, and nobody looks.
Discards(s) ==
  /\ \/ Unlink(temp[s]) /\ UNCHANGED <<faults, strays>>
     \/ Fault /\ strays' = strays \cup {temp[s]} /\ UNCHANGED files
  /\ temp' = [temp EXCEPT ![s] = NoFile]
  /\ Goto(s, "reply")

\* cleanup: the client is gone, sent a line that is too long or no message ID,
\* or the file cannot be written, synced or closed.
Abort(s) ==
  /\ At(s, "receive") \/ At(s, "sync")
  /\ Discards(s)
  /\ Answers(s, <<"post", "failed">>)
  /\ UNCHANGED <<up, index, holder, call, removing, calls, crashes, staged,
                 promised, touched>>

\* commit, under the lock: an article the index has is not stored again ...
DuplicateNever(id) == FALSE
Duplicate(id) == id \in index

CommitDuplicate(s) ==
  /\ At(s, "commit") /\ Free
  /\ Duplicate(call[s].id)
  /\ Answers(s, <<"post", "duplicate">>) /\ Goto(s, "discard")
  /\ UNCHANGED <<files, up, index, holder, call, temp, removing, counters, history>>

\* ... else the temporary file becomes the article's ...
CommitRename(s) ==
  LET id == call[s].id IN
  /\ At(s, "commit") /\ Locks(s)
  /\ ~Duplicate(id)
  /\ disk' = [disk EXCEPT ![id] = disk[temp[s]], ![temp[s]] = NoFile]
  /\ dirty' = IF temp[s] \in dirty THEN (dirty \ {temp[s]}) \cup {id}
                                   ELSE dirty \ {id}
  /\ temp' = [temp EXCEPT ![s] = NoFile]
  /\ Answers(s, <<"post", "received">>) /\ Goto(s, "insert")
  /\ UNCHANGED <<saved, up, index, call, removing, counters, history>>

CommitFails(s) ==
  /\ At(s, "commit") /\ Free
  /\ ~Duplicate(call[s].id)
  /\ Fault
  /\ Answers(s, <<"post", "failed">>) /\ Goto(s, "discard")
  /\ UNCHANGED <<files, up, index, holder, call, temp, removing,
                 calls, crashes, staged, history>>

\* ... and the ID is listed.
Insert(s) ==
  /\ At(s, "insert")
  /\ index' = index \cup {call[s].id}
  /\ Unlocks
  /\ Goto(s, "reply")
  /\ promised' = [promised EXCEPT ![call[s].id] = call[s].content]
  /\ UNCHANGED <<files, up, call, answer, temp, removing, counters, strays, touched>>

DiscardNothing(s) ==
  /\ At(s, "discard")
  /\ temp' = [temp EXCEPT ![s] = NoFile]
  /\ Goto(s, "reply")
  /\ UNCHANGED <<files, up, index, holder, call, answer, removing, counters, history>>

\* handlePost removes the temporary file of an article that was not committed.
Discard(s) ==
  /\ At(s, "discard")
  /\ Discards(s)
  /\ UNCHANGED <<up, index, holder, call, answer, removing, calls, crashes, staged,
                 promised, touched>>

-----------------------------------------------------------------------------
(***************************************************************************)
(* exists and load.                                                        *)
(***************************************************************************)
Lookup(s) ==
  /\ At(s, "lookup") /\ Free
  /\ Answers(s, <<"exists", call[s].id \in index>>) /\ Goto(s, "reply")
  /\ UNCHANGED <<files, up, index, holder, call, temp, removing, counters, history>>

\* load asks the index under the lock ...
Find(s) ==
  /\ At(s, "find") /\ Free
  /\ IF call[s].id \in index
     THEN Goto(s, "read") /\ UNCHANGED answer
     ELSE Goto(s, "reply") /\ Answers(s, <<"article", NoFile>>)
  /\ UNCHANGED <<files, up, index, holder, call, temp, removing, counters, history>>

\* ... and reads the file without it.
Read(s) ==
  /\ At(s, "read")
  /\ \/ Answers(s, <<"article", disk[call[s].id]>>) /\ UNCHANGED faults
     \/ Fault /\ Answers(s, <<"article", NoFile>>)
  /\ Goto(s, "reply")
  /\ UNCHANGED <<files, up, index, holder, call, temp, removing,
                 calls, crashes, staged, history>>

-----------------------------------------------------------------------------
(***************************************************************************)
(* deleteByID and deleteByPrefix: under the lock from here ...             *)
(***************************************************************************)
Share(matching, percentage) ==
  {id \in matching :
     Cardinality({other \in matching : other < id})
       < (Cardinality(matching) * percentage) \div 100}

Victims(c) ==
  IF c.op = "delete" THEN {c.id} \cap index
                     ELSE Share(c.prefix \cap index, c.percentage)

Pick(s) ==
  /\ At(s, "pick") /\ Locks(s)
  /\ removing' = [removing EXCEPT ![s] = Victims(call[s])]
  /\ Answers(s, <<"deleted", Cardinality(Victims(call[s]))>>)
  /\ Goto(s, "remove")
  /\ UNCHANGED <<files, up, index, call, temp, counters, history>>

\* ... the smallest is next ...
NextVictim(s) == CHOOSE id \in removing[s] : \A other \in removing[s] : id <= other

\* ... its file is removed, which it may have been already ...
Remove(s) ==
  /\ At(s, "remove") /\ removing[s] # {}
  /\ Unlink(NextVictim(s))
  /\ promised' = [promised EXCEPT ![NextVictim(s)] = NoFile]
  /\ Goto(s, "unlist")
  /\ UNCHANGED <<up, index, holder, call, answer, temp, removing, counters,
                 strays, touched>>

\* ... and it leaves the index.
Unlist(s) ==
  /\ At(s, "unlist")
  /\ index' = index \ {NextVictim(s)}
  /\ removing' = [removing EXCEPT ![s] = @ \ {NextVictim(s)}]
  /\ Goto(s, "remove")
  /\ UNCHANGED <<files, up, holder, call, answer, temp, counters, history>>

\* A file cannot be removed: it stays listed, and so does the rest.
GivesUp(s) ==
  /\ At(s, "remove") /\ removing[s] # {}
  /\ Fault
  /\ Answers(s, <<"failed", 0>>)
  /\ removing' = [removing EXCEPT ![s] = {}]
  /\ Goto(s, "reply")
  /\ UNCHANGED <<files, up, call, temp, calls, crashes, staged, history>>

RemoveFailsUnlisted(s) == GivesUp(s) /\ Unlocks /\ index' = index \ {NextVictim(s)}

RemoveFailsLocked(s) == GivesUp(s) /\ UNCHANGED <<index, holder>>

RemoveFails(s) == GivesUp(s) /\ Unlocks /\ UNCHANGED index

RemovedAll(s) ==
  /\ At(s, "remove") /\ removing[s] = {}
  /\ Unlocks
  /\ Goto(s, "reply")
  /\ UNCHANGED <<files, up, index, call, answer, temp, removing, counters, history>>

\* reload reads the directory under the lock; when that fails the index stays.
Reload(s) ==
  /\ At(s, "reload") /\ Free
  /\ \/ /\ index' = OnDisk
        /\ Answers(s, <<"count", Cardinality(OnDisk)>>)
        /\ touched' = {}
        /\ UNCHANGED faults
     \/ Fault /\ Answers(s, <<"failed", 0>>) /\ UNCHANGED <<index, touched>>
  /\ Goto(s, "reply")
  /\ UNCHANGED <<files, up, holder, call, temp, removing, calls, crashes, staged,
                 promised, strays>>

-----------------------------------------------------------------------------
(***************************************************************************)
(* The operator, the disk and the process.                                 *)
(***************************************************************************)

\* The operator puts an article into the directory, or takes one out.
Stage(id) ==
  /\ staged < MaxStaged
  /\ staged' = staged + 1
  /\ \E file \in Contents \cup {NoFile} :
       /\ disk' = [disk EXCEPT ![id] = file]
       /\ saved' = [saved EXCEPT ![id] = file]
  /\ dirty' = dirty \ {id}
  /\ touched' = touched \cup {id}
  /\ UNCHANGED <<up, index, holder, sessions, calls, crashes, faults, promised, strays>>

\* The system writes the directory, and not the contents, to the disk.
WriteBack ==
  /\ PowerLoss
  /\ saved' = [name \in Names |-> IF name \in dirty THEN Partial ELSE disk[name]]
  /\ UNCHANGED <<disk, dirty, up, index, holder, sessions, counters, history>>

Stops ==
  /\ up' = FALSE
  /\ holder' = NoSession
  /\ pc' = [s \in Sessions |-> "idle"]
  /\ call' = [s \in Sessions |-> NoCall]
  /\ answer' = [s \in Sessions |-> NoCall]
  /\ temp' = [s \in Sessions |-> NoFile]
  /\ removing' = [s \in Sessions |-> {}]
  /\ index' = {}

\* The process is killed.
Crash ==
  /\ up /\ crashes < MaxCrashes
  /\ crashes' = crashes + 1
  /\ Stops
  /\ strays' = {name \in TempNames : disk[name] # NoFile}
  /\ UNCHANGED <<files, calls, faults, staged, promised, touched>>

\* The machine fails: the directory is what was written back.
LosePower ==
  /\ PowerLoss /\ up /\ crashes < MaxCrashes
  /\ crashes' = crashes + 1
  /\ Stops
  /\ disk' = saved
  /\ dirty' = {}
  /\ promised' = [id \in Ids |-> NoFile]
  /\ strays' = {name \in TempNames : saved[name] # NoFile}
  /\ UNCHANGED <<saved, calls, faults, staged, touched>>

\* Start: openArticleStore.
Start ==
  /\ ~up
  /\ up' = TRUE
  /\ index' = OnDisk
  /\ touched' = {}
  /\ UNCHANGED <<files, holder, sessions, counters, promised, strays>>

-----------------------------------------------------------------------------
PostStep(s) ==
  \/ CreateTemp(s) \/ CreateFails(s) \/ Sync(s) \/ Insert(s) \/ Discard(s)
  \/ CommitDuplicate(s) \/ CommitRename(s) \/ CommitFails(s)

ReadStep(s) == Lookup(s) \/ Find(s) \/ Read(s)

DeleteStep(s) == Pick(s) \/ Remove(s) \/ Unlist(s) \/ RemoveFails(s) \/ RemovedAll(s)

\* Steps a session takes without waiting for its client.
SessionStep(s) ==
  PostStep(s) \/ ReadStep(s) \/ DeleteStep(s) \/ Reload(s) \/ Return(s)

\* No call, crash or change is left to make.
Quiet ==
  /\ up /\ \A s \in Sessions : pc[s] = "idle"
  /\ UNCHANGED vars

Next ==
  \/ \E s \in Sessions :
       Invoke(s) \/ Receive(s) \/ Abort(s) \/ SessionStep(s)
  \/ \E id \in StagedIds : Stage(id)
  \/ WriteBack \/ Crash \/ LosePower \/ Start \/ Quiet

\* A session that can take a step takes one; its client and the operator may not.
Fairness == \A s \in Sessions : WF_vars(SessionStep(s))

Spec == Init /\ [][Next]_vars

FairSpec == Spec /\ Fairness

-----------------------------------------------------------------------------
(***************************************************************************)
(* Properties.                                                             *)
(***************************************************************************)

\* Every variable has its type; the index lists no temporary file.
TypeOK ==
  /\ disk \in [Names -> Files] /\ saved \in [Names -> Files]
  /\ dirty \subseteq Names
  /\ up \in BOOLEAN
  /\ index \subseteq Ids
  /\ holder \in Sessions \cup {NoSession}
  /\ pc \in [Sessions -> Places]
  /\ call \in [Sessions -> Calls \cup {NoCall}]
  /\ answer \in [Sessions -> Replies \cup {NoCall}]
  /\ temp \in [Sessions -> TempNames \cup {NoFile}]
  /\ removing \in [Sessions -> SUBSET Ids]
  /\ calls \in 0..MaxCalls /\ crashes \in 0..MaxCrashes
  /\ faults \in 0..MaxFaults /\ staged \in 0..MaxStaged
  /\ promised \in [Ids -> Contents \cup {NoFile}]
  /\ strays \subseteq TempNames
  /\ touched \subseteq Ids

(***************************************************************************)
(* When no writer is at work, the index lists exactly the articles that    *)
(* are in the directory, whatever failed or crashed, but for IDs that are  *)
(* hidden from reload and files the operator touched after the last one.   *)
(***************************************************************************)
IndexMatchesDisk ==
  up /\ Free =>
    \A id \in Ids \ (HiddenIds \cup touched) : id \in index <=> disk[id] # NoFile

(***************************************************************************)
(* Only whole articles are ever listed: no file that is still being        *)
(* received, and none that a power loss tore after its 240.                *)
(***************************************************************************)
OnlyWholeArticles == \A name \in index : disk[name] # Partial

(***************************************************************************)
(* What a 240 has promised stays listed with the content that was posted,  *)
(* through failed deletions, duplicates, reloads and restarts, until it is *)
(* deleted.  (A power loss may undo a rename that is not written back, and *)
(* the operator may take a file away.)                                     *)
(***************************************************************************)
PromisesKept ==
  \A id \in Ids \ (HiddenIds \cup StagedIds) :
    promised[id] # NoFile => disk[id] = promised[id] /\ (up => id \in index)

(***************************************************************************)
(* No posting leaves its temporary file behind, whichever way it ends: the *)
(* ones in the directory are in use, or a crash or a failed removal left   *)
(* them.                                                                   *)
(***************************************************************************)
NoTempLeft ==
  \A name \in TempNames : disk[name] # NoFile =>
    name \in strays \/ \E s \in Sessions : temp[s] = name

(***************************************************************************)
(* The account behind these.  Where a session stands tells its call.       *)
(***************************************************************************)
Posts     == [op : {"post"}, id : Ids, content : Contents]
Singles   == [op : {"load", "exists", "delete"}, id : Ids]
Deletions == Singles \cup [op : {"deletePrefix"}, prefix : Prefixes, percentage : Percentages]

HaveTemp == {"receive", "sync", "commit", "discard"}
Writing  == {"insert", "remove", "unlist"}

CallsPlaced ==
  \A s \in Sessions :
    /\ pc[s] \in HaveTemp \cup {"create", "insert"} => call[s] \in Posts
    /\ pc[s] \in {"find", "read", "lookup"} => call[s] \in Singles
    /\ pc[s] = "pick" => call[s] \in Deletions

\* The holder of the lock is the one that writes.
LockHeld ==
  /\ holder # NoSession => pc[holder] \in Writing
  /\ \A s \in Sessions : pc[s] \in Writing => holder = s
  /\ ~up => \A s \in Sessions : pc[s] = "idle"

\* Every posting has a file of its own, which is whole and synced at its commit.
TempsOwned ==
  \A s \in Sessions :
    /\ pc[s] \notin HaveTemp => temp[s] = NoFile
    /\ pc[s] \in HaveTemp =>
         /\ temp[s] \in TempNames /\ disk[temp[s]] # NoFile
         /\ pc[s] \in {"sync", "commit"} => disk[temp[s]] = call[s].content
         /\ pc[s] = "commit" => temp[s] \notin dirty
         /\ \A t \in Sessions : t # s /\ pc[t] \in HaveTemp => temp[t] # temp[s]

\* No article's file is torn, and none can be by a power loss.
NeverTorn ==
  /\ dirty \subseteq TempNames
  /\ \A id \in Ids : Partial \notin {disk[id], saved[id]}

\* What the holder of the lock has done to the directory and not to the index.
Underway ==
  \A s \in Sessions :
    /\ pc[s] = "insert" =>
         /\ call[s].id \notin index
         /\ call[s].id \notin touched => disk[call[s].id] = call[s].content
    /\ pc[s] \in {"remove", "unlist"} => removing[s] \subseteq index
    /\ pc[s] = "unlist" =>
         /\ removing[s] # {}
         /\ promised[NextVictim(s)] = NoFile
         /\ NextVictim(s) \notin touched => disk[NextVictim(s)] = NoFile

\* But for that the index lists what is in the directory.
Inserting(id) == \E s \in Sessions : pc[s] = "insert" /\ call[s].id = id
Unlisting(id) == \E s \in Sessions : pc[s] = "unlist" /\ NextVictim(s) = id

IndexAccounted ==
  /\ touched \subseteq StagedIds
  /\ up => \A id \in Ids \ (HiddenIds \cup touched) :
             id \in index <=> (disk[id] # NoFile /\ ~Inserting(id)) \/ Unlisting(id)

\* The inductive invariant.
StoreInv ==
  /\ TypeOK /\ CallsPlaced /\ LockHeld /\ TempsOwned /\ NeverTorn
  /\ Underway /\ IndexAccounted /\ PromisesKept

\* A call is answered when it takes effect, at the places of ArticleMap's steps.
Asked == {"create", "receive", "sync", "commit", "find", "read", "lookup", "pick", "reload"}

CallsAnswered ==
  \A s \in Sessions :
    /\ pc[s] = "idle" <=> call[s] = NoCall
    /\ pc[s] # "idle" => call[s] \in Calls
    /\ pc[s] \in Asked \cup {"idle"} <=> answer[s] = NoCall
    /\ pc[s] \in {"find", "read"} => call[s].op = "load"
    /\ pc[s] = "lookup" => call[s].op = "exists"
    /\ pc[s] = "reload" => call[s].op = "reload"
    /\ pc[s] \in {"pick", "remove", "unlist"} => call[s].op \in {"delete", "deletePrefix"}
    /\ removing[s] # {} => pc[s] \in {"remove", "unlist"}

(***************************************************************************)
(* A call that does not wait for its client comes back: whatever fails,    *)
(* nobody keeps the lock.                                                  *)
(***************************************************************************)
CallsReturn ==
  \A s \in Sessions :
    pc[s] \notin {"idle", "create", "receive"} ~> pc[s] = "idle"

(***************************************************************************)
(* The store keeps the promise of ArticleMap: the directory is the map, an *)
(* article is in it from its rename and out of it from its removal on.     *)
(***************************************************************************)
StillRemoving ==
  [s \in Sessions |-> IF pc[s] = "unlist" THEN removing[s] \ {NextVictim(s)}
                                          ELSE removing[s]]

Map == INSTANCE ArticleMap
         WITH stored <- [id \in Ids |-> disk[id]], removing <- StillRemoving

ImplementsMap == Map!Spec

(***************************************************************************)
(* What the tests say, and the code does not do for every message ID: an   *)
(* article that was answered with 240 is found after a reload or restart.  *)
(***************************************************************************)
PostedIsFoundAfterReload ==
  \A id \in Ids \ StagedIds : promised[id] # NoFile /\ up => id \in index
=============================================================================
