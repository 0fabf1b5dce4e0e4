------------------------- MODULE PublicCheckProofs -------------------------
(***************************************************************************)
(* What a passing scan of the history is worth, and a commit that the hook *)
(* let through, for any paths, rules, contents and bounds.                 *)
(***************************************************************************)
EXTENDS PublicCheck, TLAPS

Tree == [Paths -> Contents \cup {Missing, Link}]

\* What the rules say of a content does not depend on where it stands.
LEMMA NoRuleAnywhere ==
  ASSUME NEW p \in Paths, NEW q \in Paths, NEW content \in Contents,
         scanContents(p, content) = {}
  PROVE  scanContents(q, content) = {}
<1>1. CASE content.binary
  BY <1>1 DEF scanContents
<1>2. CASE ~content.binary
  <2>1. \A rule \in content.matches : FALSE
    BY <1>2 DEF scanContents
  <2> QED
    BY <1>2, <2>1 DEF scanContents
<1> QED
  BY <1>1, <1>2

\* An object is a content.
LEMMA BlobsAreContents ==
  ASSUME NEW tree \in Tree, NEW p \in Paths, tree[p] # Missing
  PROVE  Blob(tree[p]) \in Contents
BY ContentsAssumption DEF Tree, Blob

\* Every object of a tree is one of the repository's.
LEMMA ObjectsAreContents ==
  ASSUME history \in Seq(Tree)
  PROVE  /\ Objects \subseteq Contents
         /\ \A i \in 1..Len(history), p \in Paths :
              history[i][p] # Missing => Blob(history[i][p]) \in Objects
<1>1. \A i \in DOMAIN history : history[i] \in Tree
  OBVIOUS
<1>2. \A i \in DOMAIN history : ObjectsOf(history[i]) \subseteq Contents
  BY <1>1, BlobsAreContents DEF ObjectsOf
<1> QED
  BY <1>2 DEF Objects, ObjectsOf

-----------------------------------------------------------------------------
(***************************************************************************)
(* The inductive invariant: every object that was reachable when the scan  *)
(* began is still in the queue, was left out, or has nothing in it that a  *)
(* rule matches - or there is a finding, and the scan will not pass.       *)
(***************************************************************************)
Seen(object) ==
  \/ object \in queue \cup skipped
  \/ findings # {}
  \/ \A p \in Paths : scanContents(p, object) = {}

AllSeen ==
  mode = "all" /\ status \in {"scan", "passed"} =>
    \A i \in 1..since, p \in Paths :
      history[i][p] # Missing => Seen(Blob(history[i][p]))

PassedIsThrough ==
  /\ status = "passed" => queue = {} /\ findings = {}
  /\ status = "read" => mode # "all"

ScanInv == TypeOK /\ AllSeen /\ PassedIsThrough

LEMMA InitScan == Init => ScanInv
<1> SUFFICES ASSUME Init PROVE ScanInv
  OBVIOUS
<1>1. TypeOK
  <2>1. worktree \in Tree /\ index \in Tree /\ reading \in Paths
    BY DEF Init, Tree
  <2>2. history \in Seq(Tree) /\ since \in 0..Len(history)
    BY DEF Init
  <2> QED
    BY <2>1, <2>2 DEF Init, TypeOK, Tree
<1>2. AllSeen /\ PassedIsThrough
  BY DEF Init, AllSeen, PassedIsThrough
<1> QED
  BY <1>1, <1>2 DEF ScanInv

\* What a step that leaves the scan alone needs.
LEMMA HistoryGrows ==
  ASSUME ScanInv, TypeOK', UNCHANGED <<mode, queue, findings, skipped, since>>,
         UNCHANGED status \/ status' = "idle",
         history' = history \/ history' = Append(history, index)
  PROVE  ScanInv'
<1>1. history \in Seq(Tree) /\ index \in Tree /\ since \in 0..Len(history)
  BY DEF ScanInv, TypeOK, Tree
<1>2. \A i \in 1..since : history'[i] = history[i]
  BY <1>1
<1>3. AllSeen'
  BY <1>2 DEF ScanInv, AllSeen, Seen, Blob, scanContents
<1>4. PassedIsThrough'
  BY DEF ScanInv, PassedIsThrough
<1> QED
  BY <1>3, <1>4 DEF ScanInv

LEMMA BeginScan ==
  ASSUME ScanInv, NEW m \in {"tree", "staged", "all", "both"}, NEW hooked \in BOOLEAN,
         Begin(m, hooked)
  PROVE  ScanInv'
<1>1. history \in Seq(Tree) /\ history' = history /\ since' = Len(history)
  BY DEF ScanInv, TypeOK, Tree, Begin, repository
<1>2. TypeOK'
  <2>1. queue' \subseteq IF mode' = "all" THEN Contents ELSE Paths
    BY <1>1, ObjectsAreContents DEF Begin, trackedPaths
  <2>2. since' \in 0..Len(history')
    BY <1>1
  <2> QED
    BY <2>1, <2>2 DEF ScanInv, TypeOK, Begin, repository
<1>3. AllSeen'
  <2>1. CASE m = "all"
    <3>1. queue' = Objects
      BY <2>1 DEF Begin
    <3> QED
      BY <1>1, <3>1, ObjectsAreContents DEF AllSeen, Seen
  <2>2. CASE m # "all"
    BY <2>2 DEF Begin, AllSeen
  <2> QED
    BY <2>1, <2>2
<1>4. PassedIsThrough'
  BY DEF Begin, PassedIsThrough
<1> QED
  BY <1>2, <1>3, <1>4 DEF ScanInv

LEMMA StatScan ==
  ASSUME ScanInv, NEW p \in Paths, Stat(p)
  PROVE  ScanInv'
<1>1. mode # "all" /\ mode' = mode /\ status' \in {"scan", "read", "error"}
  BY DEF Stat, Scans
<1>2. TypeOK'
  BY <1>1 DEF ScanInv, TypeOK, Stat, repository
<1> QED
  BY <1>1, <1>2 DEF ScanInv, AllSeen, PassedIsThrough

LEMMA ReadScan ==
  ASSUME ScanInv, Read
  PROVE  ScanInv'
<1>1. mode # "all" /\ mode' = mode /\ status' \in {"scan", "error"}
  BY DEF Read, ScanInv, PassedIsThrough
<1>2. TypeOK'
  BY <1>1 DEF ScanInv, TypeOK, Read, repository
<1> QED
  BY <1>1, <1>2 DEF ScanInv, AllSeen, PassedIsThrough

\* Where an object is scanned, what a rule matches becomes a finding.
LEMMA ObjectScan ==
  ASSUME ScanInv, NEW object \in Contents, ScanObject(object)
  PROVE  ScanInv'
<1>1. /\ mode' = mode /\ mode = "all" /\ status = "scan" /\ status' \in {"scan", "error"}
      /\ queue' = queue \ {object}
      /\ UNCHANGED <<worktree, index, history, hook, reading, matched, since>>
  BY DEF ScanObject, Scans, repository
<1>2. findings \subseteq findings' /\ skipped \subseteq skipped'
      /\ skipped' \subseteq skipped \cup {object}
  BY DEF ScanObject
<1>3. TypeOK'
  BY <1>1, <1>2 DEF ScanInv, TypeOK
<1>4. ASSUME status' = "scan" PROVE Seen(object)'
  <2>1. CASE object \in skipped'
    BY <2>1 DEF Seen
  <2>2. CASE object \notin skipped'
    <3>1. PICK p \in NamesOf(object) :
            findings' = findings \cup scanPath(p) \cup scanContents(p, object)
      BY <1>4, <2>2 DEF ScanObject
    <3>2. p \in Paths
      BY DEF NamesOf
    <3>3. CASE scanContents(p, object) = {}
      <4>1. \A q \in Paths : scanContents(q, object) = {}
        BY <3>2, <3>3, NoRuleAnywhere
      <4> QED
        BY <4>1 DEF Seen, scanContents
    <3>4. CASE scanContents(p, object) # {}
      BY <3>1, <3>4 DEF Seen
    <3> QED
      BY <3>3, <3>4
  <2> QED
    BY <2>1, <2>2
<1>5. AllSeen'
  <2> SUFFICES ASSUME status' = "scan", NEW i \in 1..since, NEW p \in Paths,
                      history[i][p] # Missing
               PROVE  Seen(Blob(history[i][p]))'
    BY <1>1 DEF AllSeen, Blob
  <2> DEFINE o == Blob(history[i][p])
  <2>1. Seen(o)
    BY <1>1 DEF ScanInv, AllSeen
  <2>2. CASE o = object
    BY <1>1, <1>4, <2>2 DEF Blob, Seen
  <2>3. CASE o # object
    BY <1>1, <1>2, <2>1, <2>3 DEF Seen, Blob, scanContents
  <2> QED
    BY <2>2, <2>3
<1>6. PassedIsThrough'
  BY <1>1 DEF PassedIsThrough
<1> QED
  BY <1>3, <1>5, <1>6 DEF ScanInv

LEMMA ReportScan ==
  ASSUME ScanInv, Report
  PROVE  ScanInv'
<1>1. TypeOK'
  BY DEF ScanInv, TypeOK, Report, repository
<1>2. AllSeen'
  BY DEF ScanInv, AllSeen, Seen, Report, repository, Blob, scanContents
<1>3. PassedIsThrough'
  BY DEF PassedIsThrough, Report
<1> QED
  BY <1>1, <1>2, <1>3 DEF ScanInv

LEMMA OthersScan ==
  ASSUME ScanInv,
         \/ \E p \in Paths, entry \in Contents \cup {Missing, Dir, Link} : Edit(p, entry)
         \/ \E p \in Paths : Add(p)
         \/ Commit \/ Dismiss \/ Finished \/ UNCHANGED vars
  PROVE  ScanInv'
<1>1. CASE \E p \in Paths, entry \in Contents \cup {Missing, Dir, Link} : Edit(p, entry)
  <2>1. TypeOK'
    BY <1>1 DEF ScanInv, TypeOK, Edit, scan
  <2> QED
    BY <1>1, <2>1, HistoryGrows DEF Edit, scan
<1>2. CASE \E p \in Paths : Add(p)
  <2>1. TypeOK'
    BY <1>2 DEF ScanInv, TypeOK, Add
  <2> QED
    BY <1>2, <2>1, HistoryGrows DEF Add
<1>3. CASE Commit
  <2>1. history \in Seq(Tree) /\ index \in Tree /\ since \in 0..Len(history)
    BY DEF ScanInv, TypeOK, Tree
  <2>2. history' = Append(history, index)
    BY <1>3 DEF Commit
  <2>3. history' \in Seq(Tree) /\ since \in 0..Len(history')
    BY <2>1, <2>2
  <2>4. TypeOK'
    BY <1>3, <2>3 DEF ScanInv, TypeOK, Commit, Tree
  <2> QED
    BY <1>3, <2>2, <2>4, HistoryGrows DEF Commit
<1>4. CASE Dismiss
  <2>1. TypeOK'
    BY <1>4 DEF ScanInv, TypeOK, Dismiss, repository
  <2> QED
    BY <1>4, <2>1, HistoryGrows DEF Dismiss, repository
<1>5. CASE Finished \/ UNCHANGED vars
  <2>1. UNCHANGED <<repository, scan>>
    BY <1>5 DEF Finished, vars
  <2>2. TypeOK'
    BY <2>1 DEF ScanInv, TypeOK, repository, scan
  <2> QED
    BY <2>1, <2>2, HistoryGrows DEF repository, scan
<1> QED
  BY <1>1, <1>2, <1>3, <1>4, <1>5

THEOREM ScanInvariant == Spec => []ScanInv
<1>1. Init => ScanInv
  BY InitScan
<1>2. ScanInv /\ [Next]_vars => ScanInv'
  <2> SUFFICES ASSUME ScanInv, [Next]_vars PROVE ScanInv'
    OBVIOUS
  <2> QED
    BY BeginScan, StatScan, ReadScan, ObjectScan, ReportScan, OthersScan DEF Next
<1> QED
  BY <1>1, <1>2, PTL DEF Spec

\* Every variable of PublicCheck keeps its type.
THEOREM TypeCorrect == Spec => []TypeOK
BY ScanInvariant, PTL DEF ScanInv

\* A scan of the history that passes has looked at every content of every
\* commit there was when it began (checkAllHistory), and found nothing.
THEOREM HistoryIsClean == Spec => []PassedHistoryIsClean
<1>1. ScanInv => PassedHistoryIsClean
  BY DEF ScanInv, AllSeen, PassedIsThrough, Seen, PassedHistoryIsClean
<1> QED
  BY <1>1, ScanInvariant, PTL

-----------------------------------------------------------------------------
(***************************************************************************)
(* The hook.  While all it has read is what is staged, each path it listed *)
(* is still in the queue, is about to be read, or holds what is allowed -  *)
(* or there is a finding.                                                  *)
(***************************************************************************)
Allowed(p) ==
  p \notin ForbiddenPaths /\ index[p] # Link /\ scanContents(p, index[p]) = {}

Checked(p) ==
  \/ p \in queue
  \/ findings # {}
  \/ status = "read" /\ p = reading /\ p \notin ForbiddenPaths /\ index[p] # Link
  \/ Allowed(p)

AllChecked ==
  hook /\ matched /\ status \in {"scan", "read", "passed"} =>
    /\ mode = "staged"
    /\ \A p \in trackedPaths("staged") : Checked(p)

LEMMA StatChecks ==
  ASSUME ScanInv, AllChecked, NEW q \in Paths, Stat(q)
  PROVE  AllChecked'
<1> SUFFICES ASSUME hook, matched', status' \in {"scan", "read"}
             PROVE  mode = "staged" /\ \A p \in trackedPaths("staged") : Checked(p)'
  BY DEF Stat, AllChecked, repository, trackedPaths, TypeChange, HeadTree
<1>1. mode = "staged" /\ \A p \in trackedPaths("staged") : Checked(p)
  BY DEF AllChecked, Stat, Scans
<1>2. /\ index' = index /\ queue' = queue \ {q} /\ findings \subseteq findings'
      /\ reading' = q /\ worktree[q] = index[q] /\ status = "scan"
  BY DEF Stat, Scans, repository
<1>3. ASSUME NEW p \in trackedPaths("staged"), p # q PROVE Checked(p)'
  BY <1>1, <1>2, <1>3 DEF Checked, Allowed, scanContents
<1>4. ASSUME q \in trackedPaths("staged") PROVE Checked(q)'
  <2>1. CASE q \in ForbiddenPaths
    BY <2>1 DEF Stat, scanPath, Checked
  <2>2. CASE q \notin ForbiddenPaths /\ index[q] = Link
    BY <1>2, <2>2 DEF Stat, Checked
  <2>3. CASE q \notin ForbiddenPaths /\ index[q] # Link
    <3>1. index[q] \notin {Missing, Link, Dir}
      BY <1>4, <2>3, KindsAssumption DEF trackedPaths, ScanInv, TypeOK
    <3>2. status' = "read"
      BY <1>2, <3>1 DEF Stat
    <3> QED
      BY <1>2, <2>3, <3>2 DEF Checked
  <2> QED
    BY <2>1, <2>2, <2>3
<1> QED
  BY <1>1, <1>3, <1>4

LEMMA ReadChecks ==
  ASSUME ScanInv, AllChecked, Read
  PROVE  AllChecked'
<1> SUFFICES ASSUME hook, matched', status' = "scan"
             PROVE  mode = "staged" /\ \A p \in trackedPaths("staged") : Checked(p)'
  BY DEF Read, AllChecked, repository, trackedPaths, TypeChange, HeadTree
<1>1. mode = "staged" /\ \A p \in trackedPaths("staged") : Checked(p)
  BY DEF AllChecked, Read
<1>2. /\ index' = index /\ queue' = queue /\ findings \subseteq findings'
      /\ worktree[reading] = index[reading]
  BY DEF Read, repository
<1>3. ASSUME NEW p \in trackedPaths("staged") PROVE Checked(p)'
  <2>1. CASE p = reading /\ p \notin ForbiddenPaths /\ index[p] # Link
    <3>1. findings' = findings \cup scanContents(p, index[p])
      BY <1>2, <2>1 DEF Read
    <3> QED
      BY <1>2, <2>1, <3>1 DEF Checked, Allowed, scanContents
  <2>2. CASE ~(p = reading /\ p \notin ForbiddenPaths /\ index[p] # Link)
    BY <1>1, <1>2, <2>2 DEF Checked, Allowed, scanContents
  <2> QED
    BY <2>1, <2>2
<1> QED
  BY <1>1, <1>3

LEMMA StepChecks ==
  ASSUME ScanInv, AllChecked, [Next]_vars
  PROVE  AllChecked'
<1>1. ASSUME NEW m \in {"tree", "staged", "all", "both"}, NEW hooked \in BOOLEAN,
             hooked => m = "staged", Begin(m, hooked)
      PROVE  AllChecked'
  BY <1>1 DEF Begin, AllChecked, Checked, repository, trackedPaths, TypeChange, HeadTree
<1>2. ASSUME NEW object \in Contents, ScanObject(object) PROVE AllChecked'
  BY <1>2 DEF AllChecked, ScanObject, Scans
<1>3. CASE Report
  BY <1>3 DEF Report, AllChecked, Checked, Allowed, scanContents, repository,
              trackedPaths, TypeChange, HeadTree
<1>4. ASSUME NEW p \in Paths, NEW entry, Edit(p, entry) PROVE AllChecked'
  BY <1>4 DEF Edit, AllChecked, Checked, Allowed, scanContents, scan,
              trackedPaths, TypeChange, HeadTree
<1>5. ASSUME NEW p \in Paths, Add(p) PROVE AllChecked'
  BY <1>5 DEF Add, AllChecked
<1>6. CASE Commit
  BY <1>6 DEF Commit, AllChecked
<1>7. CASE Dismiss
  BY <1>7 DEF Dismiss, AllChecked
<1>8. CASE Finished \/ UNCHANGED vars
  <2>1. UNCHANGED <<worktree, index, history, mode, hook, status, queue, reading, findings,
                    matched>>
    BY <1>8 DEF Finished, vars, repository, scan
  <2>2. AllChecked' <=> AllChecked
    BY <2>1 DEF AllChecked, Checked, Allowed, scanContents, trackedPaths, TypeChange, HeadTree
  <2> QED
    BY <2>2
<1> QED
  BY <1>1, <1>2, <1>3, <1>4, <1>5, <1>6, <1>7, <1>8, StatChecks, ReadChecks DEF Next

LEMMA CommitIsChecked ==
  ASSUME ScanInv, AllChecked, [Next]_vars,
         history' # history, hook, status = "passed", matched
  PROVE  \A p \in Paths :
           Last(history')[p] \notin {HeadTree[p], Missing} /\ ~TypeChange(p) =>
             /\ p \notin ForbiddenPaths /\ index[p] # Link
             /\ scanContents(p, index[p]) = {}
<1>1. Commit
  BY DEF Next, vars, repository, scan, Begin, Stat, Add, Read, Report, ScanObject, Edit,
         Dismiss, Finished
<1>2. Last(history') = index
  <2>1. history \in Seq(Tree) /\ index \in Tree
    BY DEF ScanInv, TypeOK, Tree
  <2> QED
    BY <1>1, <2>1 DEF Commit, Last
<1>3. \A p \in trackedPaths("staged") : Allowed(p)
  BY DEF ScanInv, PassedIsThrough, AllChecked, Checked
<1> QED
  BY <1>2, <1>3 DEF trackedPaths, Allowed

\* A commit the hook has let through has nothing new in it that the rules
\* forbid, if all the staged scan has read is what is staged.
THEOREM HookedIsClean == Spec => HookedCommitIsClean
<1>1. Init => AllChecked
  BY DEF Init, AllChecked
<1>2. ScanInv /\ AllChecked /\ [Next]_vars => AllChecked'
  BY StepChecks
<1>3. ScanInv /\ AllChecked /\ [Next]_vars =>
        [history' # history /\ hook /\ status = "passed" /\ matched =>
           \A p \in Paths :
             Last(history')[p] \notin {HeadTree[p], Missing} /\ ~TypeChange(p) =>
               /\ p \notin ForbiddenPaths /\ index[p] # Link
               /\ scanContents(p, index[p]) = {}]_vars
  BY CommitIsChecked
<1> QED
  BY <1>1, <1>2, <1>3, ScanInvariant, PTL DEF Spec, HookedCommitIsClean
=============================================================================
