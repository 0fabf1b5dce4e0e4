---------------------------- MODULE PublicCheck ----------------------------
(***************************************************************************)
(* The public-surface checker (internal/publiccheck, cmd/publiccheck) and  *)
(* the repository it looks at, with somebody who edits, adds and commits   *)
(* while it runs.  The scan of the working tree and the one of the staged  *)
(* paths list paths first and look at the files of the working tree then,  *)
(* one by one; the scan of the history goes through the reachable objects. *)
(* The pre-commit hook is a staged scan that has to pass.                  *)
(***************************************************************************)
EXTENDS Naturals, Sequences, SequencesExt

CONSTANTS
  Paths, ForbiddenPaths,  \* those scanPath refuses by their name
  Rules,                  \* the rules of scanContents
  Contents,               \* contents of files, see Content
  LinkText,               \* the content git keeps of a symbolic link
  Missing, Dir, Link,     \* what may stand at a path instead of a file
  MaxEdits, MaxScans, MaxCommits, MaxFaults  \* bounds

\* Which rules match a content, and whether there is a NUL in it.
Content == [matches : SUBSET Rules, binary : BOOLEAN]

ASSUME PathsAssumption    == ForbiddenPaths \subseteq Paths
ASSUME ContentsAssumption == Contents \subseteq Content /\ LinkText \in Contents
ASSUME KindsAssumption    ==
  {Missing, Dir, Link} \cap Contents = {} /\ Missing \notin {Dir, Link} /\ Dir # Link
ASSUME BoundsAssumption   == {MaxEdits, MaxScans, MaxCommits, MaxFaults} \subseteq Nat

VARIABLES
  worktree,  \* what stands at each path
  index,     \* what is staged
  history,   \* the commits, each with what it keeps at each path
  mode,      \* of the scan: "tree", "staged", "all" or both of the last two
  hook,      \* the scan is the pre-commit hook
  status,    \* of the scan
  queue,     \* the paths, or the objects, still to be scanned
  reading,   \* the path that is read next
  since,     \* the number of commits when it began
  findings,  \* pairs of a path and a rule

  \* History and bounds: all the scan has read was what is staged; the objects
  \* the scan left out.
  matched, skipped, edits, scans, faults

repository == <<worktree, index, history>>
scan       == <<mode, hook, status, queue, reading, findings, matched, skipped, since>>
counts     == <<edits, scans, faults>>
vars       == <<repository, scan, counts>>

Init ==
  /\ worktree = [p \in Paths |-> Missing] /\ index = worktree /\ history = <<>>
  /\ mode = "tree" /\ hook = FALSE /\ status = "idle"
  /\ queue = {} /\ reading \in Paths /\ findings = {}
  /\ matched = TRUE /\ skipped = {} /\ since = 0
  /\ edits = 0 /\ scans = 0 /\ faults = 0

-----------------------------------------------------------------------------
(***************************************************************************)
(* What a scan looks at, and what it finds.                                *)
(***************************************************************************)
HeadTree == IF history = <<>> THEN [p \in Paths |-> Missing] ELSE Last(history)

\* git's type change: a file that becomes a link, or a link a file.
TypeChange(p) ==
  HeadTree[p] # Missing /\ index[p] # Missing /\ (HeadTree[p] = Link) # (index[p] = Link)

\* Mutation: without the files that were modified.
TrackedButModified(m) ==
  {p \in Paths : /\ index[p] # Missing
                 /\ m = "staged" => HeadTree[p] = Missing}

trackedPaths(m) ==
  {p \in Paths : /\ index[p] # Missing
                 /\ m = "staged" => index[p] # HeadTree[p] /\ ~TypeChange(p)}

Blob(entry) == IF entry = Link THEN LinkText ELSE entry

\* The reachable objects.  Mutation: of the last commit only.
ObjectsOf(tree) == {Blob(tree[p]) : p \in {q \in Paths : tree[q] # Missing}}
ObjectsOfHead   == ObjectsOf(HeadTree)
Objects         == UNION {ObjectsOf(history[i]) : i \in DOMAIN history}

\* The paths an object is kept at; git names one of them.
NamesOf(object) ==
  {p \in Paths : \E i \in 1..since :
                   history[i][p] # Missing /\ Blob(history[i][p]) = object}

scanPath(p) == IF p \in ForbiddenPaths THEN {<<p, "name">>} ELSE {}

scanContents(p, content) ==
  IF content.binary THEN {} ELSE {<<p, rule>> : rule \in content.matches}

-----------------------------------------------------------------------------
(***************************************************************************)
(* Check.                                                                  *)
(***************************************************************************)
Begin(m, hooked) ==
  /\ status = "idle" /\ scans < MaxScans /\ scans' = scans + 1
  /\ mode' = m /\ hook' = hooked /\ findings' = {}
  /\ queue' = CASE m = "both" -> {} [] m = "all" -> Objects [] OTHER -> trackedPaths(m)
  /\ status' = IF m = "both" THEN "error" ELSE "scan"
  /\ matched' = TRUE /\ skipped' = {} /\ since' = Len(history)
  /\ UNCHANGED <<repository, reading, edits, faults>>

Scans(m) == status = "scan" /\ mode \in m

\* os.Lstat: a link is a finding, a directory is passed over.
Stat(p) ==
  /\ Scans({"tree", "staged"}) /\ p \in queue
  /\ queue' = queue \ {p} /\ reading' = p
  /\ matched' = (matched /\ worktree[p] = index[p])
  /\ findings' = findings \cup scanPath(p)
                   \cup (IF worktree[p] = Link THEN {<<p, "link">>} ELSE {})
  /\ status' = CASE worktree[p] = Missing      -> "error"
                 [] worktree[p] \in {Link, Dir} -> "scan"
                 [] OTHER                       -> "read"
  /\ UNCHANGED <<repository, mode, hook, skipped, since, counts>>

\* os.ReadFile, which follows a link that has replaced the file since then.
Read ==
  /\ status = "read"
  /\ matched' = (matched /\ worktree[reading] = index[reading])
  /\ \/ /\ worktree[reading] \notin {Missing, Dir}
        /\ \E content \in IF worktree[reading] = Link THEN Contents
                          ELSE {worktree[reading]} :
             findings' = findings \cup scanContents(reading, content)
        /\ status' = "scan"
     \/ /\ worktree[reading] \in {Missing, Dir, Link}
        /\ status' = "error" /\ UNCHANGED findings
  /\ UNCHANGED <<repository, mode, hook, queue, reading, skipped, since, counts>>

\* git cat-file -t, whose failure is taken for another type, then cat-file blob.
ScanObject(object) ==
  /\ Scans({"all"}) /\ object \in queue
  /\ queue' = queue \ {object}
  /\ \/ /\ \E p \in NamesOf(object) :
             findings' = findings \cup scanPath(p) \cup scanContents(p, object)
        /\ UNCHANGED <<status, skipped, faults>>
     \/ /\ faults < MaxFaults /\ faults' = faults + 1
        /\ \/ skipped' = skipped \cup {object} /\ UNCHANGED status
           \/ status' = "error" /\ UNCHANGED skipped
        /\ UNCHANGED findings
  /\ UNCHANGED <<repository, mode, hook, reading, matched, since, edits, scans>>

\* The exit status of the command.
Report ==
  /\ status = "scan" /\ queue = {}
  /\ status' = IF findings = {} THEN "passed" ELSE "failed"
  /\ UNCHANGED <<repository, mode, hook, queue, reading, findings,
                 matched, skipped, since, counts>>

Done == status \in {"passed", "failed", "error"}

-----------------------------------------------------------------------------
(***************************************************************************)
(* The developer, and git.                                                 *)
(***************************************************************************)
Edit(p, entry) ==
  /\ edits < MaxEdits /\ edits' = edits + 1
  /\ worktree' = [worktree EXCEPT ![p] = entry]
  /\ UNCHANGED <<index, history, scan, scans, faults>>

Add(p) ==
  /\ worktree[p] # index[p]
  /\ index' = [index EXCEPT ![p] = IF worktree[p] = Dir THEN Missing ELSE worktree[p]]
  /\ matched' = FALSE
  /\ UNCHANGED <<worktree, history, mode, hook, status, queue, reading, findings,
                 skipped, since, counts>>

\* A commit waits for the hook, where it is installed.
Commit ==
  /\ \/ status = "passed" /\ hook /\ status' = "idle"
     \/ ~(hook /\ status # "idle") /\ UNCHANGED status
  /\ index # HeadTree /\ Len(history) < MaxCommits
  /\ history' = Append(history, index)
  /\ UNCHANGED <<worktree, index, mode, hook, queue, reading, findings,
                 matched, skipped, since, counts>>

\* What the command said is read; a commit the hook refuses is not made.
Dismiss ==
  /\ Done
  /\ status' = "idle"
  /\ UNCHANGED <<repository, mode, hook, queue, reading, findings,
                 matched, skipped, since, counts>>

Finished == status = "idle" /\ scans = MaxScans /\ UNCHANGED vars

Next ==
  \/ \E m \in {"tree", "staged", "all", "both"} : Begin(m, FALSE)
  \/ Begin("staged", TRUE)
  \/ \E p \in Paths : Stat(p) \/ Add(p)
  \/ Read \/ Report
  \/ \E object \in Contents : ScanObject(object)
  \/ \E p \in Paths, entry \in Contents \cup {Missing, Dir, Link} : Edit(p, entry)
  \/ Commit \/ Dismiss \/ Finished

Spec == Init /\ [][Next]_vars

-----------------------------------------------------------------------------
(***************************************************************************)
(* Properties.                                                             *)
(***************************************************************************)
\* The types of the variables.
TypeOK ==
  /\ worktree \in [Paths -> Contents \cup {Missing, Dir, Link}]
  /\ index \in [Paths -> Contents \cup {Missing, Link}]
  /\ history \in Seq([Paths -> Contents \cup {Missing, Link}])
  /\ mode \in {"tree", "staged", "all", "both"} /\ hook \in BOOLEAN
  /\ status \in {"idle", "scan", "read", "passed", "failed", "error"}
  /\ queue \subseteq IF mode = "all" THEN Contents ELSE Paths
  /\ reading \in Paths /\ matched \in BOOLEAN
  /\ skipped \subseteq Contents /\ since \in 0..Len(history)

\* "A finding in an earlier commit fails the build even after it is removed
\* from the tip": when the scan of the history passes, no content of any commit
\* there was when it began matches a rule, whatever its path and however often
\* it was changed since.  But for objects whose type git did not tell.
PassedHistoryIsClean ==
  status = "passed" /\ mode = "all" /\ skipped = {} =>
    \A i \in 1..since, p \in Paths :
      history[i][p] # Missing => scanContents(p, Blob(history[i][p])) = {}

\* What the hook is worth: a commit it let through has nothing new in it that
\* the rules forbid, if all it read was what is staged.  But for type changes.
HookedCommitIsClean ==
  [][history' # history /\ hook /\ status = "passed" /\ matched =>
       \A p \in Paths :
         Last(history')[p] \notin {HeadTree[p], Missing} /\ ~TypeChange(p) =>
           /\ p \notin ForbiddenPaths /\ index[p] # Link
           /\ scanContents(p, index[p]) = {}]_vars
=============================================================================
