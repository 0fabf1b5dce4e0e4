# A verification development of e2e-nntp

e2e-nntp is a synthetic NNTP server for end-to-end tests of news clients. It
serves articles from a directory, injects faults on demand ("chaos") and counts
what its clients do. This directory holds TLA+ models of it and of the tool
that guards its repository, TLC configurations that check them on small instances, and TLAPS proofs about
them. File and line numbers are those of the repository.

    tlc -config MCBodyHold_hold.cfg MCBodyHold     # one run
    tlapm BodyHoldProofs.tla                       # one proof module

`PROJECT.json` lists the runs, a mutation of the code for every property, the
source lines behind every definition, the hazards, the findings and the theorems.

## 1. Inventory

| Component | Source | State | Operations | Correct when |
|---|---|---|---|---|
| Body transfers and holds | `server.go` `handleBody`, `setChaosLocked`, `heldBody`, `spendHoldLine` | `chaos`, `holdRemaining`, `holdReleased` under `chaosMu`; per BODY the configuration it copied | install a configuration, serve a body line by line, block, release | no release is lost, no channel is closed twice, the line budget binds, a kept hold keeps blocking, only whole bodies are counted |
| Server lifecycle | `server.go` `Start`, `acceptLoop`, `handleConnection`, `Close` | `clients`, `activeConnections`, `serveWG`, `closeOnce`, `closed` | accept, register, admit or reject, end, close | `Close` waits for everything and comes back; the admission limit binds; no `Add` races `Wait` |
| Article store | `store.go`, `handlePost` | files, the index and its lock | post, load, exists, delete, delete by prefix, reload, open | index and directory agree through failures and crashes; a 240 is kept; every call is atomic |
| Metrics | `metrics.go`, `control.go` | nine atomics, three maps under a lock, `sessions` | record, reset, snapshot | no update is lost; counters agree with each other once settled |
| Chaos configuration | `control.go` `ParseChaos`, `Validate`, `SetChaos` | none of its own | parse, validate, install | a rejected configuration changes nothing |
| Session protocol | `server.go` command loop, `handleAuthentication`, `handlePost` | per connection: `authenticated`, `pendingUser`, `reauthRequired`, `classified`, `control` | one handler per command | nothing is served before authentication; a demand to authenticate anew binds; control channels are not counted; commands and articles are not mistaken for each other; a hang-up ends a session that is not in a hold |
| TLS material | `tls.go` | four files in a directory | generate, reuse, load | a certificate that the CA file has signed, with its key, after any crash; or an error that has a reason |
| Wire and article text | `readLine`, `writeDotStuffed`, `splitArticle`, `corrupt` | none | pure functions on bytes | a client reads back what was posted; no part of an over-long line becomes a line of its own |
| Public-surface checker | `internal/publiccheck`, `cmd/publiccheck` | findings of one scan; git's index, tree and history | scan index, tree or history | a scan that passes has seen everything; a commit the hook lets through is clean |
| Command line, health check | `cmd/e2e-nntp/main.go` | none | flags, `Start`, `Close` | a signal ends in `Close` |
| Image build, automation | `cmd/e2e-nntp/image.go`, `scripts`, workflows | none | run `go` and `docker` | not modelled |

How they interact. `Start` opens the store, installs the first configuration,
resets the metrics and starts an accept loop per listener. Each connection is a
goroutine that runs the command loop; commands call the store, the metrics and,
when test control is enabled, `SetChaos`, `ResetMetrics`, `Delete...` and
`Reload`, which the embedding program may call as well. `Close` reaches the
sessions in two ways: it closes their connections, which fails their reads and
writes, and it closes the channel `closed`, which ends bodies that wait in a
hold. Components share no lock: `chaosMu`, the store's lock, the metrics' lock and
the `sync.Map` of clients are never held together. That is why each is a module
of its own, and why the environment of one module (a client that disconnects,
a `Close` that closes a connection) is an action there and a part of the system
in another.

What is hard: the channel of a hold is copied under the lock and waited on
without it; the configuration a body runs under is not the one whose budget it
spends; a connection registers itself in a goroutine that starts after it was accepted;
files and index change in separate steps with crashes between them, and so do the
four files of the TLS material; articles travel on the stream of the commands, and
who gives up on one must not leave its lines to the other; counters are
read and reset one by one while sessions write them. Nothing in the tests
controls those interleavings. The list, with lines, is `hazards` in
`PROJECT.json`.

## 2. Modules

| Module | Models | Abstracts |
|---|---|---|
| `BodyHold` | BODY from the read of the command to the counted transfer, `SetChaos`, the holds, the part of `Close` that frees held bodies | lines are counted, not spelled; the random rolls are choices, certain at 0 and 100 percent; delays take no time |
| `Lifecycle` | the goroutines of `Start`, `acceptLoop`, `handleConnection`, `Close`, the map, the wait group, `sync.Once`, the limit | what a session does between admission and its end |
| `ArticleStore` | every method of `articleStore`, the posting of an article, a failing disk, a crash, a power loss, an operator who changes the directory | an article is its message ID and a content; a prefix is the set of IDs that begin with it |
| `Hold` | the abstract holds: a gate that all waiting bodies pass at one moment, and a budget | channels, snapshots, lines that are spent and not written |
| `Shutdown` | the abstract server: up, closing, down, and calls that return only when all of it is down | everything else |
| `ArticleMap` | the abstract store: a map on which every call takes effect at one moment | everything else |
| `Metrics` | every step of `reset`, `snapshot`, `recordPeak`, `recordBody`, `recordStat`, `recordStatChaos`, where sessions call them | the maps are their sums; `bodyBytes`, which goes with `bodyXfers`, is left out |
| `Session` | the command loop of one connection with every command, AUTHINFO, MODE CONTROL, the faults of STAT and BODY, the waits of a held body, the posting of articles, and a client that pipelines and hangs up | the bytes of replies; delays; how much of a line budget is left, which is `BodyHold`'s; the files behind the store |
| `ArticleText` | dot-stuffing, the message ID of a posting, the split into headers and body | a line is the number of its leading dots, a word and the rest |
| `ChaosOptions` | `ParseChaos`, `Validate`, the outcomes of `roll` | an option is its name and what its value can be read as |
| `Startup` | `normalized`, `TLSConfig.Validate`, `Start` up to its listeners, `ensureGeneratedTLS`, crashes, failures, deleted files | the content of a file is the number of the generation it is of, or torn |
| `PublicCheck` | the three scans of `Check`, the exit status, the hook, and a developer who edits, adds and commits | which rules match a content is a part of the content |
| `MC...` | instances for TLC: model values, sets of configurations, symmetry | |
| `...Proofs` | theorems about the module they are named after, with the refinements | |
| `Induction` | two lemmas the proofs share: the least element of a finite set of integers, and the induction up to a number | |

The variables have the names of the fields they model; each one's comment names
its field. `pc`, `handler`, `closer`, `place` and `tool` say where a goroutine
stands: a new place begins at each step another goroutine can see (a lock taken
or let go, a channel operation, an atomic operation, a file operation, a write
to the connection), and a stretch of code between two of them is one action. A
critical section that changes nothing outside its own data is one action
(`setChaosLocked`, `spendHoldLine`); one that also changes files is several,
with the lock in a variable (`commit`, `deleteByPrefix`), because a crash or an
unlocked reader can see its middle. Reading locks are held for one action only
and are a guard.

**`BodyHold`.** `SetChaos` is `setChaosLocked` under the lock: release
(`Released`, `Closes`), then arm (`Arms`). Channels are numbers and never made
twice, so waiting on a replaced channel can be told from waiting on the armed
one. `BeginBody` copies the configuration, answers 430 or 222 and fixes the
number of lines after corruption; `CheckHeld` is `heldBody`; `GateLine` is
`spendHoldLine`, asked only if the copied configuration has a line budget;
`Resume` and `GiveUp` are the two cases of the select on the released channel
and on `closed`; `StreamBody` is the path that writes a body without faults at
once. The writer hides errors, so a body on a broken connection runs on to its
end, is counted, and the session notices at its next read (`ReadFails`). Before that
it may serve commands that its reader had buffered: `BeginBody` does not ask for an open
connection, and `MaxBodies` bounds what the buffer can hold. What
BODY does before (authentication, refusals, drops, `timeout_body`) belongs to the
session protocol.

**`Lifecycle`.** Between `Accept` and `Register` a connection belongs to nobody's
map. `Spawn` is `serveWG.Add` together with the `go` statement; the
accept loop is the only one to see the moment between them. The three deferred
calls of `handleConnection` are `Leave`, `CloseConn` and `Delete`, in the order
in which they run. `RangeClients` fixes which connections `sync.Map.Range`
must visit (those present when it begins); one that is stored meanwhile
may be visited or not, and one deleted meanwhile need not be, as its
documentation says. A second caller of `Close` waits in `closeOnce` until the first one
is done (`LeaveOnce`).

**`ArticleStore`.** `disk` is what the process sees, `saved` what a power loss
leaves; `Sync` makes content durable, `WriteBack` may write names at any
time without the contents of unsynced files. `Crash` kills the process and
keeps `disk`. `Stage` is the operator's change of the directory. A temporary
file is discarded by `readPostedArticle`'s cleanup (`Abort`) or by `handlePost`
(`Discard`), and the removal may fail. `HiddenIds` are message IDs whose file
names begin with `.incoming-`.

**`Metrics`.** `torn` and `alone` record who ran into whom: a reset is torn when
any step of a record, or another reset, comes between its steps or was under
way when it began; a snapshot is alone when none does. The properties say
what holds of resets that are not torn and of snapshots that are alone; about the
others the code promises nothing, and the model makes no excuses for
anything else. The clock does not go back, as the wall clock behind
`time.Now().UnixNano()` might.

**`Session`.** `toServer` is the stream of the connection; each part of it carries
what the client sent it as (a command, a line of an article, an over-long line and the
rest of one), which the server does not see and the properties compare with what it
took it for. `Serves` is what every command shares: the line is read, the first one
settles the class of the connection (`Classify`), and the loop goes on or returns.
Each case of the switch is an action; a random fault is a choice between the outcomes
`roll` allows under the configuration in force. `Post` leaves the command loop for
`readPostedArticle`, whose lines are `ReadLine`, and comes back by `Finish` (the
terminator), `Abandon` (the temporary file cannot be created or written) or `ArticleEnds` (an
over-long line, the end of the stream). `Body` begins a body: 430, or 222, the
configuration it copies and its lines in `body`. The rest of `handleBody` is `CheckHeld`, the wait in
a hold of its article (`heldId`), `WaitForLine`, the wait for its next line (`heldLine`),
`WriteLine` and `EndBody`; in the two waits the session reads nothing and takes no step. Only
another party lets it out: `SetChaos` with a configuration that drops a hold (`Releases`), or
`GiveUp`, which is `Close`. Whether the live `hold_body` has a line left is a choice, because the bodies
of other sessions spend it too. `verdict`, `demanded`, `first`, `posted` and `abandoned`
are history: what a client was told, so that the properties need not trust the
server's own flags.

**`Startup`.** `place` is the next operation of the start, `step` the file it is about
to remove or write. `os.WriteFile` is two actions, `Create` and `Fill`, because a crash
may come in between. Every operation may fail (`Fault`), a crash is possible everywhere,
and the four files outlive the process. An `os.Stat` that fails is not an error of the start:
`allFilesExist` takes the file for missing, and the start goes on to the removal, of whole
material too (`Material`). A TLS address is none, blank or an address: `Validate` trims a blank one
to none, `Start` and `load` do not, so the start goes on without certificate files and fails in `Load`. What the operator may do between starts is `Delete`.

**`PublicCheck`.** The scan of paths is `Begin` (git lists them), and per path `Stat`
and `Read`; the scan of the history is `Begin` (git lists the objects) and `ScanObject`.
The developer's actions come in between as they like. `matched` records whether everything the
scan has read was what is staged, `skipped` which objects it passed over because git did
not tell their type. A commit with the hook waits for a staged scan that passes.

## 3. Runs

| Run | Asks | Bounds |
|---|---|---|
| `hold_safety` | types, `HoldArmed`, `NoLostRelease`, and `ImplementsHold`: the gate and the budget of `Hold` | two sessions, bodies of one and two lines, six configurations that arm, keep, move and drop both kinds of hold, two changes, two bodies |
| `hold_live` | `CountsWholeBodies`, `HoldLifted`, `CloseEndsSessions` under fairness | the same bodies, eight configurations with every body fault at 0, 50 and 100 percent, one change |
| `hold_ids_foreign` | refutes a sentence of the README (section 6) | one change, one body |
| `close` | types, `CloseWaitsForAll`, `AdmissionBound`, `AddNeverRacesWait`, `ImplementsShutdown`, and `CloseReturnsOrMissed` under fairness | two connections, two callers of `Close`, a limit that goes from 1 to 2, one listener |
| `close_missed` | refutes a promise of `Close` (section 6) | one connection, one caller |
| `store_disk` | types, `IndexMatchesDisk`, `OnlyWholeArticles`, `PromisesKept`, `NoTempLeft` | two sessions, two IDs, two contents, three calls, one failure of the disk, one crash or power loss, one change by the operator |
| `store_map` | `ImplementsMap`, `CallsReturn` under fairness | the same without power loss and operator, which the abstract map does not have |
| `metrics_count` | types, `CountersAgree`, `PeakIsHighest`, `TimesSpan`, `QuietSnapshots` | two connections, two bodies or STAT commands, one reset, one snapshot |
| `session` | types, `ReadsBackWhatWasPosted`, `OnlyControlChannelsUncounted`, `StoredAsPosted`, `LinesKeepTheirMeaning`, `OnlyWhileLoggedIn`, `ReauthenticationBinds`, `ChaosAsWritten`, and `HangUpEndsSession` under fairness | one message ID, five articles, every command, two parts of the stream sent ahead, no faults, each at 50 percent with a `hold_body` of one line, or the article held by `hold_ids`, four arguments of CHAOS; 444,392 states, about two minutes |
| `session_posting` | refutes what a comment says of `handlePost` (section 6) | the same |
| `startup` | `ExistingIsWholeButLast`, `ServedIsTrusted`, `FailsForAReason`, `MaterialIsKept` | three starts, eleven configurations of which `normalized` refuses seven and `load` one, two crashes, one failure, one deletion |
| `publiccheck` | `PassedHistoryIsClean`, `HookedCommitIsClean` | two paths, one of them forbidden by its name, a clean, a forbidden and a binary content, links and directories, three edits, two scans, two commits, one failure of git |

Why the bounds are enough to be worth something. A lost release takes one body
and two configurations; sharing a budget takes two bodies, and passing it by
way of an old configuration takes a change. Both callers and both connections
of `close` are needed for the interleavings at `sync.Once` and at the limit; a
second listener adds an accept loop that shares nothing with the first but the
wait group, and the proofs cover it. Three calls of two sessions are a posting
and a deletion that collide with a third call, which covers each pair of
critical sections and what follows. Two connections suffice for each
compare-and-swap loop to lose to another; a connection records its session, a
body and its end, so the counters of two are in every relative order. In
`metrics_count` the constraint `StillTold` cuts behaviours after a torn reset when no
reset is left: no property says anything of them.
In `session` one ID is enough because the store tells IDs apart only by equality, and a
session has no other state per article; the five articles have a line that is a command, one
and two leading dots, a blank line in the body, no ID, an over-long line and no blank line. Two
parts ahead are what it takes to have a command behind a POST that is refused, and the
whole article stays in the stream when a posting is given up. In `startup` the second start
finds what the first has left and the third what the second made of it, with a crash in each.
In `publiccheck` three edits are a forbidden content, its removal and something to commit
with it; the second scan is what tells the history apart from the hook before it.
Larger bounds add repetitions of the same steps; for the properties of section
5 the proofs remove the bounds altogether.

Each action of each module, and each disjunct of its `Next`, is taken in some
passing run. Deadlock is checked in every run: a system that has nothing left to
do stutters by an explicit action (`Stopped`, `Quiet`, `Closed`, `Finished`), enabled only in the
states where the program really rests.

## 4. Fairness

- `BodyHold`: a body that can resume does, one that can give up does, and a
  session whose connection is broken takes its steps, because then no read or
  write blocks. A session on an open connection may stay in a write for ever:
  its client need not read. `CloseConnection` is fair because `Close` runs its
  loop to the end.
- `Lifecycle`: accept loops, session goroutines and callers of `Close` are
  scheduled by the Go runtime. Clients owe nothing: they may be silent and
  connected for ever, and that is where `CloseReturns` fails.
- `ArticleStore`: a session takes its steps, but the article a POST waits for
  (`Receive`, `Abort`) need never come.
- `Session`: once the client has hung up no read and no write blocks, so the goroutine of the
  connection takes its steps, those it can take: in a hold there is none. Before that it may
  wait for its client for ever, and nothing is asked of it. Nobody need release a hold
  (`SetChaos`) or close the server (`GiveUp`), and a hang-up does not end a body that is in one
  (server.go:398-404, 420-427). `HangUpEndsSession` therefore says: a session that is outside the holds
  again and again (it does not stay in one for ever) ends once its client has hung up.
  That `Close` ends the held ones is `CloseEndsSessions` of `BodyHold`.
- `Startup` and `PublicCheck` state no fairness: a start or a scan may be killed.
- `Metrics` has no liveness properties: the compare-and-swap loops are lock-free,
  not wait-free.

## 5. Proofs

The theorems hold for all values of the constants: any number of sessions
and connections (finitely many), articles, configurations, callers,
limits and bounds. They use only the assumptions named in the modules they are about.

**Holds.** The invariant is `HoldInv == TypeOK /\ HoldArmed /\ NoLostRelease /\
BudgetAccounted` (the last is no run's property; `MCBodyHold` can check it as one). `BudgetRespected` alone is not inductive: a line may be spent
and not written yet. `BudgetAccounted` adds the lines in flight and the
remaining budget to those written, says that a fresh body runs under the live
configuration (so that it asks before it writes), that a body on the fast path
copied a configuration without a budget, and that a fresh body which waits for
its line waits on the armed channel (so that it cannot have been released
without a new configuration, which makes it stale). From it:
`TypeCorrect`, `ArmedIsOpen`, `NoReleaseIsLost`, `BudgetHolds` and
`CounterExact`, which has an induction of its own over the bodies about to be
counted.

`ImplementsGate` proves `ImplementsHold`: the gate of `Hold` is where a body is
`Blocked` (it stands at the select and its channel is open), and the step that takes
it out is the close of one channel. It says in one formula that all waiting bodies
pass together when a change drops a hold, that before it only the end of the server lets one out, that only bodies wait
which are named or began under a budget, and that the budget binds.
`HoldsBlock` (`KeptHoldBlocks`: a blocked body stays blocked while no
configuration drops a hold) is derived from the abstract gate through the refinement.

**Lifecycle.** The invariant is `LifecycleInv`: `serveWG` is the number of
running accept loops and session goroutines (`GoroutinesCounted`), an accepted
connection has one owner (`AcceptedOwned`), the map is the set of connections
between `Register` and `Delete` (`ClientsMapped`), `closeOnce` is done only at
zero (`OnceDone`), and `TicketsAccounted`. The last is the argument for the
limit: of any set of goroutines that count themselves, one drew a ticket at least as
high as the set is large, so of the admitted ones, each of which drew a ticket within the
loosest limit, there are no more than that limit. From it: `TypeCorrect`,
`AdmissionBounded` and the action property `AddsBeforeWait`.

What `Close` has done when it returns needs a second invariant on top, `ShutdownInv`
(`ShutdownInvariant`): one caller does the closing (`OneCloses`), the listeners that
it has closed are closed (`ListenersClosed`), a connection that was visited is closed
(`ClosedConns`), every other open one has a goroutine that will close it (`ConnsOwned`), and
when `Range` ends it has visited what was there when it began and is there still
(`RangeSeesPresent`). From it: `CloseWaits` (no goroutine, no entry, no open
connection), `OnlyLateConns` (while `Close` waits, an open connection with a session
was not in the map when `Range` began) and `Quiet` (once `closeOnce` is
done, no variable of the server changes, the closers' places apart). `ImplementsWhole`
proves `ImplementsShutdown`: `StopAccepting` is the exit of an accept loop, which needs a
closed listener and so a call of `Close`; `Finish` is `Wait` coming back, which
`GoroutinesCounted` ties to the abstract `accepting` and `serving` being empty.

**Article store.** The invariant is `StoreInv`. `IndexMatchesDisk` speaks of moments
when the lock is free; to carry it over the others, `IndexAccounted` says that
the index and the directory differ only by the article the holder of the lock
has renamed and not listed (`Inserting`) or removed and not unlisted
(`Unlisting`), `Underway` what that session knows of it, and `LockHeld` that
there is only one such session. `OnlyWholeArticles` needs `TempsOwned` (each
posting has a file of its own, whole and synced when it is committed) and
`NeverTorn` (neither the directory nor what a power loss would leave of it
holds a torn article). A deletion removes its smallest victim next, a `CHOOSE`
that means something only because a finite set of integers has a least element
(`LeastElement` in `Induction`). From the invariant:
`TypeCorrect`, `IndexMatches`, `WholeArticles`, `PromisesHold` and, with an
induction of its own, `NoTempIsLeft`. They assume that message IDs are finitely
many (integers, for their order), that temporary names are none of them, and
that the marks for no file, no call and no session are not files, calls or sessions.

**The map.** `ImplementsArticleMap` proves that `Spec`
implies `ImplementsMap` when nothing is staged or hidden and the machine stays
up (`NothingElse`), which is what `store_map` checks on an instance. The map's step
is `CommitRename` for a posting, `Remove` for each article of a deletion, and
for the others the step that decides the answer; `CallsAnswered` says that a
call has its answer from that step on. That the index and the directory agree
when the lock is free (`IndexIsMap`) is what makes an answer taken from the
index an answer of the map.

**Startup.** `ExistingIsWholeButLast` speaks of moments when all four files exist; the
invariant `StartInv` adds what holds at each step of a start (`DiskInv`): while it removes,
some file is missing or an operation of this start, the `os.Stat`, has failed, and the files before `step` are
gone (`RemovedIsGone`); while it writes, the
files before `step` are of the current generation, the one at `step` is missing or torn and
the rest are missing (`WrittenIsWhole`); and only a crash or a failed write leaves a torn
file behind (`TornByFailure`). With it a crash at any step leaves a missing file or
a whole generation, but for the last file. `ServedFits` carries what `Load` has found out to the
moment the server serves, and gives `ServedIsTrusted`: a pair that loads is not torn, so it is of the
generation of the CA file. From it also `FailuresHaveReasons` and the action property
`WholeIsKept`, for any host names, configurations and bounds: a start in which no operation has failed
changes no whole material. The condition is needed, because a failed `os.Stat` sends whole material
to its removal (section 7).

**Public-surface checker.** For a scan of the history the invariant `ScanInv` says that every
object of a commit there was when it began is still in the queue, was left out, or
has nothing in it that a rule matches, or else there is a finding (`AllSeen`); commits
only add to the history. That gives `HistoryIsClean`. For the hook `AllChecked` says the same of the
paths that are staged, as long as `matched` holds; `Add` during the scan ends `matched`, so
the index a passing scan speaks of is the one that is committed. That gives the action
property `HookedIsClean`. Both hold for any paths, rules and contents.

**Session.** The invariant `SessionInv` says what the client and the server may believe of each
other. `LoginInv`: a session is logged in only if the last PASS was accepted, and a client that
was told to authenticate anew has `reauthRequired` set. `CountInv`: who is classified, and by
what. `StreamInv` is the argument for the stream the commands and the articles share: unless a posting
was given up, it holds only commands while commands are read, and a POST among them is the
last, because its client waits for the answer (`CommandsFrom`); and while an article is read,
nothing of it was sent yet (`Awaiting`), or the client hung up in the middle of it and no
terminator will come (`CutShort`), or it was sent whole: what has been read is its beginning,
line by line unstuffed, its remaining lines are in front, and the first terminator is its
end, because stuffing makes none (`StuffedText`, `Whole`). From it: `TypeCorrect`, `CountedSessions` and the action
properties `LinesKeep`, `StoredIsPosted`, `LoggedInOnly` and `ReauthBinds`, for any commands,
pipelining, articles, message IDs and configurations.

Two properties of a session are about what searches and folds over sequences of any length
compute. `ReadsBack` goes through the first blank line of an article (`header`), the
lines the client's reader takes up to the first terminator, and dot-stuffing and its
undoing. HEAD and BODY are compared with what stands before and behind the first blank
line only if there is one, the ID stands before it (`handlePost` refuses other articles, but
the operator may put them in the directory) and the article does not begin with
`=ybegin`, where `articleBody` and `articleHeaders` do not split it.
`ChaosIsAsWritten` follows `ParseChaos`
option by option: the left fold is compared, after each option, with the last number
given for each name so far and with the IDs of every `hold_ids` so far. The
library's induction theorems take a predicate for a parameter, which the provers cannot
instantiate; both proofs use `UpTo` of `Induction` instead: the set of lengths for which
the claim holds has 0 and is closed under the next number. `OptionsAssumption` says that the
options of a CHAOS are a sequence and that only `hold_ids` lists IDs, as `ParseChaos` splits
them.

**Metrics.** A snapshot agrees only when things have settled; the invariant `MetricsInv` says who
accounts for a difference before. `TotalsAccounted`: the maps are ahead of the totals, and the
attempts of the decisions, by the connections that have recorded the one and not yet the
other. `PeakAccounted`: if the stored peak is not the highest number of sessions, a
connection in `recordPeak` still carries that number, and `SwapsRaise` says that its swap only raises the
peak; `TimesAccounted` says the same of the times. Those three hold unless a reset
was torn or is under way (`Undisturbed`). `ResetAccounted` carries them over a reset: one
that nothing has run into finds nobody recording, and what it has stored so far is still there, so that
it ends in a settled state. `SnapshotAccounted` says of a snapshot nothing has run into that what it
has read is still there. From it: `TypeCorrect`, `CountersSettle`, `PeakSettles`, `TimesSettle` and
`SnapshotsAgree`, for any number of connections and tools.

**Running down.** Liveness is out of the prover's reach, because it rests on fairness and
ENABLED, but each of the five liveness properties has a safety half that is proved: that what
it is waiting for has happened or can only be one thing, or a measure that each of its own steps
decreases and nobody else's raises.

| Property (TLC) | Theorem | What it shows |
|---|---|---|
| `HoldLifted` | `NobodyWaitsForNothing` | under a configuration without a hold, each body still in its wait has a channel that is closed |
| `CloseEndsSessions` | `BrokenRunDown` | once the connection is broken each step of its session leaves it fewer buffered commands or, in the one it serves, fewer steps; it stands still only in a wait, which `closed` ends |
| `HangUpEndsSession` | `SessionRunsDown` | each step uses up a part of what the client sent or, of the body being served, a step or a line; a client that hung up sends nothing, and no configuration that releases or arms a hold gives the session more to do |
| `CallsReturn` | `CallsRunDown` | each step of a call leaves it fewer, and the holder of the lock is writing, waits for nobody, and keeps the lock until it gives it up |
| `CloseReturnsOrMissed` | `OnlyLateConns` | the only connections `Close` can be left waiting for are those it did not find |

What is missing to the liveness properties is that a step which is enabled is taken, the fairness
of section 4; they stay with TLC. Every invariant and every other action property
of a passing run is proved.

## 6. Findings

Each is a run that TLC refutes; `PROJECT.json` quotes the sentence and the code.

1. `hold_ids_foreign`. A body that began under `hold_body` and is still being
   served when a `hold_ids` configuration arrives is blocked although nobody
   named its article: it asks for a line because of its old configuration, and
   the new one has an armed channel and no budget.
2. `close_missed`. A connection that was accepted before `Close` closed the listener and
   registers after `Range` is never closed. With a silent client `Close` does not return.
   `CloseReturnsOrMissed` shows that this is the only way.
3. `session_posting`. A posting whose temporary file cannot be created or written is
   answered with 441 before its end, the session stays open, and the lines of the article are
   read as commands. `LinesKeepTheirMeaning` shows that this is the only way: over-long
   lines, articles cut short, and postings refused at the start or the end do not.

## 7. Further counterexamples, not in the list of runs

Smaller ones, each with a configuration of its own; TLC refutes the property.

| Command | What it shows |
|---|---|
| `tlc -config MCBodyHold_earlier.cfg MCBodyHold` | `HoldLimitsAllBodies`: a body that began before `hold_body` was installed is not limited by it, although README:96-97 speaks of every BODY |
| `tlc -config MCLifecycle_twice.cfg MCLifecycle` | `CloseReportsNoError`: a session that has closed its connection and not left the map yet makes `Close` report an error when it closes it again |
| `tlc -config MCArticleStore_hidden.cfg MCArticleStore` | `PostedIsFoundAfterReload`: a message ID that begins with `.incoming-` is accepted and found, and is gone after a reload or a restart |
| `tlc -config MCMetrics_times.cfg MCMetrics` | `SnapshotTimesOrdered`: a snapshot in the middle of the first `recordBody` has a first time and no last time. For the same reason the first time need not be the earliest, which is why `TimesSpan` asks only that it be one of them |
| `tlc -config MCStartup_incomplete.cfg MCStartup` | `IncompleteIsReplaced`: a crash inside the write of `server.key`, the last file, leaves four files that exist, and every later start reuses them and fails (`tls.go:88`), although `removeTLSFiles` is for incomplete material (`tls.go:166`) |
| `tlc -config MCStartup_unseen.cfg MCStartup` | `OnlyIncompleteIsRemoved`: an `os.Stat` that fails (no permission, an I/O error) counts as a missing file (`tls.go:156-158`), so the start removes whole material and makes a new CA, although `removeTLSFiles` is for incomplete material (`tls.go:166`). `MaterialIsKept` speaks of starts in which nothing has failed for this reason |
| `tlc -config MCStartup_names.cfg MCStartup` | `NamesAreServed`: host names declared after the material was generated are not in the certificate that is served |

Some properties leave out by name the very case their hazard is about, because there the code makes
no promise: IDs the operator has touched since the last reload (`IndexMatchesDisk`), torn resets
(`CountersAgree`, `PeakIsHighest`) and snapshots that were run into (`QuietSnapshots`, `TimesSpan`), objects
git does not tell the type of and files that are not as staged (`PublicCheck`), and sessions that stay in a
hold (`HangUpEndsSession`). The notes of the hazards say so; what the properties show is that nothing else goes wrong.

Three gaps of the public-surface checker are in the words of its two properties. The staged
scan reads the working tree, so its verdict is about the index only while the two agree
(`matched`). Its list leaves out type changes (`--diff-filter=ACMR`), so a file that
becomes a link is not looked at. And the scan of the history knows each object under one path,
so a forbidden name may be missed when the same content is kept under another one, which is why
`PassedHistoryIsClean` speaks of contents only.

## 8. Not modelled, and what comes next

In this order:

1. A module that composes session, store and metrics: what a client that has read its
   reply finds in the counters.
2. A power loss in `Startup`, as in `ArticleStore`: `tls.go` syncs nothing, so files of one
   generation may be torn in any number.

Left out for good: flags and environment, the health probe, the image build and the
workflows (no state of their own), the bytes of replies and the line ends of
articles that are not CRLF, `timeout_body`'s 90 seconds and the 365 days of a certificate
(time is not modelled: `Close` waits as long, but it does come back), TLS itself, and two
servers that share one TLS directory.
