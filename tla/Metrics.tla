------------------------------ MODULE Metrics ------------------------------
(***************************************************************************)
(* The synthetic counters (metrics.go): connections and sessions record    *)
(* into them, tools read and reset them (control.go), all at once.  Each   *)
(* counter is atomic and the three maps are locked, but no record, reading *)
(* or reset of more than one of them is.                                   *)
(***************************************************************************)
EXTENDS Integers, Sequences, FiniteSets

CONSTANTS
  Conns,         \* connections, each served once
  Tools,         \* callers of Metrics and ResetMetrics
  MaxRecords,    \* bound: bodies and STAT commands recorded
  MaxResets,     \* bound: resets
  MaxSnapshots   \* bound: snapshots

ASSUME ConnsAssumption  == IsFiniteSet(Conns)
ASSUME BoundsAssumption == {MaxRecords, MaxResets, MaxSnapshots} \subseteq Nat

VARIABLES
  counter,    \* the atomic counters, by name
  map,        \* the sums of bodyCounts, statCounts and statChaos
  sessions,   \* Server.sessions
  place,      \* where each connection stands, see Places
  counted,    \* it is counted as a session
  value,      \* what recordPeak was called with, or the time of a body
  previous,   \* what a compare-and-swap loop has loaded
  tool,       \* each tool: "idle", "reset", "snapshot" or "report", and what it is at
  activeSeen, \* the sessions it read first
  snapshot,   \* the counters a snapshot has read
  clock       \* the time; it has advanced whenever it is read

(***************************************************************************)
(* Counters of the bounds, and history variables.                          *)
(***************************************************************************)
VARIABLES
  records, resets, snapshots,
  torn,       \* the last reset and a record, or another reset, ran into each other
  alone,      \* tools whose snapshot nothing ran into
  highest,    \* the most sessions since the last reset began
  times       \* the times of the bodies recorded since

recorded == <<counter, map, sessions>>
conn     == <<place, counted, value, previous>>
control  == <<tool, activeSeen, snapshot>>
counts   == <<records, resets, snapshots>>
history  == <<torn, alone, highest, times>>
vars     == <<recorded, conn, control, clock, counts, history>>

Places ==
  {"new", "attempted", "accepted", "peakLoad", "peakSwap", "serving",
   "statChaos", "transfers", "time", "first", "lastLoad", "lastSwap", "ended"}

\* Where a connection has recorded a part of something.
Midway == Places \ {"new", "accepted", "serving", "ended"}

(***************************************************************************)
(* The order in which reset stores and snapshot loads the counters, after  *)
(* the maps.  bodyBytes, which differs from bodyXfers in its step only, is *)
(* left out.                                                               *)
(***************************************************************************)
Order == <<"bodyXfers", "bodyFirst", "bodyLast", "attempted", "accepted", "rejected", "peak">>

Names == {Order[i] : i \in 1..Len(Order)}
Maps  == {"body", "stat", "chaos"}
Blank == [name \in Names \cup Maps |-> 0]

Init ==
  /\ counter = [name \in Names |-> 0]
  /\ map = [name \in Maps |-> 0]
  /\ sessions = 0
  /\ place = [c \in Conns |-> "new"]
  /\ counted = [c \in Conns |-> FALSE]
  /\ value = [c \in Conns |-> 0]
  /\ previous = [c \in Conns |-> 0]
  /\ tool = [t \in Tools |-> [does |-> "idle", at |-> 0]]
  /\ activeSeen = [t \in Tools |-> 0]
  /\ snapshot = [t \in Tools |-> Blank]
  /\ clock = 1
  /\ records = 0 /\ resets = 0 /\ snapshots = 0
  /\ torn = FALSE
  /\ alone = {}
  /\ highest = 0
  /\ times = {}

-----------------------------------------------------------------------------
(***************************************************************************)
(* History: a step of a record runs into the resets and snapshots that are *)
(* under way.                                                              *)
(***************************************************************************)
Does(what) == {t \in Tools : tool[t].does = what}

Records ==
  /\ torn' = (torn \/ Does("reset") # {})
  /\ alone' = {}

Quiet == \A c \in Conns : place[c] \notin Midway

-----------------------------------------------------------------------------
(***************************************************************************)
(* A connection.                                                           *)
(***************************************************************************)
Move(c, from, to) ==
  /\ place[c] = from
  /\ place' = [place EXCEPT ![c] = to]

Add(name, n) == counter' = [counter EXCEPT ![name] = @ + n]
AddMap(name) == map' = [map EXCEPT ![name] = @ + 1]

Connect(c) ==
  /\ Move(c, "new", "attempted")
  /\ Add("attempted", 1)
  /\ Records
  /\ UNCHANGED <<map, sessions, counted, value, previous, control, clock, counts, highest, times>>

\* 502, or the greeting.
Decide(c) ==
  /\ \/ Move(c, "attempted", "accepted") /\ Add("accepted", 1)
     \/ Move(c, "attempted", "ended") /\ Add("rejected", 1)
  /\ Records
  /\ UNCHANGED <<map, sessions, counted, value, previous, control, clock, counts, highest, times>>

\* The first command is MODE CONTROL, or makes this a session; it may never come.
DeclareControl(c) ==
  /\ Move(c, "accepted", "serving")
  /\ UNCHANGED <<recorded, counted, value, previous, control, clock, counts, history>>

BeginSession(c) ==
  /\ Move(c, "accepted", "peakLoad")
  /\ counted' = [counted EXCEPT ![c] = TRUE]
  /\ sessions' = sessions + 1
  /\ value' = [value EXCEPT ![c] = sessions + 1]
  /\ highest' = IF sessions + 1 > highest THEN sessions + 1 ELSE highest
  /\ Records
  /\ UNCHANGED <<counter, map, previous, control, clock, counts, times>>

LeavesUncounted(c) == sessions' = sessions - 1
Leaves(c) == sessions' = IF counted[c] THEN sessions - 1 ELSE sessions

EndConnection(c) ==
  /\ Move(c, "serving", "ended") \/ Move(c, "accepted", "ended")
  /\ Leaves(c)
  /\ counted' = [counted EXCEPT ![c] = FALSE]
  /\ alone' = {}
  /\ UNCHANGED <<counter, map, value, previous, control, clock, counts,
                 torn, highest, times>>

(***************************************************************************)
(* The compare-and-swap loops of recordPeak and recordBody: load, and      *)
(* store a greater value unless the counter has changed.  What was loaded  *)
(* is forgotten (0) when it is not used again.                             *)
(***************************************************************************)
LoadPrevious(c, name, from, swap, done) ==
  /\ IF value[c] <= counter[name]
     THEN /\ Move(c, from, done)
          /\ value' = [value EXCEPT ![c] = 0]
          /\ UNCHANGED previous
     ELSE /\ Move(c, from, swap)
          /\ previous' = [previous EXCEPT ![c] = counter[name]]
          /\ UNCHANGED value
  /\ Records
  /\ UNCHANGED <<recorded, counted, control, clock, counts, highest, times>>

UnchangedSinceIgnored(c, name) == TRUE
UnchangedSince(c, name) == counter[name] = previous[c]

Swap(c, name, from, load, done) ==
  /\ IF UnchangedSince(c, name)
     THEN /\ Move(c, from, done)
          /\ counter' = [counter EXCEPT ![name] = value[c]]
          /\ value' = [value EXCEPT ![c] = 0]
     ELSE /\ Move(c, from, load)
          /\ UNCHANGED <<counter, value>>
  /\ previous' = [previous EXCEPT ![c] = 0]
  /\ Records
  /\ UNCHANGED <<map, sessions, counted, control, clock, counts, highest, times>>

RecordPeak(c) ==
  \/ LoadPrevious(c, "peak", "peakLoad", "peakSwap", "serving")
  \/ Swap(c, "peak", "peakSwap", "peakLoad", "serving")

\* STAT: recordStat, and recordStatChaos if a fault answers it.
RecordStat(c) ==
  /\ records < MaxRecords
  /\ records' = records + 1
  /\ Move(c, "serving", "serving") \/ Move(c, "serving", "statChaos")
  /\ AddMap("stat")
  /\ Records
  /\ UNCHANGED <<counter, sessions, counted, value, previous, control, clock,
                 resets, snapshots, highest, times>>

RecordStatChaos(c) ==
  /\ Move(c, "statChaos", "serving")
  /\ AddMap("chaos")
  /\ Records
  /\ UNCHANGED <<counter, sessions, counted, value, previous, control, clock, counts, highest, times>>

(***************************************************************************)
(* recordBody.                                                             *)
(***************************************************************************)
RecordBody(c) ==
  /\ records < MaxRecords
  /\ records' = records + 1
  /\ Move(c, "serving", "transfers")
  /\ AddMap("body")
  /\ Records
  /\ UNCHANGED <<counter, sessions, counted, value, previous, control, clock,
                 resets, snapshots, highest, times>>

AddTransfer(c) ==
  /\ Move(c, "transfers", "time")
  /\ Add("bodyXfers", 1)
  /\ Records
  /\ UNCHANGED <<map, sessions, counted, value, previous, control, clock, counts, highest, times>>

ReadTime(c) ==
  /\ Move(c, "time", "first")
  /\ clock' = clock + 1
  /\ value' = [value EXCEPT ![c] = clock + 1]
  /\ times' = times \cup {clock + 1}
  /\ Records
  /\ UNCHANGED <<recorded, counted, previous, control, counts, highest>>

SetFirst(c) ==
  /\ Move(c, "first", "lastLoad")
  /\ counter' = [counter EXCEPT !["bodyFirst"] = IF @ = 0 THEN value[c] ELSE @]
  /\ Records
  /\ UNCHANGED <<map, sessions, counted, value, previous, control, clock, counts, highest, times>>

RecordLast(c) ==
  \/ LoadPrevious(c, "bodyLast", "lastLoad", "lastSwap", "serving")
  \/ Swap(c, "bodyLast", "lastSwap", "lastLoad", "serving")

-----------------------------------------------------------------------------
(***************************************************************************)
(* Metrics and ResetMetrics: the sessions are read first, then the maps    *)
(* under their lock, then one counter after the other.                     *)
(***************************************************************************)
BeginReset(t) ==
  /\ tool[t].does = "idle" /\ resets < MaxResets
  /\ resets' = resets + 1
  /\ tool' = [tool EXCEPT ![t] = [does |-> "reset", at |-> 0]]
  /\ activeSeen' = [activeSeen EXCEPT ![t] = sessions]
  /\ torn' = (~Quiet \/ Does("reset") # {})
  /\ alone' = {}
  /\ highest' = sessions
  /\ times' = {}
  /\ UNCHANGED <<recorded, conn, snapshot, clock, records, snapshots>>

BeginSnapshot(t) ==
  /\ tool[t].does = "idle" /\ snapshots < MaxSnapshots
  /\ snapshots' = snapshots + 1
  /\ tool' = [tool EXCEPT ![t] = [does |-> "snapshot", at |-> 0]]
  /\ activeSeen' = [activeSeen EXCEPT ![t] = sessions]
  /\ alone' = IF Quiet /\ ~torn /\ Does("reset") = {} THEN alone \cup {t}
                                                        ELSE alone \ {t}
  /\ UNCHANGED <<recorded, conn, snapshot, clock, records, resets, torn, highest, times>>

Advances(t, done) ==
  tool' = [tool EXCEPT ![t] =
             IF @.at = Len(Order) THEN [does |-> done, at |-> 0]
                                  ELSE [does |-> @.does, at |-> @.at + 1]]

\* The maps reset makes anew, and what it stores into a counter.
ClearedButChaos == Maps \ {"chaos"}
Cleared == Maps

ResetPeakToZero(t, name) == 0
ResetKeepsFirst(t, name) ==
  CASE name = "peak" -> activeSeen[t]
    [] name = "bodyFirst" -> counter[name]
    [] OTHER -> 0
ResetValue(t, name) == IF name = "peak" THEN activeSeen[t] ELSE 0

ResetStep(t) ==
  LET at == tool[t].at IN
  /\ tool[t].does = "reset"
  /\ IF at = 0
     THEN /\ map' = [name \in Maps |-> IF name \in Cleared THEN 0 ELSE map[name]]
          /\ UNCHANGED counter
     ELSE /\ counter' = [counter EXCEPT ![Order[at]] = ResetValue(t, Order[at])]
          /\ UNCHANGED map
  /\ Advances(t, "idle")
  /\ activeSeen' = [activeSeen EXCEPT ![t] = IF at = Len(Order) THEN 0 ELSE @]
  /\ alone' = {}
  /\ UNCHANGED <<sessions, conn, snapshot, clock, counts, torn, highest, times>>

SnapshotStep(t) ==
  LET at == tool[t].at IN
  /\ tool[t].does = "snapshot"
  /\ snapshot' =
       [snapshot EXCEPT ![t] =
          IF at = 0 THEN [name \in DOMAIN Blank |-> IF name \in Maps THEN map[name] ELSE 0]
                    ELSE [@ EXCEPT ![Order[at]] = counter[Order[at]]]]
  /\ Advances(t, "report")
  /\ UNCHANGED <<recorded, conn, activeSeen, clock, counts, history>>

\* The tool has its answer.
Report(t) ==
  /\ tool[t].does = "report"
  /\ tool' = [tool EXCEPT ![t] = [does |-> "idle", at |-> 0]]
  /\ snapshot' = [snapshot EXCEPT ![t] = Blank]
  /\ activeSeen' = [activeSeen EXCEPT ![t] = 0]
  /\ alone' = alone \ {t}
  /\ UNCHANGED <<recorded, conn, clock, counts, torn, highest, times>>

-----------------------------------------------------------------------------
ConnStep(c) ==
  \/ Connect(c) \/ Decide(c) \/ DeclareControl(c) \/ BeginSession(c)
  \/ RecordPeak(c) \/ EndConnection(c)
  \/ RecordStat(c) \/ RecordStatChaos(c)
  \/ RecordBody(c) \/ AddTransfer(c) \/ ReadTime(c)
  \/ SetFirst(c) \/ RecordLast(c)

ToolStep(t) == BeginReset(t) \/ BeginSnapshot(t) \/ ResetStep(t) \/ SnapshotStep(t) \/ Report(t)

\* Nothing is left to record.
Stopped == (\A c \in Conns : place[c] = "ended") /\ UNCHANGED vars

Next ==
  \/ \E c \in Conns : ConnStep(c)
  \/ \E t \in Tools : ToolStep(t)
  \/ Stopped

Spec == Init /\ [][Next]_vars

-----------------------------------------------------------------------------
(***************************************************************************)
(* Properties.                                                             *)
(***************************************************************************)

\* Every variable has its type; no counter goes below zero.
TypeOK ==
  /\ counter \in [Names -> Nat] /\ map \in [Maps -> Nat] /\ sessions \in Nat
  /\ place \in [Conns -> Places] /\ counted \in [Conns -> BOOLEAN]
  /\ value \in [Conns -> Nat] /\ previous \in [Conns -> Nat]
  /\ tool \in [Tools -> [does : {"idle", "reset", "snapshot", "report"}, at : 0..Len(Order)]]
  /\ activeSeen \in [Tools -> Nat]
  /\ snapshot \in [Tools -> [Names \cup Maps -> Nat]]
  /\ clock \in Nat
  /\ records \in 0..MaxRecords
  /\ resets \in 0..MaxResets /\ snapshots \in 0..MaxSnapshots
  /\ torn \in BOOLEAN /\ alone \subseteq Tools
  /\ highest \in Nat /\ times \subseteq Nat

\* Nobody is recording or resetting, and nobody ran into the last reset.
Settled == Quiet /\ Does("reset") = {} /\ ~torn

(***************************************************************************)
(* Whatever order the steps of concurrent records took, the counters agree *)
(* with each other once they are settled: the maps with the totals, the    *)
(* attempts with the decisions, the faults with the STAT commands          *)
(* (recordBody, recordStat, handleConnection, reset).                      *)
(***************************************************************************)
CountersAgree ==
  Settled =>
    /\ map["body"] = counter["bodyXfers"]
    /\ counter["attempted"] = counter["accepted"] + counter["rejected"]
    /\ map["chaos"] <= map["stat"]

(***************************************************************************)
(* No update of the peak is lost: it is the greatest number of sessions    *)
(* there was since the last reset, control channels not counted            *)
(* (recordPeak).                                                           *)
(***************************************************************************)
PeakIsHighest == Settled => counter["peak"] = highest

(***************************************************************************)
(* The first and the last time are times of bodies recorded since the last *)
(* reset, and no body was later than the last (recordBody).                *)
(***************************************************************************)
TimesSpan ==
  Settled =>
    IF times = {}
    THEN counter["bodyFirst"] = 0 /\ counter["bodyLast"] = 0
    ELSE /\ {counter["bodyFirst"], counter["bodyLast"]} \subseteq times
         /\ \A time \in times : time <= counter["bodyLast"]

(***************************************************************************)
(* A snapshot that was taken while nothing was recorded or reset is        *)
(* consistent, what went on before notwithstanding (snapshot).             *)
(***************************************************************************)
QuietSnapshots ==
  \A t \in alone : tool[t].does = "report" =>
    LET seen == snapshot[t] IN
    /\ seen["body"] = seen["bodyXfers"] /\ seen["chaos"] <= seen["stat"]
    /\ seen["bodyFirst"] <= seen["bodyLast"]
    /\ seen["attempted"] = seen["accepted"] + seen["rejected"]
    /\ activeSeen[t] <= seen["peak"]

-----------------------------------------------------------------------------
(***************************************************************************)
(* What the tests say, and the code does not do: the last time of a        *)
(* snapshot is not before the first one.                                   *)
(***************************************************************************)
SnapshotTimesOrdered ==
  \A t \in Tools :
    tool[t].does = "report" => snapshot[t]["bodyFirst"] <= snapshot[t]["bodyLast"]
=============================================================================
