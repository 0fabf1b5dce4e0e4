--------------------------- MODULE MetricsProofs ---------------------------
(***************************************************************************)
(* Proofs about Metrics, for any number of connections and of tools that   *)
(* read and reset the counters, and any bounds: once nobody is in the      *)
(* middle of a record the counters agree, and no update of the peak or of  *)
(* the times was lost, resets notwithstanding.                             *)
(***************************************************************************)
EXTENDS Metrics, FiniteSetTheorems, TLAPS

\* The connections that stand at a place.
At(p) == {c \in Conns : place[c] = p}
Counted == {c \in Conns : counted[c]}

\* The last reset is over and nothing ran into it.
Undisturbed == ~torn /\ Does("reset") = {}

\* Server.sessions is the number of connections that are counted, and those
\* are past their first command.
SessionsCounted ==
  /\ sessions = Cardinality(Counted)
  /\ \A c \in Conns : counted[c] => place[c] \notin {"new", "attempted", "accepted"}

\* The maps are ahead of the totals, and the attempts of the decisions, by the
\* connections that have recorded the one and not yet the other.
TotalsAccounted ==
  Undisturbed =>
    /\ map["body"] = counter["bodyXfers"] + Cardinality(At("transfers"))
    /\ counter["attempted"]
         = counter["accepted"] + counter["rejected"] + Cardinality(At("attempted"))
    /\ map["chaos"] + Cardinality(At("statChaos")) <= map["stat"]

\* Where recordPeak runs, and where recordBody has its time.
Peaking == At("peakLoad") \cup At("peakSwap")
Timing  == At("first") \cup At("lastLoad") \cup At("lastSwap")

\* A swap only raises a counter.
SwapsRaise == \A c \in At("peakSwap") \cup At("lastSwap") : previous[c] < value[c]

\* If the peak is not the highest number of sessions yet, somebody is about to
\* record it.
PeakAccounted ==
  /\ sessions <= highest
  /\ Undisturbed =>
       /\ counter["peak"] <= highest
       /\ \A c \in Peaking : value[c] <= highest
       /\ counter["peak"] = highest \/ \E c \in Peaking : value[c] = highest

\* The times are those recorded or about to be.
TimesAccounted ==
  /\ 0 \notin times
  /\ Undisturbed =>
       /\ {counter["bodyFirst"], counter["bodyLast"]} \subseteq times \cup {0}
       /\ \A c \in Timing : value[c] \in times
       /\ times # {} => counter["bodyFirst"] # 0 \/ At("first") # {}
       /\ \A time \in times :
            time <= counter["bodyLast"] \/ \E c \in Timing : value[c] = time

\* A reset nothing has run into finds nobody recording, and what it has stored
\* so far is still there.
ResetAccounted ==
  ~torn => \A t \in Does("reset") :
    /\ Quiet /\ Does("reset") = {t}
    /\ times = {} /\ highest = activeSeen[t]
    /\ tool[t].at > 0 => \A name \in Maps : map[name] = 0
    /\ \A i \in 1..Len(Order) :
         i < tool[t].at => counter[Order[i]] = ResetValue(t, Order[i])

\* A snapshot nothing has run into has read what is still there.
SnapshotAccounted ==
  \A t \in alone :
    /\ tool[t].does \in {"snapshot", "report"}
    /\ Quiet /\ Undisturbed /\ activeSeen[t] = sessions
    /\ tool[t].does = "report" \/ tool[t].at > 0 =>
         \A name \in Maps : snapshot[t][name] = map[name]
    /\ \A i \in 1..Len(Order) :
         tool[t].does = "report" \/ i < tool[t].at =>
           snapshot[t][Order[i]] = counter[Order[i]]

MetricsInv ==
  /\ TypeOK /\ SessionsCounted /\ TotalsAccounted /\ SwapsRaise /\ PeakAccounted
  /\ TimesAccounted /\ ResetAccounted /\ SnapshotAccounted

-----------------------------------------------------------------------------
(***************************************************************************)
(* The names of the counters, and the connections at a place.              *)
(***************************************************************************)
LEMMA OrderNames ==
  /\ Len(Order) = 7 /\ Order[7] = "peak"
  /\ \A i \in 1..7 : Order[i] \in Names
  /\ \A i, j \in 1..7 : Order[i] = Order[j] => i = j
  /\ \A name \in Names : \E i \in 1..7 : Order[i] = name
  /\ Names = {"bodyXfers", "bodyFirst", "bodyLast", "attempted", "accepted", "rejected", "peak"}
<1>1. Len(Order) = 7
  BY DEF Order
<1>2. /\ Order[1] = "bodyXfers" /\ Order[2] = "bodyFirst" /\ Order[3] = "bodyLast"
      /\ Order[4] = "attempted" /\ Order[5] = "accepted" /\ Order[6] = "rejected"
      /\ Order[7] = "peak"
  BY DEF Order
<1>3. 1..7 = {1, 2, 3, 4, 5, 6, 7}
  OBVIOUS
<1>4. Names = {Order[i] : i \in 1..7}
  BY <1>1 DEF Names
<1>5. \A i, j \in 1..7 : Order[i] = Order[j] => i = j
  BY <1>2, <1>3
<1> QED
  BY <1>1, <1>2, <1>3, <1>4, <1>5

LEMMA AtFinite == IsFiniteSet(Counted) /\ \A p : IsFiniteSet(At(p))
<1>1. Counted \subseteq Conns /\ \A p : At(p) \subseteq Conns
  BY DEF Counted, At
<1> QED
  BY <1>1, ConnsAssumption, FS_Subset

\* A connection that moves is counted at one place more and at one less.
LEMMA MoveCounts ==
  ASSUME TypeOK, NEW c \in Conns, NEW from, NEW to, Move(c, from, to), NEW p
  PROVE  /\ Cardinality(At(p)) \in Nat
         /\ Cardinality(At(p)') = Cardinality(At(p)) + (IF p = to THEN 1 ELSE 0)
                                                  - (IF p = from THEN 1 ELSE 0)
<1>1. place \in [Conns -> Places] /\ place[c] = from /\ place' = [place EXCEPT ![c] = to]
  BY DEF TypeOK, Move
<1>2. IsFiniteSet(At(p)) /\ Cardinality(At(p)) \in Nat
  BY AtFinite, FS_CardinalityType
<1>3. CASE p = to /\ p = from
  <2>1. At(p)' = At(p)
    BY <1>1, <1>3 DEF At
  <2> QED
    BY <1>2, <1>3, <2>1
<1>4. CASE p = to /\ p # from
  <2>1. At(p)' = At(p) \cup {c} /\ c \notin At(p)
    BY <1>1, <1>4 DEF At
  <2>2. Cardinality(At(p)') = Cardinality(At(p)) + 1
    BY <1>2, <2>1, FS_AddElement
  <2> QED
    BY <1>2, <1>4, <2>2
<1>5. CASE p # to /\ p = from
  <2>1. At(p)' = At(p) \ {c} /\ c \in At(p)
    BY <1>1, <1>5 DEF At
  <2>2. Cardinality(At(p)') = Cardinality(At(p)) - 1
    BY <1>2, <2>1, FS_RemoveElement
  <2> QED
    BY <1>2, <1>5, <2>2
<1>6. CASE p # to /\ p # from
  <2>1. At(p)' = At(p)
    BY <1>1, <1>6 DEF At
  <2> QED
    BY <1>2, <1>6, <2>1
<1> QED
  BY <1>3, <1>4, <1>5, <1>6

\* A connection does nothing to the tools, and calms nothing.
LEMMA ConnFrame ==
  ASSUME NEW c \in Conns, ConnStep(c)
  PROVE  /\ UNCHANGED <<tool, activeSeen, snapshot, resets, snapshots>>
         /\ Undisturbed' => Undisturbed
         /\ \/ Records
            \/ torn' = torn /\ (DeclareControl(c) \/ EndConnection(c))
<1>1. /\ UNCHANGED <<tool, activeSeen, snapshot, resets, snapshots>>
      /\ \/ Records
         \/ torn' = torn /\ (DeclareControl(c) \/ EndConnection(c))
  <2>1. CASE Connect(c) \/ Decide(c) \/ DeclareControl(c) \/ BeginSession(c) \/ EndConnection(c)
    BY <2>1 DEF Connect, Decide, DeclareControl, BeginSession, EndConnection, control, counts, history
  <2>2. CASE RecordPeak(c) \/ RecordLast(c)
    BY <2>2 DEF RecordPeak, RecordLast, LoadPrevious, Swap, control, counts
  <2>3. CASE RecordStat(c) \/ RecordStatChaos(c) \/ RecordBody(c) \/ AddTransfer(c)
             \/ ReadTime(c) \/ SetFirst(c)
    BY <2>3 DEF RecordStat, RecordStatChaos, RecordBody, AddTransfer, ReadTime, SetFirst,
                control, counts
  <2> QED
    BY <2>1, <2>2, <2>3 DEF ConnStep
<1>2. Undisturbed' => Undisturbed
  BY <1>1 DEF Undisturbed, Does, Records
<1> QED
  BY <1>1, <1>2

-----------------------------------------------------------------------------
(***************************************************************************)
(* The initial state.                                                      *)
(***************************************************************************)
LEMMA InitMetrics == Init => MetricsInv
<1> SUFFICES ASSUME Init PROVE MetricsInv
  OBVIOUS
<1>1. \A name \in Names : counter[name] = 0
  BY DEF Init
<1>2. \A name \in Maps : map[name] = 0
  BY DEF Init
<1>3. \A p : p # "new" => Cardinality(At(p)) = 0
  <2>1. \A p : p # "new" => At(p) = {}
    BY DEF Init, At
  <2> QED
    BY <2>1, FS_EmptySet
<1>4. TypeOK
  <2>1. /\ counter \in [Names -> Nat] /\ map \in [Maps -> Nat] /\ sessions \in Nat
        /\ value \in [Conns -> Nat] /\ previous \in [Conns -> Nat]
        /\ activeSeen \in [Tools -> Nat] /\ clock \in Nat
    BY DEF Init
  <2>2. place \in [Conns -> Places] /\ counted \in [Conns -> BOOLEAN]
    BY DEF Init, Places
  <2>3. tool \in [Tools -> [does : {"idle", "reset", "snapshot", "report"}, at : 0..Len(Order)]]
    <3>1. 0 \in 0..Len(Order)
      BY OrderNames
    <3> QED
      BY <3>1 DEF Init
  <2>4. snapshot \in [Tools -> [Names \cup Maps -> Nat]]
    BY DEF Init, Blank
  <2>5. records \in 0..MaxRecords /\ resets \in 0..MaxResets /\ snapshots \in 0..MaxSnapshots
    BY BoundsAssumption DEF Init
  <2>6. torn \in BOOLEAN /\ alone \subseteq Tools /\ highest \in Nat /\ times \subseteq Nat
    BY DEF Init
  <2> QED
    BY <2>1, <2>2, <2>3, <2>4, <2>5, <2>6 DEF TypeOK
<1>5. SessionsCounted
  <2>1. Counted = {}
    BY DEF Init, Counted
  <2> QED
    BY <2>1, FS_EmptySet DEF Init, SessionsCounted
<1>6. TotalsAccounted
  <2>1. {"bodyXfers", "attempted", "accepted", "rejected"} \subseteq Names /\ Maps = {"body", "stat", "chaos"}
    BY OrderNames DEF Maps
  <2> QED
    BY <1>1, <1>2, <1>3, <2>1 DEF TotalsAccounted
<1>7. SwapsRaise
  BY DEF Init, SwapsRaise, At
<1>8. PeakAccounted /\ TimesAccounted
  <2>1. counter["peak"] = 0 /\ counter["bodyFirst"] = 0 /\ counter["bodyLast"] = 0
    BY <1>1, OrderNames
  <2> QED
    BY <2>1 DEF Init, PeakAccounted, TimesAccounted, Peaking, Timing, At
<1>9. ResetAccounted /\ SnapshotAccounted
  BY DEF Init, ResetAccounted, SnapshotAccounted, Does
<1> QED
  BY <1>4, <1>5, <1>6, <1>7, <1>8, <1>9 DEF MetricsInv

-----------------------------------------------------------------------------
(***************************************************************************)
(* The types, and the number of sessions.                                  *)
(***************************************************************************)
LEMMA LeavesCounts ==
  ASSUME TypeOK, SessionsCounted, NEW c \in Conns, EndConnection(c)
  PROVE  sessions' \in Nat /\ sessions' <= sessions /\ sessions' = Cardinality(Counted')
<1>1. /\ counted \in [Conns -> BOOLEAN] /\ counted' = [counted EXCEPT ![c] = FALSE]
      /\ sessions' = (IF counted[c] THEN sessions - 1 ELSE sessions)
  BY DEF TypeOK, EndConnection, Leaves
<1>2. IsFiniteSet(Counted) /\ sessions = Cardinality(Counted) /\ sessions \in Nat
  BY AtFinite, FS_CardinalityType DEF SessionsCounted
<1>3. CASE counted[c]
  <2>1. Counted' = Counted \ {c} /\ c \in Counted
    BY <1>1, <1>3 DEF Counted
  <2>2. Cardinality(Counted') = sessions - 1 /\ IsFiniteSet(Counted')
    BY <1>2, <2>1, FS_RemoveElement
  <2>3. Cardinality(Counted') \in Nat
    BY <2>2, FS_CardinalityType
  <2> QED
    BY <1>1, <1>2, <1>3, <2>2, <2>3
<1>4. CASE ~counted[c]
  <2>1. Counted' = Counted
    BY <1>1, <1>4 DEF Counted
  <2> QED
    BY <1>1, <1>2, <1>4, <2>1
<1> QED
  BY <1>3, <1>4

LEMMA CountedStep ==
  ASSUME TypeOK, SessionsCounted, [Next]_vars
  PROVE  SessionsCounted'
<1> USE DEF TypeOK
<1>1. ASSUME UNCHANGED <<sessions, counted, place>> PROVE SessionsCounted'
  BY <1>1 DEF SessionsCounted, Counted
<1>2. ASSUME NEW c \in Conns, NEW from, NEW to, Move(c, from, to),
             to \notin {"new", "attempted", "accepted"} \/ from \in {"new", "attempted", "accepted"},
             UNCHANGED <<sessions, counted>>
      PROVE  SessionsCounted'
  BY <1>2 DEF SessionsCounted, Counted, Move
<1>3. ASSUME NEW c \in Conns, ConnStep(c) PROVE SessionsCounted'
  <2>1. CASE Connect(c) \/ Decide(c) \/ DeclareControl(c)
    BY <1>2, <2>1 DEF Connect, Decide, DeclareControl, recorded
  <2>2. CASE RecordPeak(c) \/ RecordLast(c)
    BY <1>2, <2>2 DEF RecordPeak, RecordLast, LoadPrevious, Swap, recorded
  <2>3. CASE RecordStat(c) \/ RecordStatChaos(c) \/ RecordBody(c) \/ AddTransfer(c)
             \/ ReadTime(c) \/ SetFirst(c)
    BY <1>2, <2>3 DEF RecordStat, RecordStatChaos, RecordBody, AddTransfer, ReadTime, SetFirst, recorded
  <2>4. CASE BeginSession(c)
    <3>1. /\ place[c] = "accepted" /\ place' = [place EXCEPT ![c] = "peakLoad"]
          /\ counted' = [counted EXCEPT ![c] = TRUE] /\ sessions' = sessions + 1
      BY <2>4 DEF BeginSession, Move
    <3>2. Counted' = Counted \cup {c} /\ c \notin Counted
      BY <3>1 DEF SessionsCounted, Counted
    <3>3. Cardinality(Counted') = sessions + 1
      BY <3>2, AtFinite, FS_AddElement DEF SessionsCounted
    <3> QED
      BY <3>1, <3>3 DEF SessionsCounted
  <2>5. CASE EndConnection(c)
    <3>1. \A d \in Conns : counted'[d] => counted[d] /\ d # c
      BY <2>5 DEF EndConnection
    <3>2. \A d \in Conns : d # c => place'[d] = place[d]
      BY <2>5 DEF EndConnection, Move
    <3> QED
      BY <2>5, <3>1, <3>2, LeavesCounts DEF SessionsCounted
  <2> QED
    BY <1>3, <2>1, <2>2, <2>3, <2>4, <2>5 DEF ConnStep
<1>4. ASSUME NEW t \in Tools, ToolStep(t) PROVE UNCHANGED <<sessions, counted, place>>
  BY <1>4 DEF ToolStep, BeginReset, BeginSnapshot, ResetStep, SnapshotStep, Report, recorded, conn
<1>5. Stopped \/ UNCHANGED vars => UNCHANGED <<sessions, counted, place>>
  BY DEF Stopped, vars, recorded, conn
<1> QED
  BY <1>1, <1>3, <1>4, <1>5 DEF Next

LEMMA TypeStep ==
  ASSUME TypeOK, SessionsCounted, [Next]_vars
  PROVE  TypeOK'
<1> DEFINE ToolTypes == [does : {"idle", "reset", "snapshot", "report"}, at : 0..7]
<1>1. /\ counter \in [Names -> Nat] /\ map \in [Maps -> Nat] /\ sessions \in Nat
      /\ place \in [Conns -> Places] /\ counted \in [Conns -> BOOLEAN]
      /\ value \in [Conns -> Nat] /\ previous \in [Conns -> Nat]
      /\ tool \in [Tools -> ToolTypes] /\ activeSeen \in [Tools -> Nat]
      /\ snapshot \in [Tools -> [Names \cup Maps -> Nat]] /\ clock \in Nat
      /\ records \in 0..MaxRecords
      /\ resets \in 0..MaxResets /\ snapshots \in 0..MaxSnapshots
      /\ torn \in BOOLEAN /\ alone \subseteq Tools /\ highest \in Nat /\ times \subseteq Nat
  BY OrderNames DEF TypeOK
<1>2. Names = {"bodyXfers", "bodyFirst", "bodyLast", "attempted", "accepted", "rejected", "peak"}
  BY OrderNames
<1>3. ASSUME NEW c \in Conns, ConnStep(c)
      PROVE  /\ counter' \in [Names -> Nat] /\ map' \in [Maps -> Nat] /\ sessions' \in Nat
             /\ place' \in [Conns -> Places] /\ counted' \in [Conns -> BOOLEAN]
             /\ value' \in [Conns -> Nat] /\ previous' \in [Conns -> Nat]
             /\ clock' \in Nat /\ records' \in 0..MaxRecords
             /\ torn' \in BOOLEAN /\ alone' \subseteq Tools
             /\ highest' \in Nat /\ times' \subseteq Nat
  <2>1. ASSUME NEW from, NEW to \in Places, Move(c, from, to) PROVE place' \in [Conns -> Places]
    BY <1>1, <2>1 DEF Move
  <2>2. {"attempted", "accepted", "ended", "serving", "peakLoad", "peakSwap", "statChaos",
         "transfers", "time", "first", "lastLoad", "lastSwap"} \subseteq Places
    BY DEF Places
  <2>3. ASSUME NEW name \in Names, NEW n \in Nat, counter' = [counter EXCEPT ![name] = n]
        PROVE  counter' \in [Names -> Nat]
    BY <1>1, <2>3
  <2>4. torn' \in BOOLEAN /\ alone' \subseteq Tools
    BY <1>1, <1>3, ConnFrame DEF Records, DeclareControl, EndConnection, history
  <2>5. CASE Connect(c) \/ Decide(c) \/ AddTransfer(c)
    <3>1. place' \in [Conns -> Places]
      BY <2>1, <2>2, <2>5 DEF Connect, Decide, AddTransfer
    <3>2. counter' \in [Names -> Nat]
      BY <1>1, <1>2, <2>5 DEF Connect, Decide, AddTransfer, Add
    <3> QED
      BY <1>1, <2>4, <2>5, <3>1, <3>2 DEF Connect, Decide, AddTransfer, counts
  <2>6. CASE DeclareControl(c) \/ EndConnection(c)
    <3>1. place' \in [Conns -> Places]
      BY <2>1, <2>2, <2>6 DEF DeclareControl, EndConnection
    <3>2. sessions' \in Nat
      BY <1>1, <2>6, LeavesCounts DEF DeclareControl, recorded
    <3> QED
      BY <1>1, <2>4, <2>6, <3>1, <3>2 DEF DeclareControl, EndConnection, recorded, counts, history
  <2>7. CASE BeginSession(c)
    <3>1. place' \in [Conns -> Places]
      BY <2>1, <2>2, <2>7 DEF BeginSession
    <3>2. sessions + 1 \in Nat
      BY <1>1
    <3>3. value' \in [Conns -> Nat] /\ sessions' \in Nat /\ highest' \in Nat
      BY <1>1, <2>7, <3>2 DEF BeginSession
    <3>4. counted' \in [Conns -> BOOLEAN]
      BY <1>1, <2>7 DEF BeginSession
    <3>5. UNCHANGED <<counter, map, previous, clock, records, times>>
      BY <2>7 DEF BeginSession, counts
    <3> QED
      BY <1>1, <2>4, <3>1, <3>3, <3>4, <3>5
  <2>8. CASE RecordPeak(c) \/ RecordLast(c)
    <3>1. PICK name \in {"peak", "bodyLast"}, load \in {"peakLoad", "lastLoad"},
               swap \in {"peakSwap", "lastSwap"} :
            LoadPrevious(c, name, load, swap, "serving") \/ Swap(c, name, swap, load, "serving")
      BY <2>8 DEF RecordPeak, RecordLast
    <3>2. place' \in [Conns -> Places]
      BY <2>1, <2>2, <3>1 DEF LoadPrevious, Swap
    <3>3. name \in Names
      BY <1>2
    <3>4. counter' \in [Names -> Nat]
      <4>1. counter' = counter \/ counter' = [counter EXCEPT ![name] = value[c]]
        BY <3>1 DEF LoadPrevious, Swap, recorded
      <4> QED
        BY <1>1, <2>3, <3>3, <4>1
    <3>5. value' \in [Conns -> Nat] /\ previous' \in [Conns -> Nat]
      BY <1>1, <3>1, <3>3 DEF LoadPrevious, Swap
    <3>6. UNCHANGED <<map, sessions, counted, clock, records, highest, times>>
      BY <3>1 DEF LoadPrevious, Swap, recorded, counts
    <3> QED
      BY <1>1, <2>4, <3>2, <3>4, <3>5, <3>6
  <2>9. CASE RecordStat(c) \/ RecordStatChaos(c) \/ RecordBody(c)
    <3>1. place' \in [Conns -> Places]
      BY <2>1, <2>2, <2>9 DEF RecordStat, RecordStatChaos, RecordBody
    <3>2. map' \in [Maps -> Nat]
      BY <1>1, <2>9 DEF RecordStat, RecordStatChaos, RecordBody, AddMap, Maps
    <3>3. records' \in 0..MaxRecords
      BY <1>1, <2>9, BoundsAssumption DEF RecordStat, RecordStatChaos, RecordBody, counts
    <3> QED
      BY <1>1, <2>4, <2>9, <3>1, <3>2, <3>3 DEF RecordStat, RecordStatChaos, RecordBody
  <2>10. CASE ReadTime(c)
    <3>1. place' \in [Conns -> Places]
      BY <2>1, <2>2, <2>10 DEF ReadTime
    <3>2. clock + 1 \in Nat
      BY <1>1
    <3>3. value' \in [Conns -> Nat] /\ clock' \in Nat /\ times' \subseteq Nat
      BY <1>1, <2>10, <3>2 DEF ReadTime
    <3>4. UNCHANGED <<counter, map, sessions, counted, previous, records, highest>>
      BY <2>10 DEF ReadTime, recorded, counts
    <3> QED
      BY <1>1, <2>4, <3>1, <3>3, <3>4
  <2>11. CASE SetFirst(c)
    <3>1. place' \in [Conns -> Places]
      BY <2>1, <2>2, <2>11 DEF SetFirst
    <3>2. counter' \in [Names -> Nat]
      BY <1>1, <1>2, <2>11 DEF SetFirst
    <3> QED
      BY <1>1, <2>4, <2>11, <3>1, <3>2 DEF SetFirst, counts
  <2> QED
    BY <1>3, <2>5, <2>6, <2>7, <2>8, <2>9, <2>10, <2>11 DEF ConnStep
<1>4. ASSUME NEW c \in Conns, ConnStep(c) PROVE TypeOK'
  BY <1>1, <1>3, <1>4, ConnFrame, OrderNames DEF TypeOK
<1>5. ASSUME NEW t \in Tools, ToolStep(t)
      PROVE  /\ counter' \in [Names -> Nat] /\ map' \in [Maps -> Nat]
             /\ tool' \in [Tools -> ToolTypes] /\ activeSeen' \in [Tools -> Nat]
             /\ snapshot' \in [Tools -> [Names \cup Maps -> Nat]]
             /\ resets' \in 0..MaxResets /\ snapshots' \in 0..MaxSnapshots
             /\ torn' \in BOOLEAN /\ alone' \subseteq Tools
             /\ highest' \in Nat /\ times' \subseteq Nat
             /\ UNCHANGED <<sessions, conn, clock, records>>
  <2>1. ASSUME NEW does \in {"idle", "reset", "snapshot", "report"},
               tool' = [tool EXCEPT ![t] = [does |-> does, at |-> 0]]
        PROVE  tool' \in [Tools -> ToolTypes]
    BY <1>1, <2>1
  <2>2. ASSUME NEW done \in {"idle", "report"}, Advances(t, done)
        PROVE  tool' \in [Tools -> ToolTypes]
    <3> DEFINE moved == IF tool[t].at = Len(Order) THEN [does |-> done, at |-> 0]
                        ELSE [does |-> tool[t].does, at |-> tool[t].at + 1]
    <3>1. tool' = [tool EXCEPT ![t] = moved]
      BY <2>2 DEF Advances
    <3>2. tool[t] \in ToolTypes
      BY <1>1
    <3>3. moved \in ToolTypes
      <4>1. Len(Order) = 7
        BY OrderNames
      <4>2. CASE tool[t].at = Len(Order)
        BY <4>2
      <4>3. CASE tool[t].at # Len(Order)
        <5>1. tool[t].at + 1 \in 0..7
          BY <3>2, <4>1, <4>3
        <5> QED
          BY <3>2, <4>3, <5>1
      <4> QED
        BY <4>2, <4>3
    <3> HIDE DEF moved, ToolTypes
    <3> QED
      BY <1>1, <3>1, <3>3
  <2>3. CASE BeginReset(t)
    <3>1. tool' \in [Tools -> ToolTypes]
      BY <2>1, <2>3 DEF BeginReset
    <3>2. torn' \in BOOLEAN /\ resets' \in 0..MaxResets
      BY <1>1, <2>3, BoundsAssumption DEF BeginReset
    <3> HIDE DEF ToolTypes
    <3> QED
      BY <1>1, <2>3, <3>1, <3>2 DEF BeginReset, recorded
  <2>4. CASE BeginSnapshot(t)
    <3>1. tool' \in [Tools -> ToolTypes]
      BY <2>1, <2>4 DEF BeginSnapshot
    <3>2. snapshots' \in 0..MaxSnapshots
      BY <1>1, <2>4, BoundsAssumption DEF BeginSnapshot
    <3> HIDE DEF ToolTypes
    <3> QED
      BY <1>1, <2>4, <3>1, <3>2 DEF BeginSnapshot, recorded
  <2>5. CASE ResetStep(t)
    <3>1. \A name \in Names : ResetValue(t, name) \in Nat
      BY <1>1 DEF ResetValue
    <3>2. counter' \in [Names -> Nat] /\ map' \in [Maps -> Nat]
      <4>1. map' = map \/ map' = [name \in Maps |-> IF name \in Cleared THEN 0 ELSE map[name]]
        BY <2>5 DEF ResetStep
      <4>2. counter' = counter
              \/ counter' = [counter EXCEPT ![Order[tool[t].at]] = ResetValue(t, Order[tool[t].at])]
        BY <2>5 DEF ResetStep
      <4>3. \A name : name \in Names =>
              [counter EXCEPT ![name] = ResetValue(t, name)] \in [Names -> Nat]
        BY <1>1, <3>1
      <4>4. \A name : name \notin Names => [counter EXCEPT ![name] = ResetValue(t, name)] = counter
        BY <1>1
      <4> QED
        BY <1>1, <4>1, <4>2, <4>3, <4>4 DEF Cleared
    <3>3. tool' \in [Tools -> ToolTypes]
      BY <2>2, <2>5 DEF ResetStep
    <3> HIDE DEF ToolTypes
    <3> QED
      BY <1>1, <2>5, <3>2, <3>3 DEF ResetStep, counts
  <2>6. CASE SnapshotStep(t)
    <3>1. snapshot' \in [Tools -> [Names \cup Maps -> Nat]]
      <4> DEFINE at   == tool[t].at
                 seen == IF at = 0 THEN [name \in DOMAIN Blank |-> IF name \in Maps THEN map[name] ELSE 0]
                         ELSE [snapshot[t] EXCEPT ![Order[at]] = counter[Order[at]]]
      <4>1. snapshot' = [snapshot EXCEPT ![t] = seen]
        BY <1>1, <2>6 DEF SnapshotStep
      <4>2. DOMAIN Blank = Names \cup Maps
        BY DEF Blank
      <4>3. snapshot[t] \in [Names \cup Maps -> Nat]
        BY <1>1
      <4>4. ASSUME at = 0 PROVE seen \in [Names \cup Maps -> Nat]
        <5>1. [name \in Names \cup Maps |-> IF name \in Maps THEN map[name] ELSE 0]
                \in [Names \cup Maps -> Nat]
          BY <1>1
        <5>2. seen = [name \in DOMAIN Blank |-> IF name \in Maps THEN map[name] ELSE 0]
          BY <4>4
        <5> HIDE DEF seen, at
        <5> QED
          BY <4>2, <5>1, <5>2
      <4>5. ASSUME at # 0 PROVE seen \in [Names \cup Maps -> Nat]
        <5>1. at \in 1..7
          BY <1>1, <4>5
        <5>2. Order[at] \in Names
          BY <5>1, OrderNames
        <5>3. counter[Order[at]] \in Nat
          BY <1>1, <5>2
        <5>4. [snapshot[t] EXCEPT ![Order[at]] = counter[Order[at]]] \in [Names \cup Maps -> Nat]
          BY <4>3, <5>2, <5>3
        <5>5. seen = [snapshot[t] EXCEPT ![Order[at]] = counter[Order[at]]]
          BY <4>5
        <5> HIDE DEF seen, at
        <5> QED
          BY <5>4, <5>5
      <4> HIDE DEF seen
      <4>6. seen \in [Names \cup Maps -> Nat]
        BY <4>4, <4>5
      <4> QED
        BY <1>1, <4>1, <4>6
    <3>2. tool' \in [Tools -> ToolTypes]
      BY <2>2, <2>6 DEF SnapshotStep
    <3> HIDE DEF ToolTypes
    <3> QED
      BY <1>1, <2>6, <3>1, <3>2 DEF SnapshotStep, recorded, counts, history
  <2>7. CASE Report(t)
    <3>1. tool' \in [Tools -> ToolTypes]
      BY <2>1, <2>7 DEF Report
    <3>2. snapshot' \in [Tools -> [Names \cup Maps -> Nat]]
      BY <1>1, <2>7 DEF Report, Blank
    <3> HIDE DEF ToolTypes
    <3> QED
      BY <1>1, <2>7, <3>1, <3>2 DEF Report, recorded, counts
  <2> QED
    BY <1>5, <2>3, <2>4, <2>5, <2>6, <2>7 DEF ToolStep
<1>6. ASSUME NEW t \in Tools, ToolStep(t) PROVE TypeOK'
  BY <1>1, <1>5, <1>6, OrderNames DEF TypeOK, conn
<1>7. CASE Stopped \/ UNCHANGED vars
  BY <1>7 DEF TypeOK, Stopped, vars, recorded, conn, control, counts, history
<1> QED
  BY <1>4, <1>6, <1>7 DEF Next

-----------------------------------------------------------------------------
(***************************************************************************)
(* What connections do to the accounts.                                    *)
(***************************************************************************)
LEMMA ConnTotals ==
  ASSUME TypeOK, TotalsAccounted, NEW c \in Conns, ConnStep(c), Undisturbed'
  PROVE  TotalsAccounted'
<1> DEFINE transfers == Cardinality(At("transfers"))
           attempts  == Cardinality(At("attempted"))
           faults    == Cardinality(At("statChaos"))
<1>1. /\ map["body"] = counter["bodyXfers"] + transfers
      /\ counter["attempted"] = counter["accepted"] + counter["rejected"] + attempts
      /\ map["chaos"] + faults <= map["stat"]
  BY ConnFrame DEF TotalsAccounted
<1>2. /\ {"body", "stat", "chaos"} = Maps
      /\ {"bodyXfers", "bodyFirst", "bodyLast", "attempted", "accepted", "rejected", "peak"} = Names
      /\ counter \in [Names -> Nat] /\ map \in [Maps -> Nat]
  BY OrderNames DEF TypeOK, Maps
<1>3. /\ map["body"] \in Nat /\ map["stat"] \in Nat /\ map["chaos"] \in Nat
      /\ counter["bodyXfers"] \in Nat /\ counter["attempted"] \in Nat
      /\ counter["accepted"] \in Nat /\ counter["rejected"] \in Nat
  BY <1>2
<1>4. ASSUME NEW from, NEW to, Move(c, from, to)
      PROVE  /\ transfers \in Nat /\ attempts \in Nat /\ faults \in Nat
             /\ transfers' = transfers + (IF "transfers" = to THEN 1 ELSE 0)
                                       - (IF "transfers" = from THEN 1 ELSE 0)
             /\ attempts' = attempts + (IF "attempted" = to THEN 1 ELSE 0)
                                     - (IF "attempted" = from THEN 1 ELSE 0)
             /\ faults' = faults + (IF "statChaos" = to THEN 1 ELSE 0)
                                 - (IF "statChaos" = from THEN 1 ELSE 0)
  BY <1>4, MoveCounts
<1> HIDE DEF transfers, attempts, faults
<1>5. SUFFICES /\ map'["body"] = counter'["bodyXfers"] + transfers'
               /\ counter'["attempted"] = counter'["accepted"] + counter'["rejected"] + attempts'
               /\ map'["chaos"] + faults' <= map'["stat"]
  BY DEF TotalsAccounted, transfers, attempts, faults
<1>6. ASSUME NEW from, NEW to, Move(c, from, to),
             {from, to} \cap {"transfers", "attempted", "statChaos"} = {},
             map' = map, \A name \in {"bodyXfers", "attempted", "accepted", "rejected"} :
                           counter'[name] = counter[name]
      PROVE  /\ map'["body"] = counter'["bodyXfers"] + transfers'
             /\ counter'["attempted"] = counter'["accepted"] + counter'["rejected"] + attempts'
             /\ map'["chaos"] + faults' <= map'["stat"]
  <2>1. \A p \in {"transfers", "attempted", "statChaos"} : p # from /\ p # to
    BY <1>6
  <2>2. /\ transfers \in Nat /\ transfers' = transfers + 0 - 0
        /\ attempts \in Nat /\ attempts' = attempts + 0 - 0
        /\ faults \in Nat /\ faults' = faults + 0 - 0
    BY <1>4, <1>6, <2>1
  <2>3. transfers' = transfers /\ attempts' = attempts /\ faults' = faults
    BY <2>2
  <2> QED
    BY <1>1, <1>6, <2>3
<1>7. CASE Connect(c)
  <2>1. /\ transfers' = transfers /\ attempts' = attempts + 1 /\ faults' = faults
        /\ transfers \in Nat /\ attempts \in Nat /\ faults \in Nat
    BY <1>4, <1>7 DEF Connect
  <2>2. map' = map /\ counter' = [counter EXCEPT !["attempted"] = counter["attempted"] + 1]
    BY <1>7 DEF Connect, Add
  <2> QED
    BY <1>1, <1>2, <1>3, <2>1, <2>2
<1>8. CASE Decide(c)
  <2>1. PICK name \in {"accepted", "rejected"} :
          counter' = [counter EXCEPT ![name] = counter[name] + 1]
    BY <1>8 DEF Decide, Add
  <2>2. /\ transfers' = transfers /\ attempts' = attempts - 1 /\ faults' = faults
        /\ transfers \in Nat /\ attempts \in Nat /\ faults \in Nat
    <3>1. CASE Move(c, "attempted", "accepted")
      BY <1>4, <3>1
    <3>2. CASE Move(c, "attempted", "ended")
      BY <1>4, <3>2
    <3> QED
      BY <1>8, <3>1, <3>2 DEF Decide
  <2>3. map' = map
    BY <1>8 DEF Decide
  <2> QED
    BY <1>1, <1>2, <1>3, <2>1, <2>2, <2>3
<1>9. CASE DeclareControl(c) \/ BeginSession(c)
  BY <1>6, <1>9 DEF DeclareControl, BeginSession, recorded
<1>10. CASE EndConnection(c) \/ ReadTime(c)
  BY <1>6, <1>10 DEF EndConnection, ReadTime, recorded
<1>11. CASE RecordPeak(c)
  <2>1. /\ map' = map
        /\ counter' \in {counter, [counter EXCEPT !["peak"] = value[c]]}
    BY <1>11 DEF RecordPeak, LoadPrevious, Swap, recorded
  <2>2. \A name \in {"bodyXfers", "attempted", "accepted", "rejected"} : counter'[name] = counter[name]
    BY <1>2, <2>1
  <2>3. \E from, to \in {"peakLoad", "peakSwap", "serving"} : Move(c, from, to)
    BY <1>11 DEF RecordPeak, LoadPrevious, Swap
  <2> QED
    BY <1>6, <2>1, <2>2, <2>3
<1>12. CASE RecordLast(c)
  <2>1. /\ map' = map
        /\ counter' \in {counter, [counter EXCEPT !["bodyLast"] = value[c]]}
    BY <1>12 DEF RecordLast, LoadPrevious, Swap, recorded
  <2>2. \A name \in {"bodyXfers", "attempted", "accepted", "rejected"} : counter'[name] = counter[name]
    BY <1>2, <2>1
  <2>3. \E from, to \in {"lastLoad", "lastSwap", "serving"} : Move(c, from, to)
    BY <1>12 DEF RecordLast, LoadPrevious, Swap
  <2> QED
    BY <1>6, <2>1, <2>2, <2>3
<1>13. CASE SetFirst(c)
  <2>1. /\ map' = map
        /\ \E n : counter' = [counter EXCEPT !["bodyFirst"] = n]
    BY <1>13 DEF SetFirst
  <2>2. \A name \in {"bodyXfers", "attempted", "accepted", "rejected"} : counter'[name] = counter[name]
    BY <1>2, <2>1
  <2> QED
    BY <1>6, <1>13, <2>1, <2>2 DEF SetFirst
<1>14. CASE RecordStat(c)
  <2>1. map' = [map EXCEPT !["stat"] = map["stat"] + 1] /\ counter' = counter
    BY <1>14 DEF RecordStat, AddMap
  <2>2. /\ transfers' = transfers /\ attempts' = attempts /\ faults' <= faults + 1
        /\ faults' \in Int /\ faults \in Nat
    <3>1. CASE Move(c, "serving", "serving")
      BY <1>4, <3>1
    <3>2. CASE Move(c, "serving", "statChaos")
      BY <1>4, <3>2
    <3> QED
      BY <1>14, <3>1, <3>2 DEF RecordStat
  <2> QED
    BY <1>1, <1>2, <1>3, <2>1, <2>2
<1>15. CASE RecordStatChaos(c)
  <2>1. map' = [map EXCEPT !["chaos"] = map["chaos"] + 1] /\ counter' = counter
    BY <1>15 DEF RecordStatChaos, AddMap
  <2>2. /\ transfers' = transfers /\ attempts' = attempts /\ faults' = faults - 1
        /\ faults \in Nat
    BY <1>4, <1>15 DEF RecordStatChaos
  <2> QED
    BY <1>1, <1>2, <1>3, <2>1, <2>2
<1>16. CASE RecordBody(c)
  <2>1. map' = [map EXCEPT !["body"] = map["body"] + 1] /\ counter' = counter
    BY <1>16 DEF RecordBody, AddMap
  <2>2. /\ transfers' = transfers + 1 /\ attempts' = attempts /\ faults' = faults
        /\ transfers \in Nat
    BY <1>4, <1>16 DEF RecordBody
  <2> QED
    BY <1>1, <1>2, <1>3, <2>1, <2>2
<1>17. CASE AddTransfer(c)
  <2>1. map' = map /\ counter' = [counter EXCEPT !["bodyXfers"] = counter["bodyXfers"] + 1]
    BY <1>17 DEF AddTransfer, Add
  <2>2. /\ transfers' = transfers - 1 /\ attempts' = attempts /\ faults' = faults
        /\ transfers \in Nat
    BY <1>4, <1>17 DEF AddTransfer
  <2> QED
    BY <1>1, <1>2, <1>3, <2>1, <2>2
<1> QED
  BY <1>7, <1>8, <1>9, <1>10, <1>11, <1>12, <1>13, <1>14, <1>15, <1>16, <1>17 DEF ConnStep

LEMMA ConnSwaps ==
  ASSUME TypeOK, SwapsRaise, NEW c \in Conns, ConnStep(c)
  PROVE  SwapsRaise'
<1> USE DEF SwapsRaise, At
<1>1. /\ place \in [Conns -> Places] /\ value \in [Conns -> Nat] /\ previous \in [Conns -> Nat]
      /\ counter \in [Names -> Nat] /\ {"peak", "bodyLast"} \subseteq Names
  BY OrderNames DEF TypeOK
<1>2. ASSUME NEW from, NEW to, Move(c, from, to), to \notin {"peakSwap", "lastSwap"},
             \A d \in Conns \ {c} : value'[d] = value[d] /\ previous'[d] = previous[d]
      PROVE  SwapsRaise'
  <2>1. \A d \in Conns : place'[d] \in {"peakSwap", "lastSwap"} => d # c /\ place[d] = place'[d]
    BY <1>1, <1>2 DEF Move
  <2> QED
    BY <1>2, <2>1
<1>3. CASE Connect(c) \/ Decide(c) \/ DeclareControl(c) \/ EndConnection(c)
  BY <1>2, <1>3 DEF Connect, Decide, DeclareControl, EndConnection
<1>4. CASE RecordStat(c) \/ RecordStatChaos(c) \/ RecordBody(c) \/ AddTransfer(c) \/ SetFirst(c)
  BY <1>2, <1>4 DEF RecordStat, RecordStatChaos, RecordBody, AddTransfer, SetFirst
<1>5. CASE BeginSession(c) \/ ReadTime(c)
  <2>1. previous' = previous /\ \A d \in Conns \ {c} : value'[d] = value[d]
    BY <1>1, <1>5 DEF BeginSession, ReadTime
  <2> QED
    BY <1>2, <1>5, <2>1 DEF BeginSession, ReadTime
<1>6. CASE RecordPeak(c) \/ RecordLast(c)
  <2>1. PICK name \in {"peak", "bodyLast"}, load \in {"peakLoad", "lastLoad"},
             swap \in {"peakSwap", "lastSwap"} :
          LoadPrevious(c, name, load, swap, "serving") \/ Swap(c, name, swap, load, "serving")
    BY <1>6 DEF RecordPeak, RecordLast
  <2>2. \A d \in Conns \ {c} : value'[d] = value[d] /\ previous'[d] = previous[d]
    BY <1>1, <2>1 DEF LoadPrevious, Swap
  <2>3. CASE Swap(c, name, swap, load, "serving")
    BY <1>2, <2>2, <2>3 DEF Swap
  <2>4. CASE LoadPrevious(c, name, load, swap, "serving") /\ value[c] <= counter[name]
    BY <1>2, <2>2, <2>4 DEF LoadPrevious
  <2>5. CASE LoadPrevious(c, name, load, swap, "serving") /\ ~(value[c] <= counter[name])
    <3>1. place' = [place EXCEPT ![c] = swap] /\ value' = value /\ previous'[c] = counter[name]
      BY <1>1, <2>5 DEF LoadPrevious, Move
    <3>2. counter[name] \in Nat /\ value[c] \in Nat
      BY <1>1
    <3>3. previous'[c] < value'[c]
      BY <2>5, <3>1, <3>2
    <3> QED
      BY <1>1, <2>2, <3>1, <3>3
  <2> QED
    BY <2>1, <2>3, <2>4, <2>5
<1> QED
  BY <1>3, <1>4, <1>5, <1>6, <1>1 DEF ConnStep

LEMMA ConnPeak ==
  ASSUME TypeOK, SessionsCounted, SwapsRaise, PeakAccounted, NEW c \in Conns, ConnStep(c)
  PROVE  PeakAccounted'
<1> DEFINE places == {"peakLoad", "peakSwap"}
           peak   == counter["peak"]
<1>1. /\ place \in [Conns -> Places] /\ value \in [Conns -> Nat] /\ previous \in [Conns -> Nat]
      /\ sessions \in Nat /\ highest \in Nat /\ counter \in [Names -> Nat] /\ peak \in Nat
      /\ {"peak", "bodyLast", "bodyFirst", "bodyXfers", "attempted", "accepted", "rejected"} \subseteq Names
  BY OrderNames DEF TypeOK
<1>2. sessions <= highest /\ (Undisturbed' => Undisturbed)
  BY ConnFrame DEF PeakAccounted
<1>3. Undisturbed =>
        /\ peak <= highest
        /\ \A d \in Conns : place[d] \in places => value[d] <= highest
        /\ peak = highest \/ \E d \in Conns : place[d] \in places /\ value[d] = highest
  BY DEF PeakAccounted, Peaking, At
<1>4. ASSUME sessions' <= highest',
             Undisturbed' =>
               /\ peak' <= highest'
               /\ \A d \in Conns : place'[d] \in places => value'[d] <= highest'
               /\ peak' = highest' \/ \E d \in Conns : place'[d] \in places /\ value'[d] = highest'
      PROVE  PeakAccounted'
  BY <1>4 DEF PeakAccounted, Peaking, At
<1>5. ASSUME NEW from, NEW to, Move(c, from, to), from \notin places, to \notin places,
             \A d \in Conns \ {c} : value'[d] = value[d],
             peak' = peak, sessions' <= sessions, sessions' \in Nat, highest' = highest
      PROVE  PeakAccounted'
  <2>1. sessions' <= highest'
    BY <1>1, <1>2, <1>5
  <2>2. /\ place[c] \notin places /\ place'[c] \notin places
        /\ \A d \in Conns \ {c} : place'[d] = place[d]
    BY <1>1, <1>5 DEF Move
  <2> HIDE DEF places, peak
  <2> QED
    BY <1>2, <1>3, <1>4, <1>5, <2>1, <2>2
<1>6. CASE Connect(c) \/ Decide(c) \/ AddTransfer(c) \/ SetFirst(c)
  <2>1. peak' = peak
    BY <1>1, <1>6 DEF Connect, Decide, AddTransfer, SetFirst, Add
  <2> QED
    BY <1>1, <1>5, <1>6, <2>1 DEF Connect, Decide, AddTransfer, SetFirst
<1>7. CASE DeclareControl(c) \/ RecordStat(c) \/ RecordStatChaos(c) \/ RecordBody(c)
  BY <1>1, <1>5, <1>7 DEF DeclareControl, RecordStat, RecordStatChaos, RecordBody, recorded, history
<1>8. CASE EndConnection(c)
  BY <1>1, <1>5, <1>8, LeavesCounts DEF EndConnection
<1>9. CASE ReadTime(c)
  <2>1. \A d \in Conns \ {c} : value'[d] = value[d]
    BY <1>1, <1>9 DEF ReadTime
  <2> QED
    BY <1>1, <1>5, <1>9, <2>1 DEF ReadTime, recorded
<1>10. CASE RecordLast(c)
  <2>1. /\ \A d \in Conns \ {c} : value'[d] = value[d]
        /\ counter' \in {counter, [counter EXCEPT !["bodyLast"] = value[c]]}
        /\ UNCHANGED <<sessions, highest>>
    BY <1>1, <1>10 DEF RecordLast, LoadPrevious, Swap, recorded
  <2>2. \E from, to \in {"lastLoad", "lastSwap", "serving"} : Move(c, from, to)
    BY <1>10 DEF RecordLast, LoadPrevious, Swap
  <2>3. peak' = peak
    BY <1>1, <2>1
  <2> QED
    BY <1>1, <1>5, <2>1, <2>2, <2>3
<1>11. CASE BeginSession(c)
  <2>1. /\ place' = [place EXCEPT ![c] = "peakLoad"] /\ place[c] = "accepted"
        /\ value' = [value EXCEPT ![c] = sessions + 1] /\ counter' = counter
        /\ sessions' = sessions + 1
        /\ highest' = IF sessions + 1 > highest THEN sessions + 1 ELSE highest
    BY <1>11 DEF BeginSession, Move
  <2>2. /\ place'[c] \in places /\ value'[c] = sessions + 1
        /\ \A d \in Conns \ {c} : place'[d] = place[d] /\ value'[d] = value[d]
        /\ place[c] \notin places
    BY <1>1, <2>1
  <2>3. /\ highest' \in Nat /\ highest <= highest' /\ sessions + 1 <= highest'
        /\ highest' = highest \/ highest' = sessions + 1
    BY <1>1, <2>1
  <2>4. Undisturbed' =>
          /\ peak' <= highest'
          /\ \A d \in Conns : place'[d] \in places => value'[d] <= highest'
          /\ peak' = highest' \/ \E d \in Conns : place'[d] \in places /\ value'[d] = highest'
    <3> SUFFICES ASSUME Undisturbed
                 PROVE  /\ peak' <= highest'
                        /\ \A d \in Conns : place'[d] \in places => value'[d] <= highest'
                        /\ peak' = highest' \/ \E d \in Conns : place'[d] \in places /\ value'[d] = highest'
      BY <1>2
    <3>1. peak' = peak
      BY <2>1
    <3> HIDE DEF places, peak
    <3>2. peak' <= highest'
      BY <1>1, <1>3, <2>3, <3>1
    <3>3. ASSUME NEW d \in Conns, place'[d] \in places PROVE value'[d] <= highest'
      <4>1. CASE d = c
        BY <2>2, <2>3, <4>1
      <4>2. CASE d # c
        <5>1. value'[d] = value[d] /\ value[d] <= highest /\ value[d] \in Nat
          BY <1>1, <1>3, <2>2, <3>3, <4>2
        <5> QED
          BY <1>1, <2>3, <5>1
      <4> QED
        BY <4>1, <4>2
    <3>4. peak' = highest' \/ \E d \in Conns : place'[d] \in places /\ value'[d] = highest'
      BY <1>3, <2>2, <2>3, <3>1
    <3> QED
      BY <3>2, <3>3, <3>4
  <2>5. sessions' <= highest'
    BY <2>1, <2>3
  <2> QED
    BY <1>4, <2>4, <2>5
<1>12. CASE RecordPeak(c)
  <2>1. /\ \A d \in Conns \ {c} : place'[d] = place[d] /\ value'[d] = value[d]
        /\ place[c] \in places
        /\ UNCHANGED <<sessions, highest>>
    BY <1>1, <1>12 DEF RecordPeak, LoadPrevious, Swap, Move, recorded
  <2>2. \/ peak' = peak /\ place'[c] \in places /\ value'[c] = value[c]
        \/ peak' = peak /\ place'[c] \notin places /\ value[c] <= peak
        \/ peak' = value[c] /\ place'[c] \notin places /\ peak < value[c]
    <3>1. CASE LoadPrevious(c, "peak", "peakLoad", "peakSwap", "serving")
      BY <1>1, <3>1 DEF LoadPrevious, Move, recorded
    <3>2. CASE Swap(c, "peak", "peakSwap", "peakLoad", "serving") /\ UnchangedSince(c, "peak")
      <4>1. previous[c] < value[c]
        BY <3>2 DEF SwapsRaise, At, Swap, Move
      <4> QED
        BY <1>1, <3>2, <4>1 DEF Swap, Move, UnchangedSince
    <3>3. CASE Swap(c, "peak", "peakSwap", "peakLoad", "serving") /\ ~UnchangedSince(c, "peak")
      BY <1>1, <3>3 DEF Swap, Move
    <3> QED
      BY <1>12, <3>1, <3>2, <3>3 DEF RecordPeak
  <2> HIDE DEF places, peak
  <2>3. Undisturbed' =>
          /\ peak' <= highest'
          /\ \A d \in Conns : place'[d] \in places => value'[d] <= highest'
          /\ peak' = highest' \/ \E d \in Conns : place'[d] \in places /\ value'[d] = highest'
    <3> SUFFICES ASSUME Undisturbed
                 PROVE  /\ peak' <= highest
                        /\ \A d \in Conns : place'[d] \in places => value'[d] <= highest
                        /\ peak' = highest \/ \E d \in Conns : place'[d] \in places /\ value'[d] = highest
      BY <1>2, <2>1
    <3>1. value[c] <= highest /\ value[c] \in Nat
      BY <1>1, <1>3, <2>1
    <3>2. peak' <= highest
      BY <1>3, <2>2, <3>1
    <3>3. \A d \in Conns : place'[d] \in places => value'[d] <= highest
      BY <1>3, <2>1, <2>2, <3>1
    <3>4. ASSUME peak = highest PROVE peak' = highest
      BY <1>1, <2>2, <3>1, <3>4
    <3>5. ASSUME NEW d \in Conns, place[d] \in places, value[d] = highest, peak # highest
          PROVE  peak' = highest \/ \E e \in Conns : place'[e] \in places /\ value'[e] = highest
      <4>1. CASE d # c
        BY <2>1, <3>5, <4>1
      <4>2. CASE d = c
        <5>1. ~(value[c] <= peak)
          BY <1>1, <1>3, <3>5, <4>2
        <5> QED
          BY <2>2, <3>5, <4>2, <5>1
      <4> QED
        BY <4>1, <4>2
    <3> QED
      BY <1>3, <3>2, <3>3, <3>4, <3>5
  <2> QED
    BY <1>2, <1>4, <2>1, <2>3
<1> QED
  BY <1>6, <1>7, <1>8, <1>9, <1>10, <1>11, <1>12 DEF ConnStep

LEMMA ConnTimes ==
  ASSUME TypeOK, SwapsRaise, TimesAccounted, NEW c \in Conns, ConnStep(c)
  PROVE  TimesAccounted'
<1> DEFINE places == {"first", "lastLoad", "lastSwap"}
           first  == counter["bodyFirst"]
           last   == counter["bodyLast"]
           Told   ==
             /\ first \in times \cup {0} /\ last \in times \cup {0}
             /\ \A d \in Conns : place[d] \in places => value[d] \in times
             /\ times # {} => first # 0 \/ \E d \in Conns : place[d] = "first"
             /\ \A time \in times :
                  time <= last \/ \E d \in Conns : place[d] \in places /\ value[d] = time
<1>1. /\ place \in [Conns -> Places] /\ value \in [Conns -> Nat] /\ previous \in [Conns -> Nat]
      /\ counter \in [Names -> Nat] /\ first \in Nat /\ last \in Nat
      /\ times \subseteq Nat /\ clock \in Nat
      /\ {"peak", "bodyLast", "bodyFirst", "bodyXfers", "attempted", "accepted", "rejected"} \subseteq Names
  BY OrderNames DEF TypeOK
<1>2. 0 \notin times /\ (Undisturbed' => Undisturbed)
  BY ConnFrame DEF TimesAccounted
<1>3. Undisturbed => Told
  BY DEF TimesAccounted, Timing, At
<1>4. ASSUME 0 \notin times', Undisturbed' => Told' PROVE TimesAccounted'
  BY <1>4 DEF TimesAccounted, Timing, At
<1>5. ASSUME NEW from, NEW to, Move(c, from, to), from \notin places, to \notin places,
             \A d \in Conns \ {c} : value'[d] = value[d],
             first' = first, last' = last, times' = times
      PROVE  TimesAccounted'
  <2>1. /\ place[c] \notin places /\ place'[c] \notin places
        /\ \A d \in Conns \ {c} : place'[d] = place[d]
    BY <1>1, <1>5 DEF Move
  <2>2. "first" \in places
    OBVIOUS
  <2>3. Told => Told'
    <3> HIDE DEF places, first, last
    <3> QED
      BY <1>5, <2>1, <2>2
  <2> HIDE DEF Told
  <2> QED
    BY <1>2, <1>3, <1>4, <1>5, <2>3
<1>6. CASE Connect(c) \/ Decide(c) \/ AddTransfer(c)
  <2>1. first' = first /\ last' = last
    BY <1>1, <1>6 DEF Connect, Decide, AddTransfer, Add
  <2> QED
    BY <1>5, <1>6, <2>1 DEF Connect, Decide, AddTransfer
<1>7. CASE DeclareControl(c) \/ EndConnection(c)
  BY <1>5, <1>7 DEF DeclareControl, EndConnection, recorded, history
<1>8. CASE RecordStat(c) \/ RecordStatChaos(c) \/ RecordBody(c)
  BY <1>5, <1>8 DEF RecordStat, RecordStatChaos, RecordBody
<1>9. CASE BeginSession(c)
  <2>1. \A d \in Conns \ {c} : value'[d] = value[d]
    BY <1>1, <1>9 DEF BeginSession
  <2> QED
    BY <1>5, <1>9, <2>1 DEF BeginSession
<1>10. CASE RecordPeak(c)
  <2>1. /\ \A d \in Conns \ {c} : value'[d] = value[d]
        /\ counter' \in {counter, [counter EXCEPT !["peak"] = value[c]]}
        /\ UNCHANGED times
    BY <1>1, <1>10 DEF RecordPeak, LoadPrevious, Swap, recorded
  <2>2. \E from, to \in {"peakLoad", "peakSwap", "serving"} : Move(c, from, to)
    BY <1>10 DEF RecordPeak, LoadPrevious, Swap
  <2>3. first' = first /\ last' = last
    BY <1>1, <2>1
  <2> QED
    BY <1>5, <2>1, <2>2, <2>3
<1>11. CASE ReadTime(c)
  <2>1. /\ place[c] = "time" /\ place'[c] = "first" /\ value'[c] = clock + 1
        /\ \A d \in Conns \ {c} : place'[d] = place[d] /\ value'[d] = value[d]
        /\ times' = times \cup {clock + 1} /\ counter' = counter
    BY <1>1, <1>11 DEF ReadTime, Move, recorded
  <2>2. 0 \notin times' /\ "first" \in places /\ place[c] \notin places
    BY <1>1, <1>2, <2>1
  <2>3. first' = first /\ last' = last
    BY <2>1
  <2>4. Told => Told'
    <3> HIDE DEF places, first, last
    <3> QED
      BY <2>1, <2>2, <2>3
  <2> HIDE DEF Told
  <2> QED
    BY <1>2, <1>3, <1>4, <2>2, <2>4
<1>12. CASE SetFirst(c)
  <2>1. /\ place[c] = "first" /\ place'[c] = "lastLoad" /\ value' = value
        /\ \A d \in Conns \ {c} : place'[d] = place[d]
        /\ times' = times
        /\ first' = (IF first = 0 THEN value[c] ELSE first) /\ last' = last
    BY <1>1, <1>12 DEF SetFirst, Move
  <2>2. {"first", "lastLoad"} \subseteq places
    OBVIOUS
  <2>3. Told => Told'
    <3> HIDE DEF places, first, last
    <3> SUFFICES ASSUME Told PROVE Told'
      OBVIOUS
    <3>1. value[c] \in times /\ value[c] # 0
      BY <1>2, <2>1, <2>2
    <3>2. first' \in times' /\ first' # 0
      BY <2>1, <3>1
    <3>3. \A d \in Conns : place'[d] \in places <=> place[d] \in places
      BY <2>1, <2>2
    <3> QED
      BY <2>1, <3>2, <3>3
  <2> HIDE DEF Told
  <2> QED
    BY <1>2, <1>3, <1>4, <2>1, <2>3
<1>13. CASE RecordLast(c)
  <2>1. /\ \A d \in Conns \ {c} : place'[d] = place[d] /\ value'[d] = value[d]
        /\ place[c] \in places \ {"first"} /\ place'[c] # "first"
        /\ times' = times
    BY <1>1, <1>13 DEF RecordLast, LoadPrevious, Swap, Move
  <2>2. /\ first' = first
        /\ \/ last' = last /\ place'[c] \in places /\ value'[c] = value[c]
           \/ last' = last /\ place'[c] \notin places /\ value[c] <= last
           \/ last' = value[c] /\ place'[c] \notin places /\ last < value[c]
    <3>1. CASE LoadPrevious(c, "bodyLast", "lastLoad", "lastSwap", "serving")
      BY <1>1, <3>1 DEF LoadPrevious, Move, recorded
    <3>2. CASE Swap(c, "bodyLast", "lastSwap", "lastLoad", "serving") /\ UnchangedSince(c, "bodyLast")
      <4>1. previous[c] < value[c]
        BY <3>2 DEF SwapsRaise, At, Swap, Move
      <4> QED
        BY <1>1, <3>2, <4>1 DEF Swap, Move, UnchangedSince
    <3>3. CASE Swap(c, "bodyLast", "lastSwap", "lastLoad", "serving") /\ ~UnchangedSince(c, "bodyLast")
      BY <1>1, <3>3 DEF Swap, Move
    <3> QED
      BY <1>13, <3>1, <3>2, <3>3 DEF RecordLast
  <2>3. Told => Told'
    <3> HIDE DEF places, first, last
    <3> SUFFICES ASSUME Told PROVE Told'
      OBVIOUS
    <3>1. value[c] \in times /\ value[c] \in Nat
      BY <1>1, <2>1
    <3>2. first' \in times' \cup {0} /\ last' \in times' \cup {0}
      BY <2>1, <2>2, <3>1
    <3>3. \A d \in Conns : place'[d] \in places => value'[d] \in times'
      BY <2>1, <2>2, <3>1
    <3>4. times' # {} => first' # 0 \/ \E d \in Conns : place'[d] = "first"
      BY <2>1, <2>2
    <3>5. ASSUME NEW time \in times
          PROVE  time <= last' \/ \E d \in Conns : place'[d] \in places /\ value'[d] = time
      <4>1. time \in Nat
        BY <1>1
      <4>2. CASE time <= last
        BY <1>1, <2>2, <3>1, <4>1, <4>2
      <4>3. ASSUME NEW d \in Conns, place[d] \in places, value[d] = time, d # c
            PROVE  \E e \in Conns : place'[e] \in places /\ value'[e] = time
        BY <2>1, <4>3
      <4>4. CASE value[c] = time
        BY <2>2, <4>1, <4>4
      <4> QED
        BY <4>2, <4>3, <4>4
    <3> QED
      BY <2>1, <3>2, <3>3, <3>4, <3>5
  <2> HIDE DEF Told
  <2> QED
    BY <1>2, <1>3, <1>4, <2>1, <2>3
<1> QED
  BY <1>6, <1>7, <1>8, <1>9, <1>10, <1>11, <1>12, <1>13 DEF ConnStep

\* A record tears the resets and disturbs the snapshots it runs into; the
\* other steps of a connection do not begin one.
LEMMA ConnTools ==
  ASSUME TypeOK, SessionsCounted, ResetAccounted, SnapshotAccounted, NEW c \in Conns, ConnStep(c)
  PROVE  ResetAccounted' /\ SnapshotAccounted'
<1>1. UNCHANGED <<tool, activeSeen, snapshot>>
  BY ConnFrame
<1>2. Does("reset")' = Does("reset")
  BY <1>1 DEF Does
<1>3. CASE Records
  <2>1. torn' \/ Does("reset")' = {}
    BY <1>2, <1>3 DEF Records
  <2> QED
    BY <1>3, <2>1 DEF Records, ResetAccounted, SnapshotAccounted
<1>4. CASE torn' = torn /\ (DeclareControl(c) \/ EndConnection(c))
  <2>1. Quiet => Quiet'
    BY <1>4 DEF DeclareControl, EndConnection, Move, Quiet, Midway, Places, TypeOK
  <2>2. counter' = counter /\ map' = map /\ times' = times /\ highest' = highest
    BY <1>4 DEF DeclareControl, EndConnection, recorded, history
  <2>3. ResetAccounted'
    BY <1>1, <1>2, <1>4, <2>1, <2>2 DEF ResetAccounted, ResetValue
  <2>4. SnapshotAccounted'
    <3>1. CASE EndConnection(c)
      BY <3>1 DEF EndConnection, SnapshotAccounted
    <3>2. CASE DeclareControl(c)
      <4>1. alone' = alone /\ sessions' = sessions /\ (Undisturbed => Undisturbed')
        BY <1>2, <3>2 DEF DeclareControl, recorded, history, Undisturbed
      <4> QED
        BY <1>1, <2>1, <2>2, <4>1 DEF SnapshotAccounted
    <3> QED
      BY <1>4, <3>1, <3>2
  <2> QED
    BY <2>3, <2>4
<1> QED
  BY <1>3, <1>4, ConnFrame

-----------------------------------------------------------------------------
(***************************************************************************)
(* What tools do to the accounts.                                          *)
(***************************************************************************)
Accounts == TotalsAccounted /\ PeakAccounted /\ TimesAccounted

\* A tool that leaves the counters alone.
LEMMA AccountsKept ==
  ASSUME Accounts, UNCHANGED <<recorded, place, value, highest, times>>,
         Undisturbed' => Undisturbed
  PROVE  Accounts'
<1>1. \A p : At(p)' = At(p)
  BY DEF At
<1>2. Peaking' = Peaking /\ Timing' = Timing
  BY <1>1 DEF Peaking, Timing
<1> QED
  BY <1>1, <1>2 DEF Accounts, TotalsAccounted, PeakAccounted, TimesAccounted, recorded

\* Where nobody records all places of a record are empty.
LEMMA QuietPlaces ==
  ASSUME Quiet, NEW p \in Midway
  PROVE  At(p) = {} /\ Cardinality(At(p)) = 0
<1>1. At(p) = {}
  BY DEF Quiet, At
<1> QED
  BY <1>1, FS_EmptySet

LEMMA BeginResetStep ==
  ASSUME MetricsInv, NEW t \in Tools, BeginReset(t)
  PROVE  Accounts' /\ ResetAccounted' /\ SnapshotAccounted'
<1>1. /\ tool \in [Tools -> [does : {"idle", "reset", "snapshot", "report"}, at : 0..7]]
      /\ activeSeen \in [Tools -> Nat] /\ sessions \in Nat
  BY OrderNames DEF MetricsInv, TypeOK
<1>2. /\ tool[t].does = "idle" /\ tool' = [tool EXCEPT ![t] = [does |-> "reset", at |-> 0]]
      /\ activeSeen' = [activeSeen EXCEPT ![t] = sessions]
      /\ torn' = (~Quiet \/ Does("reset") # {})
      /\ alone' = {} /\ highest' = sessions /\ times' = {}
      /\ UNCHANGED <<recorded, conn>>
  BY DEF BeginReset
<1>3. Does("reset")' = Does("reset") \cup {t}
  BY <1>1, <1>2 DEF Does
<1>4. ~Undisturbed'
  BY <1>3 DEF Undisturbed
<1>5. Accounts'
  BY <1>1, <1>2, <1>4 DEF Accounts, TotalsAccounted, PeakAccounted, TimesAccounted, recorded
<1>6. ResetAccounted'
  <2> SUFFICES ASSUME ~torn', NEW u \in Does("reset")'
               PROVE  /\ Quiet' /\ Does("reset")' = {u}
                      /\ times' = {} /\ highest' = activeSeen'[u]
                      /\ tool'[u].at = 0
    BY OrderNames DEF ResetAccounted
  <2>1. Quiet /\ Does("reset") = {} /\ u = t
    BY <1>2, <1>3
  <2> QED
    BY <1>1, <1>2, <1>3, <2>1 DEF Quiet, conn
<1>7. SnapshotAccounted'
  BY <1>2 DEF SnapshotAccounted
<1> QED
  BY <1>5, <1>6, <1>7

LEMMA BeginSnapshotStep ==
  ASSUME MetricsInv, NEW t \in Tools, BeginSnapshot(t)
  PROVE  Accounts' /\ ResetAccounted' /\ SnapshotAccounted'
<1>1. /\ tool \in [Tools -> [does : {"idle", "reset", "snapshot", "report"}, at : 0..7]]
      /\ activeSeen \in [Tools -> Nat]
  BY OrderNames DEF MetricsInv, TypeOK
<1>2. /\ tool[t].does = "idle" /\ tool' = [tool EXCEPT ![t] = [does |-> "snapshot", at |-> 0]]
      /\ activeSeen' = [activeSeen EXCEPT ![t] = sessions]
      /\ alone' = (IF Quiet /\ ~torn /\ Does("reset") = {} THEN alone \cup {t} ELSE alone \ {t})
      /\ UNCHANGED <<recorded, conn, snapshot, torn, highest, times>>
  BY DEF BeginSnapshot
<1>3. /\ Does("reset")' = Does("reset") /\ t \notin Does("reset")
      /\ Quiet' = Quiet /\ Undisturbed' = Undisturbed
  BY <1>1, <1>2 DEF Does, Quiet, Undisturbed, conn
<1>4. Accounts'
  BY <1>2, <1>3, AccountsKept DEF MetricsInv, Accounts, conn
<1>5. ResetAccounted'
  BY <1>1, <1>2, <1>3 DEF MetricsInv, ResetAccounted, ResetValue, Does, recorded
<1>6. SnapshotAccounted'
  <2> SUFFICES ASSUME NEW u \in alone'
               PROVE  /\ tool'[u].does \in {"snapshot", "report"}
                      /\ Quiet' /\ Undisturbed' /\ activeSeen'[u] = sessions'
                      /\ tool'[u].does = "report" \/ tool'[u].at > 0 =>
                           \A name \in Maps : snapshot'[u][name] = map'[name]
                      /\ \A i \in 1..Len(Order) :
                           tool'[u].does = "report" \/ i < tool'[u].at =>
                             snapshot'[u][Order[i]] = counter'[Order[i]]
    BY DEF SnapshotAccounted
  <2>1. CASE u = t
    <3>1. Quiet /\ Undisturbed
      BY <1>2, <2>1 DEF Undisturbed
    <3>2. /\ tool'[u].does = "snapshot" /\ tool'[u].at = 0 /\ activeSeen'[u] = sessions'
      BY <1>1, <1>2, <2>1 DEF recorded
    <3>3. Len(Order) = 7
      BY OrderNames
    <3> QED
      BY <1>3, <3>1, <3>2, <3>3
  <2>2. CASE u # t
    <3>1. u \in alone /\ u \in Tools
      BY <1>2, <2>2 DEF MetricsInv, TypeOK
    <3>2. tool'[u] = tool[u] /\ activeSeen'[u] = activeSeen[u]
      BY <1>1, <1>2, <2>2, <3>1
    <3> QED
      BY <1>2, <1>3, <3>1, <3>2 DEF MetricsInv, SnapshotAccounted, recorded
  <2> QED
    BY <2>1, <2>2
<1> QED
  BY <1>4, <1>5, <1>6

\* The last store of a reset nothing ran into leaves all accounts at zero, but
\* for the peak, which is the number of sessions the reset began with.
LEMMA ResetEnds ==
  ASSUME MetricsInv, NEW t \in Tools, ResetStep(t), tool[t].at = 7, ~torn
  PROVE  /\ counter'["peak"] = highest /\ times = {} /\ Quiet
         /\ \A name \in Names \ {"peak"} : counter'[name] = 0
         /\ \A name \in Maps : map'[name] = 0
<1>1. t \in Does("reset") /\ ResetAccounted
  BY DEF ResetStep, Does, MetricsInv
<1>2. /\ Quiet /\ times = {} /\ highest = activeSeen[t]
      /\ \A name \in Maps : map[name] = 0
      /\ \A i \in 1..7 : i < 7 => counter[Order[i]] = ResetValue(t, Order[i])
  BY <1>1, OrderNames DEF ResetAccounted
<1>3. counter' = [counter EXCEPT ![Order[7]] = ResetValue(t, Order[7])] /\ map' = map
  BY DEF ResetStep
<1>4. counter \in [Names -> Nat]
  BY DEF MetricsInv, TypeOK
<1>5. \A i \in 1..7 : counter'[Order[i]] = ResetValue(t, Order[i])
  <2> TAKE i \in 1..7
  <2>1. Order[i] \in Names /\ (Order[i] = Order[7] => i = 7)
    BY OrderNames
  <2>2. CASE i = 7
    BY <1>3, <1>4, <2>1, <2>2
  <2>3. CASE i # 7
    <3>1. i < 7
      BY <2>3
    <3> QED
      BY <1>2, <1>3, <1>4, <2>1, <2>3, <3>1
  <2> QED
    BY <2>2, <2>3
<1>6. \A name \in Names : counter'[name] = ResetValue(t, name)
  BY <1>5, OrderNames
<1> QED
  BY <1>2, <1>3, <1>6, OrderNames DEF ResetValue

LEMMA ResetStepKeeps ==
  ASSUME MetricsInv, NEW t \in Tools, ResetStep(t)
  PROVE  Accounts' /\ ResetAccounted' /\ SnapshotAccounted'
<1>1. /\ tool \in [Tools -> [does : {"idle", "reset", "snapshot", "report"}, at : 0..7]]
      /\ activeSeen \in [Tools -> Nat] /\ counter \in [Names -> Nat]
      /\ Len(Order) = 7
  BY OrderNames DEF MetricsInv, TypeOK
<1> DEFINE at == tool[t].at
<1>2. /\ tool[t].does = "reset" /\ t \in Does("reset") /\ at \in 0..7
      /\ alone' = {} /\ torn' = torn /\ highest' = highest /\ times' = times
      /\ UNCHANGED <<sessions, conn>>
      /\ activeSeen' = [activeSeen EXCEPT ![t] = IF at = 7 THEN 0 ELSE @]
      /\ tool' = [tool EXCEPT ![t] = IF at = 7 THEN [does |-> "idle", at |-> 0]
                                     ELSE [does |-> "reset", at |-> at + 1]]
  BY <1>1 DEF ResetStep, Advances, Does
<1>3. SnapshotAccounted'
  BY <1>2 DEF SnapshotAccounted
<1>4. ~torn => Does("reset") = {t}
  BY <1>2 DEF MetricsInv, ResetAccounted
<1>5. sessions' <= highest' /\ 0 \notin times'
  BY <1>2 DEF MetricsInv, PeakAccounted, TimesAccounted
<1>6. CASE torn
  BY <1>2, <1>3, <1>5, <1>6
     DEF Accounts, TotalsAccounted, PeakAccounted, TimesAccounted, ResetAccounted, Undisturbed
<1>7. CASE ~torn /\ at = 7
  <2>1. Does("reset")' = {}
    BY <1>1, <1>2, <1>4, <1>7 DEF Does
  <2>2. /\ counter'["peak"] = highest' /\ times' = {} /\ Quiet'
        /\ \A name \in Names \ {"peak"} : counter'[name] = 0
        /\ \A name \in Maps : map'[name] = 0
    BY <1>2, <1>7, ResetEnds DEF Quiet, conn
  <2>3. \A p \in Midway : At(p)' = {} /\ Cardinality(At(p)') = 0
    <3>1. Quiet /\ \A p : At(p)' = At(p)
      BY <1>2, <1>7, ResetEnds DEF At, conn
    <3> QED
      BY <3>1, QuietPlaces
  <2>4. {"attempted", "transfers", "statChaos", "peakLoad", "peakSwap", "first", "lastLoad", "lastSwap"}
          \subseteq Midway
    BY DEF Midway, Places
  <2>5. Peaking' = {} /\ Timing' = {}
    BY <2>3, <2>4 DEF Peaking, Timing
  <2>6. {"bodyXfers", "bodyFirst", "bodyLast", "attempted", "accepted", "rejected"} \subseteq Names \ {"peak"}
    BY OrderNames
  <2>7. TotalsAccounted'
    BY <2>2, <2>3, <2>4, <2>6 DEF TotalsAccounted, Maps
  <2>8. PeakAccounted'
    <3>1. highest' \in Nat
      BY <1>2 DEF MetricsInv, TypeOK
    <3> QED
      BY <1>5, <2>2, <2>5, <3>1 DEF PeakAccounted
  <2>9. TimesAccounted'
    BY <1>5, <2>2, <2>5, <2>6 DEF TimesAccounted
  <2> QED
    BY <1>3, <2>1, <2>7, <2>8, <2>9 DEF Accounts, ResetAccounted
<1>8. CASE ~torn /\ at # 7
  <2>1. /\ tool'[t] = [does |-> "reset", at |-> at + 1] /\ activeSeen' = activeSeen
        /\ \A u \in Tools \ {t} : tool'[u] = tool[u]
    BY <1>1, <1>2, <1>8
  <2>2. Does("reset")' = {t}
    <3>1. tool'[t].does = "reset"
      BY <2>1
    <3> QED
      BY <1>4, <1>8, <2>1, <3>1 DEF Does
  <2>3. Accounts'
    BY <1>2, <1>5, <2>2
       DEF Accounts, TotalsAccounted, PeakAccounted, TimesAccounted, Undisturbed
  <2>4. /\ Quiet /\ times = {} /\ highest = activeSeen[t]
        /\ at > 0 => \A name \in Maps : map[name] = 0
        /\ \A i \in 1..7 : i < at => counter[Order[i]] = ResetValue(t, Order[i])
    BY <1>1, <1>2, <1>8 DEF MetricsInv, ResetAccounted
  <2>5. Quiet'
    BY <1>2, <2>4 DEF Quiet, conn
  <2>6. \A name \in Maps : map'[name] = 0
    <3>1. CASE at = 0
      BY <3>1 DEF ResetStep, Cleared
    <3>2. CASE at > 0
      BY <2>4, <3>2 DEF ResetStep
    <3> QED
      BY <1>2, <3>1, <3>2
  <2>7. \A i \in 1..7 : i < at + 1 => counter'[Order[i]] = ResetValue(t, Order[i])'
    <3> TAKE i \in 1..7
    <3> HAVE i < at + 1
    <3>1. at \in 1..7 /\ counter' = [counter EXCEPT ![Order[at]] = ResetValue(t, Order[at])]
      BY <1>2 DEF ResetStep
    <3> HIDE DEF at
    <3>2. Order[i] \in Names /\ (Order[i] = Order[at] => i = at)
      BY <3>1, OrderNames
    <3>3. counter'[Order[i]] = ResetValue(t, Order[i])
      <4>1. CASE i = at
        BY <1>1, <3>1, <3>2, <4>1
      <4>2. CASE i # at
        <5>1. i < at
          BY <3>1, <4>2
        <5> QED
          BY <1>1, <2>4, <3>1, <3>2, <4>2, <5>1
      <4> QED
        BY <4>1, <4>2
    <3> QED
      BY <2>1, <3>3 DEF ResetValue
  <2>8. tool'[t].at = at + 1
    BY <2>1
  <2>9. ResetAccounted'
    <3> HIDE DEF at
    <3> QED
      BY <1>1, <1>2, <2>1, <2>2, <2>4, <2>5, <2>6, <2>7, <2>8 DEF ResetAccounted
  <2> QED
    BY <1>3, <2>3, <2>9
<1> QED
  BY <1>6, <1>7, <1>8

LEMMA SnapshotStepKeeps ==
  ASSUME MetricsInv, NEW t \in Tools, SnapshotStep(t)
  PROVE  Accounts' /\ ResetAccounted' /\ SnapshotAccounted'
<1>1. /\ tool \in [Tools -> [does : {"idle", "reset", "snapshot", "report"}, at : 0..7]]
      /\ snapshot \in [Tools -> [Names \cup Maps -> Nat]] /\ alone \subseteq Tools
      /\ Len(Order) = 7
  BY OrderNames DEF MetricsInv, TypeOK
<1> DEFINE at == tool[t].at
           seen == snapshot'[t]
<1>2. /\ tool[t].does = "snapshot" /\ at \in 0..7
      /\ UNCHANGED <<recorded, conn, activeSeen, history>>
      /\ tool' = [tool EXCEPT ![t] = IF at = 7 THEN [does |-> "report", at |-> 0]
                                     ELSE [does |-> "snapshot", at |-> at + 1]]
  BY <1>1 DEF SnapshotStep, Advances
<1>3. /\ \A u \in Tools \ {t} : tool'[u] = tool[u] /\ snapshot'[u] = snapshot[u]
      /\ tool'[t].does # "reset"
  BY <1>1, <1>2 DEF SnapshotStep
<1>4. /\ Does("reset")' = Does("reset") /\ t \notin Does("reset")
      /\ Quiet' = Quiet /\ Undisturbed' = Undisturbed
  BY <1>2, <1>3 DEF Does, Quiet, Undisturbed, conn, history
<1>5. Accounts'
  BY <1>2, <1>4, AccountsKept DEF MetricsInv, Accounts, conn, history
<1>6. ResetAccounted'
  BY <1>2, <1>3, <1>4 DEF MetricsInv, ResetAccounted, ResetValue, Does, recorded, history
<1>7. ASSUME at = 0
      PROVE  \A name \in Maps : seen[name] = map[name]
  <2>1. seen = [name \in DOMAIN Blank |-> IF name \in Maps THEN map[name] ELSE 0]
    BY <1>1, <1>7 DEF SnapshotStep
  <2>2. DOMAIN Blank = Names \cup Maps
    BY DEF Blank
  <2> HIDE DEF seen
  <2> QED
    BY <2>1, <2>2
<1>8. ASSUME at # 0
      PROVE  /\ \A name \in Maps : seen[name] = snapshot[t][name]
             /\ \A i \in 1..7 : i # at => seen[Order[i]] = snapshot[t][Order[i]]
             /\ seen[Order[at]] = counter[Order[at]]
  <2>1. seen = [snapshot[t] EXCEPT ![Order[at]] = counter[Order[at]]]
    BY <1>1, <1>8 DEF SnapshotStep
  <2>2. at \in 1..7
    BY <1>2, <1>8
  <2>3. snapshot[t] \in [Names \cup Maps -> Nat]
    BY <1>1
  <2> HIDE DEF seen, at
  <2>4. Order[at] \in Names /\ \A i \in 1..7 : Order[i] \in Names /\ (i # at => Order[i] # Order[at])
    BY <2>2, OrderNames
  <2>5. Order[at] \notin Maps
    BY <2>4, OrderNames DEF Maps
  <2> QED
    BY <2>1, <2>3, <2>4, <2>5
<1>9. SnapshotAccounted'
  <2> SUFFICES ASSUME NEW u \in alone
               PROVE  /\ tool'[u].does \in {"snapshot", "report"}
                      /\ Quiet' /\ Undisturbed' /\ activeSeen'[u] = sessions'
                      /\ tool'[u].does = "report" \/ tool'[u].at > 0 =>
                           \A name \in Maps : snapshot'[u][name] = map'[name]
                      /\ \A i \in 1..Len(Order) :
                           tool'[u].does = "report" \/ i < tool'[u].at =>
                             snapshot'[u][Order[i]] = counter'[Order[i]]
    BY <1>2 DEF SnapshotAccounted, history
  <2>1. CASE u # t
    <3>1. u \in Tools
      BY <1>1
    <3> QED
      BY <1>2, <1>3, <1>4, <2>1, <3>1 DEF MetricsInv, SnapshotAccounted, recorded
  <2>2. CASE u = t
    <3>1. /\ Quiet /\ Undisturbed /\ activeSeen[t] = sessions
          /\ at > 0 => \A name \in Maps : snapshot[t][name] = map[name]
          /\ \A i \in 1..7 : i < at => snapshot[t][Order[i]] = counter[Order[i]]
      BY <1>1, <2>2 DEF MetricsInv, SnapshotAccounted
    <3>2. /\ tool'[t].does \in {"snapshot", "report"}
          /\ tool'[t].does = "report" => at = 7
          /\ tool'[t].does = "snapshot" => tool'[t].at = at + 1
          /\ tool'[t].does = "report" => tool'[t].at = 0
      BY <1>1, <1>2
    <3>3. \A name \in Maps : seen[name] = map[name]
      <4>1. CASE at = 0
        BY <1>7, <4>1
      <4>2. CASE at # 0
        <5>1. at > 0
          BY <1>2, <4>2
        <5> HIDE DEF at, seen
        <5> QED
          BY <1>8, <3>1, <4>2, <5>1
      <4> QED
        BY <4>1, <4>2
    <3>4. \A i \in 1..7 : i <= at => seen[Order[i]] = counter[Order[i]]
      <4> TAKE i \in 1..7
      <4> HAVE i <= at
      <4>1. at # 0
        BY <1>2
      <4> HIDE DEF at, seen
      <4>2. CASE i = at
        BY <1>8, <4>1, <4>2
      <4>3. CASE i # at
        <5>1. i < at
          BY <1>2, <4>3
        <5> QED
          BY <1>8, <3>1, <4>1, <4>3, <5>1
      <4> QED
        BY <4>2, <4>3
    <3>5. ASSUME NEW i \in 1..7, tool'[t].does = "report" \/ i < tool'[t].at
          PROVE  i <= at
      BY <1>2, <3>2, <3>5
    <3> HIDE DEF at, seen
    <3> QED
      BY <1>1, <1>2, <1>4, <2>2, <3>1, <3>2, <3>3, <3>4, <3>5 DEF recorded, seen
  <2> QED
    BY <2>1, <2>2
<1> QED
  BY <1>5, <1>6, <1>9

LEMMA ReportKeeps ==
  ASSUME MetricsInv, NEW t \in Tools, Report(t)
  PROVE  Accounts' /\ ResetAccounted' /\ SnapshotAccounted'
<1>1. /\ tool \in [Tools -> [does : {"idle", "reset", "snapshot", "report"}, at : 0..7]]
      /\ activeSeen \in [Tools -> Nat] /\ alone \subseteq Tools
      /\ snapshot \in [Tools -> [Names \cup Maps -> Nat]]
  BY OrderNames DEF MetricsInv, TypeOK
<1>2. /\ tool[t].does = "report" /\ tool' = [tool EXCEPT ![t] = [does |-> "idle", at |-> 0]]
      /\ snapshot' = [snapshot EXCEPT ![t] = Blank]
      /\ activeSeen' = [activeSeen EXCEPT ![t] = 0]
      /\ alone' = alone \ {t}
      /\ UNCHANGED <<recorded, conn, torn, highest, times>>
  BY DEF Report
<1>3. \A u \in Tools \ {t} :
        tool'[u] = tool[u] /\ activeSeen'[u] = activeSeen[u] /\ snapshot'[u] = snapshot[u]
  BY <1>1, <1>2
<1>4. /\ Does("reset")' = Does("reset") /\ t \notin Does("reset")
      /\ Quiet' = Quiet /\ Undisturbed' = Undisturbed
  BY <1>1, <1>2 DEF Does, Quiet, Undisturbed, conn
<1>5. Accounts'
  BY <1>2, <1>4, AccountsKept DEF MetricsInv, Accounts, conn
<1>6. ResetAccounted'
  BY <1>2, <1>3, <1>4 DEF MetricsInv, ResetAccounted, ResetValue, Does, recorded
<1>7. SnapshotAccounted'
  BY <1>1, <1>2, <1>3, <1>4 DEF MetricsInv, SnapshotAccounted, recorded
<1> QED
  BY <1>5, <1>6, <1>7

-----------------------------------------------------------------------------
(***************************************************************************)
(* The theorems.                                                           *)
(***************************************************************************)
LEMMA MetricsStep == MetricsInv /\ [Next]_vars => MetricsInv'
<1> SUFFICES ASSUME MetricsInv, [Next]_vars PROVE MetricsInv'
  OBVIOUS
<1>1. TypeOK' /\ SessionsCounted'
  BY TypeStep, CountedStep DEF MetricsInv
<1>2. ASSUME NEW c \in Conns, ConnStep(c) PROVE MetricsInv'
  <2>1. TotalsAccounted'
    <3>1. CASE Undisturbed'
      BY <1>2, <3>1, ConnTotals DEF MetricsInv
    <3>2. CASE ~Undisturbed'
      BY <3>2 DEF TotalsAccounted
    <3> QED
      BY <3>1, <3>2
  <2>2. SwapsRaise' /\ PeakAccounted' /\ TimesAccounted'
    BY <1>2, ConnSwaps, ConnPeak, ConnTimes DEF MetricsInv
  <2>3. ResetAccounted' /\ SnapshotAccounted'
    BY <1>2, ConnTools DEF MetricsInv
  <2> QED
    BY <1>1, <2>1, <2>2, <2>3 DEF MetricsInv
<1>3. ASSUME NEW t \in Tools, ToolStep(t) PROVE MetricsInv'
  <2>1. SwapsRaise'
    <3>1. UNCHANGED conn
      BY <1>3 DEF ToolStep, BeginReset, BeginSnapshot, ResetStep, SnapshotStep, Report
    <3> QED
      BY <3>1 DEF MetricsInv, SwapsRaise, At, conn
  <2>2. Accounts' /\ ResetAccounted' /\ SnapshotAccounted'
    BY <1>3, BeginResetStep, BeginSnapshotStep, ResetStepKeeps, SnapshotStepKeeps, ReportKeeps
       DEF ToolStep
  <2> QED
    BY <1>1, <2>1, <2>2 DEF MetricsInv, Accounts
<1>4. CASE Stopped \/ UNCHANGED vars
  <2>1. UNCHANGED <<recorded, conn, control, history>>
    BY <1>4 DEF Stopped, vars
  <2>2. /\ \A p : At(p)' = At(p)
        /\ \A what : Does(what)' = Does(what)
        /\ Quiet' = Quiet
    BY <2>1 DEF At, Does, Quiet, conn, control
  <2>3. Undisturbed' = Undisturbed
    BY <2>1, <2>2 DEF Undisturbed, history
  <2>4. Accounts'
    BY <2>1, <2>3, AccountsKept DEF MetricsInv, Accounts, conn, history
  <2>5. SwapsRaise'
    BY <2>1, <2>2 DEF MetricsInv, SwapsRaise, conn
  <2>6. ResetAccounted'
    BY <2>1, <2>2 DEF MetricsInv, ResetAccounted, ResetValue, recorded, control, history
  <2>7. SnapshotAccounted'
    BY <2>1, <2>2, <2>3 DEF MetricsInv, SnapshotAccounted, recorded, control, history
  <2> QED
    BY <1>1, <2>4, <2>5, <2>6, <2>7 DEF MetricsInv, Accounts
<1> QED
  BY <1>2, <1>3, <1>4 DEF Next

\* Maps and counters agree at every moment but for what the connections in the
\* middle of a record, and the resets and snapshots under way, account for.
THEOREM MetricsInvariant == Spec => []MetricsInv
<1> QED
  BY InitMetrics, MetricsStep, PTL DEF Spec

\* Every variable of the metrics keeps its type; neither a counter nor the
\* number of sessions goes below zero.
THEOREM TypeCorrect == Spec => []TypeOK
<1>1. MetricsInv => TypeOK
  BY DEF MetricsInv
<1> QED
  BY <1>1, MetricsInvariant, PTL

LEMMA SettledIsQuiet ==
  ASSUME Settled
  PROVE  /\ Undisturbed /\ Peaking = {} /\ Timing = {} /\ At("first") = {}
         /\ Cardinality(At("transfers")) = 0 /\ Cardinality(At("attempted")) = 0
         /\ Cardinality(At("statChaos")) = 0
<1>1. {"attempted", "transfers", "statChaos", "peakLoad", "peakSwap", "first", "lastLoad", "lastSwap"}
        \subseteq Midway
  BY DEF Midway, Places
<1>2. Undisturbed /\ \A p \in Midway : At(p) = {} /\ Cardinality(At(p)) = 0
  BY QuietPlaces DEF Settled, Undisturbed
<1> QED
  BY <1>1, <1>2 DEF Peaking, Timing

\* Once nobody is recording or resetting the maps agree with the totals, the
\* attempts with the decisions, and the faults with the STAT commands.
THEOREM CountersSettle == Spec => []CountersAgree
<1>1. ASSUME MetricsInv, Settled
      PROVE  /\ map["body"] = counter["bodyXfers"]
             /\ counter["attempted"] = counter["accepted"] + counter["rejected"]
             /\ map["chaos"] <= map["stat"]
  <2>1. counter \in [Names -> Nat] /\ map \in [Maps -> Nat]
    BY <1>1 DEF MetricsInv, TypeOK
  <2>2. /\ map["chaos"] \in Nat /\ map["stat"] \in Nat
        /\ counter["bodyXfers"] \in Nat /\ counter["accepted"] \in Nat /\ counter["rejected"] \in Nat
    BY <2>1, OrderNames DEF Maps
  <2> QED
    BY <1>1, <2>2, SettledIsQuiet DEF MetricsInv, TotalsAccounted
<1>2. MetricsInv => CountersAgree
  BY <1>1 DEF CountersAgree
<1> QED
  BY <1>2, MetricsInvariant, PTL

\* No update of the peak is lost to another session or to a reset
\* (recordPeak).
THEOREM PeakSettles == Spec => []PeakIsHighest
<1>1. MetricsInv => PeakIsHighest
  BY SettledIsQuiet DEF MetricsInv, PeakAccounted, PeakIsHighest
<1> QED
  BY <1>1, MetricsInvariant, PTL

\* The first and the last time are those of bodies recorded since the last
\* reset, and the last is the latest of them (recordBody).
THEOREM TimesSettle == Spec => []TimesSpan
<1>1. MetricsInv => TimesSpan
  <2> SUFFICES ASSUME MetricsInv, Settled
               PROVE  IF times = {}
                      THEN counter["bodyFirst"] = 0 /\ counter["bodyLast"] = 0
                      ELSE /\ {counter["bodyFirst"], counter["bodyLast"]} \subseteq times
                           /\ \A time \in times : time <= counter["bodyLast"]
    BY DEF TimesSpan
  <2>1. /\ counter["bodyFirst"] \in times \cup {0} /\ counter["bodyLast"] \in times \cup {0}
        /\ times # {} => counter["bodyFirst"] # 0
        /\ \A time \in times : time <= counter["bodyLast"]
        /\ 0 \notin times /\ times \subseteq Nat
    BY SettledIsQuiet DEF MetricsInv, TimesAccounted, TypeOK
  <2>2. times # {} => counter["bodyLast"] # 0
    <3> SUFFICES ASSUME NEW time \in times PROVE counter["bodyLast"] # 0
      OBVIOUS
    <3>1. time \in Nat /\ time # 0 /\ time <= counter["bodyLast"]
      BY <2>1
    <3> QED
      BY <3>1
  <2> QED
    BY <2>1, <2>2
<1> QED
  BY <1>1, MetricsInvariant, PTL

\* A snapshot that nothing ran into is consistent, whatever records, resets
\* and snapshots there were before (snapshot).
THEOREM SnapshotsAgree == Spec => []QuietSnapshots
<1>1. ASSUME MetricsInv, NEW t \in alone, tool[t].does = "report"
      PROVE  LET seen == snapshot[t] IN
             /\ seen["body"] = seen["bodyXfers"] /\ seen["chaos"] <= seen["stat"]
             /\ seen["bodyFirst"] <= seen["bodyLast"]
             /\ seen["attempted"] = seen["accepted"] + seen["rejected"]
             /\ activeSeen[t] <= seen["peak"]
  <2>1. /\ Settled /\ activeSeen[t] = sessions
        /\ \A name \in Maps : snapshot[t][name] = map[name]
        /\ \A i \in 1..7 : snapshot[t][Order[i]] = counter[Order[i]]
    BY <1>1, OrderNames DEF MetricsInv, SnapshotAccounted, Settled, Undisturbed
  <2>2. \A name \in Names : snapshot[t][name] = counter[name]
    BY <2>1, OrderNames
  <2>3. {"bodyXfers", "bodyFirst", "bodyLast", "attempted", "accepted", "rejected", "peak"} = Names
    BY OrderNames
  <2>4. /\ map["body"] = counter["bodyXfers"] /\ map["chaos"] <= map["stat"]
        /\ counter["attempted"] = counter["accepted"] + counter["rejected"]
    <3>1. counter \in [Names -> Nat] /\ map \in [Maps -> Nat]
      BY <1>1 DEF MetricsInv, TypeOK
    <3>2. /\ map["chaos"] \in Nat /\ map["stat"] \in Nat
          /\ counter["bodyXfers"] \in Nat /\ counter["accepted"] \in Nat /\ counter["rejected"] \in Nat
      BY <2>3, <3>1 DEF Maps
    <3> QED
      BY <1>1, <2>1, <3>2, SettledIsQuiet DEF MetricsInv, TotalsAccounted
  <2>5. counter["bodyFirst"] <= counter["bodyLast"]
    <3>1. /\ counter["bodyFirst"] \in times \cup {0} /\ counter["bodyLast"] \in times \cup {0}
          /\ \A time \in times : time <= counter["bodyLast"]
          /\ times \subseteq Nat
      BY <1>1, <2>1, SettledIsQuiet DEF MetricsInv, TimesAccounted, TypeOK
    <3>2. CASE counter["bodyFirst"] \in times
      BY <3>1, <3>2
    <3>3. CASE counter["bodyFirst"] = 0
      <4>1. counter["bodyLast"] \in Nat
        BY <1>1, <2>3 DEF MetricsInv, TypeOK
      <4> QED
        BY <3>3, <4>1
    <3> QED
      BY <3>1, <3>2, <3>3
  <2>6. sessions <= counter["peak"]
    BY <1>1, <2>1, SettledIsQuiet DEF MetricsInv, PeakAccounted
  <2>7. /\ snapshot[t]["body"] = map["body"] /\ snapshot[t]["stat"] = map["stat"]
        /\ snapshot[t]["chaos"] = map["chaos"]
    BY <2>1 DEF Maps
  <2> QED
    BY <2>1, <2>2, <2>3, <2>4, <2>5, <2>6, <2>7
<1>2. MetricsInv => QuietSnapshots
  BY <1>1 DEF QuietSnapshots
<1> QED
  BY <1>2, MetricsInvariant, PTL
=============================================================================
