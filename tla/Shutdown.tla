------------------------------ MODULE Shutdown ------------------------------
(***************************************************************************)
(* What Close of server.go promises, without listeners, maps and wait      *)
(* groups: the server goes down as a whole and once.  New sessions start   *)
(* only while something still accepts, accepting stops only for a call of  *)
(* Close, and no call comes back before all of the server is down.         *)
(***************************************************************************)
CONSTANTS
  Conns,      \* connections
  Closers,    \* callers of Close
  Listeners   \* accept loops

VARIABLES
  accepting,  \* the accept loops that run
  serving,    \* the connections that have a session
  ended,      \* those that had one
  state,      \* "up", "closing" or "down"
  call        \* each caller: "out", "in" or "returned"

vars == <<accepting, serving, ended, state, call>>

Init ==
  /\ accepting = Listeners
  /\ serving = {} /\ ended = {}
  /\ state = "up"
  /\ call = [k \in Closers |-> "out"]

Start(c) ==
  /\ accepting # {}
  /\ c \notin serving \cup ended
  /\ serving' = serving \cup {c}
  /\ UNCHANGED <<accepting, ended, state, call>>

End(c) ==
  /\ c \in serving
  /\ serving' = serving \ {c}
  /\ ended' = ended \cup {c}
  /\ UNCHANGED <<accepting, state, call>>

StopAccepting(l) ==
  /\ state = "closing"
  /\ accepting' = accepting \ {l}
  /\ UNCHANGED <<serving, ended, state, call>>

Call(k) ==
  /\ call[k] = "out"
  /\ call' = [call EXCEPT ![k] = "in"]
  /\ state' = IF state = "up" THEN "closing" ELSE state
  /\ UNCHANGED <<accepting, serving, ended>>

\* The call that closes the server finds all of it down ...
Finish(k) ==
  /\ state = "closing" /\ accepting = {} /\ serving = {}
  /\ call[k] = "in"
  /\ call' = [call EXCEPT ![k] = "returned"]
  /\ state' = "down"
  /\ UNCHANGED <<accepting, serving, ended>>

\* ... and then the others return.
Return(k) ==
  /\ state = "down" /\ call[k] = "in"
  /\ call' = [call EXCEPT ![k] = "returned"]
  /\ UNCHANGED <<accepting, serving, ended, state>>

Next ==
  \/ \E c \in Conns : Start(c) \/ End(c)
  \/ \E l \in Listeners : StopAccepting(l)
  \/ \E k \in Closers : Call(k) \/ Finish(k) \/ Return(k)

Spec == Init /\ [][Next]_vars
=============================================================================
