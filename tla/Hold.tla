-------------------------------- MODULE Hold --------------------------------
(***************************************************************************)
(* What the holds of server.go promise, without channels: hold_body and    *)
(* hold_ids are a gate.  A body that meets the gate waits there through    *)
(* every change of the configuration that keeps what is held, all bodies   *)
(* pass at one moment when a change drops some of it, and nobody waits     *)
(* where nothing is held.  Besides, the bodies begun since the last change *)
(* write no more lines than its budget allows.                             *)
(***************************************************************************)
EXTENDS Integers

CONSTANTS
  Sessions,          \* goroutines that serve bodies
  Articles,          \* message IDs
  Configs,           \* configurations the operator installs
  InitialChaos,      \* the one in force at first
  EnableTestControl  \* whether it can be changed

VARIABLES
  config,   \* the configuration in force
  closed,   \* the server has been closed
  article,  \* the article of each session's body
  under,    \* the configuration each body began under
  fresh,    \* sessions whose body began under the one in force
  written,  \* lines these have written since
  waiting   \* sessions whose body waits at the gate

vars == <<config, closed, article, under, fresh, written, waiting>>

Holds(c) == c.holdLines > 0 \/ c.holdIds # {}

\* A change from previous to c drops the budget, or an ID that was held.
Drops(previous, c) ==
  \/ previous.holdLines > 0 /\ c.holdLines = 0
  \/ ~(previous.holdIds \subseteq c.holdIds)

Init ==
  /\ config = InitialChaos
  /\ closed = FALSE
  /\ article \in [Sessions -> Articles]
  /\ under = [s \in Sessions |-> InitialChaos]
  /\ fresh = {} /\ written = 0 /\ waiting = {}

Install(c) ==
  /\ EnableTestControl
  /\ config' = c
  /\ fresh' = {} /\ written' = 0
  /\ waiting' = IF Drops(config, c) THEN {} ELSE waiting
  /\ UNCHANGED <<closed, article, under>>

\* A body begins, if the article exists.
Begin(s, a) ==
  /\ s \notin waiting
  /\ article' = [article EXCEPT ![s] = a]
  /\ under' = [under EXCEPT ![s] = config]
  /\ fresh' \in {fresh, fresh \cup {s}}
  /\ UNCHANGED <<config, closed, written, waiting>>

Write(s) ==
  /\ s \in fresh \ waiting
  /\ written' >= written
  /\ config.holdLines > 0 => written' <= config.holdLines
  /\ UNCHANGED <<config, closed, article, under, fresh, waiting>>

\* The gate stops bodies of articles that are held, and those that began under
\* a budget.
Wait(s) ==
  /\ s \notin waiting /\ Holds(config)
  /\ article[s] \in config.holdIds \/ under[s].holdLines > 0
  /\ waiting' = waiting \cup {s}
  /\ UNCHANGED <<config, closed, article, under, fresh, written>>

\* Only the end of the server lets a single body out.
GiveUp(s) ==
  /\ s \in waiting /\ closed
  /\ waiting' = waiting \ {s}
  /\ UNCHANGED <<config, closed, article, under, fresh, written>>

Close ==
  /\ closed' = TRUE
  /\ UNCHANGED <<config, article, under, fresh, written, waiting>>

Next ==
  \/ \E c \in Configs : Install(c)
  \/ \E s \in Sessions :
       Write(s) \/ Wait(s) \/ GiveUp(s) \/ \E a \in Articles : Begin(s, a)
  \/ Close

Spec == Init /\ [][Next]_vars
=============================================================================
