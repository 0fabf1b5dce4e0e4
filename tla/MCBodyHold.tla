----------------------------- MODULE MCBodyHold -----------------------------
(***************************************************************************)
(* Instances of BodyHold for TLC.                                          *)
(***************************************************************************)
EXTENDS BodyHold, TLC

CONSTANTS s1, s2, a1, a2, a3

MCArticles  == {a1, a2, a3}
MCStored    == {a1, a2}
MCBodyLines == (a1 :> 2) @@ (a2 :> 1)

Off == [holdLines |-> 0, holdIds |-> {}, slow |-> FALSE,
        corrupt |-> 0, dropMid |-> 0, badTerm |-> 0, splitTerm |-> 0]

HoldBody(n) == [Off EXCEPT !.holdLines = n]
HoldIds(S)  == [Off EXCEPT !.holdIds = S]

\* Every way to arm, keep, move and drop the two kinds of hold.
HoldConfigs ==
  {Off, HoldBody(1), HoldBody(2), HoldIds({a1}), HoldIds({a1, a2}),
   [HoldBody(1) EXCEPT !.holdIds = {a1}]}

HoldOneLine == HoldBody(1)

\* The body faults, alone and on top of a hold.
Faulty(config) ==
  [config EXCEPT !.slow = TRUE, !.corrupt = 50, !.dropMid = 50,
                 !.badTerm = 50, !.splitTerm = 50]

FaultConfigs ==
  {Off, HoldBody(1), HoldIds({a1}), HoldIds({a1, a2}),
   [Off EXCEPT !.dropMid = 100], [Off EXCEPT !.splitTerm = 100],
   Faulty(Off), Faulty(HoldBody(1))}

Symmetry == Permutations({s1, s2})
=============================================================================
