---------------------------- MODULE ChaosOptions ----------------------------
(***************************************************************************)
(* ParseChaos and Validate (control.go).  An option is its name, the       *)
(* numbers its value can be read as (one or none) and the IDs it lists;    *)
(* EmptyId is an ID of which nothing is left without its brackets.         *)
(***************************************************************************)
EXTENDS Integers, Sequences, SequencesExt

CONSTANT EmptyId

Percentages ==
  {"greet_201", "greet_400", "drop_conn", "reject_auth", "corrupt_body",
   "timeout_body", "reauth_body", "split_term", "drop_mid_body", "bad_term",
   "stat_bad_code", "stat_short"}

Amounts == {"slow_body", "max_conns", "hold_body"}

\* ChaosConfig: what each option is set to, and HoldMessageIDs.
Off == [number |-> [name \in Percentages \cup Amounts |-> 0], holdIds |-> <<>>]

Validate(config) ==
  /\ \A name \in Percentages : config.number[name] \in 0..100
  /\ \A name \in Amounts : config.number[name] >= 0
  /\ EmptyId \notin ToSet(config.holdIds)

(***************************************************************************)
(* ParseChaos goes through the options from left to right: IDs add up, a   *)
(* number replaces the one before, and the first option it cannot read     *)
(* makes the whole of them invalid.  What it returns then is no            *)
(* configuration: the sequence is empty.                                   *)
(***************************************************************************)
\* Mutation: IDs replace those before.
ReadLastIds(parsed, option) ==
  IF parsed = <<>> THEN <<>>
  ELSE IF option.name = "hold_ids" THEN <<[parsed[1] EXCEPT !.holdIds = option.ids]>>
  ELSE IF option.name \in Percentages \cup Amounts /\ option.numbers # <<>>
  THEN <<[parsed[1] EXCEPT !.number[option.name] = option.numbers[1]]>>
  ELSE <<>>

Read(parsed, option) ==
  IF parsed = <<>> THEN <<>>
  ELSE IF option.name = "hold_ids"
  THEN <<[parsed[1] EXCEPT !.holdIds = @ \o option.ids]>>
  ELSE IF option.name \in Percentages \cup Amounts /\ option.numbers # <<>>
  THEN <<[parsed[1] EXCEPT !.number[option.name] = option.numbers[1]]>>
  ELSE <<>>

\* Mutation: the result is not validated.
ParseChaosOnly(options) == FoldLeft(Read, <<Off>>, options)

ParseChaos(options) ==
  LET parsed == FoldLeft(Read, <<Off>>, options)
  IN  IF parsed # <<>> /\ Validate(parsed[1]) THEN parsed ELSE <<>>

\* The outcomes of roll (server.go).
roll(percent) ==
  IF percent <= 0 THEN {FALSE} ELSE IF percent >= 100 THEN {TRUE} ELSE BOOLEAN
=============================================================================
