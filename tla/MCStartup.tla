----------------------------- MODULE MCStartup -----------------------------
(***************************************************************************)
(* Instances of Startup for TLC.                                           *)
(***************************************************************************)
EXTENDS Startup

Plain == [complete |-> TRUE, listen |-> "none", cert |-> FALSE, key |-> FALSE,
          generated |-> FALSE, directory |-> TRUE, names |-> {}]

Generated(names) == [Plain EXCEPT !.listen = "address", !.generated = TRUE, !.names = names]

\* A plain server, supplied and generated material, and what is refused:
\* something missing, both sources or none, half a pair, no directory, a blank
\* address.
MCConfigs ==
  LET generated == Generated({"one"})
  IN  {Plain, generated,
       [Plain EXCEPT !.listen = "blank"],
       [Plain EXCEPT !.listen = "address"],
       [Plain EXCEPT !.listen = "address", !.cert = TRUE],
       [Plain EXCEPT !.listen = "address", !.cert = TRUE, !.key = TRUE],
       [generated EXCEPT !.cert = TRUE, !.key = TRUE],
       [generated EXCEPT !.directory = FALSE],
       [generated EXCEPT !.complete = FALSE],
       [generated EXCEPT !.listen = "none"],
       [generated EXCEPT !.listen = "blank"]}

TwoNames == {Generated({"one"}), Generated({"one", "other"})}
=============================================================================
