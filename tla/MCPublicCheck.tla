--------------------------- MODULE MCPublicCheck ---------------------------
(***************************************************************************)
(* An instance of PublicCheck for TLC.                                     *)
(***************************************************************************)
EXTENDS PublicCheck

Clean   == [matches |-> {}, binary |-> FALSE]
Secret  == [matches |-> {"key"}, binary |-> FALSE]
Picture == [matches |-> {"key"}, binary |-> TRUE]

MCContents == {Clean, Secret, Picture}
=============================================================================
