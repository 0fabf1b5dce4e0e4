--------------------------- MODULE MCArticleStore ---------------------------
(***************************************************************************)
(* Instances of ArticleStore for TLC.                                      *)
(***************************************************************************)
EXTENDS ArticleStore, TLC

CONSTANTS s1, s2, s3, a, b, t1, t2

\* The prefix of every ID, and that of the last one only.
BothPrefixes == {Ids, {2}}
OnePrefix    == {Ids}

Symmetry == Permutations({s1, s2}) \cup Permutations({t1, t2})
              \cup Permutations({a, b})
=============================================================================
