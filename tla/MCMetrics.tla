----------------------------- MODULE MCMetrics ------------------------------
(* Metrics on a small instance.                                               *)
EXTENDS Metrics, TLC

TwoReasons == <<"decode", "policy">>
Sym == Permutations(Workers)
=============================================================================
