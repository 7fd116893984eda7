----------------------------- MODULE MCSession -----------------------------
(* Instances of Session for TLC. *)
EXTENDS Session

OneOrTwo == {1, 2}
=============================================================================
