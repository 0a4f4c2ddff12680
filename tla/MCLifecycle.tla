---------------------------- MODULE MCLifecycle ----------------------------
(* Instances of Lifecycle for TLC. *)
EXTENDS Lifecycle

AnyBox == [attr : BOOLEAN, symbol : BOOLEAN, mem : BOOLEAN]
=============================================================================
