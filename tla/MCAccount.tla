----------------------------- MODULE MCAccount -----------------------------
(* Account on a small instance. *)
EXTENDS Account
=============================================================================
