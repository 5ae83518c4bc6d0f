------------------------------ MODULE MCHandoff -----------------------------
(***************************************************************************)
(* A small handoff for TLC: a few concurrent console requests, a clock     *)
(* that can pass the expiry of the lease in every suspended state.         *)
(***************************************************************************)
EXTENDS Handoff
=============================================================================
