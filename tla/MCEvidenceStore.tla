-------------------------- MODULE MCEvidenceStore --------------------------
(***************************************************************************)
(* Two processes, two contents put for two uses each.                      *)
(***************************************************************************)
EXTENDS EvidenceStore
=============================================================================
