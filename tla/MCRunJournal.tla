---------------------------- MODULE MCRunJournal ----------------------------
(***************************************************************************)
(* Two processes on one run directory, crashing anywhere.                  *)
(***************************************************************************)
EXTENDS RunJournal
=============================================================================
