------------------------ MODULE MCArtifactLifecycle -------------------------
(***************************************************************************)
(* Two actors and two contents, one of which is what the run compiles to.  *)
(***************************************************************************)
EXTENDS ArtifactLifecycle, TLC

Interchangeable == Permutations(Actors)
=============================================================================
