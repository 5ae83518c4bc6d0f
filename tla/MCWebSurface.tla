---------------------------- MODULE MCWebSurface ----------------------------
(***************************************************************************)
(* A page of two states with one request at a time, and an unit of time    *)
(* that is half the stability window and the poll interval.                *)
(***************************************************************************)
EXTENDS WebSurface
=============================================================================
