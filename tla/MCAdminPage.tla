------------------------------ MODULE MCAdminPage ------------------------------
(***************************************************************************)
(* A small instance of AdminPage for TLC.                                  *)
(***************************************************************************)
EXTENDS AdminPage

\* A retry under way, a second one started over it, and a resumption.
ThreeCalls == {"c1", "c2", "c3"}
================================================================================
