---------------------------- MODULE MCFrontends ----------------------------
(***************************************************************************)
(* Two frontends that claim the same criteria, two threads that change     *)
(* them three times, and the requests of one of the frontends.             *)
(***************************************************************************)
EXTENDS Frontends
=============================================================================
