-------------------------- MODULE MCTrackerProcess --------------------------
(* A small instance of TrackerProcess for TLC. *)
EXTENDS TrackerProcess
=============================================================================
