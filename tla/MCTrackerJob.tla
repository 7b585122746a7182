---------------------------- MODULE MCTrackerJob ----------------------------
(* A small instance of TrackerJob for TLC. *)
EXTENDS TrackerJob
=============================================================================
