----------------------------- MODULE Processes -----------------------------
(***************************************************************************)
(* The processes that run workertracker, and what it is built for: the     *)
(* parameters of SingleInstance and of Startup.                            *)
(***************************************************************************)
EXTENDS Naturals, Sequences

CONSTANTS
    Pids,       \* process ids: sequences of decimal digits
    Platforms   \* what the program may be built for

ASSUME PidsAssumption == Pids \subseteq Seq(0..9) \ {<< >>}
ASSUME PlatformsAssumption == Platforms \subseteq {"posix", "windows"}
=============================================================================
