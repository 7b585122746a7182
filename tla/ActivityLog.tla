---------------------------- MODULE ActivityLog ----------------------------
(***************************************************************************)
(* What the tracking daemon promises its reader: a log that says, for some *)
(* instants, which application had the focus.  The log only grows, at its  *)
(* end, by one run of one application at a time; nothing that was recorded *)
(* is ever changed or withdrawn, whatever fails underneath.                *)
(***************************************************************************)
EXTENDS Integers

CONSTANTS
    Time,   \* the instants (whole seconds since the epoch)
    Apps    \* what an instant may be attributed to

VARIABLE log    \* a function from the recorded instants to Apps

Init == log = << >>

Record(from, to, a) ==
    /\ from < to
    /\ \A t \in DOMAIN log : t < from
    /\ log' = [t \in DOMAIN log \cup {u \in Time : from <= u /\ u < to} |->
                 IF t \in DOMAIN log THEN log[t] ELSE a]

Next == \E from, to \in Time, a \in Apps : Record(from, to, a)

Spec == Init /\ [][Next]_log
=============================================================================
