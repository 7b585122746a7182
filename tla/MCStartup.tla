----------------------------- MODULE MCStartup -----------------------------
(* A small instance of Startup for TLC: pids of one and of two digits. *)
EXTENDS Startup

MCPids == {<<1>>, <<2>>, <<1, 2>>}
MCOnePid == {<<1>>}
=============================================================================
