------------------------- MODULE MCSQLiteDataAccess -------------------------
(* A small instance of SQLiteDataAccess for TLC. *)
EXTENDS SQLiteDataAccess

MCTime == 1..4
=============================================================================
