---------------------------- MODULE DatabaseFile ----------------------------
(***************************************************************************)
(* SQLiteDataAccess::open(false) and what it does to the database file:    *)
(* use it, or move it aside and make a new one (src/wtcommon/              *)
(* sqlitedataaccess.cc).  The file and its backups outlive the processes,  *)
(* which may die between any two steps.                                    *)
(***************************************************************************)
CONSTANTS
    Openers,     \* the processes that may open the file
    Rows,        \* what a tracker may store in the table
    Initially,   \* what may be there before the first start
    FileErrors   \* may SQLite or the file system fail in passing? (Boolean)

VARIABLES
    dbfile,    \* the file of the database
    backup,    \* {} or {rows of the backup named after the present second}
    older,     \* the rows in the backups of earlier seconds
    opener     \* where each process is in open()

vars == <<dbfile, backup, older, opener>>

\* No file; not a database; a database (or an empty file) without WT_ENTRIES;
\* the table.
File(kind, rows) == [kind |-> kind, rows |-> rows]
Missing == File("missing", {})
Files == {File(k, {}) : k \in {"missing", "garbage", "notable"}} \cup
         {File("table", R) : R \in SUBSET Rows}

Init ==
    /\ dbfile \in {f \in Files : f.kind \in Initially}
    /\ backup = {} /\ older = {}
    /\ opener = [p \in Openers |-> "closed"]

To(p, from, to) == opener[p] = from /\ opener' = [opener EXCEPT ![p] = to]

Unchanged == UNCHANGED <<dbfile, backup, older>>

-----------------------------------------------------------------------------
Begin(p) == To(p, "closed", "look") /\ Unchanged

\* The file opens, table_exists() prepares its query and answers true, and
\* the statements are prepared, which needs the table.
UseExisting(p) ==
    /\ dbfile.kind = "table" /\ To(p, "look", "open") /\ Unchanged

\* prepare_statements throws.
PrepareThrows(p) ==
    /\ dbfile.kind = "notable" \/ (dbfile.kind = "table" /\ FileErrors)
    /\ To(p, "look", "refused") /\ Unchanged

\* There is no file, or it does not open, or the query cannot be prepared.
Unusable(p) ==
    /\ dbfile.kind \in {"missing", "garbage"} \/ FileErrors
    /\ To(p, "look", "create") /\ Unchanged

\* Variant: the file is removed, not renamed.
SetAsideLost(p) ==
    /\ dbfile.kind # "missing" /\ To(p, "create", "make")
    /\ dbfile' = Missing
    /\ UNCHANGED <<backup, older>>

\* backup_existing_db: rename replaces a backup made in the same second.
SetAside(p) ==
    /\ dbfile.kind # "missing" /\ To(p, "create", "make")
    /\ backup' = {dbfile.rows} /\ dbfile' = Missing
    /\ UNCHANGED older

\* rename throws.
SetAsideThrows(p) ==
    /\ dbfile.kind # "missing" /\ To(p, "create", "refused") /\ Unchanged

NothingToSetAside(p) ==
    /\ dbfile.kind = "missing" /\ To(p, "create", "make") /\ Unchanged

\* sqlite3_open_v2 with SQLITE_OPEN_CREATE makes an empty file.
MakeFile(p) ==
    /\ To(p, "make", "exec")
    /\ dbfile' = IF dbfile.kind = "missing" THEN File("notable", {}) ELSE dbfile
    /\ UNCHANGED <<backup, older>>

\* Variant: the result of CREATE TABLE is not looked at.
CreateTableUnchecked(p) ==
    /\ To(p, "exec", "open")
    /\ \/ dbfile.kind = "notable" /\ dbfile' = File("table", {})
       \/ dbfile' = dbfile
    /\ UNCHANGED <<backup, older>>

CreateTable(p) ==
    /\ dbfile.kind = "notable" /\ To(p, "exec", "open")
    /\ dbfile' = File("table", {})
    /\ UNCHANGED <<backup, older>>

\* Opening, or CREATE TABLE, fails: create_database throws.
CreateThrows(p) ==
    /\ FileErrors \/ (opener[p] = "exec" /\ dbfile.kind # "notable")
    /\ \E s \in {"make", "exec"} : To(p, s, "refused")
    /\ Unchanged

\* The table is made, and prepare_statements throws (open's second
\* init_sqlite3).
PrepareThrowsAfterwards(p) ==
    /\ FileErrors
    /\ dbfile.kind = "notable" /\ To(p, "exec", "refused")
    /\ dbfile' = File("table", {})
    /\ UNCHANGED <<backup, older>>

\* The tracker's rows, in the file it has open.
Store(p, r) ==
    /\ opener[p] = "open" /\ dbfile.kind = "table"
    /\ dbfile' = File("table", dbfile.rows \cup {r})
    /\ UNCHANGED <<backup, older, opener>>

Close(p) == opener' = [opener EXCEPT ![p] = "closed"] /\ Unchanged

\* The next second: its backup has another name.
Tick ==
    /\ older' = older \cup UNION backup /\ backup' = {}
    /\ UNCHANGED <<dbfile, opener>>

OpenStep(p) ==
    \/ UseExisting(p) \/ PrepareThrows(p) \/ Unusable(p)
    \/ SetAside(p) \/ (FileErrors /\ SetAsideThrows(p)) \/ NothingToSetAside(p)
    \/ MakeFile(p) \/ CreateTable(p) \/ CreateThrows(p)
    \/ PrepareThrowsAfterwards(p)

-----------------------------------------------------------------------------
TypeOK ==
    /\ dbfile \in Files
    /\ backup \subseteq SUBSET Rows /\ older \subseteq Rows
    /\ opener \in [Openers -> {"closed", "look", "open", "refused", "create",
                               "make", "exec"}]

\* The rows in the database and in its backups.
AllRows == dbfile.rows \cup (UNION backup) \cup older

\* Through failures and deaths at any step no row is lost, except that a
\* second backup within a second replaces the first.
RowsKept == [][AllRows \subseteq AllRows' \/ backup # {}]_vars

\* Whoever has finished open() has the table to write to: nobody moves the
\* file away or finds it half made.
TableWhileOpen ==
    (\E p \in Openers : opener[p] = "open") => dbfile.kind = "table"

\* "Does table WT_ENTRIES exists?": a tracker that is started on what an
\* earlier one left, with nothing failing, gets its table.
StartsAgain == \A p \in Openers : opener[p] # "refused"
=============================================================================
