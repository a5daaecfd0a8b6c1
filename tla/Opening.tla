------------------------------ MODULE Opening ------------------------------
(***************************************************************************)
(* Opening the database: Database::open copies the file of an earlier      *)
(* start aside, lets SQLite roll back what a crash left half written,      *)
(* applies the migrations that this build has and the file has not, and    *)
(* removes the copy; when a step fails it writes the copy back first.  One *)
(* process at a time, which may be killed between any two steps; builds    *)
(* of the application may alternate.                                       *)
(***************************************************************************)
EXTENDS Naturals, Sequences, SequencesExt

CONSTANTS
  Latest,     \* schema version of the newest build
  MaxWrites,  \* bound: transactions of the user
  MaxCopies,  \* bound: copies that crashes may leave
  None

VARIABLES
  file,     \* the database file: None, or its content
  journal,  \* SQLite's rollback journal: None, or the content that it restores
  copies,   \* the pre-migration copies beside the file, the oldest first
  phase,    \* where the process is
  build,    \* schema version of the build that runs
  saved,    \* history: transactions of the user that were answered
  exposed   \* history: a copy was taken of a file with a journal to roll back

opening_vars == <<file, journal, copies, phase, build, saved, exposed>>

\* The user's data are counted by transactions; a file that is not whole has been
\* written in part.
Contents == [schema : 0..Latest, data : 0..MaxWrites, whole : BOOLEAN]

Torn(c) == [c EXCEPT !.whole = FALSE]

Empty == [schema |-> 0, data |-> 0, whole |-> TRUE]

Init ==
  /\ file = None /\ journal = None /\ copies = <<>>
  /\ phase = "down" /\ build = Latest
  /\ saved = 0 /\ exposed = FALSE

-----------------------------------------------------------------------------
(* The recovery point.                                                     *)

Start(b) ==
  /\ phase = "down" /\ Len(copies) < MaxCopies
  /\ build' = b
  /\ phase' = IF file = None THEN "connecting" ELSE "copying"
  /\ UNCHANGED <<file, journal, copies, saved, exposed>>

\* Fault: every copy has the same name and replaces the last one.
Beside_Same(cs, c) == <<c>>

\* RecoveryPoint::create names the copy by the time, so that it never meets an old one.
Beside(cs, c) == Append(cs, c)

\* fs::copy of the file alone, without its journal.
BeginCopy ==
  /\ phase = "copying"
  /\ copies' = Beside(copies, Torn(file))
  /\ phase' = "copied"
  /\ exposed' = (exposed \/ journal # None)
  /\ UNCHANGED <<file, journal, build, saved>>

EndCopy ==
  /\ phase = "copied"
  /\ copies' = [copies EXCEPT ![Len(copies)] = file]
  /\ phase' = "connecting"
  /\ UNCHANGED <<file, journal, build, saved, exposed>>

\* The copy cannot be finished: open answers with the error and leaves it.
CopyFails ==
  /\ phase = "copied"
  /\ phase' = "down"
  /\ UNCHANGED <<file, journal, copies, build, saved, exposed>>

-----------------------------------------------------------------------------
(* Connecting and migrating.                                               *)

\* The first read of the file rolls back the journal.  A file that is not whole may be
\* refused or not, a newer schema always is.
Connect ==
  /\ phase = "connecting"
  /\ file' = IF file = None THEN Empty ELSE IF journal # None THEN journal ELSE file
  /\ journal' = None
  /\ phase' \in IF file'.schema > build THEN {"failed"}
                ELSE IF file'.whole THEN {"migrating"} ELSE {"migrating", "failed"}
  /\ UNCHANGED <<copies, build, saved, exposed>>

\* One transaction for the tables of a migration and PRAGMA user_version.
BeginMigration ==
  /\ phase = "migrating" /\ file.schema < build
  /\ journal' = file /\ file' = Torn(file)
  /\ phase' = "committing"
  /\ UNCHANGED <<copies, build, saved, exposed>>

EndMigration ==
  /\ phase = "committing"
  /\ file' = [journal EXCEPT !.schema = @ + 1] /\ journal' = None
  /\ phase' = "migrating"
  /\ UNCHANGED <<copies, build, saved, exposed>>

\* An error rolls the transaction back when the connection is dropped.
MigrationFails ==
  /\ phase = "committing"
  /\ file' = journal /\ journal' = None
  /\ phase' = "failed"
  /\ UNCHANGED <<copies, build, saved, exposed>>

\* Did this start take a copy: the first start has none.
HasCopy == copies # <<>>

\* The file is current: the copy is removed, or its removal fails and so does the start.
Opened(ok) ==
  /\ phase = "migrating" /\ file.schema >= build
  /\ copies' = IF ok /\ HasCopy THEN Front(copies) ELSE copies
  /\ phase' = IF ok THEN "open" ELSE "down"
  /\ UNCHANGED <<file, journal, build, saved, exposed>>

-----------------------------------------------------------------------------
(* Failing.                                                                *)

NothingToRestore ==
  /\ phase = "failed" /\ ~HasCopy
  /\ phase' = "down"
  /\ UNCHANGED <<file, journal, copies, build, saved, exposed>>

\* fs::copy back over the file, which it cuts off first.
BeginRestore ==
  /\ phase = "failed" /\ HasCopy
  /\ file' = Torn(file)
  /\ phase' = "restoring"
  /\ UNCHANGED <<journal, copies, build, saved, exposed>>

EndRestore ==
  /\ phase = "restoring"
  /\ file' = Last(copies)
  /\ phase' = "restored"
  /\ UNCHANGED <<journal, copies, build, saved, exposed>>

\* The disk is full: the copy stays, and the file as it is.
RestoreFails ==
  /\ phase = "restoring"
  /\ phase' = "down"
  /\ UNCHANGED <<file, journal, copies, build, saved, exposed>>

\* The copy is removed, or stays when that fails.
Discarded(ok) ==
  /\ phase = "restored"
  /\ copies' = IF ok THEN Front(copies) ELSE copies
  /\ phase' = "down"
  /\ UNCHANGED <<file, journal, build, saved, exposed>>

-----------------------------------------------------------------------------
(* Use and crash.                                                          *)

\* The model does not follow what is written into a damaged file.
BeginWrite ==
  /\ phase = "open" /\ saved < MaxWrites /\ file.whole
  /\ journal' = file /\ file' = Torn(file)
  /\ phase' = "writing"
  /\ UNCHANGED <<copies, build, saved, exposed>>

EndWrite ==
  /\ phase = "writing"
  /\ file' = [journal EXCEPT !.data = saved + 1] /\ journal' = None
  /\ saved' = saved + 1
  /\ phase' = "open"
  /\ UNCHANGED <<copies, build, exposed>>

\* The process ends, is closed or killed.
Crash ==
  /\ phase # "down"
  /\ phase' = "down"
  /\ UNCHANGED <<file, journal, copies, build, saved, exposed>>

-----------------------------------------------------------------------------
Next ==
  \/ \E b \in 1..Latest : Start(b)
  \/ BeginCopy \/ EndCopy \/ CopyFails
  \/ Connect \/ BeginMigration \/ EndMigration \/ MigrationFails
  \/ \E ok \in BOOLEAN : Opened(ok) \/ Discarded(ok)
  \/ NothingToRestore \/ BeginRestore \/ EndRestore \/ RestoreFails
  \/ BeginWrite \/ EndWrite
  \/ Crash

Spec == Init /\ [][Next]_opening_vars

-----------------------------------------------------------------------------
(* Properties                                                              *)

Phases == {"down", "copying", "copied", "connecting", "migrating", "committing", "failed",
           "restoring", "restored", "open", "writing"}

TypeOK ==
  /\ file \in Contents \union {None} /\ journal \in Contents \union {None}
  /\ copies \in Seq(Contents) /\ Len(copies) <= MaxCopies
  /\ phase \in Phases /\ build \in 1..Latest
  /\ saved \in 0..MaxWrites /\ exposed \in BOOLEAN

\* What the next reader of the file will find.
Readable == IF journal = None THEN file ELSE journal

Holds(c) == c.whole /\ c.data = saved

\* Through failed starts, builds that find a newer schema and crashes between any two
\* steps, everything that was answered to the user is in the file or in a copy beside it.
\* The exception is a copy taken beside a journal: it is half a transaction, and a start
\* that fails writes it over the file that SQLite had repaired in between.
AnsweredDataIsOnDisk ==
  file = None \/ exposed \/ Holds(Readable) \/ \E i \in DOMAIN copies : Holds(copies[i])

=============================================================================
