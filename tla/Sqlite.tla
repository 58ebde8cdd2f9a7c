-------------------------------- MODULE Sqlite --------------------------------
(****************************************************************************)
(* One SQLite file in rollback-journal mode, opened by several processes    *)
(* with one connection each, as store.py drives it: sqlite3's default       *)
(* isolation level (an INSERT opens a transaction, a SELECT does not),      *)
(* foreign keys on, a busy timeout, commit() after every write, and never a *)
(* rollback().                                                              *)
(*                                                                          *)
(* An exception out of a write therefore leaves the connection inside the   *)
(* transaction it had opened.  What that connection then holds is `conn`:   *)
(*   none      no transaction                                               *)
(*   begun     a transaction, no lock: the write found another writer       *)
(*   shared    a transaction that has read since, and keeps its read lock   *)
(*   reserved  the writer: a constraint refused its row                     *)
(*   pending   the writer whose commit was refused by a read lock; its rows *)
(*             stay in the transaction and no new reader is let in          *)
(* A busy timeout that expires is the *Busy outcome of a step.              *)
(****************************************************************************)
CONSTANT Procs    \* the processes, one connection each

VARIABLES
  db,     \* the committed content of the file
  tx,     \* what the writer sees; equal to db when there is no writer
  conn    \* [Procs -> Modes]

Modes == {"none", "begun", "shared", "reserved", "pending"}

Writer(p) == conn[p] \in {"reserved", "pending"}

(* The content that p's statements see. *)
Image(p) == IF Writer(p) THEN tx ELSE db

NoneElse(p, modes) == \A q \in Procs \ {p} : conn[q] \notin modes

-----------------------------------------------------------------------------
(* SELECT *)

CanRead(p) == conn[p] \in {"shared", "reserved", "pending"} \/ NoneElse(p, {"pending"})

Read(p) ==
  /\ CanRead(p)
  /\ conn' = [conn EXCEPT ![p] = IF @ = "begun" THEN "shared" ELSE @]
  /\ UNCHANGED <<db, tx>>

ReadBusy(p) == ~CanRead(p) /\ UNCHANGED <<db, tx, conn>>

-----------------------------------------------------------------------------
(* A write statement followed by commit() *)

CanWrite(p) == NoneElse(p, {"reserved", "pending"})
CanCommit(p) == NoneElse(p, {"shared"})

\* (mutation runs) the write without its commit()
Commit_forgotten(p, new) ==
  /\ CanWrite(p)
  /\ tx' = new
  /\ conn' = [conn EXCEPT ![p] = "reserved"]
  /\ UNCHANGED db

Commit(p, new) ==
  /\ CanWrite(p) /\ CanCommit(p)
  /\ db' = new /\ tx' = new
  /\ conn' = [conn EXCEPT ![p] = "none"]

WriteBusy(p) ==
  /\ ~CanWrite(p)
  /\ conn' = [conn EXCEPT ![p] = IF @ = "none" THEN "begun" ELSE @]
  /\ UNCHANGED <<db, tx>>

CommitBusy(p, new) ==
  /\ CanWrite(p) /\ ~CanCommit(p)
  /\ tx' = new
  /\ conn' = [conn EXCEPT ![p] = "pending"]
  /\ UNCHANGED db

ConstraintFails(p) ==
  /\ CanWrite(p)
  /\ tx' = Image(p)
  /\ conn' = [conn EXCEPT ![p] = IF @ = "pending" THEN @ ELSE "reserved"]
  /\ UNCHANGED db

(* The ways the statement or its commit raises; ok says that the constraints *)
(* accept the row.                                                           *)
Raises(p, new, ok) ==
  \/ WriteBusy(p)
  \/ ok /\ CommitBusy(p, new)
  \/ ~ok /\ ConstraintFails(p)

-----------------------------------------------------------------------------
(* The process ends, by a crash or an exit: its transaction is rolled back. *)
Close(p) ==
  /\ tx' = IF Writer(p) THEN db ELSE tx
  /\ conn' = [conn EXCEPT ![p] = "none"]
  /\ UNCHANGED db
=============================================================================
