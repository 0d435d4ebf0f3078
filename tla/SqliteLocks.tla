---------------------------- MODULE SqliteLocks ----------------------------
(***************************************************************************)
(* The locks of one SQLite file (rollback journal, the default) as two     *)
(* connections of Python's sqlite3 see them in its legacy transaction      *)
(* mode.  EXTERNAL: the gateway ships none of this code; server.py opens   *)
(* one aiosqlite connection per store on the same file (lines 174-175),    *)
(* and both stores call execute and then commit, never rollback.           *)
(*                                                                         *)
(*   auto      no transaction                                              *)
(*   begun     the implicit BEGIN ran, the statement after it failed       *)
(*   shared    a SELECT inside a begun transaction: a read lock, kept      *)
(*   reserved  uncommitted changes                                         *)
(*   pending   a COMMIT timed out waiting for a reader; new readers wait   *)
(*                                                                         *)
(* own and other are the states of the two connections.                    *)
(***************************************************************************)

TxnStates == {"auto", "begun", "shared", "reserved", "pending"}

\* Connections in one of these states have changes the file does not have.
Dirty == {"reserved", "pending"}

\* An INSERT, UPDATE or DELETE takes the RESERVED lock.
MayWrite(own, other) == other \notin Dirty
AfterWrite(own)      == IF own \in Dirty THEN own ELSE "reserved"
AfterBusyWrite(own)  == IF own = "auto" THEN "begun" ELSE own

\* A SELECT needs a SHARED lock unless the connection holds a lock already.
MayRead(own, other) == other = "pending" => own \notin {"auto", "begun"}
AfterRead(own)      == IF own = "begun" THEN "shared" ELSE own

\* A COMMIT with changes needs every reader gone; without, it just ends the
\* transaction, and outside a transaction it does nothing.
MayCommit(own, other) == own \in Dirty => other # "shared"
AfterCommit           == "auto"
AfterBusyCommit       == "pending"
=============================================================================
