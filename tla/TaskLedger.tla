----------------------------- MODULE TaskLedger -----------------------------
(***************************************************************************)
(* What the task store's file is to the gateway's clients: one table of    *)
(* rows, in which a message's row is added once, a row that is not in a    *)
(* final state may be canceled, and rows go only when somebody asked for   *)
(* their removal.  A commit makes any number of such changes at once.  A   *)
(* client is promised a row only when it is in the table or was asked to   *)
(* be removed.  Crashes do not exist: they lose nothing of the table.      *)
(*                                                                         *)
(* Gateway, with two connections to one file, commits shared by all        *)
(* coroutines, streams abandoned between two statements, and restarts, is  *)
(* shown to implement it.                                                  *)
(***************************************************************************)
EXTENDS TaskStates

CONSTANTS
    Tasks,  \* the ids of all rows
    Fresh   \* those of rows that are not there at first

VARIABLES
    ledger,   \* the table
    removed,  \* the rows somebody asked to remove
    promised  \* the rows clients were told of, as pairs of id and state

vars == <<ledger, removed, promised>>

Init ==
    /\ ledger \in [Tasks -> Rows] /\ \A t \in Fresh : ledger[t] = Absent
    /\ removed = {} /\ promised = {}

Add(t) ==
    /\ t \in Fresh \ removed
    /\ ledger[t] = Absent /\ ledger'[t] = "completed"

\* Whoever is about to cancel a row may bring it back after its removal.
Cancel(t) ==
    /\ t \notin Fresh
    /\ ledger[t] \notin Terminal
    /\ ledger[t] = Absent => t \in removed
    /\ ledger'[t] = "canceled"

Remove(t) == t \in removed /\ ledger'[t] = Absent

\* The row a client is told of.
Holds(p) == ledger[p[1]] = p[2] \/ p[1] \in removed

Commit ==
    /\ ledger' \in [Tasks -> Rows]
    /\ \A t \in Tasks : ledger'[t] = ledger[t] \/ Add(t) \/ Cancel(t) \/ Remove(t)
    /\ UNCHANGED removed
    /\ promised \subseteq promised' /\ \A p \in promised' \ promised : Holds(p)'

AskRemoval(t) == removed' = removed \cup {t} /\ UNCHANGED <<ledger, promised>>

Next == Commit \/ \E t \in Tasks : AskRemoval(t)

Spec == Init /\ [][Next]_vars
=============================================================================
