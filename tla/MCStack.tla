------------------------------- MODULE MCStack -------------------------------
(***************************************************************************)
(* The stack coming up, and the rows its users keep once it has.  The two  *)
(* share no state, and the four tables of rows none but the ids: a         *)
(* behaviour shows the start or the requests to one table.                 *)
(***************************************************************************)
EXTENDS StartUp, UserRecords

VARIABLE shown     \* what this behaviour shows

vars == <<shown, startVars, recordVars>>

Init ==
  /\ shown \in {"start"} \cup DOMAIN Columns
  /\ StartInit
  /\ shown # "start" => /\ schema = Database(9, {}) /\ up = Services
                        /\ config = [valid |-> TRUE, skip |-> FALSE, restarts |-> FALSE]
  /\ RecordsInit

Next ==
  \/ shown = "start" /\ StartNext /\ UNCHANGED <<shown, recordVars>>
  \/ /\ shown # "start"
     /\ RecordsNext
     /\ \A s \in RecordSessions : request'[s].seen.kind \in {"none", shown}
     /\ UNCHANGED <<shown, startVars>>

Spec == Init /\ [][Next]_vars /\ (shown = "start" => StartFairness)
=============================================================================
