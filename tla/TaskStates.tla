----------------------------- MODULE TaskStates -----------------------------
(***************************************************************************)
(* The life cycle of a task: the pure tables of task_state_machine.py and  *)
(* the translation that GetTask and ListTasks apply to a stored state.     *)
(* A state is the lower-case string the task store keeps in the row's JSON *)
(* ("status"."state"); Absent stands for "no such row".                    *)
(***************************************************************************)

Absent == "absent"

\* Strings the store may hold: every key of _STATE_STR_MAP.
States == {"unspecified", "submitted", "working", "completed", "failed",
           "canceled", "input_required", "rejected", "auth_required"}

Rows == States \cup {Absent}

\* _TERMINAL_STATES.
Terminal == {"completed", "failed", "canceled"}

\* _VALID_TRANSITIONS as a relation; a state that is no key of the table
\* allows nothing.
Transitions ==
    ({"submitted"} \X {"working", "failed", "canceled"})
      \cup ({"working"} \X {"completed", "failed", "canceled", "input_required"})
      \cup ({"input_required"} \X {"working", "canceled"})

\* The states on_get_task and on_list_tasks know; any other stored state is
\* reported as completed, the default of their state_map.get.
Reportable == {"completed", "working", "canceled", "failed"}

Reported(s) == IF s \in Reportable THEN s ELSE "completed"
=============================================================================
