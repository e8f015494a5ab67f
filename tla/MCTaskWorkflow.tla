--------------------------- MODULE MCTaskWorkflow ---------------------------
(* Instances of TaskWorkflow for TLC.                                      *)
EXTENDS TaskWorkflow, TLC

\* History: so far nothing has happened between the steps of a request.
VARIABLE serial

MCInit == Init /\ serial = TRUE
MCNext == Next /\ serial' = (serial /\ \A r \in Reqs : req[r] # Idle => req'[r] # req[r])
MCSpec == MCInit /\ [][MCNext]_<<vars, serial>>

\* The request slots, and the users neither Founder nor Departing tells apart.
Symmetry ==
  Permutations(Reqs) \cup Permutations(Users \ (Departing \cup {Founder}))

\* Without a race or a purge a task waits in TODO exactly as long as nobody
\* has it, whatever add_new_task, the assignments and delete_task_assignee did.
SerialStartedWhenAssigned == serial /\ gone = {} => StartedWhenAssigned

\* "Transition tasks through statuses: TODO -> IN_PROGRESS -> REVIEW ->
\* COMPLETED" (README.md:30): without a race or a purge no request skips one.
SerialStatusFollowsWorkflow == [][serial /\ gone' = {} => OnePlace]_vars

\* "Cannot modify assignee while task is in review or completed!"
\* (task_service.py:286; tests/task_test.py:160) holds without a race or a purge.
SerialAssigneeFixedInReview == [][serial /\ gone' = {} => AssigneeKept]_vars
=============================================================================
