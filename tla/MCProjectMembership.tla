------------------------ MODULE MCProjectMembership ------------------------
(* Instances of ProjectMembership for TLC.                                 *)
EXTENDS ProjectMembership, TLC

\* History: so far nothing has happened between the steps of a request.
VARIABLE serial

MCInit == Init /\ serial = TRUE
MCNext == Next /\ serial' = (serial /\ \A r \in Reqs : req[r] # Idle => req'[r] # req[r])
MCSpec == MCInit /\ [][MCNext]_<<vars, serial>>

\* Request slots are interchangeable, and so are the users an instance does
\* not tell apart by Departing.
Symmetry ==
  Permutations(Reqs) \cup Permutations(Users \ Departing) \cup Permutations(Departing)

\* As long as a project exists somebody owns it, unless requests have raced or
\* an account has been purged: assign_new_owner promotes whom it demotes for,
\* and leave_from_project and the hierarchy check keep the owner in place.
SerialProjectHasOwner == serial /\ gone = {} => ProjectHasOwner

\* Without a race, who changes or removes a member outranks him: the checks of
\* delete_user_from_project and change_user_role suffice.
SerialHierarchy == [][serial => CommittedByRank]_vars

\* "Owners cant leave from project!" while there are other members
\* (project_services.py:259, tests/project_test.py:124) and "Project should be
\* archived before deletion!" (project_services.py:324): without a race a
\* project goes with its last member or from the archive.
SerialDeletedInOrder == [][serial => LeftAlone /\ DeletedFromArchive]_vars
=============================================================================
