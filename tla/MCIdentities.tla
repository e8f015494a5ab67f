---------------------------- MODULE MCIdentities ----------------------------
(* An instance of Identities for TLC.                                      *)
EXTENDS Identities, TLC

\* History: so far no request has taken a step while another was in flight.
VARIABLE serial

MCInit == Init /\ serial = TRUE
MCNext ==
  /\ Next
  /\ serial' = (serial /\ \A r \in Reqs :
                  req[r] # Idle /\ <<ident', req'>> # <<ident, req>> => req'[r] # req[r])
MCSpec == MCInit /\ [][MCNext]_<<vars, serial>>

Symmetry == Permutations(Subjects) \cup Permutations(Codes) \cup Permutations(Reqs)

\* "view and unlink providers with lockout prevention" (README.md:12): without
\* a race unlink_identity leaves every account something to log in with.
SerialHasLogin == serial => HasLogin

\* Without a race a one-time code sets a password once, and its confirmation
\* deletes no other: get_email_verification_data deletes what it has compared.
SerialCodeSpentOnce == [][serial => OwnCodeDropped /\ EffectOnce]_vars
=============================================================================
