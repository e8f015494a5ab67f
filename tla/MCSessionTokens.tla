-------------------------- MODULE MCSessionTokens --------------------------
(* Instances of SessionTokens for TLC.                                     *)
EXTENDS SessionTokens, TLC

\* History: so far no request has taken a step while another was in flight.
VARIABLE serial

MCInit == Init /\ serial = TRUE
MCNext ==
  /\ Next
  /\ serial' = (serial /\ \A r \in Reqs :
                  req[r] # Idle /\ <<tok', req'>> # <<tok, req>> => req'[r] # req[r])
MCSpec == MCInit /\ [][MCNext]_<<vars, serial>>

Symmetry == Permutations(Tokens) \cup Permutations(Families) \cup Permutations(Reqs)

\* Without a race a session has one token that can be rotated, whatever dies
\* half-way: rotate_refresh_token spends the old one with the new one's insert.
SerialOneActive == serial => OneActivePerFamily

\* "logout from all devices at once" (README.md:14), "Change password with
\* automatic revocation of all other active sessions" (README.md:19): without
\* a race no token outlives the commit of logout_everywhere or of
\* _invalidate_user_sessions, and every family that these and logout_session
\* end is banned, so that its access token ends with it.
SerialLogoutEndsAll == [][serial => AllEnded /\ BannedWhenEnded]_vars

\* Without a race a token used twice ends its session: rotate_refresh_token
\* leaves none of the family's tokens active, however long the chain is.
SerialReuseEndsFamily == [][serial => FamilyEnded]_vars
=============================================================================
