--------------------------- MODULE MCStatePoller ---------------------------
(* Instances of StatePoller for TLC: time in units of a few seconds, and     *)
(* bounds on the clock, on versions and on failure counts.                   *)
EXTENDS StatePoller, TLC

CONSTANTS MaxClock, MaxUpdatedAt, MaxFailures

MCBackoff == <<1, 2>>

UuidSymmetry == Permutations(Uuids)

Bounded ==
  /\ clock <= MaxClock
  /\ \A u \in DOMAIN stateByUuid : stateByUuid[u].updatedAt <= MaxUpdatedAt
  /\ \A u \in DOMAIN powerByUuid : powerByUuid[u].updatedAt <= MaxUpdatedAt
  /\ \A u \in DOMAIN metaByUuid :
       /\ metaByUuid[u].failureCount <= MaxFailures
       /\ metaByUuid[u].telemetryFailureCount <= MaxFailures

MCNext == Next /\ Bounded'

MCSpec == Init /\ [][MCNext]_vars
=============================================================================
