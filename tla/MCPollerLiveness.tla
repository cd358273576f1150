-------------------------- MODULE MCPollerLiveness --------------------------
(* StatePoller with fairness.  Only the environment is bounded: the clock never *)
(* goes back and stops at MaxClock, and clients make MaxCalls calls in all; no   *)
(* step of the poller is ever held up by a bound.                                *)
EXTENDS StatePoller

CONSTANTS MaxClock, MaxCalls

VARIABLE calls   \* pollNow calls made so far

MCBackoff == <<1, 2>>

LiveNext ==
  /\ Next
  /\ clock' >= clock /\ clock' <= MaxClock
  /\ calls' = calls + Cardinality(DOMAIN requests' \ DOMAIN requests)
  /\ calls' <= MaxCalls

LiveSpec == Init /\ calls = 0 /\ [][LiveNext]_<<vars, calls>> /\ Fairness
=============================================================================
