--------------------------- MODULE PollFreshness ---------------------------
(***************************************************************************)
(* StatePoller with a history variable: the values the device at each      *)
(* address has had since each running pollNow call was made.               *)
(***************************************************************************)
EXTENDS MCStatePoller

VARIABLE during   \* request -> address -> values since the call

HistoryInit == during = EmptyMap

HistoryNext ==
  during' = [r \in DOMAIN requests' |-> [h \in Hosts |->
    {device'[h]} \cup IF r \in DOMAIN requests THEN during[r][h] ELSE {}]]

FreshSpec == Init /\ HistoryInit /\ [][MCNext /\ HistoryNext]_<<vars, during>>

\* get-device-states.ts: "Poll one or many LAN-resolved devices and return
\* current state payloads."  A returned state is one that some device had at some
\* moment between the call and the response.
CurrentStateReturned ==
  \A r \in DOMAIN requests : Finished(r) =>
    \A u \in DOMAIN requests[r].states :
      \E h \in Hosts : requests[r].states[u] \in during[r][h]
=============================================================================
