----------------------------- MODULE DeviceFeed -----------------------------
(***************************************************************************)
(* What the state poller promises its stream clients, without polls, tasks *)
(* or time: one versioned entry per device, and connected clients that see *)
(* every published entry at once and in order.                             *)
(***************************************************************************)
EXTENDS Naturals, Maps

VARIABLES
  feed,     \* device -> entry, a record with a version field updatedAt
  clients   \* connected client -> the entries it has been sent

Init == feed = EmptyMap /\ clients = EmptyMap

\* A new or newer entry for a device; clients whose connection broke drop out.
Publish ==
  \E u \in DOMAIN feed' :
    /\ feed' = Put(feed, u, feed'[u])
    /\ u \in DOMAIN feed => feed'[u].updatedAt > feed[u].updatedAt
    /\ DOMAIN clients' \subseteq DOMAIN clients
    /\ clients' = [s \in DOMAIN clients' |-> Put(clients[s], u, feed'[u])]

\* A client connects and gets everything published so far.
Connect ==
  /\ \E s \in DOMAIN clients' \ DOMAIN clients : clients' = Put(clients, s, feed)
  /\ UNCHANGED feed

\* Connections break, one or several at once.
Disconnect ==
  /\ \E gone \in SUBSET DOMAIN clients :
       clients' = [s \in DOMAIN clients \ gone |-> clients[s]]
  /\ UNCHANGED feed

Next == Publish \/ Connect \/ Disconnect

Spec == Init /\ [][Next]_<<feed, clients>>
=============================================================================
