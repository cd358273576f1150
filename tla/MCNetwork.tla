----------------------------- MODULE MCNetwork -----------------------------
(***************************************************************************)
(* CloudLogin, LanScan, Cidr and ServeControl in one run.  They share no   *)
(* state, so what one of them does does not depend on how the others are   *)
(* interleaved with it: in a behaviour only the component named by running *)
(* moves, the others rest where they began.                                *)
(***************************************************************************)
EXTENDS Naturals

CONSTANTS Elsewhere, Redirects, Options, Guesses,    \* CloudLogin
          Devices, Last, Workers, MaxMoves,          \* LanScan
          Width,                                     \* Cidr
          Procs, MaxPort, MaxRestarts, Slots,        \* ServeControl
          None

ASSUME ScanBounds == Last \in Nat \ {0} /\ Workers \in Nat \ {0}
ASSUME WidthIsWord == Width \in Nat /\ Width >= 2
ASSUME ServeBounds == MaxPort \in Nat \ {0} /\ Slots \in Nat
ASSUME NoneAssumption == None \notin Devices \cup Nat \cup Procs

VARIABLES running,
          cloud, stored, job, cands, at, attempt, tried, asked, results, success, outcome,
          lan, call, i, worker, found, hosts, missed, moves,
          input, output,
          proc, task, bound, server, control, listening, file, older, overlapped, restarts

cloudVars == <<cloud, stored, job, cands, at, attempt, tried, asked, results, success, outcome>>
scanVars  == <<lan, call, i, worker, found, hosts, missed, moves>>
rangeVars == <<input, output>>
serveVars == <<proc, task, bound, server, control, listening, file, older, overlapped, restarts>>
vars == <<running, cloudVars, scanVars, rangeVars, serveVars>>

Cloud == INSTANCE CloudLogin
Scan  == INSTANCE LanScan
Cidrs == INSTANCE Cidr
Serve == INSTANCE ServeControl

\* The options name domains, the guess of the probe is a region, and None is nothing else.
ASSUME DomainsAssumption ==
    /\ Redirects \subseteq Cloud!Domains
    /\ Options \subseteq Cloud!Domains \cup {None}
    /\ Guesses \subseteq {"iotx", "iotx-ap", "iotx-us", "iotx-eu"}
    /\ None \notin Cloud!Domains \cup Cloud!Answers \cup {1004}

Init ==
    /\ running \in {"cloud", "scan", "range", "serve"}
    /\ Cloud!Init
    /\ running = "scan" \/ (lan = [p \in 1 .. Last |-> None] /\ hosts = Scan!Nowhere)
    /\ Scan!Init
    /\ running = "range" \/ input = [kind |-> "cidr", base |-> 0, prefix |-> 0]
    /\ Cidrs!Init
    /\ Serve!Init

Next ==
    \/ running = "cloud" /\ Cloud!Next /\ UNCHANGED <<running, scanVars, rangeVars, serveVars>>
    \/ running = "scan" /\ Scan!Next /\ UNCHANGED <<running, cloudVars, rangeVars, serveVars>>
    \/ running = "range" /\ Cidrs!Next /\ UNCHANGED <<running, cloudVars, scanVars, serveVars>>
    \/ running = "serve" /\ Serve!Next /\ UNCHANGED <<running, cloudVars, scanVars, rangeVars>>

\* Posts and LAN requests are answered or aborted by their timeouts; the tasks of
\* a process proceed and its cleanup runs.
Fairness ==
    /\ WF_cloudVars(running = "cloud" /\ Cloud!Post)
    /\ WF_scanVars(running = "scan" /\ Scan!Handler)
    /\ \A t \in Serve!Tasks : WF_serveVars(running = "serve" /\ Serve!Step(t))
    /\ \A p \in Procs : /\ WF_serveVars(running = "serve" /\ Serve!Cleanup(p))
                       /\ WF_serveVars(running = "serve" /\ Serve!Exits(p))

Spec == Init /\ [][Next]_vars /\ Fairness

-----------------------------------------------------------------------------
\* Credentials are stored only from a domain that accepted the account; one
\* merossCloudLogin posts the password to a further domain only after one that does not
\* know the account or names another; and one that fails for its region has asked all
\* four.  The probe, which begins one per region, posts a refused password again.
SignInSound ==
    running = "cloud" =>
        Cloud!StoredFromAccepting /\ Cloud!NoRefusalRetried /\ Cloud!RegionsExhausted

\* Each sign-in ends, also when domains redirect in a circle.
SignInEnds == Cloud!SignInEnds

\* The workers of a scan share the addresses out exactly: none is asked twice at a
\* time, a discovery has every device whose answer arrived, and a scan for one device
\* reports it exactly where it answered.
ScanExact ==
    running = "scan" => Scan!PoolExact /\ Scan!DiscoveryComplete /\ Scan!ScanTruthful

\* Every discovery and every resolve is answered.
ScanAnswered == Scan!ScanAnswered

\* The hosts of a CIDR are its subnet without both ends, on either side of the sign
\* bit, and the suggested CIDR is the network of the interface.
RangesExact == running = "range" => Cidrs!HostsAreSubnet /\ Cidrs!SuggestionIsOwnNetwork

\* A process at rest serves its port after any restarts and, unless two overlapped,
\* listens on the socket path of that port; a socket file left behind does not keep a
\* later start from listening.
SocketsUsable == running = "serve" => Serve!SocketNamesPort /\ Serve!StaleFileHarmless

\* Every start of a development server comes to an end.
StartSettles == Serve!StartSettles
=============================================================================
