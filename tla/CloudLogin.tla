----------------------------- MODULE CloudLogin -----------------------------
(***************************************************************************)
(* Signing in to the vendor's cloud (packages/core/src/meross/cloud/       *)
(* http.ts): one account lives in one region, each region has a domain, a  *)
(* domain may answer, refuse, name another domain, or not answer at all.   *)
(* Three callers use it: POST /api/cloud/login, the command meross:login   *)
(* (both "login" here: one sign-in, stored when it succeeds) and           *)
(* meross:auth-debug ("probe": one sign-in per region).                    *)
(* What a domain says is decided when it is first asked and stays: cloud   *)
(* holds it.  A domain is a host name without scheme or trailing slash, on *)
(* which stripScheme does nothing.                                         *)
(***************************************************************************)
EXTENDS Naturals, Sequences, SequencesExt

CONSTANTS Elsewhere,   \* domains that are none of the four known ones
          Redirects,   \* domains a 1030 answer may name
          Options,     \* domain options callers give, None for none
          Guesses,     \* regions the probe's time zone may suggest
          None

VARIABLES cloud,     \* what each domain answers, None until it is asked
          stored,    \* cfg.cloud: None or the stored credentials
          job,       \* the call under way: who, which options, what remains
          cands,     \* domainCandidates not given up yet; the head is tried
          at,        \* domain: where the next post goes
          attempt,   \* redirects followed for this candidate
          tried,     \* candidates this sign-in has asked
          asked,     \* domains, redirect targets included, this sign-in went on from
          results,   \* the probe's printed entries
          success,   \* the probe's last credentials
          outcome    \* how the call ended: code, and apiStatus if one is told

vars == <<cloud, stored, job, cands, at, attempt, tried, asked, results, success, outcome>>

DEFAULT_FALLBACK_DOMAINS == <<"iotx", "iotx-ap", "iotx-us", "iotx-eu">>

Domains == ToSet(DEFAULT_FALLBACK_DOMAINS) \cup Elsewhere

\* apiStatus: 0 accepted, 1004 wrong region, 1030 go to another domain, 1022
\* any other refusal.  domain is data.domain; whole says that token, key and
\* user id are all present; mfa that the info text asks for a code.
Answers ==
    [status : {0}, domain : {None} \cup Elsewhere, whole : BOOLEAN, mfa : {FALSE}]
        \cup [status : {1030}, domain : {None} \cup Redirects, whole : {FALSE}, mfa : {FALSE}]
        \cup [status : {1004}, domain : {None}, whole : {FALSE}, mfa : {FALSE}]
        \cup [status : {1022}, domain : {None}, whole : {FALSE}, mfa : BOOLEAN]

Pending == [code |-> "none", apiStatus |-> None]

Idle == [who |-> "none", domain |-> None, queue |-> <<>>, tryAll |-> FALSE, write |-> FALSE]

\* [domain, ...list.filter((d) => d !== domain)] for a list that has the domain once.
Ahead(domain, list) ==
    LET k == CHOOSE k \in DOMAIN list : list[k] = domain
    IN  [n \in DOMAIN list |-> CASE n = 1 -> domain
                                 [] n \in 2 .. k -> list[n - 1]
                                 [] OTHER -> list[n]]

\* A fault: without the other regions.
M_SignInCandidates(domain) ==
    IF domain = None THEN DEFAULT_FALLBACK_DOMAINS ELSE <<domain>>

\* domainCandidates of a sign-in: a known domain comes first and the others
\* follow; an unknown one stands alone; without one, the four in their order.
SignInCandidates(domain) ==
    CASE domain = None -> DEFAULT_FALLBACK_DOMAINS
      [] domain \in Elsewhere -> <<domain>>
      [] OTHER -> Ahead(domain, DEFAULT_FALLBACK_DOMAINS)

\* domainCandidates of the probe: the forced domain, or the guessed region
\* followed by the others.
ProbeCandidates(domain, guess) ==
    IF domain # None
    THEN <<domain>>
    ELSE Ahead(guess, <<"iotx-us", "iotx-eu", "iotx-ap", "iotx">>)

Init ==
    /\ cloud = [d \in Domains |-> None]
    /\ stored = None
    /\ job = Idle
    /\ cands = <<>>
    /\ at = None
    /\ attempt = 0
    /\ tried = {}
    /\ asked = {}
    /\ results = <<>>
    /\ success = None
    /\ outcome = Pending

\* merossCloudLogin begins with the candidates of a domain option.
SignIn(domain) ==
    /\ cands' = SignInCandidates(domain)
    /\ at' = Head(cands')
    /\ attempt' = 0
    /\ tried' = {at'}
    /\ asked' = {}

Login(domain) ==
    /\ job = Idle
    /\ outcome = Pending
    /\ job' = [Idle EXCEPT !.who = "login", !.domain = domain]
    /\ SignIn(domain)
    /\ UNCHANGED <<cloud, stored, results, success, outcome>>

Probe(domain, guess, tryAll, write) ==
    LET queue == ProbeCandidates(domain, guess)
    IN  /\ job = Idle
        /\ outcome = Pending
        /\ job' = [who |-> "probe", domain |-> domain, queue |-> queue,
                   tryAll |-> tryAll, write |-> write]
        /\ SignIn(Head(queue))
        /\ UNCHANGED <<cloud, stored, results, success, outcome>>

\* The call is over: the handler's answer, or the probe's exit code.
End(code, apiStatus) ==
    /\ job' = Idle
    /\ outcome' = [code |-> code, apiStatus |-> apiStatus]
    /\ cands' = <<>>
    /\ at' = None
    /\ attempt' = 0
    /\ asked' = {}

\* The probe notes an entry and goes on, or stores what succeeded and prints.
ProbeNotes(ok, creds) ==
    LET rest == Tail(job.queue)
        last == IF ok THEN creds ELSE success
    IN  /\ results' = Append(results, [domain |-> Head(job.queue), ok |-> ok])
        /\ success' = last
        /\ IF rest # <<>> /\ (~ok \/ job.tryAll)
           THEN /\ job' = [job EXCEPT !.queue = rest]
                /\ SignIn(Head(rest))
                /\ UNCHANGED <<stored, outcome>>
           ELSE /\ End(IF last = None THEN "exit1" ELSE "ok", None)
                /\ stored' = IF last # None /\ job.write THEN last ELSE stored
                /\ UNCHANGED tried

\* merossCloudLogin returned credentials.
Accepted(creds) ==
    \/ /\ job.who = "login"
       /\ stored' = creds
       /\ End("ok", None)
       /\ UNCHANGED <<tried, results, success>>
    \/ job.who = "probe" /\ ProbeNotes(TRUE, creds)

\* merossCloudLogin threw.
Rejected(code, apiStatus) ==
    \/ /\ job.who = "login"
       /\ End(code, apiStatus)
       /\ UNCHANGED <<stored, tried, results, success>>
    \/ job.who = "probe" /\ ProbeNotes(FALSE, None)

\* The credentials name data.domain, else the domain that answered.
Credentials(answer) ==
    [domain |-> IF answer.domain # None THEN answer.domain ELSE at, from |-> at]

\* What authenticatedPost returned: stable, and open until the first post.
Answered(answer) ==
    /\ at # None
    /\ cloud[at] \in {None, answer}
    /\ cloud' = [cloud EXCEPT ![at] = answer]

\* A fault: the count starts again after the second post.
M_Redirected(answer) ==
    /\ Answered(answer)
    /\ answer.status = 1030 /\ answer.domain # None
    /\ at' = answer.domain
    /\ attempt' = (attempt + 1) % 2
    /\ asked' = asked \cup {at}
    /\ UNCHANGED <<stored, job, cands, tried, results, success, outcome>>

\* postWithRedirect goes round: its loop posts twice, and once more after it.
Redirected(answer) ==
    /\ Answered(answer)
    /\ answer.status = 1030 /\ answer.domain # None
    /\ attempt < 2
    /\ at' = answer.domain
    /\ attempt' = attempt + 1
    /\ asked' = asked \cup {at}
    /\ UNCHANGED <<stored, job, cands, tried, results, success, outcome>>

Settles(answer) ==
    ~(answer.status = 1030 /\ answer.domain # None /\ attempt < 2)

\* A fault: whatever a domain it was sent to refuses, the next region is asked.
M_NextRegion(answer) ==
    /\ Answered(answer)
    /\ Settles(answer)
    /\ answer.status = 1004 \/ (attempt > 0 /\ answer.status # 0)
    /\ Len(cands) > 1
    /\ cands' = Tail(cands)
    /\ at' = Head(Tail(cands))
    /\ attempt' = 0
    /\ tried' = tried \cup {at'}
    /\ asked' = asked \cup {at}
    /\ UNCHANGED <<stored, job, results, success, outcome>>

\* 1004 with candidates left: the next domain is asked.
NextRegion(answer) ==
    /\ Answered(answer)
    /\ Settles(answer)
    /\ answer.status = 1004
    /\ Len(cands) > 1
    /\ cands' = Tail(cands)
    /\ at' = Head(Tail(cands))
    /\ attempt' = 0
    /\ tried' = tried \cup {at'}
    /\ asked' = asked \cup {at}
    /\ UNCHANGED <<stored, job, results, success, outcome>>

\* A fault: incomplete credentials are taken.
M_SignedIn(answer) ==
    /\ Answered(answer)
    /\ answer.status = 0
    /\ Accepted(Credentials(answer))

\* Accepted, with everything the client needs.
SignedIn(answer) ==
    /\ Answered(answer)
    /\ answer.status = 0
    /\ answer.whole
    /\ Accepted(Credentials(answer))

\* Refused for good, or accepted without token, key or user id.
Refused(answer) ==
    /\ Answered(answer)
    /\ Settles(answer)
    /\ answer.status = 0 => ~answer.whole
    /\ answer.status = 1004 => Len(cands) = 1
    /\ Rejected(IF answer.mfa THEN "mfa_required" ELSE "cloud_error",
                IF answer.status = 0 THEN None ELSE answer.status)

\* No answer within timeoutMs, no connection ("unknown"), or a body that is
\* not an API response ("cloud_error"): authenticatedPost throws.
PostFails ==
    /\ at # None
    /\ \E code \in {"unknown", "cloud_error"} : Rejected(code, None)
    /\ UNCHANGED cloud

\* The process that signed in is done; the next call is another one.
Rest ==
    /\ outcome # Pending
    /\ UNCHANGED vars

Post ==
    \/ \E answer \in Answers : \/ Redirected(answer)
                               \/ NextRegion(answer)
                               \/ SignedIn(answer)
                               \/ Refused(answer)
    \/ PostFails

Next ==
    \/ \E domain \in Options :
        \/ Login(domain)
        \/ \E guess \in Guesses, tryAll, write \in BOOLEAN :
            Probe(domain, guess, tryAll, write)
    \/ Post
    \/ Rest

Fairness == WF_vars(Post)

Spec == Init /\ [][Next]_vars /\ Fairness

-----------------------------------------------------------------------------
\* Credentials are stored only from a domain that accepted the account and
\* returned token, key and user id, and they carry the domain it named: the
\* key of every LAN call comes from here.
StoredFromAccepting ==
    stored # None =>
        /\ cloud[stored.from].status = 0
        /\ cloud[stored.from].whole
        /\ cloud[stored.from].domain \in {None, stored.domain}

\* One merossCloudLogin posts the password again only after a domain that does
\* not know the account (1004) or names another one (1030 with a domain), and
\* that holds of the domains it was sent to as of its candidates: a refused
\* password or a wanted code ends that sign-in.  It is no promise of the probe,
\* which begins a sign-in in every region whatever the one before said.
NoRefusalRetried ==
    \A d \in asked : \/ cloud[d].status = 1004
                     \/ cloud[d].status = 1030 /\ cloud[d].domain # None

\* A sign-in that fails for the region (1004) has asked all four regions,
\* unless its only candidate was a domain of the caller's own.
RegionsExhausted ==
    (outcome.apiStatus = 1004 /\ tried \cap Elsewhere = {})
        => tried = ToSet(DEFAULT_FALLBACK_DOMAINS)

\* Each call ends, also when domains send the client round in a circle: the
\* redirects of a candidate are counted, and a post that hangs is aborted.
SignInEnds == (at # None) ~> (outcome # Pending)

\* What the command line says of meross:auth-debug: "Prints per-domain
\* results".  An entry that reports success is about a domain that accepts
\* the account or sends the client on.
ProbeReportsDomain ==
    \A i \in DOMAIN results :
        results[i].ok => cloud[results[i].domain].status # 1004

\* What the sign-in page says: "Auto tries multiple regions on failure."
AutoTriesRegions ==
    [][ (job.who = "login" /\ job.domain = None /\ job' = Idle /\ outcome'.code # "ok")
            => \E d, e \in tried : d # e ]_vars
=============================================================================
