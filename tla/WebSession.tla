----------------------------- MODULE WebSession -----------------------------
(***************************************************************************)
(* The browser's way from a page load to the devices view:                 *)
(* apps/web/src/state/appMachine.ts (booting, auth, devices),              *)
(* authMachine.ts (editing, submitting, success), views/AuthView.tsx and   *)
(* views/auth/loginRegion.ts, with the two requests they make of the       *)
(* server.  The page may be reloaded at any moment; a login it had sent is *)
(* then finished by the server with nobody to answer.                      *)
(***************************************************************************)
EXTENDS Naturals

CONSTANTS Passwords,    \* what is typed as email and password of an account; "" is nothing
          Codes,        \* what the code field holds, "" and partial codes too
          FullCodes,    \* the codes of six digits
          MaxReloads, MaxSubmits,   \* bounds of the model
          None

VARIABLES view,       \* appMachine: booting, auth, devices
          cloud,      \* appMachine context: the summary, or None
          phase,      \* authMachine: editing, submitting, success
          password, totp, region, error, signedIn,   \* authMachine context
          saved,      \* localStorage merossity.loginRegion
          likely,     \* getLikelyLoginRegion of this browser
          request,    \* the awaited POST /api/cloud/login
          adrift,     \* logins nobody waits for any more: their number and account
          config,     \* the account whose credentials the server has stored, or None
          replaced,   \* history: a login adrift has stored its credentials over those
                      \* of the last login or page load that got an answer
          attempted,  \* what the last answered attempt sent (history)
          reloads, submits

auth == <<phase, password, totp, region, error, signedIn>>
vars == <<view, cloud, auth, saved, likely, request, adrift, config, replaced, attempted,
          reloads, submits>>

Regions == {"global", "us", "eu", "ap"}
LoginRegions == {"auto"} \cup Regions
Accounts == Passwords \ {""}

Init ==
    /\ view = "booting" /\ cloud = None
    /\ phase = "editing" /\ password = "" /\ totp = "" /\ region = "auto"
    /\ error = None /\ signedIn = None
    /\ saved \in {None, "auto", "eu"}
    /\ likely \in {"us", "global"}
    /\ request = "none" /\ adrift = {}
    /\ config \in {None} \cup Accounts
    /\ replaced = FALSE
    /\ attempted = None
    /\ reloads = 0 /\ submits = 0

\* AuthProvider mounts: a new authMachine, and the effect that sets the region.
AuthView ==
    /\ view' = "auth"
    /\ phase' = "editing" /\ password' = "" /\ totp' = ""
    /\ error' = None /\ signedIn' = None
    /\ region' = IF saved # None THEN saved ELSE likely

\* A fault: the devices view is shown without credentials.
M_BootDone ==
    /\ view = "booting"
    /\ \E creds \in {config, None} :
        /\ cloud' = creds
        /\ view' = "devices"
    /\ replaced' = FALSE
    /\ UNCHANGED <<auth, saved, likely, request, adrift, config, attempted, reloads, submits>>

\* GET /api/cloud/creds answered, or failed and counts as no credentials;
\* determiningView follows at once.
BootDone ==
    /\ view = "booting"
    /\ \E creds \in {config, None} :
        /\ cloud' = creds
        /\ \/ creds # None /\ view' = "devices" /\ UNCHANGED auth
           \/ creds = None /\ AuthView
    /\ replaced' = FALSE
    /\ UNCHANGED <<saved, likely, request, adrift, config, attempted, reloads, submits>>

\* The fields are disabled while submitting.
Editable == view = "auth" /\ phase = "editing"

SetPassword(value) ==
    /\ Editable
    /\ password' = value
    /\ error' = None
    /\ UNCHANGED <<view, cloud, phase, totp, region, signedIn, saved, likely, request,
                   adrift, config, replaced, attempted, reloads, submits>>

SetTotp(value) ==
    /\ Editable
    /\ totp' = value
    /\ error' = None
    /\ UNCHANGED <<view, cloud, phase, password, region, signedIn, saved, likely, request,
                   adrift, config, replaced, attempted, reloads, submits>>

\* A fault: the message stays when the region changes.
M_SetRegion(value) ==
    /\ Editable
    /\ region' = value
    /\ UNCHANGED <<view, cloud, phase, password, totp, error, signedIn, saved, likely, request,
                   adrift, config, replaced, attempted, reloads, submits>>

SetRegion(value) ==
    /\ Editable
    /\ region' = value
    /\ error' = None
    /\ UNCHANGED <<view, cloud, phase, password, totp, signedIn, saved, likely, request,
                   adrift, config, replaced, attempted, reloads, submits>>

CanSubmit == totp \in FullCodes /\ password # ""

\* The form persists the region (localStorage may refuse) and sends SUBMIT.
Submit ==
    /\ Editable
    /\ CanSubmit
    /\ submits < MaxSubmits
    /\ saved' \in {saved, region}
    /\ phase' = "submitting"
    /\ request' = "sent"
    /\ submits' = submits + 1
    /\ UNCHANGED <<view, cloud, password, totp, region, error, signedIn, likely, adrift,
                   config, replaced, attempted, reloads>>

\* A fault: the answer is given without waiting for the file.
M_ServerSignsIn ==
    /\ \/ request = "sent" /\ request' = "ok" /\ replaced' = FALSE /\ UNCHANGED <<config, adrift>>
       \/ \E login \in adrift :
            /\ config' = login.account /\ adrift' = adrift \ {login}
            /\ replaced' = TRUE /\ UNCHANGED request
    /\ UNCHANGED <<view, cloud, auth, saved, likely, attempted, reloads, submits>>

\* POST /api/cloud/login at the server: the account's credentials are stored before
\* the answer, also for a page that is gone; the form is locked until then.
ServerSignsIn ==
    /\ \/ /\ request = "sent" /\ request' = "ok"
          /\ config' = password /\ replaced' = FALSE /\ UNCHANGED adrift
       \/ \E login \in adrift :
            /\ config' = login.account /\ adrift' = adrift \ {login}
            /\ replaced' = TRUE /\ UNCHANGED request
    /\ UNCHANGED <<view, cloud, auth, saved, likely, attempted, reloads, submits>>

ServerRefuses ==
    /\ \/ request = "sent" /\ request' = "refused" /\ UNCHANGED adrift
       \/ \E login \in adrift : adrift' = adrift \ {login} /\ UNCHANGED request
    /\ UNCHANGED <<view, cloud, auth, saved, likely, config, replaced, attempted, reloads, submits>>

\* A login that the server has not answered goes on without its page.
Abandon ==
    adrift' = IF request = "sent" THEN adrift \cup {[number |-> submits, account |-> password]}
                                  ELSE adrift

\* onDone: success, the secrets are cleared, and the view's effect tells the
\* application, which unmounts the form.
LoginDone ==
    /\ phase = "submitting" /\ request = "ok"
    /\ request' = "none"
    /\ phase' = "success" /\ signedIn' = password
    /\ password' = "" /\ totp' = "" /\ error' = None
    /\ view' = "devices" /\ cloud' = password
    /\ UNCHANGED <<region, saved, likely, adrift, config, replaced, attempted, reloads, submits>>

\* A fault: the form comes back without a message.
M_LoginError ==
    /\ phase = "submitting" /\ request # "none"
    /\ request' = "none"
    /\ Abandon
    /\ phase' = "editing"
    /\ attempted' = <<password, totp, region>>
    /\ UNCHANGED <<view, cloud, password, totp, region, error, signedIn, saved, likely,
                   config, replaced, reloads, submits>>

\* onError: refused by the server, or the connection broke, whatever the
\* server has done by then or will still do.
LoginError ==
    /\ phase = "submitting" /\ request # "none"
    /\ request' = "none"
    /\ Abandon
    /\ phase' = "editing"
    /\ error' = IF request = "refused" THEN "refused" ELSE "network"
    /\ attempted' = <<password, totp, region>>
    /\ UNCHANGED <<view, cloud, password, totp, region, signedIn, saved, likely,
                   config, replaced, reloads, submits>>

\* The user reloads the page: both machines start anew.
Reload ==
    /\ reloads < MaxReloads
    /\ reloads' = reloads + 1
    /\ view' = "booting" /\ cloud' = None
    /\ phase' = "editing" /\ password' = "" /\ totp' = "" /\ region' = "auto"
    /\ error' = None /\ signedIn' = None
    /\ Abandon
    /\ request' = "none"
    /\ attempted' = None
    /\ UNCHANGED <<saved, likely, config, replaced, submits>>

\* auth_logout: the context is cleared; the server keeps what it stored.
Logout ==
    /\ view = "devices"
    /\ cloud' = None
    /\ AuthView
    /\ UNCHANGED <<saved, likely, request, adrift, config, replaced, attempted, reloads, submits>>

User ==
    \/ \E value \in Passwords : SetPassword(value)
    \/ \E value \in Codes : SetTotp(value)
    \/ \E value \in LoginRegions : SetRegion(value)
    \/ Submit \/ Reload \/ Logout

Server == ServerSignsIn \/ ServerRefuses

Answer == LoginDone \/ LoginError

Next == BootDone \/ User \/ Server \/ Answer

\* Promises of the browser settle, and the server answers what it is sent
\* (CloudLogin: every sign-in ends).  The user promises nothing.
Fairness == WF_vars(BootDone) /\ WF_vars(Server) /\ WF_vars(Answer)

Spec == Init /\ [][Next]_vars /\ Fairness

-----------------------------------------------------------------------------
\* InventoryView is given credentials the server has stored and still holds, whatever page
\* loads and failed logins came before, unless a login nobody waits for any more has
\* replaced them since: nothing else comes between what is shown and what is stored.
DevicesBacked == view = "devices" => cloud # None /\ (cloud = config \/ replaced)

\* The message of formatAuthError speaks of what the form still holds: once
\* a field or the region differs from the attempt that failed, it is gone.
ErrorIsCurrent ==
    (view = "auth" /\ error # None) => attempted = <<password, totp, region>>

\* Everything that is submitted gets an answer: the devices view, a message
\* at an editable form, or the user has left the page.
SubmitAnswered ==
    phase = "submitting" ~> (view = "devices" \/ (phase = "editing" /\ error # None)
                                \/ view = "booting")

\* login-cloud.ts:59-77, "cloud: { ...res.creds" is stored whenever the vendor's answer
\* comes: the devices view speaks of the account whose credentials the server uses.
AccountShown == view = "devices" => cloud = config
=============================================================================
