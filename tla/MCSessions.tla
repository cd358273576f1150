---------------------------- MODULE MCSessions ----------------------------
(***************************************************************************)
(* The way into the program in one run: WebSession in the browser,         *)
(* TuiSession and TuiLogin in the terminal.  They share no state; in a     *)
(* behaviour only the component named by running moves, the others rest    *)
(* where they began.                                                       *)
(***************************************************************************)
EXTENDS Naturals

CONSTANTS Passwords, Codes, FullCodes, MaxReloads, MaxSubmits,   \* WebSession
          Slots, Uuids,                                          \* TuiSession
          TotpLength, MaxLength, EnvReady,                       \* TuiLogin
          None

ASSUME LoginAssumption == TotpLength \in Nat \ {0} /\ MaxLength \in Nat \ {0} /\ EnvReady \in BOOLEAN
ASSUME NoneAssumption == None \notin Uuids \cup Passwords

VARIABLES running,
  view, cloud, phase, password, totp, region, error, signedIn, saved, likely, request,
  adrift, config, replaced, attempted, reloads, submits,
  file, tuiPhase, cfg, tuiError, devices, hosts, cidr, selectedUuid, expandedUuid, diag, fns, spoiled,
  length, loginUseEnv, loginAdvanced, loginFocus, submitted, exited, input

webVars == <<view, cloud, phase, password, totp, region, error, signedIn, saved, likely, request,
             adrift, config, replaced, attempted, reloads, submits>>
tuiVars == <<file, tuiPhase, cfg, tuiError, devices, hosts, cidr, selectedUuid, expandedUuid, diag, fns,
             spoiled>>
keyVars == <<length, loginUseEnv, loginAdvanced, loginFocus, submitted, exited, input>>
vars == <<running, webVars, tuiVars, keyVars>>

Web == INSTANCE WebSession
Tui == INSTANCE TuiSession WITH phase <- tuiPhase, error <- tuiError
Keyboard == INSTANCE TuiLogin

Init ==
  /\ running \in {"web", "tui", "keyboard"}
  /\ running = "web" \/ (saved = None /\ likely = "us" /\ config = None)
  /\ Web!Init
  /\ running = "tui" \/ file = Tui!Empty
  /\ Tui!Init
  /\ Keyboard!Init

Next ==
  \/ running = "web" /\ Web!Next /\ UNCHANGED <<running, tuiVars, keyVars>>
  \/ running = "tui" /\ Tui!Next /\ UNCHANGED <<running, webVars, keyVars>>
  \/ running = "keyboard" /\ Keyboard!Next /\ UNCHANGED <<running, webVars, tuiVars>>

\* Promises of the browser settle and the server answers; in the terminal,
\* requests, scans and file accesses end.
Fairness ==
  /\ WF_webVars(running = "web" /\ Web!BootDone)
  /\ WF_webVars(running = "web" /\ Web!Server)
  /\ WF_webVars(running = "web" /\ Web!Answer)
  /\ \A o \in Slots : WF_tuiVars(running = "tui" /\ Tui!Proceed(o))

Spec == Init /\ [][Next]_vars /\ Fairness

-----------------------------------------------------------------------------
\* The devices view is shown on the credentials the server holds, until a login nobody
\* waits for any more replaces them; an error message of the login form speaks of what
\* the form still holds.
SessionShown == Web!DevicesBacked /\ Web!ErrorIsCurrent

\* Everything that is submitted gets an answer, whatever is reloaded meanwhile.
SubmitAnswered == Web!SubmitAnswered

\* In the terminal, the diagnostics screen has the data it was opened for, and the
\* login form's focus is never on a field that is not in use.
TerminalShown == Tui!DiagnosticsHaveData /\ Keyboard!FocusOnUsedField

\* Whatever functions overlap in the terminal UI with whatever config their render
\* held, the credentials in the file stay.
CredentialsKept == Tui!CredentialsKept

\* No hydration of the terminal UI goes on for ever.
HydrationEnds == Tui!HydrationEnds
=============================================================================
