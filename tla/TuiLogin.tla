------------------------------ MODULE TuiLogin ------------------------------
(***************************************************************************)
(* The keyboard of the login screen of packages/cli/src/tui.tsx.  Of the   *)
(* fields only their lengths are kept.                                     *)
(***************************************************************************)
EXTENDS Naturals, Sequences

CONSTANTS
  TotpLength,   \* 6
  MaxLength,    \* bound: length of the other fields
  EnvReady      \* MEROSS_EMAIL and MEROSS_PASSWORD are set

VARIABLES
  length,          \* field -> how much has been typed
  loginUseEnv, loginAdvanced, loginFocus,
  submitted,       \* doLogin is under way
  exited,
  input            \* history: the key pressed last

vars == <<length, loginUseEnv, loginAdvanced, loginFocus, submitted, exited, input>>

Fields == {"email", "password", "totp"}
Letters == {"a", "e", "j", "k", "q", "x"}   \* x: any other
Keys == Letters \cup {"1", "escape", "tab", "up", "return", "backspace"}

TotpOk == length["totp"] = TotpLength

CanSubmitLogin ==
  TotpOk /\ IF loginUseEnv THEN EnvReady ELSE length["email"] > 0 /\ length["password"] > 0

Order == IF loginUseEnv THEN <<"totp", "submit">> ELSE <<"email", "password", "totp", "submit">>

\* Math.max(0, order.indexOf(loginFocus)), counted from 1.
FocusIndex == IF \E i \in DOMAIN Order : Order[i] = loginFocus THEN CHOOSE i \in DOMAIN Order : Order[i] = loginFocus ELSE 1
NextFocus == Order[(FocusIndex % Len(Order)) + 1]
PrevFocus == Order[((FocusIndex + Len(Order) - 2) % Len(Order)) + 1]

Edited(k) ==
  CASE loginFocus = "submit" -> length
    [] k = "backspace" -> [length EXCEPT ![loginFocus] = IF @ = 0 THEN 0 ELSE @ - 1]
    [] loginFocus = "totp" -> [length EXCEPT !["totp"] = IF k = "1" /\ @ < TotpLength THEN @ + 1 ELSE @]
    [] OTHER -> [length EXCEPT ![loginFocus] = IF @ < MaxLength THEN @ + 1 ELSE @]

\* A fault: the focus is not moved.
M_ToggleEnv ==
  /\ loginUseEnv' = ~loginUseEnv
  /\ UNCHANGED <<length, loginAdvanced, loginFocus, submitted, exited>>

ToggleEnv ==
  /\ loginUseEnv' = ~loginUseEnv
  /\ loginFocus' = IF loginUseEnv THEN loginFocus ELSE "totp"
  /\ UNCHANGED <<length, loginAdvanced, submitted, exited>>

\* useInput: the first case that fits.
Press(k) ==
  /\ ~exited
  /\ input' = k
  /\ CASE k \in {"q", "escape"} ->
            exited' = TRUE /\ UNCHANGED <<length, loginUseEnv, loginAdvanced, loginFocus, submitted>>
       [] k = "a" ->
            loginAdvanced' = ~loginAdvanced /\ UNCHANGED <<length, loginUseEnv, loginFocus, submitted, exited>>
       [] k = "e" /\ loginAdvanced -> ToggleEnv
       [] k \in {"tab", "j"} ->
            loginFocus' = NextFocus /\ UNCHANGED <<length, loginUseEnv, loginAdvanced, submitted, exited>>
       [] k \in {"up", "k"} ->
            loginFocus' = PrevFocus /\ UNCHANGED <<length, loginUseEnv, loginAdvanced, submitted, exited>>
       [] k = "return" ->
            /\ submitted' = (submitted \/ (loginFocus = "submit" /\ CanSubmitLogin))
            /\ UNCHANGED <<length, loginUseEnv, loginAdvanced, loginFocus, exited>>
       [] OTHER ->
            length' = Edited(k) /\ UNCHANGED <<loginUseEnv, loginAdvanced, loginFocus, submitted, exited>>

\* doLogin failed; the screen is as it was.
LoginFails ==
  /\ submitted /\ submitted' = FALSE
  /\ UNCHANGED <<length, loginUseEnv, loginAdvanced, loginFocus, exited, input>>

Exited == exited /\ UNCHANGED vars

Init ==
  /\ length = [f \in Fields |-> 0]
  /\ loginUseEnv = FALSE /\ loginAdvanced = FALSE /\ loginFocus = "email"
  /\ submitted = FALSE /\ exited = FALSE /\ input = "escape"

Next == (\E k \in Keys : Press(k)) \/ LoginFails \/ Exited

Spec == Init /\ [][Next]_vars

-----------------------------------------------------------------------------
(* Properties *)

\* With the environment's email and password in use, no key reaches the fields they
\* replace: the focus is on the one-time code or on the button.
FocusOnUsedField == loginUseEnv => loginFocus \in {"totp", "submit"}

\* "Enter email, password, and TOTP (6 digits).": a letter pressed in the email or
\* password field becomes part of it.
LettersAreTyped ==
  [][\A f \in {"email", "password"} :
       loginFocus = f /\ length[f] < MaxLength /\ input' \in Letters =>
         submitted' # submitted \/ length'[f] > length[f]]_vars
=============================================================================
