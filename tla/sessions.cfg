SPECIFICATION Spec
CONSTANTS
  Passwords = {"", "ann", "bob"}
  Codes = {"", "12", "123456"}
  FullCodes = {"123456"}
  MaxReloads = 2
  MaxSubmits = 2
  Slots = {o1, o2}
  Uuids = {u1}
  TotpLength = 6
  MaxLength = 2
  EnvReady = TRUE
  None = None
INVARIANTS
    SessionShown
    TerminalShown
PROPERTIES
    SubmitAnswered
    CredentialsKept
    HydrationEnds
