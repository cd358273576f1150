SPECIFICATION Spec
CONSTANTS
    Elsewhere = {"custom"}
    Redirects = {"iotx-eu"}
    Options = {None, "iotx-us", "custom"}
    Guesses = {"iotx-ap"}
    Devices = {d1, d2}
    Last = 3
    Workers = 2
    MaxMoves = 1
    Width = 6
    Procs = {p1, p2}
    MaxPort = 2
    MaxRestarts = 2
    Slots = 2
    None = None
INVARIANTS
    SignInSound
    ScanExact
    RangesExact
    SocketsUsable
PROPERTIES
    SignInEnds
    ScanAnswered
    StartSettles
