SPECIFICATION MCSpec
CONSTANTS
  Uuids = {u1}
  Hosts = {h1}
  NoHost = NoHost
  Values = {v0}
  DefaultVal = v0
  Powers = {w0}
  Supplies = {va0, va1}
  NoReading = NoReading
  Errors = {"lan", "nokey"}
  RequestIds = {}
  Poller = Poller
  SubscriberIds = {s1}
  Epoch = 2
  POLL_MAX_CONCURRENCY = 1
  TELEMETRY_MAX_CONCURRENCY = 1
  STABLE_INTERVAL_MS = 2
  HOT_INTERVAL_MS = 1
  BOOST_INTERVAL_MS = 1
  TELEMETRY_INTERVAL_MS = 1
  NOT_A_PLUG_MS = 2
  MIN_JITTERED_MS = 1
  HOT_WINDOW_MS = 1
  BOOST_WINDOW_MS = 1
  SYNC_HOSTS_EVERY_MS = 1
  RESOLVE_COOLDOWN_MS = 2
  RESOLVE_AFTER_FAILURES = 9
  FAILURE_BACKOFF_SEQUENCE_MS <- MCBackoff
  MaxClock = 3
  MaxUpdatedAt = 4
  MaxFailures = 2
INVARIANTS
  PowerInSync
