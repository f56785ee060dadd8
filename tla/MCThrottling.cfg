\* Rate limiter and abuse guard, each with both of its stores.
SPECIFICATION Spec
CONSTANTS
  TicksPerSec = 3
  LimiterHorizon = 11
  Callers <- MCCallers
  NoSubject = ""
  Rates <- MCRates
  ProbeBypass = TRUE
  TrustedBypass = TRUE
  TrustedIPs = {}
  TrustedSubjects = {"batch"}
  Lags = {0, 1}
  Absent = Absent
  Attempts = {p1, p2}
  Identities = {a}
  Addresses = {x, y}
  GuardPolicies <- MCGuardPolicies
  GuardHorizon = 4
  Hold = 1
  MaxDuration = 6
  MaxFailures = 3
  NoEntry = NoEntry
SYMMETRY Symmetric
INVARIANTS SlidingWindowHolds BurstHolds HonestHeaders GuessesAreSpaced
PROPERTIES CooldownNeverShrinks
