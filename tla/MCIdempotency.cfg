\* Concurrent duplicates, with everything that may go wrong.
SPECIFICATION Spec
CONSTANTS
  q1 = q1
  q2 = q2
  q3 = q3
  Requests = {q1, q2, q3}
  Keys = {"k"}
  Fingerprints = {"body", "other"}
  Key <- OneKey
  Fingerprint <- TwoBodies
  Nobody = Nobody
  Faults = {"redis", "disconnect", "crash", "slow"}
CHECK_DEADLOCK FALSE
INVARIANT TypeOK
INVARIANT DuplicatesNeedFaults
INVARIANT ReplayIsFaithful
PROPERTY CachedResponseStays
