CONSTANTS
  Workers = {w1, w2}
  Users = {u1, u2}
  Nobody = Nobody
  MaxRetries = 2
  MaxSessions = 1
  MaxFaults = 1
SPECIFICATION FairSpec
INVARIANTS TypeOK RunsAsSender FaultsMasked
PROPERTIES RequestsEnd
CHECK_DEADLOCK FALSE
