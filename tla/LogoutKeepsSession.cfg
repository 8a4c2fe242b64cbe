CONSTANTS
  Workers = {w1}
  Users = {u1}
  Nobody = Nobody
  MaxRetries = 3
  MaxSessions = 1
  MaxFaults = 1
SPECIFICATION Spec
INVARIANTS LogoutKills
CHECK_DEADLOCK FALSE
