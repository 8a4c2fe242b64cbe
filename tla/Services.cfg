CONSTANTS
  u1 = u1
  u2 = u2
  v = v
  Users = {u1, u2}
  Nobody = Nobody
  Values = {v}
  Empty = Empty
  Malformed = Malformed
  Params <- TwoFields
  Services <- FourPaths
  Config <- FourServices
  Roles <- OneRole
  RolesOf <- OnlyFirst
  MaxRetries = 3
  MaxFaults = 2
SPECIFICATION Spec
INVARIANTS TypeOK OwnInputs Permitted MailToRecipient OneDocument EffectMatchesReply FaultsMasked MultipleResultsets
