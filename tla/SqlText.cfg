SPECIFICATION FairSpec
CONSTANTS
  Documents <- SomeDocuments
  MailKeys = {"to", "subject"}
  Values <- SomeValues
  Contents <- SomeContents
  NotSent = NotSent
  UserLogin <- SomeLogin
  MaxText = 80
INVARIANTS TypeOK ConfigAsWritten ParamsAsSent RefusedIffInvalid SqlAsTemplate
PROPERTIES ConfigLoads SubstitutionEnds
CHECK_DEADLOCK FALSE
