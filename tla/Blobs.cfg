CONSTANTS
  Workers = {w1, w2}
  Forms <- SomeForms
  MaxRetries = 1
  MaxQueue = 1
  MaxUploads = 2
  MaxFaults = 1
SYMMETRY Interchangeable
SPECIFICATION Spec
INVARIANTS TypeOK RowHasFile NoStrayFile DownloadMatchesRow DeletionIsFinal
CHECK_DEADLOCK FALSE
