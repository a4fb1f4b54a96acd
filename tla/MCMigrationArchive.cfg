\* Two installations, one archive of one of them.
SPECIFICATION MAFairSpec
CONSTANTS
  Apps = {local, managed}
  Options = {o1}
  MaxRevision = 2
  MaxTime = 0
  NoArchive = NoArchive
INVARIANTS MATypeOK MonitorsImportedState MarkerIsTrue
PROPERTIES NothingOverwritten ImportRecovers
