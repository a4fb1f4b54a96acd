\* One archive that is imported again.
SPECIFICATION MASpec
CONSTANTS
  Apps = {local, managed}
  Options = {o1}
  MaxRevision = 3
  MaxTime = 0
  NoArchive = NoArchive
INVARIANTS RepeatedImportAccepted
