\* Two openers of one file of every origin.
SPECIFICATION FairSpec
CONSTANTS Openers = {app, cli}
INVARIANTS SchemaOfVersion OpenIsComplete
PROPERTIES ForeignUntouched EarlierReleaseMigrated
