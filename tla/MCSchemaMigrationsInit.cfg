\* One opener that may be interrupted while it creates the schema.
SPECIFICATION Spec
CONSTANTS Openers = {app}
INVARIANTS InitializedTransactionally
