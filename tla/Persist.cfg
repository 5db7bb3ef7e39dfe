\* Two callers race on an aggregate of a MemoryStore; one of them also uses an
\* adapter that may break the contract of Update.
CONSTANTS
    memory = memory
    adapter = adapter
    both = c1
    Callers = {c1, c2}
    Keys = {memory, adapter}
    States <- MCStates
    Initial = "A"
    Rows <- MCRows
    Foreign = {adapter}
    KeysOf <- MCKeysOf
    MaxRevision = 3
SPECIFICATION FairSpec
INVARIANTS MemoryStoreKeepsContract StepExecutedOnce SuccessConfirmed
PROPERTIES ImplementsVersioned RevisionsAdvance EveryFireReturns
\* All callers may be held up by the bound on revisions.
CHECK_DEADLOCK FALSE
