\* Three calls, one conflict retry, a call whose requests may be delivered twice.
SPECIFICATION FairSpec
CONSTANTS
    a1 = a1
    a2 = a2
    w1 = w1
    Call = {a1, a2, w1}
    EntryId = {1, 2, 3, 4}
    Batch <- MCBatch
    Retrying = {a1}
    MaxConflictRetries = 1
    MaxSequenceNo = 3
    Copy = {1, 2}
    Copies <- MCCopies
    Hash <- MCHash
    GenesisHash <- MCGenesisHash
    EntryHash <- MCEntryHash
INVARIANTS TypeOK ChainIntact BatchAtomic AckedIsDurable ConflictMeansAbsent
PROPERTIES AppendOnly RetrySeesNewHead ImplementsLog EveryCallReturns
