SPECIFICATION FairSpec
CONSTANTS
    Workers = {w1,w2,w3}
    Rows = {r1,r2,r3}
    batch = batch
    single = single
    unset = unset
    Tables = {batch,single,unset}
    Threshold <- ThreeTables
    NoSchema = {unset}
    NULL = NULL
CHECK_DEADLOCK FALSE
INVARIANTS
    TypeOK
    NoForgottenFlush
    LossOnlyBySnapshotRace
    ResentOnlyBySnapshotRace
PROPERTIES
    FullBufferIsSent
