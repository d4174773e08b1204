CONSTANTS
    Inputs = {in}
    Scenes = {sc}
    Filters = {f, g}
    Enumerable = {in}
    NoSource = NoSource
    volume = volume
    transform = transform
    order = order
    Keys <- MCKeys
    Interval <- MCInterval
    PruneAt = 1
    StaleAfter = 2
    MaxTime = 6
    Packets <- MCPackets
    Batches <- MCBatches
    Letters = {a, b}
    Star = Star
    Query = Query
    Nul = Nul
    MaxPattern = 4
    MaxStr = 3
    Clients = {c1, c2}
    Polls = {poll}
    Sets = {set}
    HttpThreads = {http}
    Idle = Idle
    MaxDatagrams = 3
    MaxMessages = 2
SPECIFICATION Spec
INVARIANTS InputFiltersTracked EntriesHaveParents ParsesWhatWasBuilt GlobIsRight DatagramsInOrder AnswersToAsker
PROPERTIES SendsSpaced ReadsInside
CHECK_DEADLOCK FALSE
