\* The queue of requests: the proxy writes, two workers read.  Messages of one size,
\* the third of which has its header split at the end of the block.
CONSTANTS
    Producers = {p}
    Consumers = {a, b}
    Proxy = p
    None = None
    Dead = Dead
    BlockSize = 9
    UIntSize = 64
    DataLens = {1}
    MaxMsgs = 3
    MaxDeaths = 1
    Mortals = {a, b}
SPECIFICATION FairSpec
INVARIANTS CountAgrees NoSilentBacklog Whole NotTwice
PROPERTIES Delivered
