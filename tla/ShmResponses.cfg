\* The queue of responses: two workers write, the proxy reads.  Two sizes, so that
\* headers and payloads are split at the end of the block.
CONSTANTS
    Producers = {a, b}
    Consumers = {p}
    Proxy = p
    None = None
    Dead = Dead
    BlockSize = 8
    UIntSize = 64
    DataLens = {0, 1}
    MaxMsgs = 3
    MaxDeaths = 1
    Mortals = {a, b}
SYMMETRY WorkerSymmetry
SPECIFICATION Spec
PROPERTIES ImplementsFifo
