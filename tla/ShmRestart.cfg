\* The queue of requests when the proxy or a worker is killed: the proxy clears the
\* queue while workers read it, and payloads are read as headers.
CONSTANTS
    Producers = {p}
    Consumers = {a, b}
    Proxy = p
    None = None
    Dead = Dead
    BlockSize = 6
    UIntSize = 64
    DataLens = {0, 2}
    MaxMsgs = 3
    MaxDeaths = 1
    Mortals = {a, b, p}
SYMMETRY WorkerSymmetry
SPECIFICATION Spec
INVARIANTS InBounds
