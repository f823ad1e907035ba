\* A ring of three bytes written in chunks of up to two, past its second lap.
CONSTANTS
    Byte = {1, 2}
    RingSize = 3
    ChunkMax = 2
    MaxBytes = 7
SPECIFICATION Spec
INVARIANTS
    ReadsNewestBytes
PROPERTY
    ImplementsWindow
