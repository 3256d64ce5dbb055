SPECIFICATION MemorySpec
CONSTANTS
    Parts <- AllParts
    s1 = s1  s2 = s2
    Spaces = {s1, s2}
    NoSpace = NoSpace
    NFrames = 6
    HeapMax = 1
    ArenaEnd = 3
    Values = {0, 1}
    Garbage = 1
    MprotectUnshared = TRUE
    NULL = NULL
    Threads = {"t1"}
    HDR = 2  FTR = 1  HEAP_MIN_BLOCK = 4  PAGE_SIZE = 16
    HEAP_INITIAL_PAGES = 1  FRAMES = 1  Requests = {1, 5, 13}
    PMM_PAGE_SIZE = 2  RESERVED_LOW_MEMORY = 4  MAX_MEMORY_SIZE = 24
    Maps <- MC_Maps  Modules <- MC_Modules  RunLengths = {2, 3}
SYMMETRY Symmetry
INVARIANTS FramesCounted TlbSafe HeapExact 
 
CHECK_DEADLOCK FALSE
