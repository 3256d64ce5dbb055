SPECIFICATION StoreSpec
CONSTANTS
    Parts <- AllParts
    NI = 4  NB = 4  NDIR = 2  ENTRIES = 1
    Names = {"a", "b"}  Entered = {"a"}  WriteAt = {1}  Fds = {"fd3"}
    CrashIn = {"create", "write", "unlink"}
    Loose = {}
    NULL = NULL
    MAP_NB = 5  MAP_NDIR = 1  PER = 2  MAXWRITE = 2
    Offsets = {0, 2, 6, 13}  Lengths = {0, 2, 5, 14}
    Vnodes = {0, 1, 2, 3}  Paths <- MC_Paths  Targets <- MC_Targets
    VFS_SYMLINK_MAX = 2  TmpFds = {3}
    Files = {"f1", "f2"}  Bytes = {1}  MAXN = 2  MAXOFF = 3  FIRSTCAP = 2  HEAP = 4
    CAPACITY = 3  MAXCOUNT = 2  IDX = 4  LATE = FALSE
INVARIANTS  CountsHonest  
