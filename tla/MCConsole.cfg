SPECIFICATION ConsoleSpec
CONSTANTS
    Parts <- AllParts
    Readers = {q1, q2}  TTY_LINE_MAX = 2  TTY_RAW_Q = 3  Sizes = {1, 2}
    KEYBOARD_BUFFER_SIZE = 3  PORT = 2  KeySets <- MC_KeySets  Overlap = FALSE  NONE = "none"
    Chars = {"x", " "}  SPACE = " "  NUL = ""  OverSelection = FALSE
    INPUT_LINE_MAX = 3  INPUT_CLIPBOARD_MAX = 3  INPUT_HISTORY_MAX = 1
    W = 2  H = 2  TAB = 2  PARAMS = 2  Glyphs = {"x"}  Digits = {3}  MAXTEXT = 6  MAXPARAM = 3
INVARIANTS ReadersAwake 
PROPERTIES StepsExact
CHECK_DEADLOCK FALSE
