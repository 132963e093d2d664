SPECIFICATION Spec
CONSTANTS
    x = x
    esc = esc
    nul = nul
    gt = gt
    green = green
    black = black
    white = white
    sp = sp
    nl = nl
    reset = reset
    BufferSize = 3
    HistorySize = 2
    NUL = nul
    Chars = {x, sp}
    Cols = 2
    Rows = 3
    Colours = {black, white, green}
    Black = black
    White = white
    Blank = sp
    Unprintable = {esc}
    NewLine = nl
    ResetColour = reset
    Prompt <- MCPrompt
    Outputs <- MCOutputs
INVARIANTS
    EditorTypeOK
    ScreenShowsLine
PROPERTY
    SessionSpec
