CONSTANTS
    f = f
    g = g
    x = x
    y = y
    rows = rows
    app = app
    side = side
    server = server
    Names = {f, g}
    Contents = {x, y}
    Rows = {rows}
    Writers <- MCWriters
    Clients <- MCClients
    Server = server
    NoDb = NoDb
    Mishaps = {"stop", "start", "call", "load", "unpack", "in", "undo", "clean", "killed"}
    Counted = {"stop", "start", "call", "load", "unpack", "in", "clean", "killed"}
    MaxMishaps = 1
INIT Init
NEXT Next
INVARIANTS
    OldIsKept
    RestoredIsSaved
    ServicesPutBack
PROPERTIES
    StartedOnWhole
SYMMETRY Symmetry
