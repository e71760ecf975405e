CONSTANTS
    f = f
    g = g
    x = x
    y = y
    rows = rows
    app = app
    side = side
    server = server
    Names = {f, g}
    Contents = {x, y}
    Rows = {rows}
    Writers <- MCWriters
    Clients <- MCClients
    Server = server
    NoDb = NoDb
    Mishaps = {"out"}
    Counted = {"out"}
    MaxMishaps = 1
INIT Init
NEXT Next
INVARIANTS
    UnchangedIsUnchanged
SYMMETRY Symmetry
