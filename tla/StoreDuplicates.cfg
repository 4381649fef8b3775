SPECIFICATION BoundedSpec
CONSTANTS
    Visitors = {v1}
    Contents = {c1, c2}
    Procs = {p1, p2}
    MaxRows = 3
PROPERTIES
    LoginKeepsOne
SYMMETRY Symmetry
CHECK_DEADLOCK FALSE
