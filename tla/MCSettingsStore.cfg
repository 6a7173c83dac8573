CONSTANTS
    p1 = p1
    p2 = p2
    s1 = s1
    s2 = s2
    w1 = w1
    None = None
    Torn = Torn
    Procs = {p1, p2}
    Servers = {s1, s2}
    Passwords = {w1}
SPECIFICATION Spec
SYMMETRY Symmetry
INVARIANTS
    TypeOK
    SettingsKept
PROPERTIES
    MoveKeepsPassword
