SPECIFICATION Spec
CONSTANTS
    EmailUsers = {a, b}
    FacebookUsers = {f}
    None = None
    Requests = {q1, q2}
    MaxWrites = 1
SYMMETRY Alike
CHECK_DEADLOCK FALSE
INVARIANTS
    TypeOK
    NameIsUsers
    TabsHaveUser
    InheritedSignedOut
    HudWaits
PROPERTIES
    ListKept
