SPECIFICATION AdministrationSpec
CONSTANTS
    None = None
    p1 = p1 p2 = p2 bistro = bistro stress = stress w1 = w1
    decisions = decisions events = events extra = extra api_credentials = api_credentials
    Operators = {p1, p2}
    Configured <- OneConfigured
    Escalated <- OneEscalated
    MaxKeys = 4
    Tasks = {w1}
    FirstTables = {decisions, events, api_credentials}
    AddedTables = {extra}
    ReaderTables = {decisions}
    AuthTable = api_credentials
    MaxPasswords = 4
CHECK_DEADLOCK FALSE
SYMMETRY Symmetry
INVARIANTS AdministrationTypeOK NoLockOut GrantsAreGuarded
PROPERTIES RotationDelivers KeysAreKept AccessIsKept
