CONSTANTS
    Servers = {s1, s2}
    Users = {u1, u2}
    DeviceIds = {d1, d2}
    Edits <- MCEdits
    Cuts <- MCCuts
    Removals = {"token", "server"}
    MaxEdits = 2
    NULL = NULL
SPECIFICATION Spec
INVARIANTS
    SettingsWhole
    WishesInForce
