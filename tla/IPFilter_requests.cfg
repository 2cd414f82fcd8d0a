\* Two requests in Allowed while reloads replace the lists and the geo database.
SPECIFICATION HFairSpec
CONSTANTS
    c1 = c1
    c2 = c2
    bad = bad
    ip1 = ip1
    ip2 = ip2
    Text = {c1, c2, bad}
    CIDR = {c1, c2}
    IP = {ip1}
    Covers <- OneAddress
    Admin = {}
    Reloader = reloader
    Request = {r1, r2}
    Handle = {h1, h2}
    NoDB = nodb
    NoJob = nojob
    Config <- GeoConfigs
    Edit <- NoEdits
INVARIANTS VerdictJustified NoUseAfterClose NoHandleLeak
PROPERTIES ReloadFinishes RequestFinishes
