\* Two admin handlers and the SIGHUP goroutine race on the lists.
SPECIFICATION HSpec
CONSTANTS
    c1 = c1
    c2 = c2
    bad = bad
    ip1 = ip1
    ip2 = ip2
    Text = {c1, c2, bad}
    CIDR = {c1, c2}
    IP = {ip1, ip2}
    Covers <- MCCovers
    Admin = {a1, a2}
    Reloader = reloader
    Request = {}
    Handle = {h1}
    NoDB = nodb
    NoJob = nojob
    Config <- ListConfigs
    Edit <- DenyEdits
SYMMETRY Perms
INVARIANTS OverlaysDisjoint NeededEditsSurvive
PROPERTY ImplementsAtomicLists
