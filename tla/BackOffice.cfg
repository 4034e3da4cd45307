CONSTANTS
    OrgNodes = {1, 2, 3, 4}
    NoNode = 0
    OrgRoles = {r1}
    People = {p1}
    Editors = {e1, e2}
    MaxClimb = 2
    LinkKinds = {"verify", "reset", "magic"}
    Mailers = {m1, m2}
    Visitors = {v1, v2}
    LinkLife = 1
    MaxTicks = 3
    Budget = 2
    Window = 3
    MaxTime = 5
    MaxAttempts = 4
    Sessions = {s1, s2}
    Enders = {x1, x2}
    RowLife = 1
    TokenLife = 4
    MaxClock = 4
    Paths = {path1, path2}
    Requesters = {q1, q2}
    Old = Old
    Absent = Absent
    Backups = 2
    FailureCount = 2
    MaxFaults = 2
    SourceRows = {row1, row2, row3}
    SyncRuns = {y1, y2}
    NoRun = NoRun
    ReadLimit = 2
    BatchSize = 1
    MaxChanges = 1
    Files = {f1, f2}
    Stores = {uploads, bucket}
    DefaultStore = uploads
    NoStore = NoStore
    Clients = {u1, u2}
    Admins = {a1, a2}
    ConfigRows = {c1, c2}
    MaxFiles = 2
SPECIFICATION MCSpec
INVARIANTS
    BackOfficeTypeOK
    CyclesAreRaced
    SpentLinksAreDead
    MailedLinksWork
    BurstBounded
    RefusalsEarned
    AcceptedAreListed
    AcknowledgedCopies
    CopiesAreWhole
    CopiesReplace
    RefusedUploadsLeaveNothing
    AcknowledgedAreServed
    UpdatesTakeHold
PROPERTIES
    OrphansCameLate
    StrippedCameLate
    DownloadsAreCurrent
CHECK_DEADLOCK FALSE
