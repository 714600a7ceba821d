SPECIFICATION Spec
CONSTANTS
    c1 = c1  c2 = c2  c3 = c3  ann = ann  bob = bob  p1 = p1  p2 = p2  s1 = s1
    update = update  t1 = t1  t2 = t2  u1 = u1  x1 = x1  r1 = r1  ip1 = ip1
    a1 = a1  d1 = d1  d2 = d2  Unused = Unused
    Calls = {c1, c2, c3}
    MaxFaults = 1
    Emails = {ann, bob}
    Passwords = {p1, p2}
    Stores = {s1}
    Operations = {"register", "login", "refresh", "logout", "logoutAll", "verify2FA", "enable2FA", "changePassword", "quickStart"}
    Imported = {ann}
    NoStore = NoStore  NoPassword = NoPassword  NoCall = NoCall
    Actions = {update}
    MaxSnapshots = 1  MaxRestarts = 1  MaxHorizon = 2
    NoTenant = NoTenant  NoAction = NoAction  NoSnapshot = NoSnapshot
    TenantKeys = 1  SystemKeys = 1  AutoRotation = TRUE
    MaxDays = 4  MaxCrashes = 1  MaxLines = 1  ChunkLines = 1  ArchiveAge = 1  RetentionAge = 0
    Total = 3  BatchSize = 2  MaxRetries = 3
    Requests = {r1}
    Tenants = {t1, t2}
    Registered = {t1}
    Users = {u1}
    Products = {x1}
    Nobody = Nobody
    Ips = {ip1}  NoIp = NoIp
    Alerts = {a1}
    Domains = {d1, d2}
    Short = {d2}
    NoDomain = NoDomain
    MaxLaunches = 2  MaxChecks = 2
SYMMETRY Symmetry
INVARIANTS
    TypeOK
    OneAccountPerEmail
    ChangeSurvives
    SessionsEndTogether
    NewestAreKept
    StoreIsBounded
    IntervalsAreKnown
    RotationStaysOn
    FiledEntriesSurvive
    ReportIsTrue
    RowsStayWithTheTenant
    RecordedAfterBlocking
    NoFailureIsSilent
    ProductionHasItsSecrets
    DialogIsHonest
CHECK_DEADLOCK FALSE
