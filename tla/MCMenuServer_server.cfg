SPECIFICATION FairSpec
CONSTANTS
    None = None
    db1 = db1
    db2 = db2
    pw1 = pw1
    pw2 = pw2
    key1 = key1
    yubi1 = yubi1
    Databases = {db1, db2}
    Passwords = {pw1, pw2}
    KeyFiles = {key1}
    Challenges = {yubi1}
    OpenedBy <- PasswordAndYubikey
    Main = main
    Threads = {main}
    Trees = {i1, i2, i3, i4}
    ServerConfigs <- CacheServers
    ClientConfigs <- CacheClients
    MaxTimeout = 3
    StartTime = 4
    LastCall = 7
    MaxTime = 10
    Faults = {"listen", "accept", "packet", "config", "panic"}
CHECK_DEADLOCK FALSE
INVARIANTS
    TypeOK
    LeaseRespected
    WaitBounded
    LoadedIsProven
    SelectedIsReadable
PROPERTIES
    KeepsPromise
    CallAnswered
    ServerStops
