SPECIFICATION Spec
CONSTANTS
    None = None
    db1 = db1
    db2 = db2
    pw1 = pw1
    pw2 = pw2
    key1 = key1
    yubi1 = yubi1
    Databases = {db1}
    Passwords = {pw1}
    KeyFiles = {}
    Challenges = {}
    OpenedBy <- PasswordOnly
    Main = main
    Threads = {main, r1}
    Trees = {i1, i2, i3, i4}
    ServerConfigs <- DaemonServers
    ClientConfigs <- DaemonClients
    MaxTimeout = 2
    StartTime = 3
    LastCall = 3
    MaxTime = 3
    Faults = {}
CHECK_DEADLOCK FALSE
INVARIANTS
    SelectedIsReadable
