SPECIFICATION Spec
CONSTANTS
    None = None
    KeyMap <- SomeKeys
    Numbers = {"5"}
    Running = {"browser"}
    Urls <- SomeUrls
    Settings <- SomeSettings
    Secrets = {"", "seed", "seed2"}
    Hash <- SomeHash
    HalfWord = 128
    HalfInt = 32768
    ServerConfigs <- SomeServers
    ClientConfigs <- SomeClients
    Installations <- SomeInstallations
    Databases <- SomeDatabases
    Windows = {"inbox", "bank page", "mail and bank"}
    Matching <- SomeMatching
    MaxTime = 2
CHECK_DEADLOCK FALSE
INVARIANTS
    TypeOK
    OnlyAgreedEntry
    CodeOrNothing
    CodeIsRight
    TypedAsWritten
    SequencePrecedence
    ServerPromptsRun
    NoOtherPanic
PROPERTIES
    NothingAfterCancel
    ServedAsPromised
