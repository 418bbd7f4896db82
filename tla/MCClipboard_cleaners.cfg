SPECIFICATION FairSpec
CONSTANTS
    None = None
    xsel = xsel
    wl = wl
    pw1 = pw1
    pw2 = pw2
    url = url
    Tools = {xsel, wl}
    Secrets = {pw1, pw2}
    UserTexts = {url}
    Configs <- AllConfigs
    Cleaners = {c1, c2}
    Faults = {"exit", "paste", "clean"}
CHECK_DEADLOCK FALSE
INVARIANTS
    TypeOK
    ExitWaits
PROPERTIES
    SecretsRemovedIfUndisturbed
    SecretsStayWatched
