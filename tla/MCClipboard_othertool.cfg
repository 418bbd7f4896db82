SPECIFICATION FairSpec
CONSTANTS
    None = None
    xsel = xsel
    wl = wl
    pw1 = pw1
    pw2 = pw2
    url = url
    Tools = {xsel, wl}
    Secrets = {pw1}
    UserTexts = {url}
    Configs <- TwoTools
    Cleaners = {c1}
    Faults = {}
CHECK_DEADLOCK FALSE
PROPERTIES
    SecretsRemoved
