SPECIFICATION Spec
CONSTANTS
    None = None
    xsel = xsel
    wl = wl
    pw1 = pw1
    pw2 = pw2
    url = url
    Tools = {xsel}
    Secrets = {pw1}
    UserTexts = {url}
    Configs <- OneTool
    Cleaners = {c1}
    Faults = {}
CHECK_DEADLOCK FALSE
PROPERTIES
    UserTextStays
