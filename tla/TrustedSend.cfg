SPECIFICATION Spec
CONSTANTS
    s1 = s1
    s2 = s2
    k1 = k1
    t1 = t1
    t2 = t2
    None = None
    Sends = {s1, s2}
    Files = {s2}
    Captures = {k1}
    Tabs = {t1, t2}
    TabOf <- MCTabOf
    MaxTries <- MCMaxTries
    MaxMishaps = 1
INVARIANTS TypeOK ClickedOnce ClickValidated FileWithItsText DebuggerExclusive PrivateImages
PROPERTIES SendsAnswered
CHECK_DEADLOCK FALSE
