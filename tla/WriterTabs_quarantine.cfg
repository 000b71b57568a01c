SPECIFICATION Spec
CONSTANTS
    Writers = {w1, w2}
    Readers = {r}
    Tabs = {t1, t2}
    UserTabs = {}
    MaxReusable = 1
    MaxGone = 1
    MaxMishaps = 2
    None = None
INVARIANTS QuarantineDurable
