SPECIFICATION Spec
CONSTANTS
    Writers = {w1, w2}
    Readers = {r}
    Tabs = {t1, t2}
    UserTabs = {}
    MaxReusable = 1
    MaxGone = 1
    MaxMishaps = 1
    None = None
INVARIANTS TypeOK OneWriterPerTab ReadersApart 
PROPERTIES OpenEnds
