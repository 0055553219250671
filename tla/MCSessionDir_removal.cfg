SPECIFICATION FairSpec
CONSTANTS
    c = c  u1 = u1  u2 = u2  u3 = u3  r = r  m = m  p1 = p1  p2 = p2  p3 = p3
    Creators = {c}
    Updaters = {u1, u2}
    Removers = {r}
    Makers = {}
    Process = {p1, p2, p3}
    Host <- OneEach
    MayCrash = TRUE
    NoRecord = NoRecord
    Nobody = Nobody
PROPERTIES RemovedForGood UpdateEnds
CHECK_DEADLOCK FALSE
