SPECIFICATION FairSpec
CONSTANTS
    t1 = t1
    t2 = t2
    w1 = w1
    w2 = w2
    Tasks = {t1, t2}
    Writers = {w1, w2}
    MaxWrites = 2
INVARIANTS
    TypeOK
    SeesQuietWrites
PROPERTIES
    HealsEventually
