SPECIFICATION UpgradeSpec
CONSTANTS
    Absent = Absent
    w1 = w1
    w2 = w2
    c1 = c1
    c2 = c2
    f1 = f1
    f2 = f2
    p1 = p1
    p2 = p2
    Processes = {p1, p2}
    Words = {w1, w2}
    Cards = {c1, c2}
    Forms = {f1, f2}
    Versions <- MCVersions
    Seen <- MCSeen
    Lemma <- MCLemma
    Senses = {m1, m2}
    m1 = m1
    m2 = m2
    MaxStarts = 3
INVARIANTS ServedIsCurrent FailsOnlyOnLeftovers LearningKept
SYMMETRY MCSymmetry
CONSTRAINT Unraced
CHECK_DEADLOCK FALSE
