SPECIFICATION Spec
CONSTANTS
    u1 = u1  u2 = u2  r1 = r1  r2 = r2  a1 = a1  a2 = a2  s1 = s1
    NoSense = NoSense  NoClass = NoClass
    Users <- TwoUsers
    Requests <- TwoRequests
    Admins <- TwoAdmins
    Surfaces <- Umlaut
    Senses <- OneSense
    Classes = {"parser_issue"}
    NormOf <- Norm
    LowerOf <- Lower
    QuarantineThreshold = 2
    MaxSessions = 2
    MaxReports = 2
SYMMETRY Symmetry
INVARIANT ListsAgree
INVARIANT TriagedBeforeActed
PROPERTY OnlyAdminsHide
CHECK_DEADLOCK FALSE
