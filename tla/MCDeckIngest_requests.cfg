SPECIFICATION Spec
CONSTANTS
    Users <- MCUsers
    Anonymous = anonymous
    r1 = r1
    r2 = r2
    Requests <- MCRequests
    Uploads <- MCUploads
    Payloads <- MCPayloads
    Dictionaries <- MCDictionaries
    Parsers = {"custom"}
    Selections <- MCSelections
    MaxImportChars = 6
    MaxTextChars = 6
    AnonMaxChars = 3
SYMMETRY MCSymmetry
INVARIANTS
    OverviewMatchesDeck
    OnlySelectedSensesAdded
    HistoryMatchesDecks
    ImportedBookParses
