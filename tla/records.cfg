SPECIFICATION RecordsSpec
CONSTANTS
  None = None
  Writers = {"w1", "w2"}
  Branch = "branch"
  Tickets = {"T-1"}
  Linked = {"PR"}
  Rule = {"bug"}
  Tags = {"feature"}
  MaxSaves = 2
  MaxCopies = 2
INVARIANTS
  RecordsTypeOK
  DerivedIsRight
  NothingIsMissing
  Classified
  ReadRight
  DoneAsAsked
PROPERTIES
  NothingTakenBack
CHECK_DEADLOCK FALSE
