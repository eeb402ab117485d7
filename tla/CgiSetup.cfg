SPECIFICATION Spec
CONSTANTS
  TextLimit = 3
  Browsers = {"b1", "b2"}
  Pages <- BrowserPages
  Names = {"wlan0", "n1"}
  Words <- WordSet
  Texts <- TextSet
  Editable <- PageFields
  Shipped <- Example
  MaxForms = 2
  MaxEdits = 1
  MaxFaults = 1
CHECK_DEADLOCK FALSE
INVARIANTS
  EditsKept
  ReadableAsWritten
  BootsUnlessRaced
