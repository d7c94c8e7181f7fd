SPECIFICATION Spec
CONSTANTS
  m1 = m1
  m2 = m2
  det = det
  old = old
  None = None
  Rev = {1, 2}
  Handler = {m1, m2}
  Panel = panel
  Tab = tab
  Actor = {m1, m2, panel, tab}
  Det = det
  Other = {old}
  Locks = TRUE
  MaxEvents = 2
INVARIANTS PortraitTrue BorrowedOnly ObsoleteNeverStays
PROPERTIES OwnCardsSafe
CHECK_DEADLOCK FALSE
