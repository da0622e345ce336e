CONSTANTS
  Tabs = {"Contacts", "Sales_Ready_Leads", "Companies"}
  Keys = {k1, k2, k3}
  NoNote = NoNote
  Flushers = {w1}
  MaxDeaths = 1
  MaxWrites = 4
  MaxNotes = 1
SPECIFICATION Spec
CHECK_DEADLOCK FALSE
INVARIANTS NotesStayWithLead
