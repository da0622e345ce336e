CONSTANTS
  Jobs = {"j1", "j2"}
  Followed = {"j1"}
  Firms = {f1, f2}
  NoKey = NoKey
  People = {p1}
  Inboxes = {e1, e2}
  Nothing = Nothing
  Selected <- SomeSelected
  Configs <- SomeConfigs
  MaxContacts = 2
  MaxSightings <- SomeSightings
  MaxFound = 2
SPECIFICATION Spec
INVARIANTS NoMixUps EvidenceIsLicit ThrottledStaysPending OneAnswerPaid
PROPERTIES RefusalRespected
CHECK_DEADLOCK FALSE
SYMMETRY Symmetry
