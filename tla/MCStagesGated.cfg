CONSTANTS
  Jobs = {"j1", "j2"}
  Followed = {"j1"}
  Firms = {f1}
  NoKey = NoKey
  People = {p1}
  Inboxes = {e1, e2}
  Nothing = Nothing
  Selected <- SomeSelected
  Configs <- SomeConfigs
  MaxContacts = 1
  MaxSightings <- SomeSightings
  MaxFound = 2
SPECIFICATION Spec
INVARIANTS UnavailableSkipped
CHECK_DEADLOCK FALSE
