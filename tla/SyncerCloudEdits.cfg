SPECIFICATION Spec
CONSTANTS
  Items = {i1}
  Fields = {f1, e1}
  Entries = {e1}
  Groups = {}
  MergeThrows <- GroupsRemoved
  LocalTakesTombstones = TRUE
  MaxActive = 1
  EditSites = {"local", "cloud"}
  EditsDuringSync = FALSE
  FaultKinds = {}
  MaxEdits = 3
  MaxFaults = 0
PROPERTY CloudEditsSurvive
