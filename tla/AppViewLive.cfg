SPECIFICATION RepeatedAppSpec
CONSTANTS
  Items = {i1}
  Fields = {f1, e1}
  Entries = {e1}
  Groups = {e1}
  MergeThrows <- GroupsRemoved
  LocalTakesTombstones = FALSE
  MaxActive = 1
  EditSites = {"local", "cloud"}
  EditsDuringSync = TRUE
  FaultKinds = {"list", "load", "quit"}
  MaxEdits = 3
  MaxFaults = 1
PROPERTIES StoresConverge SyncsSucceedAgain SavesAreAnswered
