SPECIFICATION Spec
CONSTANTS
  Items = {i1, i2}
  Fields = {f1, e1}
  Entries = {e1}
  Groups = {}
  MergeThrows <- GroupsRemoved
  LocalTakesTombstones = TRUE
  MaxActive = 2
  EditSites = {"local", "cloud"}
  EditsDuringSync = FALSE
  FaultKinds = {"list", "load", "quit"}
  MaxEdits = 4
  MaxFaults = 1
PROPERTIES SyncsAreAtomic SyncsRespectEdits
SYMMETRY ItemSymmetry
