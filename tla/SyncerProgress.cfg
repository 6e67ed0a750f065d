SPECIFICATION Spec
CONSTANTS
  Items = {i1, i2, i3}
  Fields = {e1}
  Entries = {e1}
  Groups = {e1}
  MergeThrows <- GroupsRemoved
  LocalTakesTombstones = TRUE
  MaxActive = 2
  EditSites = {"local", "cloud"}
  EditsDuringSync = TRUE
  FaultKinds = {"list", "load", "save", "record", "quit", "crash"}
  MaxEdits = 3
  MaxFaults = 1
INVARIANT LastSyncedRevisionsExist
INVARIANT ProgressAddsUp
INVARIANT CompletedSyncCoversListing
SYMMETRY ItemSymmetry
