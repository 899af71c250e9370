SPECIFICATION Spec
CONSTANTS
  Values <- Two
  Default = "default"
INVARIANTS FileIsWhole FileFollowsMembers GetTellsMembers ConfigInv
PROPERTIES CopyIsWhole ImplementsConfigurationStore
