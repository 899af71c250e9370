SPECIFICATION Spec
CONSTANTS
  Values <- Two
  Default = "default"
INVARIANTS RestartKeepsConfiguration
