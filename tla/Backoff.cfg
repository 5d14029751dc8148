CONSTANTS
  Top = 24
  Default = 3
SPECIFICATION Spec
INVARIANTS WaitInRange NeverPanics NeverNarrows
