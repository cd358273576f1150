SPECIFICATION Spec
CONSTANTS
  Slots = {o1, o2}
  Ids = {i1, i2}
  PlugIds = {i3}
  Values = {v1}
  Disabled = Disabled
  Blank = Blank
  Bare = Bare
  Rules = {Bare}
  Garbage = Garbage
  Tints = {"temperature"}
  Top = 1
  Default = 1
  Missing = Missing
  Reports = {0, 1}
  None = None
SYMMETRY Symmetry
INVARIANTS
    MarksTruthful
    JsonMatchesActive
    ControlsFollowReports
PROPERTIES
    TimersShown
    TriggersShown
