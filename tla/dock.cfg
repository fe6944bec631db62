CONSTANTS
  Texts = {none, intro}
  NoText = none
  MaxEdits = 3
  MaxPolls = 2
SPECIFICATION FairSpec
INVARIANT NeverUninvited
PROPERTY DockSettles
CHECK_DEADLOCK FALSE
