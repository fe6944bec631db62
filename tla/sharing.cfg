CONSTANTS
  p = p
  m = m
  Machines = {p, m}
  AssetsToken = token
  Lower <- MCLower
  Drives <- MCDrives
  Dotted <- MCDotted
  Dir <- MCDir
  Typed <- MCTyped
  Profiles <- MCProfiles
  NoProfile = noprofile
  VideoPages <- MCPages
  MaxVersion = 3
SPECIFICATION Spec
INVARIANT SameOverlay
INVARIANT SameCanvas
PROPERTY ProfileIsKept
