CONSTANTS
  plain = plain
  logo = logo
  banner = banner
  webcam = webcam
  Torn = torn
  Absent = absent
  Machines = {p, q}
  Publishers = {p, q}
  Scenes = {plain, logo}
  Assets = {a}
  Contents = {c1, torn}
  Refs <- MCRefs
  Variants <- MCVariants
  MaxVersion = 2
  MaxFaults = 0
  SftpMove = TRUE
  LiveEdits = TRUE
  Caches = TRUE
SPECIFICATION Spec
SYMMETRY MCSymmetry
INVARIANT AppliesWholeVersion
