CONSTANTS
  plain = plain
  logo = logo
  banner = banner
  webcam = webcam
  Torn = torn
  Absent = absent
  Machines = {p, m}
  Publishers = {p}
  Scenes = {logo, banner}
  Assets = {a}
  Contents = {c1, c2, torn}
  Refs <- MCRefs
  Variants <- MCVariants
  MaxVersion = 2
  MaxFaults = 0
  SftpMove = FALSE
  LiveEdits = FALSE
  Caches = FALSE
SPECIFICATION Spec
PROPERTY NothingToPublishIsTrue
