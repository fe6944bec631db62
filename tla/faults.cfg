CONSTANTS
  plain = plain
  logo = logo
  banner = banner
  webcam = webcam
  Torn = torn
  Absent = absent
  Machines = {p, m}
  Publishers = {p}
  Scenes = {logo, webcam}
  Assets = {a}
  Contents = {c1, torn}
  Refs <- MCRefs
  Variants <- MCVariants
  MaxVersion = 2
  MaxFaults = 2
  SftpMove = FALSE
  LiveEdits = FALSE
  Caches = FALSE
SPECIFICATION Spec
INVARIANT TypeOK
INVARIANT UpToDateMeansSame
PROPERTY PublishesOnItsBase
PROPERTY KeepsPromise
