CONSTANTS
  p = p
  m = m
  c920 = c920
  facecam = facecam
  builtin = builtin
  Machines = {p, m}
  Publishers = {p}
  Sources = {cam}
  Keys = {video}
  Own <- MCOwn
  Default = default
  Empty = empty
  Unset = unset
  Gone = gone
SPECIFICATION Spec
INVARIANT TypeOK
INVARIANT DevicesStayHome
PROPERTY OwnDeviceComesBack
