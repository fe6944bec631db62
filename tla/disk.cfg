CONSTANTS
  Keep = 1
  Times = {1, 2}
  Files = {1, 2}
  Torn = torn
  MaxBackups = 2
  Names = {team, solo}
  Configured = team
  Sanitize <- MCSanitize
  NoFile = nofile
  MaxScenes = 3
  MaxVersion = 2
SPECIFICATION Spec
INVARIANT TypeOK
INVARIANT NewestAreKept
INVARIANT EditsAreSeen
PROPERTY OverwrittenIsSaved
PROPERTY OneReplaced
