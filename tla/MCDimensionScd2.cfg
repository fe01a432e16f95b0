SPECIFICATION Spec
CONSTANTS
  a = a
  b = b
  Ids = {a, b}
  Value <- Cents
  Differs <- MoreThanACent
  Extracts <- UpToTwoRows
  None = None
  MaxTime = 3
INVARIANT TypeOK
INVARIANT VersionsTile
PROPERTY ImplementsTimeline
\* The instants run out.
CHECK_DEADLOCK FALSE
