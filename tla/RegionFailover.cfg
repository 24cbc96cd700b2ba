SPECIFICATION Spec
CONSTANTS
  east = east
  west = west
  south = south
  Regions <- MCRegions
  FirstPrimary = east
  Calls = {c1, c2}
  Preferred <- MCPreferred
  None = None
INVARIANTS
  OneFailoverAtATime
  PrimaryIsWritable
  OnePrimary
PROPERTIES
  FailoverEnds
