SPECIFICATION FairSpec
CONSTANTS
  g1 = g1  g2 = g2
  long1 = long1  long2 = long2  short = short  other = other  absent = absent
  cut = cut  s = s  o = o
  NoOne = NoOne
  Header = {long1, long2, short, other, absent}
  Notice = {cut, s, o}
  Blank = Blank
  Clean <- CleanHeader
  Reader = {g1, g2}
  Cap = 2
INVARIANTS
  TypeOK
  WarnedAtMostOnce
  SeenWithinCap
  DroppedOnlyWhenFull
PROPERTIES
  SeenIsWarned
  ReaderFinishes
