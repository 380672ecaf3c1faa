SPECIFICATION CompressorSpec
CONSTANTS
  Users = {1, 2, 3}
  TableRows = {s1, s2}
  Pages = {p1, p2, p3, p4}
  Text <- Texts
  Input <- Inputs
  ShortRatio = 2
  LongRatio = 4
  PageLength = 4
  MaxRows = 6
INVARIANTS
  EntriesAreExact
SYMMETRY PlaceSymmetry
