CONSTANTS
  g1 = g1
  g2 = g2
  k1 = k1
  k2 = k2
  k3 = k3
  k4 = k4
  a1 = a1
  a2 = a2
  b1 = b1
  c1 = c1
  d1 = d1
  None = None
  Goroutines <- TwoGoroutines
  Keys <- FourKeys
  Entries <- FiveEntries
  KeyOf <- FirstKeyTwice
  MaxSize = 4
  MaxCount = 4
SPECIFICATION OptSpec
SYMMETRY Symmetry
INVARIANTS OptTypeOK ListIsStore SizeDrift
PROPERTIES NoResurrection EvictsOldest
CONSTRAINT UpToTheFirstStray
VIEW View
