SPECIFICATION Spec
CONSTANTS
  c1 = c1
  c2 = c2
  harness = harness
  Conns = {c1, c2}
  Tools = {harness}
  MaxRecords = 2
  MaxResets = 1
  MaxSnapshots = 1
SYMMETRY Symmetry
INVARIANTS TypeOK CountersAgree PeakIsHighest TimesSpan QuietSnapshots
CONSTRAINT StillTold
