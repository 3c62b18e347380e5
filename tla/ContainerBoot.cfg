SPECIFICATION FairSpec
INVARIANTS
  BasisIsBinding
  ReportIsTrue
PROPERTIES
  KeylessBootServes
