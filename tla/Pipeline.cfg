SPECIFICATION Spec
CONSTANT Views = {{"bull"}, {"bear"}}
INVARIANTS
  OutagesDegrade
  EvidenceWasArgued
  StoredIsSupported
  NarrativeIsLast
PROPERTY ServiceSpec
CHECK_DEADLOCK FALSE
