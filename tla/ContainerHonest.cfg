SPECIFICATION Spec
INVARIANTS
  AllLiveIsTrue
