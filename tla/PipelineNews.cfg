SPECIFICATION Spec
CONSTANT Views = {{"bull"}, {"bear"}}
INVARIANT NewsNeverBreaks
CHECK_DEADLOCK FALSE
