SPECIFICATION Spec
CONSTANT Codes = {0, 3}
INVARIANT ErrorsReported
