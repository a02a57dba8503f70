SPECIFICATION Spec
CONSTANT HasEngine = FALSE
INVARIANT NeverPanics
