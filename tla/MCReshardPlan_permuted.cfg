SPECIFICATION Spec
CONSTANT Cases <- ColumnsCutFiner
INVARIANTS ReadyMeansFilled
