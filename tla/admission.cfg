SPECIFICATION Spec
CONSTANTS
    Names = {a, b}
    Specs <- MCSpecs
    MaxCreates = 3
    PatientUser = TRUE
SYMMETRY Symmetry
INVARIANTS DataFitsSpec
CHECK_DEADLOCK FALSE
