SPECIFICATION Spec
CONSTANTS
    Width = 3
    SlugMin = 2
    SlugMax = 3
    MaxLength = 4
CHECK_DEADLOCK FALSE
INVARIANTS
    SlugsNeverCollide
    NamesAreCanonical
