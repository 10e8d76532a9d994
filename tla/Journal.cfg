SPECIFICATION Spec
CONSTANTS
    MaxBytes = 5
    Lengths = {2, 3, 5, 6}
INVARIANT JournalBounded
