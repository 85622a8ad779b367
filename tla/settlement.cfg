SPECIFICATION Spec
CONSTANTS
    Grams = {1, 499, 1000, 1333, 23000}
    Odd = {1, 2, 3, 7, 13, 25, 49, 50, 51, 99, 101, 12347}
CHECK_DEADLOCK FALSE
INVARIANTS
    DivisionConserves
PROPERTIES
    WaitingNeverPays
