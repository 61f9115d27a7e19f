\* Up to two entries with each of five keys.
CONSTANTS
    Key = {0, 1, 2, 3, 4}
    Data = {1, 2}
    MaxHeight = 5
SPECIFICATION Spec
INVARIANTS SearchTree FindAgrees
PROPERTIES ImplementsEntrySet
