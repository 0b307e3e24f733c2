SPECIFICATION Spec
CONSTANTS
    NumItems = 6
    NumKeys = 5
    Items <- MCItems
    Keys <- MCKeys
    KeyOf <- MCKeyOf
    SlotLength = 2
    IsUnique = FALSE
    MaxNodes = 20
INVARIANTS TypeOK LinksAgree ItemsKept KeysInOrder RefusesDuplicates WalkVisitsAll SearchesAgree
PROPERTIES ImplementsSortedList ChangesAreSaved
