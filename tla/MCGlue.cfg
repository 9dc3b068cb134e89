SPECIFICATION Spec
CONSTANTS
  undefined = undefined
  warning = warning
  Objects <- Values
  Constant = undefined
  Reserved = 2
  Wrappers = {w1, w2}
  Pointers = {1, 2}
  MaxHeld = 3
  MaxTraps = 1
INVARIANTS CallsBalanced WrappersOwn
PROPERTIES ImplementsTable GrowsOnlyWhenFull
