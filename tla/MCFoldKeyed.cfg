CONSTANTS
  Keys = {k1, k2}
  Vals = {1, 2}
  Policies = {"Tick", "Loop", "Static", "Mutable"}
  MaxInputs = 3
  MaxRuns = 2

SPECIFICATION Spec
INVARIANT TypeOK
PROPERTY ImplementsKeyedAggregate
PROPERTY ReplayEventually
