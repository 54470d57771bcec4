SPECIFICATION Spec
CONSTANTS
  s1 = s1
  s2 = s2
  s3 = s3
  s4 = s4
  Stores = {s1, s2, s3, s4}
  MaxTries = 1
SYMMETRY StoreSymmetry
INVARIANT OneOwnerAlways
\* Every process may die.
CHECK_DEADLOCK FALSE
