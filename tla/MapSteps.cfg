SPECIFICATION Spec
CONSTANTS
  Items = {x1, x2, x3, x4}
  Keys = {k1, k2}
  NoItem = none
  Garbage = garbage
INVARIANT ArraySound
PROPERTY ImplementsDictionary
