SPECIFICATION Spec
CONSTANTS
  Lengths = {0, 1, 127, 128, 256}
  KeyLengths = {1, 127, 128}
  Values <- MCValues
  Commands <- MCCommands
  MaxBody = 400
 
INVARIANT EstimateCovers
 
