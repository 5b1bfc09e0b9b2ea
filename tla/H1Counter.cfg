CONSTANTS
  Pages <- MCPages
  needle <- MCNeedle
  BufferSizes = {0, 2, 3, 8}
SPECIFICATION Spec
INVARIANTS
  BytesAreAccounted
  NeverOvercounts
  FillingIsDeterministic
PROPERTY Terminates
