SPECIFICATION Spec
CONSTANTS
  Words <- MCWords
  Careful = TRUE
  None = None
INVARIANT DecodesAsEncoded
