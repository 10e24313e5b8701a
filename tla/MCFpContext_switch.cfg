SPECIFICATION ContextSpec
CONSTANTS
  t1 = t1
  t2 = t2
  t3 = t3
  None = None
  Threads <- MCThreads
  Values = {0, 1}
  Zero = 0
  Flags = {"NX"}
  RmBits = {"rm0"}
  Policies <- MCPolicies
  SavesFcsr = FALSE
  Careful = TRUE
SYMMETRY Symmetric
INVARIANTS
  ContextTypeOK
  FcsrBehind
PROPERTY ThreadsSpec
