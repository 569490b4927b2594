CONSTANTS
  bl2u = bl2u
  bl2x = bl2x
  scp = scp
  ns1 = ns1
  ns2 = ns2
  Image = {bl2u, bl2x, scp, ns1, ns2}
  Secure = {bl2u, bl2x, scp}
  Copied = {bl2u, bl2x}
  Executable = {bl2u, bl2x, ns1, ns2}
  NS_BL1U = ns1
  Base <- MCBase
  MaxSize <- MCMaxSize
  Sizes = {1, 2}
  InPlaceSizes = {2}
  FWU_MAX_SIMULTANEOUS_IMAGES = 3
  Bad = Bad
  Zero = Zero
  None = None
SPECIFICATION Spec
\* BL1 stops when the update is done.
CHECK_DEADLOCK FALSE
INVARIANTS LoadedIsTracked AuthenticIntact SecureWorldIsExecuting NoUnverifiedResidue
