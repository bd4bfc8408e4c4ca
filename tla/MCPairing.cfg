SPECIFICATION FairSpec
CONSTANTS
  Credentials = {a, b, c, d}
  Invocations = {p1}
  MaxBundles = 2
  None = None
INVARIANTS PairingInv RegisteredCredentialHeld EnabledHasCredential
PROPERTIES BundleGivenUpWhenPaired EventuallyPaired
CHECK_DEADLOCK FALSE
