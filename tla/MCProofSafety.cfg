SPECIFICATION Spec
CONSTANTS
  U = U  USD1 = USD1  USDC = USDC
  alice = alice  bob = bob  mallory = mallory
  Tokens = {U, USD1, USDC}
  Permit2 = {USDC}
  Unprefixed = U
  Proofs <- MCProofs
  Requests = {r1, r2}
  Seller = seller
  Price = 2
  MaxUint = 6
  MaxWindow = 2
  MaxTime = 4
  MaxJobs = 2
SYMMETRY Symmetry
INVARIANTS JobsAuthorized IdentitySound JobsRecoverable
