SPECIFICATION Spec
CONSTANTS
  Claimants <- MCClaimants
  MaxUID = 9
INVARIANTS TypeOK HeldBySenior GrantedOrWarned OrderIndependent
CHECK_DEADLOCK FALSE
