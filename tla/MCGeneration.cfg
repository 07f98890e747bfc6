\* Every VirtualServer of MCGeneration.
SPECIFICATION Spec
CONSTANTS
  Nil = Nil
  Inputs <- MCInputs
  Policies <- MCPolicies
  Secrets <- MCSecrets
  ApNames <- MCApNames
  Services <- MCServices
INVARIANTS RoutesAsDeclared PoliciesEnforced NoNilSecretRef
