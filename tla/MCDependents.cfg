\* Every world of MCDependents: two or three events at any time after the start.
SPECIFICATION Spec
CONSTANTS
  Worlds <- MCWorlds
  APPolicies <- MCPolicies
  APLogConfs <- MCLogConfs
  APUserSigs <- MCUserSigs
  MaxFailures = 1
INVARIANTS DependentsTypeOK ConfigReflectsDependents NoDanglingReference SecretFilesCurrent SVIDNotTorn AddressesReported
PROPERTIES Settles APRefines
