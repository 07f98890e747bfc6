SPECIFICATION Spec
CONSTANTS
  Ingresses <- None
  VirtualServers <- None
  VirtualServerRoutes <- None
  TransportServers <- EditedTransportServers
  GlobalConfigurations <- EditedGlobalConfigurations
  IsTLSPassthroughEnabled = TRUE
  ForbiddenListenerPorts = {80, 443}
  MaxUID = 9
PROPERTIES ChangesComplete
