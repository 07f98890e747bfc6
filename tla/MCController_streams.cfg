SPECIFICATION FairSpec
CONSTANTS
  Ingresses <- None
  VirtualServers <- None
  VirtualServerRoutes <- None
  TransportServers <- StreamTransportServers
  GlobalConfigurations <- StreamGlobalConfigurations
  IsTLSPassthroughEnabled = TRUE
  ForbiddenListenerPorts = {80, 443}
  MaxUID = 9
  MaxEdits = 4
  MaxFailures = 0
INVARIANTS FilesReflectConfiguration NginxServesListeners
PROPERTY Quiesces
CHECK_DEADLOCK FALSE
