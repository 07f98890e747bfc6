SPECIFICATION AllSpec
CONSTANTS
  Ingresses <- None
  VirtualServers <- RecreatedVirtualServers
  VirtualServerRoutes <- None
  TransportServers <- None
  GlobalConfigurations <- None
  IsTLSPassthroughEnabled = FALSE
  ForbiddenListenerPorts = {80, 443}
  MaxUID = 9
  MaxEdits = 4
  MaxFailures = 0
INVARIANT FilesReflectConfiguration
CHECK_DEADLOCK FALSE
