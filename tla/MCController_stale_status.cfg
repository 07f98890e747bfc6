SPECIFICATION AllSpec
CONSTANTS
  Ingresses <- WebIngresses
  VirtualServers <- WebVirtualServers
  VirtualServerRoutes <- WebVirtualServerRoutes
  TransportServers <- WebTransportServers
  GlobalConfigurations <- WebGlobalConfigurations
  IsTLSPassthroughEnabled = FALSE
  ForbiddenListenerPorts = {80, 443}
  MaxUID = 9
  MaxEdits = 3
  MaxFailures = 0
INVARIANT StatusCurrent
CHECK_DEADLOCK FALSE
