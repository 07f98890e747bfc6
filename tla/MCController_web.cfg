SPECIFICATION AllSpec
CONSTANTS
  Ingresses <- WebIngresses
  VirtualServers <- WebVirtualServers
  VirtualServerRoutes <- WebVirtualServerRoutes
  TransportServers <- WebTransportServers
  GlobalConfigurations <- WebGlobalConfigurations
  IsTLSPassthroughEnabled = FALSE
  ForbiddenListenerPorts = {80, 443}
  MaxUID = 9
  MaxEdits = 4
  MaxFailures = 1
INVARIANTS AllTypeOK FilesReflectConfiguration NginxServesSenior StatusTruthful ValidMeansRunning
CHECK_DEADLOCK FALSE
