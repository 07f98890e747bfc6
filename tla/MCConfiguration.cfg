SPECIFICATION Spec
CONSTANTS
  Ingresses <- HostIngresses
  VirtualServers <- AllVirtualServers
  VirtualServerRoutes <- HostVirtualServerRoutes
  TransportServers <- StreamTransportServers
  GlobalConfigurations <- StreamGlobalConfigurations
  IsTLSPassthroughEnabled = TRUE
  ForbiddenListenerPorts = {80, 443}
  MaxUID = 15
CONSTRAINT OneFamily
INVARIANTS TypeOK HostOwnership ListenerOwnership NothingDropped
PROPERTIES ChangesComplete NoTransientCollision LoserTold
