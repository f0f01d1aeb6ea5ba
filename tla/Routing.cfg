CONSTANTS
  PodCount = 2
  PodWidth = 2
  CoresPerSpine = 2
  HostsPerLeaf = 1
SPECIFICATION Spec
INVARIANTS RouteExists AtMostSixLinks AddressesResolve
PROPERTIES EveryHopCloser
