\* A Route to the number of a pod port exposes no port of the service.
SPECIFICATION AccSpec
CONSTANTS
  Names <- MCNames
  Namespaces <- MCNamespaces
  Kinds <- MCKinds
  Labels <- MCLabels
  PortNames <- MCPortNames
  InfoLists <- RouteLists
INVARIANT RoutedPortsExposed
