\* Services and the resources that point at them, in any order.
SPECIFICATION AccSpec
CONSTANTS
  Names <- MCNames
  Namespaces <- MCNamespaces
  Kinds <- MCKinds
  Labels <- MCLabels
  PortNames <- MCPortNames
  InfoLists <- MCInfoLists
INVARIANTS AccTypeOK ExposedExactly
PROPERTIES NeverClosed AccTermination
