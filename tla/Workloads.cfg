\* Two workloads and up to two ConfigMaps before, between and after them.
SPECIFICATION Spec
CONSTANTS
  Names <- MCNames
  NoConfigMap = NoConfigMap
  Namespaces <- MCNamespaces
  Keys <- MCKeys
  Values <- MCValues
  AddressIn <- MCAddressIn
  InfoLists <- MCInfoLists
INVARIANTS TypeOK AddressesExact DanglingReported
PROPERTY InliningEnds
