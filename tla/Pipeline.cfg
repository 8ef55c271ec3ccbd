\* Manifests in any order, through exposure and discovery to the policies.
SPECIFICATION PipeSpec
CONSTANTS
  Names <- MCNames
  Namespaces <- MCNamespaces
  Kinds <- MCKinds
  Labels <- MCLabels
  PortNames <- MCPortNames
  DNSPort <- MCDNSPort
  Inputs <- MCInputs
  InfoLists <- MCInfoLists
INVARIANTS PointedIsOpen OpenOnlyIfPointed
PROPERTIES PipeTermination
