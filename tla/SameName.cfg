\* deploysConnectivity is keyed by name: workloads of one name share an entry.
SPECIFICATION SynthSpec
CONSTANTS
  Names <- MCNames
  Namespaces <- MCNamespaces
  Kinds <- MCKinds
  Labels <- MCLabels
  PortNames <- MCPortNames
  DNSPort <- MCDNSPort
  Inputs <- SameNameInputs
INVARIANT EachConnectionHasRules
