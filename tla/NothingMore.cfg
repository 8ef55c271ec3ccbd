\* A pod template without labels gives a policy that selects every pod, and a
\* source without a name opens its target to the whole cluster.
SPECIFICATION SynthSpec
CONSTANTS
  Names <- MCNames
  Namespaces <- MCNamespaces
  Kinds <- MCKinds
  Labels <- MCLabels
  PortNames <- MCPortNames
  DNSPort <- MCDNSPort
  Inputs <- OddInputs
INVARIANT NothingMore
