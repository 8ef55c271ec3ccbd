\* From the discovery of connections to the last policy, on 14029 applications.
SPECIFICATION SynthSpec
CONSTANTS
  Names <- MCNames
  Namespaces <- MCNamespaces
  Kinds <- MCKinds
  Labels <- MCLabels
  PortNames <- MCPortNames
  DNSPort <- MCDNSPort
  Inputs <- MCInputs
INVARIANTS
  TypeOK OnlyRequired AllRequired NoRepeats UsedPortsExact
  SynthTypeOK HalvesPaired DetectedAllowed OnlyDetectedAllowed ExposedIsOpen
  DeniedByDefault
PROPERTIES ImplementsPromise Termination SynthTermination
