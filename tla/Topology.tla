------------------------------ MODULE Topology ------------------------------
(***************************************************************************)
(* The data that the analyzer extracts from manifests (types.go) and the   *)
(* pure questions that connection discovery asks about it                  *)
(* (connections.go): does this service select that workload, which network *)
(* addresses reach it, which of its ports does an address name.            *)
(*                                                                         *)
(* Strings are abstracted to what the code tells apart:                    *)
(*   - a resource name is a natural number, its rank in Go's string order  *)
(*     (sort.Slice compares names), and 0 is the empty name;               *)
(*   - a label is an atom for one "key:value" string;                      *)
(*   - a network address is a record for                                   *)
(*        <svc>[.<namespace>[.svc.cluster.local]][:<port>]                 *)
(*     which is one-to-one with the string because the names and the       *)
(*     namespaces of Kubernetes services contain neither dots nor colons.  *)
(***************************************************************************)
EXTENDS Naturals, Sequences

CONSTANTS
  Names,        \* resource names, ranked
  Namespaces,   \* namespaces; "" is a manifest without metadata.namespace
  Kinds,        \* workload kinds (Deployment, Pod, ...)
  Labels,       \* "key:value" strings
  PortNames     \* names of ports; "" is a port without a name

NoName == 0
NoNamespace == ""
NoPort == 0

ASSUME NamesAssumption == Names \subseteq Nat
ASSUME PortNamesAssumption == "" \in PortNames

-----------------------------------------------------------------------------
(* types.go *)

\* intstr.IntOrString: a number, or a name when str # "".
IntOrString == [int : Nat, str : PortNames]

\* SvcNetworkAttr: one port of a service.
SvcNetworkAttr ==
  [name : PortNames, port : Nat, targetPort : IntOrString,
   protocol : {"", "TCP", "UDP"}, exposeToCluster : BOOLEAN]

\* The host part of an address: <svc>, <svc>.<ns> or <svc>.<ns>.svc.cluster.local
Host == [svc : Names, namespace : Namespaces, fqdn : BOOLEAN]

\* A network address found in a workload; NoPort when it ends at the host.
Address == [host : Host, port : Nat]

Resource ==
  [name : Names, namespace : Namespaces, kind : Kinds,
   labels : SUBSET Labels, networkAddrs : Seq(Address)]

Service ==
  [name : Names, namespace : Namespaces, selectors : SUBSET Labels,
   exposeExternally : BOOLEAN, network : Seq(SvcNetworkAttr)]

\* Resource.equals: the identity of a workload is its name, namespace and kind.
SameResource(r1, r2) ==
  /\ r1.name = r2.name
  /\ r1.namespace = r2.namespace
  /\ r1.kind = r2.kind

-----------------------------------------------------------------------------
(* connections.go *)

\* findServices keeps a service of the workload's namespace whose selectors
\* are all among the workload's labels (areSelectorsContained). A service
\* without selectors matches every workload of its namespace.
Matches(svc, res) ==
  /\ svc.namespace = res.namespace
  /\ svc.selectors \subseteq res.labels

\* getPossibleServiceAddresses: the hosts under which res may reach svc. The
\* namespaced forms need a namespace, the short form a shared one.
PossibleHosts(svc, res) ==
  LET hostIn(ns, fqdn) == [svc |-> svc.name, namespace |-> ns, fqdn |-> fqdn]
  IN  (IF svc.namespace # NoNamespace
         THEN {hostIn(svc.namespace, FALSE), hostIn(svc.namespace, TRUE)}
         ELSE {})
      \union
      (IF svc.namespace = res.namespace
         THEN {hostIn(NoNamespace, FALSE)}
         ELSE {})

\* The indices of the ports of svc with number n.
PortsNumbered(svc, n) == {i \in DOMAIN svc.network : svc.network[i].port = n}

\* envValueMatchesService tries the ports in order and returns the first.
FirstPortNumbered(svc, n) ==
  svc.network[CHOOSE i \in PortsNumbered(svc, n) :
                \A j \in PortsNumbered(svc, n) : i <= j]

\* envValueMatchesService: addr, found in res, is an address of svc; if it
\* names a port, the service has a port of that number.
AddressMatches(addr, svc, res) ==
  /\ addr.host \in PossibleHosts(svc, res)
  /\ addr.port = NoPort \/ PortsNumbered(svc, addr.port) # {}

\* The loop of findSource appends the port an address names to the copy's
\* UsedPorts; an address that matches without a port adds nothing.
AddUsedPort(used, addr, svc, res) ==
  IF AddressMatches(addr, svc, res) /\ addr.port > NoPort
    THEN Append(used, FirstPortNumbered(svc, addr.port))
    ELSE used

\* svcHasExposedPorts
HasExposedPorts(svc) ==
  \/ svc.exposeExternally
  \/ \E i \in DOMAIN svc.network : svc.network[i].exposeToCluster

=============================================================================
