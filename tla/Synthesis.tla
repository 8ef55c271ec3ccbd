------------------------------ MODULE Synthesis ------------------------------
(***************************************************************************)
(* synthNetpols of synth_netpols.go, run on what discoverConnections       *)
(* returned: determineConnectivityPerDeployment turns each connection into *)
(* an egress rule of its source and an ingress rule of its target,         *)
(* buildNetpolPerDeployment makes one NetworkPolicy per deployment entry,  *)
(* and getNsDefaultDenyPolicies denies the rest in each namespace.         *)
(*                                                                         *)
(* The map deploysConnectivity is keyed by the NAME of a workload, and a   *)
(* workload without a name has no entry: findOrAddDeploymentConn returns   *)
(* nil for it, and a nil target is dereferenced (the process panics).      *)
(***************************************************************************)
EXTENDS Discovery

CONSTANT DNSPort  \* ps.dnsPort: a number or the name of a port

ASSUME DNSPortAssumption == DNSPort \in IntOrString

VARIABLES
  cur,       \* index of the connection determineConnectivityPerDeployment is at
  deploys,   \* deploysConnectivity
  res,       \* index of the resource getNsDefaultDenyPolicies is at
  netpols,   \* the policies built so far
  panicked   \* a nil *deploymentConnectivity was dereferenced

outputs == <<cur, deploys, res, netpols, panicked>>
allVars == <<vars, outputs>>

-----------------------------------------------------------------------------
(* NetworkPolicy, as far as synth_netpols.go fills it in *)

NetpolPort == [protocol : {"TCP", "UDP"}, port : IntOrString]

\* The namespaceSelector of a peer is {} (every namespace), one namespace, or
\* nil (NoNamespace: the namespace of the policy). Nil labels select all pods.
AnyNamespace == "*"
Peer == [labels : SUBSET Labels, namespace : Namespaces \union {NoNamespace, AnyNamespace}]

ClusterPeer == [labels |-> {}, namespace |-> AnyNamespace]

\* A rule without peers is open to everybody, in the cluster or out of it.
Rule == [peers : SUBSET Peer, ports : Seq(NetpolPort)]

Deploy == [resource : Nat, ingress : Seq(Rule), egress : Seq(Rule)]

\* A deployment's policy is "<name>-netpol"; NoName marks a default deny.
Netpol ==
  [name : Names \union {NoName}, namespace : Namespaces,
   podSelector : SUBSET Labels, ingress : Seq(Rule), egress : Seq(Rule)]

\* addIngressRule and addEgressRule keep one copy of a rule (reflect.DeepEqual).
AddRule(rules, rule) ==
  IF \E i \in DOMAIN rules : rules[i] = rule THEN rules ELSE Append(rules, rule)

-----------------------------------------------------------------------------
(* determineConnectivityPerDeployment *)

\* findOrAddDeploymentConn returns nil: no source, or a workload with no name.
Nil(w) == w = NoSource \/ workloads[w].name = NoName

\* Mutant: a workload without a name gets an entry.
FindOrAdd_Nameless(ds, w) ==
  IF w = NoSource \/ workloads[w].name \in DOMAIN ds
    THEN ds
    ELSE [n \in DOMAIN ds \union {workloads[w].name} |->
            IF n \in DOMAIN ds
              THEN ds[n]
              ELSE [resource |-> w, ingress |-> <<>>, egress |-> <<>>]]

\* findOrAddDeploymentConn: the first workload of a name owns the entry.
FindOrAdd(ds, w) ==
  IF Nil(w) \/ workloads[w].name \in DOMAIN ds
    THEN ds
    ELSE [n \in DOMAIN ds \union {workloads[w].name} |->
            IF n \in DOMAIN ds
              THEN ds[n]
              ELSE [resource |-> w, ingress |-> <<>>, egress |-> <<>>]]

Entered(c) == FindOrAdd(FindOrAdd(deploys, c.source), c.target)

\* toNetpolPorts
ToNetpolPort(p) ==
  [protocol |-> IF p.protocol = "" THEN "TCP" ELSE p.protocol,
   port |-> IF p.targetPort = [int |-> 0, str |-> ""]
              THEN [int |-> p.port, str |-> ""]
              ELSE p.targetPort]

\* Mutant: exposedOnly is ignored.
ToNetpolPorts_All(ports, exposedOnly) ==
  [i \in DOMAIN ports |-> ToNetpolPort(ports[i])]

ToNetpolPorts(ports, exposedOnly) ==
  LET upto[i \in 0..Len(ports)] ==
        IF i = 0 THEN <<>>
        ELSE IF exposedOnly /\ ~ports[i].exposeToCluster THEN upto[i - 1]
        ELSE Append(upto[i - 1], ToNetpolPort(ports[i]))
  IN  upto[Len(ports)]

\* Mutant: only exposed ports for an external service too.
TargetPorts_ExposedOnly(c) ==
  IF c.source # NoSource /\ c.usedPorts # <<>>
    THEN ToNetpolPorts(c.usedPorts, FALSE)
    ELSE ToNetpolPorts(services[c.link].network, Nil(c.source))

\* The used ports of the source when it names some, else those of the service,
\* only the exposed ones if there is no source and the service is internal.
TargetPorts(c) ==
  IF c.source # NoSource /\ c.usedPorts # <<>>
    THEN ToNetpolPorts(c.usedPorts, FALSE)
    ELSE ToNetpolPorts(services[c.link].network,
                       Nil(c.source) /\ ~services[c.link].exposeExternally)

\* Mutant: every peer is taken to be in the namespace of the policy.
NetpolPeer_SameNamespace(ds, d, o) ==
  [labels |-> workloads[ds[o].resource].labels, namespace |-> NoNamespace]

\* getNetpolPeer, for a policy of deployment d that admits deployment o. A
\* deployment without a namespace is assumed to share that of the policy.
NetpolPeer(ds, d, o) ==
  LET policyOf == workloads[ds[d].resource]
      other == workloads[ds[o].resource]
  IN  [labels |-> other.labels,
       namespace |-> IF policyOf.namespace # other.namespace
                       THEN other.namespace ELSE NoNamespace]

WithEgress(ds, c) ==
  IF Nil(c.source) THEN ds
  ELSE LET s == workloads[c.source].name
           t == workloads[c.target].name
       IN  [ds EXCEPT ![s].egress =
              AddRule(@, [peers |-> {NetpolPeer(ds, s, t)}, ports |-> TargetPorts(c)])]

\* Mutant: the two deployments are swapped.
IngressPeers_Swapped(ds, c) ==
  IF services[c.link].exposeExternally THEN {}
  ELSE IF Nil(c.source) THEN {ClusterPeer}
  ELSE {NetpolPeer(ds, workloads[c.source].name, workloads[c.target].name)}

\* The peers of the ingress rule at the target.
IngressPeers(ds, c) ==
  IF services[c.link].exposeExternally THEN {}
  ELSE IF Nil(c.source) THEN {ClusterPeer}
  ELSE {NetpolPeer(ds, workloads[c.target].name, workloads[c.source].name)}

WithIngress(ds, c) ==
  [ds EXCEPT ![workloads[c.target].name].ingress =
     AddRule(@, [peers |-> IngressPeers(ds, c), ports |-> TargetPorts(c)])]

-----------------------------------------------------------------------------
SynthInit ==
  /\ Init
  /\ cur = 1
  /\ deploys = <<>>
  /\ res = 1
  /\ netpols = <<>>
  /\ panicked = FALSE

\* extractConnections comes first.
Extract == Discover /\ UNCHANGED outputs

AtConnection == Done /\ ~panicked /\ cur <= Len(connections)

\* Mutant: the loop continues without its increment.
SkipPortless_Stuck ==
  /\ AtConnection
  /\ TargetPorts(connections[cur]) = <<>>
  /\ deploys' = Entered(connections[cur])
  /\ UNCHANGED <<vars, cur, res, netpols, panicked>>

\* No port to allow: both workloads are entered, and the loop goes on.
SkipPortless ==
  /\ AtConnection
  /\ TargetPorts(connections[cur]) = <<>>
  /\ deploys' = Entered(connections[cur])
  /\ cur' = cur + 1
  /\ UNCHANGED <<vars, res, netpols, panicked>>

\* Egress at the source, then ingress at the target; with two workloads of
\* one name, both rules go to the same entry.
AllowConnection ==
  /\ AtConnection
  /\ TargetPorts(connections[cur]) # <<>>
  /\ ~Nil(connections[cur].target)
  /\ LET c == connections[cur] IN
       deploys' = WithIngress(WithEgress(Entered(c), c), c)
  /\ cur' = cur + 1
  /\ UNCHANGED <<vars, res, netpols, panicked>>

\* getNetpolPeer or addIngressRule dereferences the target's nil entry.
Panic ==
  /\ AtConnection
  /\ TargetPorts(connections[cur]) # <<>>
  /\ Nil(connections[cur].target)
  /\ panicked' = TRUE
  /\ UNCHANGED <<vars, cur, deploys, res, netpols>>

Determined == Done /\ ~panicked /\ cur > Len(connections)

\* Entries with no policy yet, to be taken in the order of their names.
Unbuilt == {n \in DOMAIN deploys : \A i \in DOMAIN netpols : netpols[i].name # n}

DNSRule ==
  [peers |-> {ClusterPeer}, ports |-> <<[protocol |-> "UDP", port |-> DNSPort]>>]

NetpolOf(n) ==
  LET d == deploys[n]  w == workloads[d.resource] IN
  [name |-> n, namespace |-> w.namespace, podSelector |-> w.labels,
   ingress |-> d.ingress,
   egress |-> IF d.egress = <<>> THEN <<>> ELSE AddRule(d.egress, DNSRule)]

\* One iteration of buildNetpolPerDeployment.
BuildNetpol ==
  /\ Determined
  /\ \E n \in Unbuilt :
       /\ \A m \in Unbuilt : n <= m
       /\ netpols' = Append(netpols, NetpolOf(n))
  /\ UNCHANGED <<vars, cur, deploys, res, panicked>>

\* getNsDefaultDenyPolicy
DenyPolicy(ns) ==
  [name |-> NoName, namespace |-> ns, podSelector |-> {},
   ingress |-> <<>>, egress |-> <<>>]

\* Mutant: a policy for each workload.
WithDeny_Each(ns) == Append(netpols, DenyPolicy(ns))

\* One policy for each namespace, where its first workload stands.
WithDeny(ns) ==
  IF \E i \in DOMAIN netpols : netpols[i].name = NoName /\ netpols[i].namespace = ns
    THEN netpols
    ELSE Append(netpols, DenyPolicy(ns))

\* One iteration of getNsDefaultDenyPolicies.
DenyNamespace ==
  /\ Determined
  /\ Unbuilt = {}
  /\ res <= Len(workloads)
  /\ netpols' = WithDeny(workloads[res].namespace)
  /\ res' = res + 1
  /\ UNCHANGED <<vars, cur, deploys, panicked>>

Synthesize ==
  \/ SkipPortless \/ AllowConnection \/ Panic \/ BuildNetpol \/ DenyNamespace

Finished == Determined /\ Unbuilt = {} /\ res > Len(workloads)

\* The caller has the policies, or the process is gone.
Ended == (Finished \/ panicked) /\ UNCHANGED allVars

SynthNext == Extract \/ Synthesize \/ Ended

\* A call runs until it returns or panics.
SynthSpec ==
  /\ SynthInit
  /\ [][SynthNext]_allVars
  /\ WF_allVars(Extract) /\ WF_allVars(Synthesize)

-----------------------------------------------------------------------------
SynthTypeOK ==
  /\ TypeOK
  /\ cur \in 1..(Len(connections) + 1)
  /\ DOMAIN deploys \subseteq Names \ {NoName}
  /\ \A n \in DOMAIN deploys :
       /\ deploys[n] \in Deploy
       /\ deploys[n].resource \in DOMAIN workloads
       /\ workloads[deploys[n].resource].name = n
  /\ res \in 1..(Len(workloads) + 1)
  /\ netpols \in Seq(Netpol)
  /\ panicked \in BOOLEAN

-----------------------------------------------------------------------------
(* What a cluster makes of the policies *)

\* np selects the pods of workload w.
Selects(np, w) ==
  /\ np.namespace = workloads[w].namespace
  /\ np.podSelector \subseteq workloads[w].labels

\* A rule of np covers the pods of w; a workload without a namespace is
\* assumed to share that of the policy (getNetpolPeer's comment).
Covers(rule, np, w) ==
  \/ rule.peers = {}
  \/ \E peer \in rule.peers :
       /\ peer.labels \subseteq workloads[w].labels
       /\ \/ peer.namespace = AnyNamespace
          \/ peer.namespace = workloads[w].namespace
          \/ peer.namespace = NoNamespace /\ workloads[w].namespace = np.namespace

\* A rule without ports is a rule for all ports.
Opens(rule, p) == rule.ports = <<>> \/ \E i \in DOMAIN rule.ports : rule.ports[i] = p

EgressAllowed(s, d, p) ==
  \E i \in DOMAIN netpols :
    /\ Selects(netpols[i], s)
    /\ \E r \in DOMAIN netpols[i].egress :
         Opens(netpols[i].egress[r], p) /\ Covers(netpols[i].egress[r], netpols[i], d)

IngressAllowed(s, d, p) ==
  \E i \in DOMAIN netpols :
    /\ Selects(netpols[i], d)
    /\ \E r \in DOMAIN netpols[i].ingress :
         Opens(netpols[i].ingress[r], p) /\ Covers(netpols[i].ingress[r], netpols[i], s)

\* Ingress to d from anywhere, or from anywhere in the cluster.
OpenTo(d, p, peers) ==
  \E i \in DOMAIN netpols :
    /\ Selects(netpols[i], d)
    /\ \E r \in DOMAIN netpols[i].ingress :
         Opens(netpols[i].ingress[r], p) /\ netpols[i].ingress[r].peers = peers

-----------------------------------------------------------------------------
(* What the policies should allow *)

\* The pod ports a connection needs: the ports its source names, or else all
\* the ports of the service.
ConnectionPorts(c) ==
  LET ports == IF c.usedPorts # <<>> THEN c.usedPorts ELSE services[c.link].network
  IN  {ToNetpolPort(ports[i]) : i \in DOMAIN ports}

PortsOf(l) == {ToNetpolPort(services[l].network[i]) : i \in DOMAIN services[l].network}

DNS == [protocol |-> "UDP", port |-> DNSPort]

\* A port that no service has, too: a rule may be too wide.
SomePorts ==
  UNION {PortsOf(l) : l \in DOMAIN services}
    \union {DNS, [protocol |-> "TCP", port |-> [int |-> 1, str |-> ""]]}

\* Two workloads that no policy can tell apart.
Alike(v, w) ==
  /\ workloads[v].name = workloads[w].name
  /\ workloads[v].namespace = workloads[w].namespace
  /\ workloads[v].labels = workloads[w].labels

AllNamed == \A w \in DOMAIN workloads : workloads[w].name # NoName

NamesIdentify ==
  \A v, w \in DOMAIN workloads : workloads[v].name = workloads[w].name => Alike(v, w)

LabelsIdentify ==
  \A v, w \in DOMAIN workloads : workloads[v].labels \subseteq workloads[w].labels => Alike(v, w)

\* A connection from a workload like s to one like d needs port p.
Detected(s, d, p) ==
  \E i \in DOMAIN connections :
    /\ connections[i].source # NoSource
    /\ Alike(connections[i].source, s)
    /\ Alike(connections[i].target, d)
    /\ p \in ConnectionPorts(connections[i])

\* A LoadBalancer or NodePort service gives the outside access to port p of d.
ExternalPort(d, p) ==
  \E l \in DOMAIN services :
    Promise!Exposes(l, d) /\ services[l].exposeExternally /\ p \in PortsOf(l)

\* An Ingress, a Route or Prometheus needs port p of d.
ClusterPort(d, p) ==
  \E l \in DOMAIN services :
    /\ Promise!Exposes(l, d)
    /\ \E i \in DOMAIN services[l].network :
         services[l].network[i].exposeToCluster /\ p = ToNetpolPort(services[l].network[i])

-----------------------------------------------------------------------------
\* determineConnectivityPerDeployment never opens one half of a connection:
\* each egress rule names a deployment with a matching ingress rule (or one
\* open to all), and each ingress rule for a deployment has its egress rule.
HalvesPaired ==
  \A n \in DOMAIN deploys :
    /\ \A i \in DOMAIN deploys[n].egress :
         LET rule == deploys[n].egress[i] IN
         \E m \in DOMAIN deploys :
           /\ rule.peers = {NetpolPeer(deploys, n, m)}
           /\ \E j \in DOMAIN deploys[m].ingress :
                /\ deploys[m].ingress[j].ports = rule.ports
                /\ deploys[m].ingress[j].peers \in {{}, {NetpolPeer(deploys, m, n)}}
    /\ \A i \in DOMAIN deploys[n].ingress :
         LET rule == deploys[n].ingress[i] IN
         \/ rule.peers \in {{}, {ClusterPeer}}
         \/ \E m \in DOMAIN deploys :
              /\ rule.peers = {NetpolPeer(deploys, n, m)}
              /\ \E j \in DOMAIN deploys[m].egress :
                   /\ deploys[m].egress[j].ports = rule.ports
                   /\ deploys[m].egress[j].peers = {NetpolPeer(deploys, m, n)}

\* Every connection discoverConnections found is open on both sides for all
\* its ports, and its source may ask the DNS, if the name of a workload
\* identifies its namespace and labels.
DetectedAllowed ==
  Finished /\ NamesIdentify =>
    \A i \in DOMAIN connections :
      LET c == connections[i] IN
      ~Nil(c.source) =>
        \A p \in ConnectionPorts(c) :
          /\ EgressAllowed(c.source, c.target, p)
          /\ IngressAllowed(c.source, c.target, p)
          /\ \A w \in DOMAIN workloads : EgressAllowed(c.source, w, DNS)

\* Nothing else is open: a workload reaches another on a port only if that is
\* a detected connection or DNS, and admits it only if that is detected or the
\* port is exposed; if names, and labels, identify workloads.
OnlyDetectedAllowed ==
  Finished /\ AllNamed /\ NamesIdentify /\ LabelsIdentify =>
    \A d \in DOMAIN workloads, p \in SomePorts :
      /\ OpenTo(d, p, {}) => ExternalPort(d, p)
      /\ \A s \in DOMAIN workloads :
           /\ EgressAllowed(s, d, p) => p = DNS \/ Detected(s, d, p)
           /\ IngressAllowed(s, d, p) =>
                Detected(s, d, p) \/ ExternalPort(d, p) \/ ClusterPort(d, p)

\* Every port of a service that is exposed, to the outside or to the cluster,
\* is open to it at each workload behind the service.
ExposedIsOpen ==
  Finished /\ NamesIdentify =>
    \A d \in DOMAIN workloads, p \in SomePorts :
      /\ ExternalPort(d, p) => OpenTo(d, p, {})
      /\ ClusterPort(d, p) => OpenTo(d, p, {ClusterPeer}) \/ ExternalPort(d, p)

\* No two policies have one name and namespace (the second would replace the
\* first in a cluster); a policy that is not of an entry denies by default, in
\* the namespace of a workload and in no other; and in the end every workload
\* is denied by default.
DeniedByDefault ==
  /\ \A i, j \in DOMAIN netpols :
       netpols[i].name = netpols[j].name /\ netpols[i].namespace = netpols[j].namespace
         => i = j
  /\ \A i \in DOMAIN netpols : netpols[i].name \notin DOMAIN deploys =>
       \E w \in DOMAIN workloads : netpols[i] = DenyPolicy(workloads[w].namespace)
  /\ Finished => \A w \in DOMAIN workloads :
       \E i \in DOMAIN netpols : netpols[i] = DenyPolicy(workloads[w].namespace)

\* A call returns, and does so with policies when every workload has a name.
SynthTermination == <>(Finished \/ panicked) /\ (AllNamed => <>Finished)

-----------------------------------------------------------------------------
(* What the documentation says without the conditions above *)

\* README.md: spec.ingress and spec.egress contain one rule for each required
\* connection of the workload.
EachConnectionHasRules ==
  Finished =>
    \A i \in DOMAIN connections :
      LET c == connections[i] IN
      ~Nil(c.source) =>
        \A p \in ConnectionPorts(c) :
          EgressAllowed(c.source, c.target, p) /\ IngressAllowed(c.source, c.target, p)

\* policies_synthesizer.go: the policies allow only the discovered connections
\* and nothing more.
NothingMore ==
  Finished =>
    \A s, d \in DOMAIN workloads, p \in SomePorts :
      /\ EgressAllowed(s, d, p) => p = DNS \/ Detected(s, d, p)
      /\ IngressAllowed(s, d, p) =>
           Detected(s, d, p) \/ ExternalPort(d, p) \/ ClusterPort(d, p)

=============================================================================
