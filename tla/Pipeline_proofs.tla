---------------------------- MODULE Pipeline_proofs ----------------------------
(***************************************************************************)
(* Proofs about Synthesis and about Pipeline, which extends it.            *)
(*                                                                         *)
(* The first part is about Synthesis, for applications of any size: types, *)
(* that the two halves of a connection are opened together, that the       *)
(* policies allow what was detected or exposed and nothing else, and the   *)
(* default deny. The inductive invariant SynthInv says what the rules      *)
(* gathered so far are: each connection behind cur has its rules (Opened), *)
(* and each rule stands for a connection behind cur (Justified).           *)
(*                                                                         *)
(* The second is about Pipeline, for all manifests and workloads: what the *)
(* manifests point at is open in the policies, and nothing else is. The    *)
(* lemmas of the first part and of Exposure_proofs do the work. The latter *)
(* speak of an instance of Exposure of their own, P; the section on it     *)
(* shows that it is the one of Pipeline, Acc.                              *)
(***************************************************************************)
EXTENDS Pipeline, Discovery_proofs

-----------------------------------------------------------------------------
(* Lemmas about the operators of Synthesis *)

LEMMA ToNetpolPortType == \A p \in SvcNetworkAttr : ToNetpolPort(p) \in NetpolPort
<1> SUFFICES ASSUME NEW p \in SvcNetworkAttr PROVE ToNetpolPort(p) \in NetpolPort
  OBVIOUS
<1>1. [int |-> p.port, str |-> ""] \in IntOrString /\ p.targetPort \in IntOrString
  BY PortNamesAssumption DEF SvcNetworkAttr, IntOrString
<1>2. (IF p.protocol = "" THEN "TCP" ELSE p.protocol) \in {"TCP", "UDP"}
  BY DEF SvcNetworkAttr
<1>3. QED
  BY <1>1, <1>2 DEF ToNetpolPort, NetpolPort

\* out has the ports of ports that are kept, and no others.
KeepsPorts(out, ports, n, exposedOnly) ==
  /\ \A i \in 1..n : (exposedOnly => ports[i].exposeToCluster) =>
       \E j \in DOMAIN out : out[j] = ToNetpolPort(ports[i])
  /\ \A j \in DOMAIN out : \E i \in 1..n :
       (exposedOnly => ports[i].exposeToCluster) /\ out[j] = ToNetpolPort(ports[i])

\* toNetpolPorts returns the kept ports: its loop is a function.
LEMMA NetpolPortsLoop ==
  ASSUME NEW ports \in Seq(SvcNetworkAttr), NEW ex
  PROVE  \E f \in [0..Len(ports) -> Seq(NetpolPort)] :
           /\ ToNetpolPorts(ports, ex) = f[Len(ports)]
           /\ f[0] = <<>>
           /\ \A i \in 1..Len(ports) :
                f[i] = IF ex /\ ~ports[i].exposeToCluster THEN f[i - 1]
                       ELSE Append(f[i - 1], ToNetpolPort(ports[i]))
<1> DEFINE n == Len(ports)
           S == Seq(NetpolPort)
           Body(i, s) == IF ex /\ ~ports[i].exposeToCluster THEN s
                         ELSE Append(s, ToNetpolPort(ports[i]))
           step == [i \in 1..n |-> [s \in S |-> Body(i, s)]]
           Loop(f) == f = [i \in 0..n |-> IF i = 0 THEN <<>>
                                          ELSE IF ex /\ ~ports[i].exposeToCluster THEN f[i - 1]
                                          ELSE Append(f[i - 1], ToNetpolPort(ports[i]))]
<1>1. n \in Nat /\ <<>> \in S
  OBVIOUS
<1>2. ASSUME NEW i \in 1..n, NEW s \in S PROVE Body(i, s) \in S
  <2>1. ToNetpolPort(ports[i]) \in NetpolPort
    BY ToNetpolPortType
  <2>2. QED
    BY <2>1
<1>3. step \in [1..n -> [S -> S]]
  BY <1>2
<1>4. PICK f \in [0..n -> S] : f[0] = <<>> /\ \A i \in 1..n : f[i] = step[i][f[i - 1]]
  <2>1. PICK base \in S : base = <<>>
    BY <1>1
  <2> HIDE DEF step, S, n, Body
  <2>2. \E f \in [0..n -> S] : Iterates(f, n, base, step)
    BY <1>1, <1>3, <2>1, IterationExists
  <2>3. QED
    BY <2>1, <2>2 DEF Iterates
<1>5. \A i \in 1..n : f[i] = Body(i, f[i - 1])
  <2> HIDE DEF S, Body
  <2>1. ASSUME NEW i \in 1..n PROVE f[i] = Body(i, f[i - 1])
    <3>1. f[i - 1] \in S
      BY <1>1
    <3>2. QED
      BY <1>4, <3>1
  <2>2. QED
    BY <2>1
<1>6. Loop(f)
  <2> HIDE DEF S
  <2>1. \A i \in 0..n : i # 0 => i \in 1..n
    BY <1>1
  <2>2. QED
    BY <1>4, <1>5, <2>1
<1>7. PICK g : g = CHOOSE h : Loop(h)
  OBVIOUS
<1>8. Loop(g)
  BY <1>6, <1>7, Zenon
<1>9. ToNetpolPorts(ports, ex) = g[n]
  BY <1>7 DEF ToNetpolPorts
<1> DEFINE T == {m \in Nat : m <= n => g[m] \in S}
<1>10. g[0] = <<>> /\ \A i \in 1..n : g[i] = Body(i, g[i - 1])
  <2>1. 0 \in 0..n /\ \A i \in 1..n : i \in 0..n /\ i # 0
    BY <1>1
  <2> HIDE DEF n
  <2>2. QED
    BY <1>8, <2>1
<1>11. n \in T /\ \A i \in 0..n : i \in T
  <2>1. 0 \in T
    BY <1>1, <1>10
  <2>2. ASSUME NEW m \in Nat, m \in T PROVE m + 1 \in T
    <3>1. m + 1 <= n => m + 1 \in 1..n /\ g[m + 1] = Body(m + 1, g[m])
      BY <1>1, <1>10
    <3> HIDE DEF Body, S
    <3>2. QED
      BY <1>1, <1>2, <2>2, <3>1
  <2> HIDE DEF T
  <2>3. \A m \in Nat : m \in T
    BY <2>1, <2>2, Induction
  <2>4. QED
    BY <1>1, <2>3
<1>12. g \in [0..n -> S]
  <2>1. \A i \in 0..n : g[i] \in S
    BY <1>11
  <2> HIDE DEF S, T
  <2>2. QED
    BY <1>8, <2>1
<1>13. QED
  BY <1>9, <1>10, <1>12

\* toNetpolPorts returns the ports it keeps, each and no others.
LEMMA NetpolPortsAre ==
  ASSUME NEW ports \in Seq(SvcNetworkAttr), NEW ex
  PROVE  /\ ToNetpolPorts(ports, ex) \in Seq(NetpolPort)
         /\ KeepsPorts(ToNetpolPorts(ports, ex), ports, Len(ports), ex)
<1> DEFINE n == Len(ports)
           Out(i) == ToNetpolPort(ports[i])
<1>1. n \in Nat /\ \A i \in 1..n : ports[i] \in SvcNetworkAttr
  OBVIOUS
<1>2. PICK f \in [0..n -> Seq(NetpolPort)] :
        /\ ToNetpolPorts(ports, ex) = f[n]
        /\ f[0] = <<>>
        /\ \A i \in 1..n : f[i] = IF ex /\ ~ports[i].exposeToCluster THEN f[i - 1]
                                  ELSE Append(f[i - 1], Out(i))
  BY NetpolPortsLoop
<1> DEFINE T == {m \in Nat : m <= n => KeepsPorts(f[m], ports, m, ex)}
<1>3. 0 \in T
  BY <1>2 DEF KeepsPorts
<1>4. ASSUME NEW m \in Nat, m \in T PROVE m + 1 \in T
  <2> SUFFICES ASSUME m + 1 <= n PROVE KeepsPorts(f[m + 1], ports, m + 1, ex)
    OBVIOUS
  <2> DEFINE k == m + 1
  <2>1. /\ m \in 0..n /\ k \in 1..n /\ k - 1 = m /\ 1..k = 1..m \union {k} /\ m <= n
    BY <1>1
  <2>2. KeepsPorts(f[m], ports, m, ex) /\ f[m] \in Seq(NetpolPort)
    BY <1>2, <1>4, <2>1
  <2> HIDE DEF n
  <2>3. CASE ex /\ ~ports[k].exposeToCluster
    <3>1. f[k] = f[m]
      BY <1>2, <2>1, <2>3
    <3> HIDE DEF k
    <3>2. KeepsPorts(f[k], ports, k, ex)
      BY <2>1, <2>2, <2>3, <3>1 DEF KeepsPorts
    <3>3. QED
      BY <3>2 DEF k
  <2>4. CASE ~(ex /\ ~ports[k].exposeToCluster)
    <3>1. Out(k) \in NetpolPort
      BY <1>1, <2>1, ToNetpolPortType DEF n
    <3>2. f[k] = Append(f[m], Out(k))
      BY <1>2, <2>1, <2>4
    <3> HIDE DEF k
    <3>3. /\ DOMAIN f[k] = DOMAIN f[m] \union {Len(f[m]) + 1}
          /\ \A j \in DOMAIN f[m] : f[k][j] = f[m][j]
          /\ f[k][Len(f[m]) + 1] = Out(k)
      BY <2>2, <3>1, <3>2
    <3>4. KeepsPorts(f[k], ports, k, ex)
      <4>1. ASSUME NEW i \in 1..k, ex => ports[i].exposeToCluster
            PROVE  \E j \in DOMAIN f[k] : f[k][j] = Out(i)
        BY <2>1, <2>2, <3>3, <4>1 DEF KeepsPorts
      <4>2. ASSUME NEW j \in DOMAIN f[k]
            PROVE  \E i \in 1..k : (ex => ports[i].exposeToCluster) /\ f[k][j] = Out(i)
        BY <2>1, <2>2, <2>4, <3>3 DEF KeepsPorts
      <4>3. QED
        BY <4>1, <4>2 DEF KeepsPorts
    <3>5. QED
      BY <3>4 DEF k
  <2>5. QED
    BY <2>3, <2>4
<1>5. n \in T
  <2> HIDE DEF T
  <2>1. \A m \in Nat : m \in T
    BY <1>3, <1>4, Induction
  <2>2. QED
    BY <1>1, <2>1
<1>6. QED
  BY <1>1, <1>2, <1>5

\* Connection c is one that discoverConnections may report.
Proper(c) ==
  /\ c \in Connection
  /\ c.source \in {NoSource} \union DOMAIN workloads
  /\ c.target \in DOMAIN workloads
  /\ c.link \in DOMAIN services

\* Port p is one of the sequence.
Among(p, ports) == \E j \in DOMAIN ports : ports[j] = p

\* The ports of a rule: all those the connection needs if there is a source,
\* else those of the service that are exposed.
LEMMA TargetPortsAre ==
  ASSUME TypeOK, NEW c, Proper(c)
  PROVE  /\ TargetPorts(c) \in Seq(NetpolPort)
         /\ ~Nil(c.source) =>
              \A p : Among(p, TargetPorts(c)) <=> p \in ConnectionPorts(c)
         /\ c.source = NoSource =>
              \A p : Among(p, TargetPorts(c)) <=>
                \E i \in DOMAIN services[c.link].network :
                  /\ p = ToNetpolPort(services[c.link].network[i])
                  /\ \/ services[c.link].exposeExternally
                     \/ services[c.link].network[i].exposeToCluster
<1> DEFINE net == services[c.link].network
           used == c.usedPorts
           ex == Nil(c.source) /\ ~services[c.link].exposeExternally
<1>1. services[c.link] \in Service
  BY InputTypes DEF Proper
<1>2. net \in Seq(SvcNetworkAttr) /\ DOMAIN net = 1..Len(net)
  BY <1>1 DEF Service
<1>3. used \in Seq(SvcNetworkAttr) /\ DOMAIN used = 1..Len(used)
  BY DEF Proper, Connection
<1> HIDE DEF net, used
<1>4. CASE c.source # NoSource /\ used # <<>>
  <2> DEFINE out == ToNetpolPorts(used, FALSE)
  <2>1. TargetPorts(c) = out
    BY <1>4 DEF TargetPorts, used
  <2>2. out \in Seq(NetpolPort) /\ KeepsPorts(out, used, Len(used), FALSE)
    BY <1>3, NetpolPortsAre
  <2>3. ConnectionPorts(c) = {ToNetpolPort(used[i]) : i \in DOMAIN used}
    BY <1>4 DEF ConnectionPorts, used
  <2> HIDE DEF out
  <2>4. \A p : Among(p, out) <=> \E i \in DOMAIN used : p = ToNetpolPort(used[i])
    <3>1. /\ \A i \in DOMAIN used : \E j \in DOMAIN out : out[j] = ToNetpolPort(used[i])
          /\ \A j \in DOMAIN out : \E i \in DOMAIN used : out[j] = ToNetpolPort(used[i])
      BY <1>3, <2>2, Zenon DEF KeepsPorts
    <3>2. QED
      BY <3>1 DEF Among
  <2>5. \A p : Among(p, out) <=> p \in ConnectionPorts(c)
    BY <2>3, <2>4, Zenon
  <2>6. QED
    BY <1>4, <2>1, <2>2, <2>5
<1>5. CASE ~(c.source # NoSource /\ used # <<>>)
  <2> DEFINE out == ToNetpolPorts(net, ex)
  <2>1. TargetPorts(c) = out
    BY <1>5 DEF TargetPorts, used, net
  <2>2. out \in Seq(NetpolPort) /\ KeepsPorts(out, net, Len(net), ex)
    BY <1>2, NetpolPortsAre
  <2> HIDE DEF out
  <2>3. \A p : Among(p, out) <=>
          \E i \in DOMAIN net : (ex => net[i].exposeToCluster) /\ p = ToNetpolPort(net[i])
    <3> HIDE DEF ex
    <3>1. QED
      BY <1>2, <2>2 DEF Among, KeepsPorts
  <2>4. ASSUME ~Nil(c.source) PROVE \A p : Among(p, out) <=> p \in ConnectionPorts(c)
    <3>1. ~ex /\ c.source # NoSource
      BY <2>4 DEF Nil
    <3>2. ConnectionPorts(c) = {ToNetpolPort(net[i]) : i \in DOMAIN net}
      BY <1>5, <3>1 DEF ConnectionPorts, used, net
    <3> HIDE DEF ex
    <3>3. QED
      BY <2>3, <3>1, <3>2
  <2>5. ASSUME c.source = NoSource
        PROVE  \A p : Among(p, out) <=>
                 \E i \in DOMAIN net :
                   /\ p = ToNetpolPort(net[i])
                   /\ services[c.link].exposeExternally \/ net[i].exposeToCluster
    <3>1. ex <=> ~services[c.link].exposeExternally
      BY <2>5 DEF Nil
    <3> HIDE DEF ex
    <3>2. QED
      BY <2>3, <3>1
  <2>6. QED
    BY <2>1, <2>2, <2>4, <2>5 DEF net
<1>6. QED
  BY <1>4, <1>5

-----------------------------------------------------------------------------
(* The inductive invariant *)

\* Rule r is one of rules.
Has(rules, r) == \E i \in DOMAIN rules : rules[i] = r

\* The rules that determineConnectivityPerDeployment gives to the target and
\* to the source of connection c.
IngressRule(ds, c) == [peers |-> IngressPeers(ds, c), ports |-> TargetPorts(c)]

EgressRule(ds, c) ==
  [peers |-> {NetpolPeer(ds, workloads[c.source].name, workloads[c.target].name)},
   ports |-> TargetPorts(c)]

\* Connection c has ports to allow: rules are added for it.
Allows(c) == TargetPorts(c) # <<>> /\ ~Nil(c.target)

\* An entry belongs to a workload of its name.
DeploysOK(ds) ==
  /\ DOMAIN ds \subseteq Names \ {NoName}
  /\ \A n \in DOMAIN ds :
       /\ ds[n] \in Deploy
       /\ ds[n].resource \in DOMAIN workloads
       /\ workloads[ds[n].resource].name = n

\* Connection c has its entries and rules.
OpenedBy(ds, c) ==
  LET s == workloads[c.source].name
      t == workloads[c.target].name
  IN  /\ ~Nil(c.target)
      /\ t \in DOMAIN ds /\ Has(ds[t].ingress, IngressRule(ds, c))
      /\ ~Nil(c.source) => s \in DOMAIN ds /\ Has(ds[s].egress, EgressRule(ds, c))

\* The connections before k that have ports are open.
Opened(ds, k) ==
  \A i \in DOMAIN connections :
    i < k /\ TargetPorts(connections[i]) # <<>> => OpenedBy(ds, connections[i])

IngressFrom(ds, n, r, i) ==
  /\ Allows(connections[i])
  /\ n = workloads[connections[i].target].name
  /\ r = IngressRule(ds, connections[i])

EgressFrom(ds, n, r, i) ==
  /\ Allows(connections[i]) /\ ~Nil(connections[i].source)
  /\ n = workloads[connections[i].source].name
  /\ r = EgressRule(ds, connections[i])

\* Each rule is that of a connection before k.
Justified(ds, k) ==
  \A n \in DOMAIN ds :
    /\ \A r : Has(ds[n].ingress, r) =>
         \E i \in DOMAIN connections : i < k /\ IngressFrom(ds, n, r, i)
    /\ \A r : Has(ds[n].egress, r) =>
         \E i \in DOMAIN connections : i < k /\ EgressFrom(ds, n, r, i)

\* Nothing is synthesized before discoverConnections returns.
ExtractInv ==
  ~Done => cur = 1 /\ deploys = <<>> /\ res = 1 /\ netpols = <<>> /\ ~panicked

\* np is the policy of an entry or the default deny of a workload's namespace.
Accounted(np) ==
  \/ np.name \in DOMAIN deploys /\ np = NetpolOf(np.name)
  \/ /\ np = DenyPolicy(np.namespace)
     /\ \E w \in DOMAIN workloads : workloads[w].namespace = np.namespace

\* No two policies share name and namespace.
Distinct ==
  \A i, j \in DOMAIN netpols :
    netpols[i].name = netpols[j].name /\ netpols[i].namespace = netpols[j].namespace
      => i = j

\* The namespaces of the workloads before k are denied by default.
Denied(k) ==
  \A w \in 1..(k - 1) :
    \E i \in DOMAIN netpols : netpols[i] = DenyPolicy(workloads[w].namespace)

NetpolsInv ==
  /\ ~Determined => netpols = <<>> /\ res = 1
  /\ \A i \in DOMAIN netpols : Accounted(netpols[i])
  /\ Distinct
  /\ Denied(res)

RulesInv == Opened(deploys, cur) /\ Justified(deploys, cur)

Progress == SynthTypeOK /\ ExtractInv /\ RulesInv /\ NetpolsInv

\* Discovery's invariants hold on, for its variables move as its Next says.
SynthInv == IInv /\ PortsInv /\ Progress

-----------------------------------------------------------------------------
(* The types of rules and entries *)

LEMMA AddRuleIs ==
  ASSUME NEW rules \in Seq(Rule), NEW rule \in Rule
  PROVE  /\ AddRule(rules, rule) \in Seq(Rule)
         /\ AddRule(rules, rule) # <<>>
         /\ \A r : Has(AddRule(rules, rule), r) <=> Has(rules, r) \/ r = rule
<1>1. CASE Has(rules, rule)
  BY <1>1 DEF AddRule, Has
<1>2. CASE ~Has(rules, rule)
  <2> DEFINE more == Append(rules, rule)
  <2>1. AddRule(rules, rule) = more
    BY <1>2 DEF AddRule, Has
  <2>2. /\ more \in Seq(Rule) /\ more # <<>>
        /\ DOMAIN more = DOMAIN rules \union {Len(rules) + 1}
        /\ \A i \in DOMAIN rules : more[i] = rules[i]
        /\ more[Len(rules) + 1] = rule
    OBVIOUS
  <2> HIDE DEF more
  <2>3. QED
    BY <2>1, <2>2 DEF Has
<1>3. QED
  BY <1>1, <1>2

LEMMA PeerType ==
  ASSUME TypeOK, NEW ds, DeploysOK(ds), NEW d \in DOMAIN ds, NEW o \in DOMAIN ds
  PROVE  NetpolPeer(ds, d, o) \in Peer
<1>1. workloads[ds[d].resource] \in Resource /\ workloads[ds[o].resource] \in Resource
  BY InputTypes DEF DeploysOK
<1>2. QED
  BY <1>1 DEF NetpolPeer, Peer, Resource

\* The ends of connection c that have names have entries.
Ends(ds, c) ==
  /\ ~Nil(c.target) => workloads[c.target].name \in DOMAIN ds
  /\ ~Nil(c.source) => workloads[c.source].name \in DOMAIN ds

LEMMA RuleTypes ==
  ASSUME TypeOK, NEW ds, DeploysOK(ds), NEW c, Proper(c), Ends(ds, c), ~Nil(c.target)
  PROVE  /\ IngressRule(ds, c) \in Rule
         /\ ~Nil(c.source) => EgressRule(ds, c) \in Rule
<1>1. TargetPorts(c) \in Seq(NetpolPort)
  BY TargetPortsAre
<1>2. ASSUME ~Nil(c.source) PROVE EgressRule(ds, c) \in Rule
  <2>1. NetpolPeer(ds, workloads[c.source].name, workloads[c.target].name) \in Peer
    BY <1>2, PeerType DEF Ends
  <2>2. QED
    BY <1>1, <2>1 DEF EgressRule, Rule
<1>3. IngressPeers(ds, c) \subseteq Peer
  <2>1. ClusterPeer \in Peer
    BY DEF ClusterPeer, Peer
  <2>2. ASSUME ~Nil(c.source)
        PROVE NetpolPeer(ds, workloads[c.target].name, workloads[c.source].name) \in Peer
    BY <2>2, PeerType DEF Ends
  <2>3. QED
    BY <2>1, <2>2 DEF IngressPeers
<1>4. QED
  BY <1>1, <1>2, <1>3 DEF IngressRule, Rule

-----------------------------------------------------------------------------
(* Entering the ends of a connection *)

\* ds2 has the entries of ds, and new ones without rules.
Extends(ds, ds2) ==
  /\ DOMAIN ds \subseteq DOMAIN ds2
  /\ \A n \in DOMAIN ds : ds2[n] = ds[n]
  /\ \A n \in DOMAIN ds2 : n \notin DOMAIN ds =>
       ds2[n].ingress = <<>> /\ ds2[n].egress = <<>>

LEMMA FindOrAddIs ==
  ASSUME TypeOK, NEW ds, DeploysOK(ds), NEW w \in {NoSource} \union DOMAIN workloads
  PROVE  /\ DeploysOK(FindOrAdd(ds, w))
         /\ Extends(ds, FindOrAdd(ds, w))
         /\ ~Nil(w) => workloads[w].name \in DOMAIN FindOrAdd(ds, w)
<1> DEFINE ds2 == FindOrAdd(ds, w)
           name == workloads[w].name
<1>1. CASE Nil(w) \/ name \in DOMAIN ds
  BY <1>1 DEF FindOrAdd, Extends
<1>2. CASE ~(Nil(w) \/ name \in DOMAIN ds)
  <2>1. w \in DOMAIN workloads /\ w \in Nat /\ workloads[w] \in Resource
    BY <1>2, InputTypes DEF Nil
  <2>2. name \in Names /\ name # NoName
    BY <1>2, <2>1 DEF Nil, Resource
  <2>3. /\ DOMAIN ds2 = DOMAIN ds \union {name}
        /\ \A n \in DOMAIN ds : ds2[n] = ds[n]
        /\ ds2[name] = [resource |-> w, ingress |-> <<>>, egress |-> <<>>]
    BY <1>2 DEF FindOrAdd
  <2>4. ds2[name] \in Deploy
    BY <2>1, <2>3 DEF Deploy
  <2> HIDE DEF ds2, name
  <2>5. Extends(ds, ds2)
    BY <2>3 DEF Extends
  <2>6. DeploysOK(ds2)
    BY <2>1, <2>2, <2>3, <2>4 DEF DeploysOK, name
  <2>7. QED
    BY <2>3, <2>5, <2>6 DEF ds2, name
<1>3. QED
  BY <1>1, <1>2

LEMMA EnteredIs ==
  ASSUME TypeOK, DeploysOK(deploys), NEW c, Proper(c)
  PROVE  DeploysOK(Entered(c)) /\ Extends(deploys, Entered(c)) /\ Ends(Entered(c), c)
<1> DEFINE ds1 == FindOrAdd(deploys, c.source)
<1>1. /\ DeploysOK(ds1) /\ Extends(deploys, ds1)
      /\ ~Nil(c.source) => workloads[c.source].name \in DOMAIN ds1
  BY FindOrAddIs DEF Proper
<1> HIDE DEF ds1
<1> DEFINE ds2 == FindOrAdd(ds1, c.target)
<1>2. /\ DeploysOK(ds2) /\ Extends(ds1, ds2)
      /\ ~Nil(c.target) => workloads[c.target].name \in DOMAIN ds2
  BY <1>1, FindOrAddIs DEF Proper
<1>3. Entered(c) = ds2
  BY DEF Entered, ds1
<1> HIDE DEF ds2
<1>4. Extends(deploys, ds2) /\ Ends(ds2, c)
  BY <1>1, <1>2 DEF Extends, Ends
<1>5. QED
  BY <1>2, <1>3, <1>4

-----------------------------------------------------------------------------
(* Adding the rules of a connection *)

\* ds2 is ds with the egress rule of connection c at its source, if it has one.
AddsEgress(ds, ds2, c) ==
  /\ DOMAIN ds2 = DOMAIN ds
  /\ \A n \in DOMAIN ds : ds2[n].resource = ds[n].resource
                            /\ ds2[n].ingress = ds[n].ingress
  /\ \A n \in DOMAIN ds : \A r : Has(ds2[n].egress, r) <=>
       \/ Has(ds[n].egress, r)
       \/ /\ ~Nil(c.source)
          /\ n = workloads[c.source].name /\ r = EgressRule(ds, c)

\* ds2 is ds with the ingress rule of connection c at its target.
AddsIngress(ds, ds2, c) ==
  /\ DOMAIN ds2 = DOMAIN ds
  /\ \A n \in DOMAIN ds : ds2[n].resource = ds[n].resource
                            /\ ds2[n].egress = ds[n].egress
  /\ \A n \in DOMAIN ds : \A r : Has(ds2[n].ingress, r) <=>
       \/ Has(ds[n].ingress, r)
       \/ n = workloads[c.target].name /\ r = IngressRule(ds, c)

LEMMA WithEgressIs ==
  ASSUME TypeOK, NEW ds, DeploysOK(ds), NEW c, Proper(c), Ends(ds, c), ~Nil(c.target)
  PROVE  DeploysOK(WithEgress(ds, c)) /\ AddsEgress(ds, WithEgress(ds, c), c)
<1> DEFINE ds2 == WithEgress(ds, c)
           s == workloads[c.source].name
<1>1. CASE Nil(c.source)
  BY <1>1 DEF WithEgress, AddsEgress
<1>2. CASE ~Nil(c.source)
  <2> DEFINE rules == AddRule(ds[s].egress, EgressRule(ds, c))
  <2>1. s \in DOMAIN ds /\ ds[s] \in Deploy
    BY <1>2 DEF Ends, DeploysOK
  <2>2. EgressRule(ds, c) \in Rule /\ ds[s].egress \in Seq(Rule)
    BY <1>2, <2>1, RuleTypes DEF Deploy
  <2>3. /\ rules \in Seq(Rule)
        /\ \A r : Has(rules, r) <=> Has(ds[s].egress, r) \/ r = EgressRule(ds, c)
    BY <2>2, AddRuleIs
  <2>4. ds2 = [ds EXCEPT ![s] = [ds[s] EXCEPT !.egress = rules]]
    BY <1>2 DEF WithEgress, EgressRule
  <2> HIDE DEF rules, s, ds2
  <2>5. /\ DOMAIN ds2 = DOMAIN ds
        /\ \A n \in DOMAIN ds : n # s => ds2[n] = ds[n]
        /\ ds2[s] = [ds[s] EXCEPT !.egress = rules]
    BY <2>1, <2>4
  <2>6. /\ ds2[s].resource = ds[s].resource /\ ds2[s].ingress = ds[s].ingress
        /\ ds2[s].egress = rules /\ ds2[s] \in Deploy
    BY <2>1, <2>3, <2>5 DEF Deploy
  <2>7. DeploysOK(ds2)
    BY <2>5, <2>6 DEF DeploysOK
  <2>8. QED
    BY <1>2, <2>3, <2>5, <2>6, <2>7 DEF ds2, s, AddsEgress
<1>3. QED
  BY <1>1, <1>2

LEMMA WithIngressIs ==
  ASSUME TypeOK, NEW ds, DeploysOK(ds), NEW c, Proper(c), Ends(ds, c), ~Nil(c.target)
  PROVE  DeploysOK(WithIngress(ds, c)) /\ AddsIngress(ds, WithIngress(ds, c), c)
<1> DEFINE ds2 == WithIngress(ds, c)
           t == workloads[c.target].name
           rules == AddRule(ds[t].ingress, IngressRule(ds, c))
<1>1. t \in DOMAIN ds /\ ds[t] \in Deploy
  BY DEF Ends, DeploysOK
<1>2. IngressRule(ds, c) \in Rule /\ ds[t].ingress \in Seq(Rule)
  BY <1>1, RuleTypes DEF Deploy
<1>3. /\ rules \in Seq(Rule)
      /\ \A r : Has(rules, r) <=> Has(ds[t].ingress, r) \/ r = IngressRule(ds, c)
  BY <1>2, AddRuleIs
<1>4. ds2 = [ds EXCEPT ![t] = [ds[t] EXCEPT !.ingress = rules]]
  BY DEF WithIngress, IngressRule
<1> HIDE DEF rules, t, ds2
<1>5. /\ DOMAIN ds2 = DOMAIN ds
      /\ \A n \in DOMAIN ds : n # t => ds2[n] = ds[n]
      /\ ds2[t] = [ds[t] EXCEPT !.ingress = rules]
  BY <1>1, <1>4
<1>6. /\ ds2[t].resource = ds[t].resource /\ ds2[t].egress = ds[t].egress
      /\ ds2[t].ingress = rules /\ ds2[t] \in Deploy
  BY <1>1, <1>3, <1>5 DEF Deploy
<1>7. DeploysOK(ds2)
  BY <1>5, <1>6 DEF DeploysOK
<1>8. QED
  BY <1>3, <1>5, <1>6, <1>7 DEF ds2, t, AddsIngress

\* ds2 has the entries of ds, for the same workloads.
Keeps(ds, ds2) ==
  /\ DOMAIN ds \subseteq DOMAIN ds2
  /\ \A n \in DOMAIN ds : ds2[n].resource = ds[n].resource

\* The rules of a connection depend only on whom its entries belong to.
LEMMA SameRules ==
  ASSUME NEW ds, NEW ds2, Keeps(ds, ds2), NEW c, Ends(ds, c), ~Nil(c.target)
  PROVE  /\ IngressRule(ds2, c) = IngressRule(ds, c)
         /\ ~Nil(c.source) => EgressRule(ds2, c) = EgressRule(ds, c)
<1>1. \A d, o \in DOMAIN ds : NetpolPeer(ds2, d, o) = NetpolPeer(ds, d, o)
  BY DEF Keeps, NetpolPeer
<1>2. QED
  BY <1>1 DEF Ends, IngressRule, IngressPeers, EgressRule

\* One iteration: rules are added to a kept ds for the connection at k, if it
\* has ports, and for no other.
LEMMA RulesStep ==
  ASSUME NEW ds, NEW ds2, Keeps(ds, ds2), NEW k \in DOMAIN connections,
         connections \in Seq(Connection), Opened(ds, k), Justified(ds, k),
         Ends(ds2, connections[k]),
         TargetPorts(connections[k]) # <<>> => ~Nil(connections[k].target),
         \A n \in DOMAIN ds2 : \A r :
           /\ Has(ds2[n].ingress, r) <=>
                (n \in DOMAIN ds /\ Has(ds[n].ingress, r)) \/ IngressFrom(ds2, n, r, k)
           /\ Has(ds2[n].egress, r) <=>
                (n \in DOMAIN ds /\ Has(ds[n].egress, r)) \/ EgressFrom(ds2, n, r, k)
  PROVE  Opened(ds2, k + 1) /\ Justified(ds2, k + 1)
<1>1. k \in Nat /\ DOMAIN connections \subseteq Nat
  OBVIOUS
<1>2. ASSUME NEW i \in DOMAIN connections, i < k, TargetPorts(connections[i]) # <<>>
      PROVE  /\ OpenedBy(ds, connections[i])
             /\ Ends(ds, connections[i]) /\ ~Nil(connections[i].target)
             /\ IngressRule(ds2, connections[i]) = IngressRule(ds, connections[i])
             /\ ~Nil(connections[i].source) =>
                  EgressRule(ds2, connections[i]) = EgressRule(ds, connections[i])
  <2>1. OpenedBy(ds, connections[i])
    BY <1>2 DEF Opened
  <2>2. Ends(ds, connections[i]) /\ ~Nil(connections[i].target)
    BY <2>1 DEF OpenedBy, Ends
  <2>3. QED
    BY <2>1, <2>2, SameRules
<1>3. ASSUME NEW i \in DOMAIN connections, i < k + 1, TargetPorts(connections[i]) # <<>>
      PROVE  OpenedBy(ds2, connections[i])
  <2>1. CASE i < k
    BY <1>2, <1>3, <2>1 DEF OpenedBy, Keeps
  <2>2. CASE i = k
    BY <1>3, <2>2 DEF OpenedBy, Ends, IngressFrom, EgressFrom, Allows
  <2>3. QED
    BY <1>1, <1>3, <2>1, <2>2
<1>4. ASSUME NEW n \in DOMAIN ds2, NEW r, Has(ds2[n].ingress, r)
      PROVE  \E i \in DOMAIN connections : i < k + 1 /\ IngressFrom(ds2, n, r, i)
  <2>1. CASE IngressFrom(ds2, n, r, k)
    BY <1>1, <2>1
  <2>2. CASE n \in DOMAIN ds /\ Has(ds[n].ingress, r)
    <3>1. PICK i \in DOMAIN connections : i < k /\ IngressFrom(ds, n, r, i)
      BY <2>2 DEF Justified
    <3>2. IngressFrom(ds2, n, r, i)
      BY <1>2, <3>1 DEF IngressFrom, Allows
    <3>3. QED
      BY <1>1, <3>1, <3>2
  <2>3. QED
    BY <1>4, <2>1, <2>2
<1>5. ASSUME NEW n \in DOMAIN ds2, NEW r, Has(ds2[n].egress, r)
      PROVE  \E i \in DOMAIN connections : i < k + 1 /\ EgressFrom(ds2, n, r, i)
  <2>1. CASE EgressFrom(ds2, n, r, k)
    BY <1>1, <2>1
  <2>2. CASE n \in DOMAIN ds /\ Has(ds[n].egress, r)
    <3>1. PICK i \in DOMAIN connections : i < k /\ EgressFrom(ds, n, r, i)
      BY <2>2 DEF Justified
    <3>2. EgressFrom(ds2, n, r, i)
      BY <1>2, <3>1 DEF EgressFrom, Allows
    <3>3. QED
      BY <1>1, <3>1, <3>2
  <2>3. QED
    BY <1>5, <2>1, <2>2
<1>6. QED
  BY <1>3, <1>4, <1>5 DEF Opened, Justified

\* What the connections are decides their rules.
LEMMA RulesStable ==
  ASSUME vars' = vars
  PROVE  /\ workloads' = workloads /\ services' = services /\ connections' = connections
         /\ (Done' <=> Done)
         /\ \A ds : DeploysOK(ds)' <=> DeploysOK(ds)
         /\ \A ds, k : Opened(ds, k)' <=> Opened(ds, k)
         /\ \A ds, k : Justified(ds, k)' <=> Justified(ds, k)
<1>1. workloads' = workloads /\ services' = services /\ connections' = connections
      /\ dst' = dst
  BY DEF vars, inputs, loops
<1>2. \A ds : DeploysOK(ds)' <=> DeploysOK(ds)
  BY <1>1 DEF DeploysOK
<1>3. /\ \A w : Nil(w)' <=> Nil(w)
      /\ \A c : TargetPorts(c)' = TargetPorts(c)
  BY <1>1 DEF Nil, TargetPorts
<1>4. \A ds, d, o : NetpolPeer(ds, d, o)' = NetpolPeer(ds, d, o)
  BY <1>1 DEF NetpolPeer
<1>5. \A ds, c : IngressRule(ds, c)' = IngressRule(ds, c)
  BY <1>1, <1>3, <1>4 DEF IngressRule, IngressPeers
<1>6. \A ds, c : EgressRule(ds, c)' = EgressRule(ds, c)
  BY <1>1, <1>3, <1>4 DEF EgressRule
<1>7. \A ds, k : Opened(ds, k)' <=> Opened(ds, k)
  BY <1>1, <1>3, <1>5, <1>6 DEF Opened, OpenedBy
<1>8. \A ds, k : Justified(ds, k)' <=> Justified(ds, k)
  <2>1. \A c : Allows(c)' <=> Allows(c)
    BY <1>3 DEF Allows
  <2>2. \A ds, n, r, i : IngressFrom(ds, n, r, i)' <=> IngressFrom(ds, n, r, i)
    BY <1>1, <1>5, <2>1 DEF IngressFrom
  <2>3. \A ds, n, r, i : EgressFrom(ds, n, r, i)' <=> EgressFrom(ds, n, r, i)
    <3>1. \A i : connections[i]' = connections[i]
      BY <1>1
    <3>2. QED
      BY <1>1, <1>3, <1>6, <2>1, <3>1 DEF EgressFrom
  <2>4. \A ds, n, r, k :
          (\E i \in DOMAIN connections : i < k /\ IngressFrom(ds, n, r, i))'
            <=> (\E i \in DOMAIN connections : i < k /\ IngressFrom(ds, n, r, i))
    BY <1>1, <2>2, Zenon
  <2>5. \A ds, n, r, k :
          (\E i \in DOMAIN connections : i < k /\ EgressFrom(ds, n, r, i))'
            <=> (\E i \in DOMAIN connections : i < k /\ EgressFrom(ds, n, r, i))
    BY <1>1, <2>3, Zenon
  <2>6. QED
    BY <2>4, <2>5, Zenon DEF Justified
<1>9. QED
  BY <1>1, <1>2, <1>7, <1>8 DEF Done

-----------------------------------------------------------------------------
(* The steps of determineConnectivityPerDeployment *)

LEMMA ConnectionsProper ==
  ASSUME IInv, NEW i \in DOMAIN connections
  PROVE  Proper(connections[i])
<1>1. connections[i].source \in {NoSource} \union DOMAIN workloads
  BY Triples DEF IInv, Promise!Sources, Promise!NoSource, NoSource
<1>2. QED
  BY <1>1, Triples DEF IInv, Proper

LEMMA SynthTypes ==
  ASSUME SynthTypeOK
  PROVE  /\ TypeOK /\ DeploysOK(deploys) /\ connections \in Seq(Connection)
         /\ Len(connections) \in Nat /\ DOMAIN connections = 1..Len(connections)
         /\ Len(workloads) \in Nat /\ DOMAIN workloads = 1..Len(workloads)
         /\ cur \in Nat \ {0} /\ res \in Nat \ {0}
<1>1. TypeOK /\ connections \in Seq(Connection)
  BY DEF SynthTypeOK, TypeOK
<1>2. QED
  BY <1>1, InputTypes DEF SynthTypeOK, DeploysOK

\* A connection without ports adds no rule.
LEMMA SkipRules ==
  ASSUME IInv, SynthTypeOK, RulesInv, cur \in DOMAIN connections,
         TargetPorts(connections[cur]) = <<>>
  PROVE  LET ds2 == Entered(connections[cur]) IN
         DeploysOK(ds2) /\ Opened(ds2, cur + 1) /\ Justified(ds2, cur + 1)
<1> DEFINE c == connections[cur]
           ds2 == Entered(c)
<1>1. TypeOK /\ DeploysOK(deploys) /\ Proper(c) /\ connections \in Seq(Connection)
  BY SynthTypes, ConnectionsProper
<1>2. DeploysOK(ds2) /\ Extends(deploys, ds2) /\ Ends(ds2, c)
  BY <1>1, EnteredIs
<1>3. \A n, r : ~IngressFrom(ds2, n, r, cur) /\ ~EgressFrom(ds2, n, r, cur)
  BY DEF IngressFrom, EgressFrom, Allows
<1> HIDE DEF ds2
<1>4. Keeps(deploys, ds2)
  BY <1>2 DEF Extends, Keeps
<1>5. \A n \in DOMAIN ds2 : \A r :
        /\ Has(ds2[n].ingress, r) <=> n \in DOMAIN deploys /\ Has(deploys[n].ingress, r)
        /\ Has(ds2[n].egress, r) <=> n \in DOMAIN deploys /\ Has(deploys[n].egress, r)
  BY <1>2 DEF Extends, Has
<1>6. Opened(ds2, cur + 1) /\ Justified(ds2, cur + 1)
  BY <1>1, <1>2, <1>3, <1>4, <1>5, RulesStep DEF RulesInv
<1>7. QED
  BY <1>2, <1>6 DEF ds2

\* A connection with ports adds one rule at each end.
LEMMA AllowRules ==
  ASSUME IInv, SynthTypeOK, RulesInv, cur \in DOMAIN connections,
         TargetPorts(connections[cur]) # <<>>, ~Nil(connections[cur].target)
  PROVE  LET c == connections[cur]
             ds2 == WithIngress(WithEgress(Entered(c), c), c)
         IN  DeploysOK(ds2) /\ Opened(ds2, cur + 1) /\ Justified(ds2, cur + 1)
<1> DEFINE c == connections[cur]
           e == Entered(c)
           e1 == WithEgress(e, c)
           ds2 == WithIngress(e1, c)
           s == workloads[c.source].name
           t == workloads[c.target].name
<1>1. TypeOK /\ DeploysOK(deploys) /\ Proper(c) /\ connections \in Seq(Connection)
  BY SynthTypes, ConnectionsProper
<1>2. DeploysOK(e) /\ Extends(deploys, e) /\ Ends(e, c)
  BY <1>1, EnteredIs
<1>a. TargetPorts(c) # <<>> /\ ~Nil(c.target)
  OBVIOUS
<1>b. \A ds, n, r : /\ IngressFrom(ds, n, r, cur) <=> n = t /\ r = IngressRule(ds, c)
                    /\ EgressFrom(ds, n, r, cur) <=>
                         ~Nil(c.source) /\ n = s /\ r = EgressRule(ds, c)
  BY DEF IngressFrom, EgressFrom, Allows
<1>c. cur \in DOMAIN connections /\ connections[cur] = c
  OBVIOUS
<1> HIDE DEF e, c
<1>3. DeploysOK(e1) /\ AddsEgress(e, e1, c)
  BY <1>1, <1>2, <1>a, WithEgressIs
<1> HIDE DEF e1
<1>4. Ends(e1, c)
  BY <1>2, <1>3 DEF Ends, AddsEgress
<1>5. DeploysOK(ds2) /\ AddsIngress(e1, ds2, c)
  BY <1>1, <1>3, <1>4, <1>a, WithIngressIs
<1> HIDE DEF ds2
<1>6. Keeps(deploys, ds2) /\ Keeps(e, ds2) /\ Keeps(e1, ds2) /\ Ends(ds2, c)
  BY <1>2, <1>3, <1>5 DEF Keeps, Extends, Ends, AddsEgress, AddsIngress
<1>7. /\ IngressRule(e1, c) = IngressRule(ds2, c)
      /\ ~Nil(c.source) => EgressRule(e, c) = EgressRule(ds2, c)
  BY <1>2, <1>4, <1>6, <1>a, SameRules
<1>8. ASSUME NEW n \in DOMAIN ds2, NEW r
      PROVE  /\ Has(e[n].ingress, r) <=> n \in DOMAIN deploys /\ Has(deploys[n].ingress, r)
             /\ Has(e[n].egress, r) <=> n \in DOMAIN deploys /\ Has(deploys[n].egress, r)
  BY <1>2, <1>3, <1>5 DEF Extends, Has, AddsEgress, AddsIngress
<1>9. ASSUME NEW n \in DOMAIN ds2, NEW r
      PROVE  /\ Has(ds2[n].ingress, r) <=>
                  (n \in DOMAIN deploys /\ Has(deploys[n].ingress, r))
                    \/ IngressFrom(ds2, n, r, cur)
             /\ Has(ds2[n].egress, r) <=>
                  (n \in DOMAIN deploys /\ Has(deploys[n].egress, r))
                    \/ EgressFrom(ds2, n, r, cur)
  <2>1. IngressFrom(ds2, n, r, cur) <=> n = t /\ r = IngressRule(e1, c)
    BY <1>7, <1>b
  <2>2. EgressFrom(ds2, n, r, cur) <=> ~Nil(c.source) /\ n = s /\ r = EgressRule(e, c)
    BY <1>7, <1>b
  <2>3. /\ Has(ds2[n].ingress, r) <=> Has(e[n].ingress, r) \/ (n = t /\ r = IngressRule(e1, c))
        /\ Has(ds2[n].egress, r) <=>
             Has(e[n].egress, r) \/ (~Nil(c.source) /\ n = s /\ r = EgressRule(e, c))
    BY <1>3, <1>5 DEF AddsEgress, AddsIngress, s, t
  <2>4. QED
    BY <1>8, <2>1, <2>2, <2>3
<1>10. Opened(ds2, cur + 1) /\ Justified(ds2, cur + 1)
  BY <1>1, <1>6, <1>9, <1>a, <1>c, RulesStep DEF RulesInv
<1>11. QED
  BY <1>5, <1>10 DEF ds2, e1, e, c

-----------------------------------------------------------------------------
(* The steps of synthNetpols *)

\* Nothing is synthesized yet.
Pristine ==
  TypeOK /\ cur = 1 /\ deploys = <<>> /\ res = 1 /\ netpols = <<>> /\ panicked = FALSE

LEMMA PristineProgress == Pristine => Progress
<1> SUFFICES ASSUME Pristine PROVE Progress
  OBVIOUS
<1>1. /\ Len(workloads) \in Nat /\ connections \in Seq(Connection)
      /\ Len(connections) \in Nat /\ DOMAIN connections = 1..Len(connections)
  BY InputTypes DEF Pristine, TypeOK
<1>2. DOMAIN deploys = {} /\ DOMAIN netpols = {} /\ 1..(res - 1) = {}
  BY DEF Pristine
<1>3. SynthTypeOK
  <2>1. cur \in 1..(Len(connections) + 1) /\ res \in 1..(Len(workloads) + 1)
    BY <1>1 DEF Pristine
  <2>2. netpols \in Seq(Netpol)
    BY DEF Pristine
  <2>3. panicked \in BOOLEAN
    BY Zenon DEF Pristine
  <2>4. QED
    BY <1>2, <2>1, <2>2, <2>3 DEF Pristine, SynthTypeOK
<1>4. RulesInv
  BY <1>1, <1>2 DEF Pristine, RulesInv, Opened, Justified
<1>5. NetpolsInv
  BY <1>2 DEF Pristine, NetpolsInv, Distinct, Denied
<1>6. QED
  BY <1>3, <1>4, <1>5 DEF Pristine, Progress, ExtractInv

\* While discoverConnections runs, nothing is synthesized.
LEMMA ExtractStep == Progress /\ TypeOK' /\ Extract => Progress'
<1>1. Progress /\ TypeOK' /\ Extract => Pristine'
  <2> SUFFICES ASSUME Progress, TypeOK', Extract PROVE Pristine'
    OBVIOUS
  <2>1. TypeOK
    BY DEF Progress, SynthTypeOK
  <2>2. ~Done
    BY <2>1, CounterTypes
       DEF Extract, Discover, Done, SkipService, TestAddress, RecordSource, FinishService,
           NextTarget, InAddresses, SourceScanned, SourcesScanned, InFindSource
  <2>3. QED
    BY <2>2 DEF Progress, ExtractInv, Extract, outputs, Pristine
<1>2. Pristine' => Progress'
  BY PristineProgress, PTL
<1>3. QED
  BY <1>1, <1>2

\* A step of the loop over the connections builds no policy.
LEMMA ConnectionStep ==
  ASSUME Progress, AtConnection, TypeOK', UNCHANGED <<vars, res, netpols>>,
         DeploysOK(deploys'), Opened(deploys', cur'), Justified(deploys', cur'),
         \/ cur' = cur + 1 /\ panicked' = panicked
         \/ cur' = cur /\ panicked' = TRUE
  PROVE  Progress'
<1>1. /\ workloads' = workloads /\ connections' = connections /\ (Done' <=> Done)
      /\ DeploysOK(deploys)' /\ Opened(deploys, cur)' /\ Justified(deploys, cur)'
  BY RulesStable
<1>2. ~Determined /\ netpols = <<>> /\ res = 1
  BY SynthTypes DEF Progress, NetpolsInv, AtConnection, Determined
<1>3. netpols' = <<>> /\ res' = 1
  BY <1>2
<1>4. cur' \in 1..(Len(connections') + 1) /\ panicked' \in BOOLEAN
  <2>1. cur' \in 1..(Len(connections') + 1)
    BY <1>1, SynthTypes DEF Progress, AtConnection
  <2>2. panicked' \in BOOLEAN
    BY DEF Progress, SynthTypeOK
  <2>3. QED
    BY <2>1, <2>2
<1>5. SynthTypeOK'
  BY <1>1, <1>3, <1>4, SynthTypes DEF Progress, SynthTypeOK, DeploysOK
<1>6. NetpolsInv'
  BY <1>3 DEF NetpolsInv, Distinct, Denied
<1>7. QED
  BY <1>1, <1>5, <1>6 DEF Progress, RulesInv, ExtractInv, AtConnection

LEMMA DNSRuleType == DNSRule \in Rule
<1>1. [protocol |-> "UDP", port |-> DNSPort] \in NetpolPort
  BY DNSPortAssumption DEF NetpolPort
<1>2. ClusterPeer \in Peer
  BY DEF ClusterPeer, Peer
<1>3. QED
  BY <1>1, <1>2 DEF DNSRule, Rule

LEMMA NetpolOfType ==
  ASSUME SynthTypeOK, NEW n \in DOMAIN deploys
  PROVE  NetpolOf(n) \in Netpol /\ NetpolOf(n).name = n /\ n # NoName
<1>1. /\ deploys[n] \in Deploy /\ n \in Names /\ n # NoName
      /\ workloads[deploys[n].resource] \in Resource
  BY SynthTypes, InputTypes DEF DeploysOK
<1>3. AddRule(deploys[n].egress, DNSRule) \in Seq(Rule)
  BY <1>1, DNSRuleType, AddRuleIs DEF Deploy
<1>4. QED
  BY <1>1, <1>3 DEF NetpolOf, Netpol, Deploy, Resource

\* The connections are behind, and one more policy may be built.
PolicyStep ==
  Determined /\ UNCHANGED <<vars, cur, deploys, panicked>>

LEMMA PoliciesStable ==
  ASSUME PolicyStep
  PROVE  /\ workloads' = workloads /\ (Determined' <=> Determined)
         /\ \A np : Accounted(np)' <=> Accounted(np)
<1>1. workloads' = workloads /\ connections' = connections /\ (Done' <=> Done)
  BY RulesStable DEF PolicyStep
<1>2. \A n : NetpolOf(n)' = NetpolOf(n)
  BY <1>1 DEF PolicyStep, NetpolOf
<1>3. \A np : Accounted(np)' <=> Accounted(np)
  BY <1>1, <1>2 DEF PolicyStep, Accounted
<1>4. QED
  BY <1>1, <1>3 DEF PolicyStep, Determined

\* A policy that is accounted for and of a new name or namespace may be added.
LEMMA PolicyAdded ==
  ASSUME Progress, PolicyStep, NEW np \in Netpol, Accounted(np),
         netpols' = Append(netpols, np),
         \A i \in DOMAIN netpols :
           ~(netpols[i].name = np.name /\ netpols[i].namespace = np.namespace)
  PROVE  /\ (\A i \in DOMAIN netpols : Accounted(netpols[i]))'
         /\ Distinct'
         /\ res' = res => Denied(res)'
         /\ netpols' \in Seq(Netpol)
         /\ DOMAIN netpols \subseteq DOMAIN netpols'
         /\ \A i \in DOMAIN netpols : netpols'[i] = netpols[i]
         /\ \E i \in DOMAIN netpols' : netpols'[i] = np
<1> DEFINE k == Len(netpols) + 1
<1>1. netpols \in Seq(Netpol)
  BY DEF Progress, SynthTypeOK
<1>2. /\ netpols' \in Seq(Netpol) /\ DOMAIN netpols' = DOMAIN netpols \union {k}
      /\ \A i \in DOMAIN netpols : netpols'[i] = netpols[i]
      /\ netpols'[k] = np
  BY <1>1
<1> HIDE DEF k
<1>3. \A i \in DOMAIN netpols' : Accounted(netpols'[i])
  BY <1>2 DEF Progress, NetpolsInv
<1>4. (\A i \in DOMAIN netpols : Accounted(netpols[i]))'
  BY <1>3, PoliciesStable
<1>5. Distinct'
  BY <1>2 DEF Progress, NetpolsInv, Distinct
<1>6. res' = res => Denied(res)'
  BY <1>2, PoliciesStable DEF Progress, NetpolsInv, Denied
<1>7. QED
  BY <1>2, <1>4, <1>5, <1>6

\* The rest of the invariant is kept while the policies are built.
LEMMA PolicyProgress ==
  ASSUME Progress, PolicyStep, TypeOK', res' \in 1..(Len(workloads) + 1),
         netpols' \in Seq(Netpol), (\A i \in DOMAIN netpols : Accounted(netpols[i]))',
         Distinct', Denied(res)'
  PROVE  Progress'
<1>1. /\ workloads' = workloads /\ connections' = connections /\ (Done' <=> Done)
      /\ (Determined' <=> Determined) /\ Determined
      /\ cur' = cur /\ deploys' = deploys /\ panicked' = panicked
  BY RulesStable, PoliciesStable DEF PolicyStep
<1>2. SynthTypeOK'
  BY <1>1 DEF Progress, SynthTypeOK
<1>3. RulesInv'
  BY <1>1, RulesStable DEF Progress, RulesInv, PolicyStep
<1>4. NetpolsInv'
  BY <1>1 DEF NetpolsInv
<1>5. ExtractInv'
  BY <1>1 DEF ExtractInv, Determined
<1>6. QED
  BY <1>2, <1>3, <1>4, <1>5 DEF Progress

LEMMA BuildStep == ASSUME Progress, TypeOK', BuildNetpol PROVE Progress'
<1>1. PICK n \in Unbuilt : netpols' = Append(netpols, NetpolOf(n))
  BY DEF BuildNetpol
<1>2. n \in DOMAIN deploys /\ \A i \in DOMAIN netpols : netpols[i].name # n
  BY DEF Unbuilt
<1>3. NetpolOf(n) \in Netpol /\ NetpolOf(n).name = n
  BY <1>2, NetpolOfType DEF Progress
<1>4. Accounted(NetpolOf(n))
  BY <1>2, <1>3 DEF Accounted
<1>5. PolicyStep /\ res' = res
  BY DEF BuildNetpol, PolicyStep
<1>6. /\ netpols' \in Seq(Netpol) /\ (\A i \in DOMAIN netpols : Accounted(netpols[i]))'
      /\ Distinct' /\ Denied(res)'
  BY <1>1, <1>2, <1>3, <1>4, <1>5, PolicyAdded
<1>7. res' \in 1..(Len(workloads) + 1)
  BY <1>5 DEF Progress, SynthTypeOK
<1>8. QED
  BY <1>5, <1>6, <1>7, PolicyProgress

LEMMA DenyStep == ASSUME Progress, TypeOK', DenyNamespace PROVE Progress'
<1> DEFINE ns == workloads[res].namespace
           np == DenyPolicy(ns)
<1>1. res \in DOMAIN workloads /\ res' = res + 1 /\ res' \in 1..(Len(workloads) + 1)
  BY SynthTypes DEF Progress, DenyNamespace
<1>2. /\ PolicyStep /\ workloads' = workloads
      /\ netpols' = WithDeny(ns) /\ (\A x : Accounted(x)' <=> Accounted(x))
  BY PoliciesStable DEF DenyNamespace, PolicyStep
<1>3. np \in Netpol /\ np.namespace = ns /\ np.name = NoName
  <2>1. workloads[res] \in Resource
    BY <1>1, InputTypes, SynthTypes DEF Progress
  <2>2. QED
    BY <2>1 DEF DenyPolicy, Netpol, Resource
<1>4. Accounted(np)
  BY <1>1, <1>3 DEF Accounted
<1>5. /\ netpols' \in Seq(Netpol) /\ (\A i \in DOMAIN netpols : Accounted(netpols[i]))'
      /\ Distinct'
      /\ DOMAIN netpols \subseteq DOMAIN netpols'
      /\ \A i \in DOMAIN netpols : netpols'[i] = netpols[i]
      /\ \E i \in DOMAIN netpols' : netpols'[i] = np
  <2>1. CASE \E i \in DOMAIN netpols : netpols[i].name = NoName /\ netpols[i].namespace = ns
    <3>1. PICK i \in DOMAIN netpols : netpols[i].name = NoName /\ netpols[i].namespace = ns
      BY <2>1
    <3>2. netpols[i] = np
      <4>1. NoName \notin DOMAIN deploys
        BY DEF Progress, SynthTypeOK
      <4>2. Accounted(netpols[i])
        BY DEF Progress, NetpolsInv
      <4>3. QED
        BY <3>1, <4>1, <4>2 DEF Accounted
    <3>3. netpols' = netpols
      BY <1>2, <2>1 DEF WithDeny
    <3>4. (\A j \in DOMAIN netpols : Accounted(netpols[j]))' /\ Distinct'
      BY <1>2, <3>3 DEF Progress, NetpolsInv, Distinct
    <3>5. QED
      BY <3>2, <3>3, <3>4 DEF Progress, SynthTypeOK
  <2>2. CASE ~\E i \in DOMAIN netpols : netpols[i].name = NoName /\ netpols[i].namespace = ns
    <3>1. netpols' = Append(netpols, np)
      BY <1>2, <2>2 DEF WithDeny
    <3> HIDE DEF np, ns
    <3>2. QED
      BY <1>2, <1>3, <1>4, <2>2, <3>1, PolicyAdded
  <2>3. QED
    BY <2>1, <2>2
<1>6. Denied(res)'
  <2> SUFFICES ASSUME NEW w \in 1..res
               PROVE \E i \in DOMAIN netpols' : netpols'[i] = DenyPolicy(workloads[w].namespace)
    BY <1>1, <1>2, SynthTypes DEF Denied, Progress, DenyPolicy
  <2>1. CASE w = res
    BY <1>5, <2>1
  <2>2. CASE w # res
    <3>1. w \in 1..(res - 1)
      BY <2>2, SynthTypes DEF Progress
    <3>2. PICK i \in DOMAIN netpols : netpols[i] = DenyPolicy(workloads[w].namespace)
      BY <3>1 DEF Progress, NetpolsInv, Denied
    <3>3. QED
      BY <1>5, <3>2
  <2>3. QED
    BY <2>1, <2>2
<1>7. QED
  BY <1>1, <1>2, <1>5, <1>6, PolicyProgress

LEMMA SynthInductive == SynthInv /\ [SynthNext]_allVars => SynthInv'
<1> SUFFICES ASSUME SynthInv, [SynthNext]_allVars PROVE SynthInv'
  OBVIOUS
<1>1. [Next]_vars
  BY DEF SynthNext, Extract, Synthesize, SkipPortless, AllowConnection, Panic,
         BuildNetpol, DenyNamespace, Ended, allVars, Next
<1>2. IInv' /\ PortsInv' /\ TypeOK'
  BY <1>1, Inductive, PortsStep DEF SynthInv, IInv
<1>3. IInv /\ PortsInv /\ Progress
  BY DEF SynthInv
<1> SUFFICES Progress'
  BY <1>2 DEF SynthInv
<1>4. ASSUME AtConnection
      PROVE  /\ cur \in DOMAIN connections /\ cur \in Nat
             /\ DeploysOK(deploys) /\ Opened(deploys, cur) /\ Justified(deploys, cur)
  BY <1>3, <1>4, SynthTypes DEF Progress, AtConnection, RulesInv
<1>5. CASE Extract
  BY <1>2, <1>3, <1>5, ExtractStep
<1>6. CASE SkipPortless
  <2>1. /\ AtConnection /\ TargetPorts(connections[cur]) = <<>>
        /\ UNCHANGED <<vars, res, netpols>> /\ cur' = cur + 1 /\ panicked' = panicked
        /\ deploys' = Entered(connections[cur])
    BY <1>6 DEF SkipPortless
  <2>2. DeploysOK(deploys') /\ Opened(deploys', cur') /\ Justified(deploys', cur')
    BY <1>3, <1>4, <2>1, SkipRules DEF Progress
  <2>3. QED
    BY <1>2, <1>3, <2>1, <2>2, ConnectionStep
<1>7. CASE AllowConnection
  <2>1. /\ AtConnection /\ TargetPorts(connections[cur]) # <<>>
        /\ ~Nil(connections[cur].target)
        /\ UNCHANGED <<vars, res, netpols>> /\ cur' = cur + 1 /\ panicked' = panicked
        /\ deploys' = WithIngress(WithEgress(Entered(connections[cur]), connections[cur]),
                                  connections[cur])
    BY <1>7 DEF AllowConnection
  <2>2. DeploysOK(deploys') /\ Opened(deploys', cur') /\ Justified(deploys', cur')
    BY <1>3, <1>4, <2>1, AllowRules DEF Progress
  <2>3. QED
    BY <1>2, <1>3, <2>1, <2>2, ConnectionStep
<1>8. CASE Panic
  <2>1. /\ AtConnection /\ UNCHANGED <<vars, res, netpols>>
        /\ cur' = cur /\ panicked' = TRUE /\ deploys' = deploys
    BY <1>8 DEF Panic
  <2>2. DeploysOK(deploys') /\ Opened(deploys', cur') /\ Justified(deploys', cur')
    BY <1>4, <2>1
  <2>3. QED
    BY <1>2, <1>3, <2>1, <2>2, ConnectionStep
<1>9. CASE BuildNetpol
  BY <1>2, <1>3, <1>9, BuildStep
<1>10. CASE DenyNamespace
  BY <1>2, <1>3, <1>10, DenyStep
<1>11. CASE UNCHANGED allVars
  <2>1. /\ UNCHANGED vars /\ UNCHANGED <<cur, deploys, res, netpols, panicked>>
    BY <1>11 DEF allVars, outputs
  <2>2. SynthTypeOK'
    BY <1>2, <2>1, <1>3, RulesStable DEF Progress, SynthTypeOK
  <2>3. ExtractInv' /\ RulesInv'
    BY <2>1, <1>3, RulesStable DEF Progress, ExtractInv, RulesInv
  <2>4. NetpolsInv'
    BY <2>1, <1>3, RulesStable DEF Progress, NetpolsInv, Determined, Accounted, NetpolOf,
                             Distinct, Denied
  <2>5. QED
    BY <2>2, <2>3, <2>4 DEF Progress
<1>12. QED
  BY <1>5, <1>6, <1>7, <1>8, <1>9, <1>10, <1>11 DEF SynthNext, Synthesize, Ended

\* Neither discovery nor synthesis has begun.
SynthStart == Start /\ cur = 1 /\ deploys = <<>> /\ res = 1 /\ netpols = <<>>

Ready ==
  /\ workloads \in Seq(Resource) \ {<<>>} /\ services \in Seq(Service)
  /\ SynthStart /\ panicked = FALSE

LEMMA ReadyInv == Ready => SynthInv
<1> SUFFICES ASSUME Ready PROVE SynthInv
  OBVIOUS
<1>1. Pristine /\ IInv
  BY StartType, StartIInv DEF Ready, SynthStart, Pristine
<1>2. PortsInv
  BY NoneNamed DEF Ready, SynthStart, Start, PortsInv, UsedInv
<1>3. QED
  BY <1>1, <1>2, PristineProgress DEF SynthInv

LEMMA SynthInitReady == SynthInit => Ready
  BY InitStarts DEF SynthInit, Ready, SynthStart

LEMMA SynthInitInv == SynthInit => SynthInv
  BY SynthInitReady, ReadyInv

LEMMA SynthInvariant == SynthSpec => []SynthInv
<1>1. QED
  BY SynthInitInv, SynthInductive, PTL DEF SynthSpec

\* The loops of synthNetpols keep the types of what they build, and an entry
\* of deploysConnectivity stays with a workload of its name.
THEOREM SynthTypeCorrect == SynthSpec => []SynthTypeOK
<1>1. SynthInv => SynthTypeOK
  BY DEF SynthInv, Progress
<1>2. QED
  BY <1>1, SynthInvariant, PTL

\* No two policies have one name and namespace, and in the end the namespaces
\* of the workloads, and only they, are denied by default.
THEOREM DeniedByDefaultHolds == SynthSpec => []DeniedByDefault
<1>1. SynthInv => DeniedByDefault
  <2> SUFFICES ASSUME SynthInv PROVE DeniedByDefault
    OBVIOUS
  <2>1. Distinct /\ Denied(res) /\ SynthTypeOK
    BY DEF SynthInv, Progress, NetpolsInv
  <2>2. Finished => \A w \in DOMAIN workloads : w \in 1..(res - 1)
    BY <2>1, SynthTypes DEF Finished
  <2>3. ASSUME NEW i \in DOMAIN netpols, netpols[i].name \notin DOMAIN deploys
        PROVE  \E w \in DOMAIN workloads : netpols[i] = DenyPolicy(workloads[w].namespace)
    <3>1. Accounted(netpols[i])
      BY DEF SynthInv, Progress, NetpolsInv
    <3>2. QED
      BY <2>3, <3>1 DEF Accounted
  <2>4. QED
    BY <2>1, <2>2, <2>3 DEF Distinct, Denied, DeniedByDefault
<1>2. QED
  BY <1>1, SynthInvariant, PTL

-----------------------------------------------------------------------------
(* The two halves of a connection *)

LEMMA PairedEgress ==
  ASSUME SynthInv, NEW n \in DOMAIN deploys, NEW i \in DOMAIN deploys[n].egress
  PROVE  \E m \in DOMAIN deploys :
           /\ deploys[n].egress[i].peers = {NetpolPeer(deploys, n, m)}
           /\ \E j \in DOMAIN deploys[m].ingress :
                /\ deploys[m].ingress[j].ports = deploys[n].egress[i].ports
                /\ deploys[m].ingress[j].peers \in {{}, {NetpolPeer(deploys, m, n)}}
<1> DEFINE r == deploys[n].egress[i]
<1>1. Has(deploys[n].egress, r)
  BY DEF Has
<1> HIDE DEF r
<1>2. PICK k \in DOMAIN connections : k < cur /\ EgressFrom(deploys, n, r, k)
  BY <1>1 DEF SynthInv, Progress, RulesInv, Justified
<1> DEFINE c == connections[k]
           m == workloads[c.target].name
<1>3. Allows(c) /\ ~Nil(c.source) /\ n = workloads[c.source].name /\ r = EgressRule(deploys, c)
  BY <1>2 DEF EgressFrom
<1>4. m \in DOMAIN deploys /\ Has(deploys[m].ingress, IngressRule(deploys, c))
  BY <1>2, <1>3 DEF SynthInv, Progress, RulesInv, Opened, OpenedBy, Allows
<1>5. r.peers = {NetpolPeer(deploys, n, m)} /\ r.ports = TargetPorts(c)
  BY <1>3 DEF EgressRule
<1>6. /\ IngressRule(deploys, c).ports = TargetPorts(c)
      /\ IngressRule(deploys, c).peers \in {{}, {NetpolPeer(deploys, m, n)}}
  BY <1>3 DEF IngressRule, IngressPeers
<1> HIDE DEF c, m
<1>7. QED
  BY <1>4, <1>5, <1>6 DEF Has, r

LEMMA PairedIngress ==
  ASSUME SynthInv, NEW n \in DOMAIN deploys, NEW i \in DOMAIN deploys[n].ingress
  PROVE  \/ deploys[n].ingress[i].peers \in {{}, {ClusterPeer}}
         \/ \E m \in DOMAIN deploys :
              /\ deploys[n].ingress[i].peers = {NetpolPeer(deploys, n, m)}
              /\ \E j \in DOMAIN deploys[m].egress :
                   /\ deploys[m].egress[j].ports = deploys[n].ingress[i].ports
                   /\ deploys[m].egress[j].peers = {NetpolPeer(deploys, m, n)}
<1> DEFINE r == deploys[n].ingress[i]
<1>1. Has(deploys[n].ingress, r)
  BY DEF Has
<1> HIDE DEF r
<1>2. PICK k \in DOMAIN connections : k < cur /\ IngressFrom(deploys, n, r, k)
  BY <1>1 DEF SynthInv, Progress, RulesInv, Justified
<1> DEFINE c == connections[k]
           m == workloads[c.source].name
<1>3. Allows(c) /\ n = workloads[c.target].name /\ r = IngressRule(deploys, c)
  BY <1>2 DEF IngressFrom
<1>4. CASE services[c.link].exposeExternally \/ Nil(c.source)
  BY <1>3, <1>4 DEF IngressRule, IngressPeers, r
<1>5. CASE ~(services[c.link].exposeExternally \/ Nil(c.source))
  <2>1. m \in DOMAIN deploys /\ Has(deploys[m].egress, EgressRule(deploys, c))
    BY <1>2, <1>3, <1>5 DEF SynthInv, Progress, RulesInv, Opened, OpenedBy, Allows
  <2>2. r.peers = {NetpolPeer(deploys, n, m)} /\ r.ports = TargetPorts(c)
    BY <1>3, <1>5 DEF IngressRule, IngressPeers
  <2>3. /\ EgressRule(deploys, c).ports = TargetPorts(c)
        /\ EgressRule(deploys, c).peers = {NetpolPeer(deploys, m, n)}
    BY <1>3 DEF EgressRule
  <2> HIDE DEF c, m
  <2>4. QED
    BY <2>1, <2>2, <2>3 DEF Has, r
<1>6. QED
  BY <1>4, <1>5

\* An egress rule always has its ingress rule at the other deployment, and an
\* ingress rule for a deployment its egress rule.
THEOREM HalvesPairedHolds == SynthSpec => []HalvesPaired
<1>1. SynthInv => HalvesPaired
  BY PairedEgress, PairedIngress DEF HalvesPaired
<1>2. QED
  BY <1>1, SynthInvariant, PTL

-----------------------------------------------------------------------------
(* What the policies allow *)

\* In the end each entry has its policy.
LEMMA EntryBuilt ==
  ASSUME SynthInv, Finished, NEW n \in DOMAIN deploys
  PROVE  \E i \in DOMAIN netpols : netpols[i] = NetpolOf(n)
<1>1. PICK i \in DOMAIN netpols : netpols[i].name = n
  BY DEF Finished, Unbuilt
<1>2. Accounted(netpols[i]) /\ SynthTypeOK
  BY DEF SynthInv, Progress, NetpolsInv
<1>3. n # NoName
  BY <1>2, NetpolOfType
<1>4. QED
  BY <1>1, <1>2, <1>3 DEF Accounted, DenyPolicy

\* The policy of an entry selects the workloads of its name.
LEMMA PolicySelects ==
  ASSUME SynthInv, NamesIdentify, NEW w \in DOMAIN workloads,
         workloads[w].name \in DOMAIN deploys
  PROVE  /\ Selects(NetpolOf(workloads[w].name), w)
         /\ Alike(deploys[workloads[w].name].resource, w)
<1> DEFINE n == workloads[w].name
           v == deploys[n].resource
<1>1. v \in DOMAIN workloads /\ workloads[v].name = n
  BY SynthTypes DEF SynthInv, Progress, DeploysOK
<1>2. Alike(v, w)
  BY <1>1 DEF NamesIdentify
<1>3. QED
  BY <1>2 DEF Alike, Selects, NetpolOf

\* A rule for the peer of an entry covers the workloads of its name.
LEMMA PeerCovers ==
  ASSUME SynthInv, NamesIdentify, NEW w \in DOMAIN workloads, NEW d \in DOMAIN deploys,
         workloads[w].name \in DOMAIN deploys, NEW rule,
         rule.peers = {NetpolPeer(deploys, d, workloads[w].name)}
  PROVE  Covers(rule, NetpolOf(d), w)
<1> DEFINE peer == NetpolPeer(deploys, d, workloads[w].name)
<1>1. Alike(deploys[workloads[w].name].resource, w)
  BY PolicySelects
<1>2. NetpolOf(d).namespace = workloads[deploys[d].resource].namespace
  BY DEF NetpolOf
<1>3. /\ peer.labels \subseteq workloads[w].labels
      /\ \/ peer.namespace = workloads[w].namespace
         \/ peer.namespace = NoNamespace /\ workloads[w].namespace = NetpolOf(d).namespace
  BY <1>1, <1>2 DEF NetpolPeer, Alike
<1>4. peer \in rule.peers
  OBVIOUS
<1> HIDE DEF peer
<1>5. QED
  BY <1>3, <1>4 DEF Covers

\* The policy of an entry has the rules of the entry, and DNS if it has egress.
LEMMA PolicyRules ==
  ASSUME SynthInv, NEW n \in DOMAIN deploys
  PROVE  /\ NetpolOf(n).ingress = deploys[n].ingress
         /\ \A r : Has(NetpolOf(n).egress, r) =>
              Has(deploys[n].egress, r) \/ r = DNSRule
         /\ \A r : Has(deploys[n].egress, r) =>
              Has(NetpolOf(n).egress, r) /\ Has(NetpolOf(n).egress, DNSRule)
<1>1. deploys[n] \in Deploy /\ deploys[n].egress \in Seq(Rule)
  BY SynthTypes DEF SynthInv, Progress, DeploysOK, Deploy
<1>3. \A r : Has(AddRule(deploys[n].egress, DNSRule), r) <=>
               Has(deploys[n].egress, r) \/ r = DNSRule
  BY <1>1, DNSRuleType, AddRuleIs
<1>4. CASE deploys[n].egress = <<>>
  BY <1>4 DEF NetpolOf, Has
<1>5. CASE deploys[n].egress # <<>>
  <2>1. NetpolOf(n).egress = AddRule(deploys[n].egress, DNSRule)
    BY <1>5 DEF NetpolOf
  <2>2. NetpolOf(n).ingress = deploys[n].ingress
    BY DEF NetpolOf
  <2>3. QED
    BY <1>3, <2>1, <2>2
<1>6. QED
  BY <1>4, <1>5

\* A port the connection needs makes it behind cur and open in the end.
LEMMA OpenInTheEnd ==
  ASSUME SynthInv, Finished, NEW i \in DOMAIN connections,
         NEW p, Among(p, TargetPorts(connections[i]))
  PROVE  OpenedBy(deploys, connections[i])
<1>1. i < cur
  BY SynthTypes DEF SynthInv, Progress, Finished, Determined
<1>2. TargetPorts(connections[i]) # <<>>
  BY DEF Among
<1>3. QED
  BY <1>1, <1>2 DEF SynthInv, Progress, RulesInv, Opened

LEMMA DetectedIsAllowed ==
  ASSUME SynthInv, Finished, NamesIdentify, NEW i \in DOMAIN connections,
         ~Nil(connections[i].source), NEW p \in ConnectionPorts(connections[i])
  PROVE  /\ EgressAllowed(connections[i].source, connections[i].target, p)
         /\ IngressAllowed(connections[i].source, connections[i].target, p)
         /\ \A w \in DOMAIN workloads : EgressAllowed(connections[i].source, w, DNS)
<1> DEFINE c == connections[i]
           s == workloads[c.source].name
           t == workloads[c.target].name
           in == IngressRule(deploys, c)
           out == EgressRule(deploys, c)
<1>1. TypeOK /\ Proper(c) /\ ~Nil(c.source)
  BY SynthTypes, ConnectionsProper DEF SynthInv, Progress
<1>2. Among(p, TargetPorts(c))
  BY <1>1, TargetPortsAre
<1>3. /\ s \in DOMAIN deploys /\ Has(deploys[s].egress, out)
      /\ t \in DOMAIN deploys /\ Has(deploys[t].ingress, in)
  BY <1>1, <1>2, OpenInTheEnd DEF OpenedBy
<1>4. c.source \in DOMAIN workloads /\ c.target \in DOMAIN workloads
  BY <1>1 DEF Proper, Nil
<1>5. /\ out.peers = {NetpolPeer(deploys, s, t)} /\ Opens(out, p)
      /\ Opens(in, p)
      /\ in.peers = {} \/ in.peers = {NetpolPeer(deploys, t, s)}
  BY <1>1, <1>2 DEF EgressRule, IngressRule, IngressPeers, Opens, Among
<1> HIDE DEF c, in, out
<1>6. Covers(out, NetpolOf(s), c.target) /\ Covers(in, NetpolOf(t), c.source)
  <2>1. Covers(out, NetpolOf(s), c.target)
    BY <1>3, <1>4, <1>5, PeerCovers
  <2>2. in.peers = {NetpolPeer(deploys, t, s)} => Covers(in, NetpolOf(t), c.source)
    BY <1>3, <1>4, PeerCovers
  <2>3. in.peers = {} => Covers(in, NetpolOf(t), c.source)
    BY DEF Covers
  <2>4. QED
    BY <1>5, <2>1, <2>2, <2>3
<1>7. Opens(DNSRule, DNS) /\ \A w : Covers(DNSRule, NetpolOf(s), w)
  BY DEF Opens, DNSRule, DNS, Covers, ClusterPeer
<1>8. Selects(NetpolOf(s), c.source) /\ Selects(NetpolOf(t), c.target)
  BY <1>3, <1>4, PolicySelects
<1>9. PICK a \in DOMAIN netpols : netpols[a] = NetpolOf(s)
  BY <1>3, EntryBuilt
<1>10. PICK b \in DOMAIN netpols : netpols[b] = NetpolOf(t)
  BY <1>3, EntryBuilt
<1>11. Has(netpols[a].egress, out) /\ Has(netpols[a].egress, DNSRule)
  BY <1>3, <1>9, PolicyRules
<1>12. Has(netpols[b].ingress, in)
  BY <1>3, <1>10, PolicyRules
<1> HIDE DEF s, t
<1>13. EgressAllowed(c.source, c.target, p)
  BY <1>5, <1>6, <1>8, <1>9, <1>11 DEF EgressAllowed, Has
<1>14. ASSUME NEW w \in DOMAIN workloads PROVE EgressAllowed(c.source, w, DNS)
  BY <1>7, <1>8, <1>9, <1>11 DEF EgressAllowed, Has
<1>15. IngressAllowed(c.source, c.target, p)
  BY <1>5, <1>6, <1>8, <1>10, <1>12 DEF IngressAllowed, Has
<1>16. QED
  BY <1>13, <1>14, <1>15 DEF c

\* Every detected connection is open on both sides for all its ports, and its
\* source may ask the DNS, if the name of a workload identifies its namespace
\* and labels.
THEOREM DetectedAllowedHolds == SynthSpec => []DetectedAllowed
<1>1. SynthInv => DetectedAllowed
  BY DetectedIsAllowed, Zenon DEF DetectedAllowed
<1>2. QED
  BY <1>1, SynthInvariant, PTL

\* A service with an exposed port has a connection without a source.
LEMMA SourcelessFound ==
  ASSUME SynthInv, Done, NEW l \in DOMAIN services, NEW d \in DOMAIN workloads,
         Promise!Exposes(l, d), HasExposedPorts(services[l])
  PROVE  \E i \in DOMAIN connections :
           /\ connections[i].source = NoSource
           /\ connections[i].target = d
           /\ connections[i].link = l
<1>1. Promise!Required(NoSource, d, l)
  BY DEF Promise!Required, Promise!NoSource, NoSource,
         Promise!HasExposedPorts, HasExposedPorts
<1>2. NoSource \in Promise!Sources
  BY DEF Promise!Sources, Promise!NoSource, NoSource
<1>3. QED
  BY <1>1, <1>2, CompleteIsAllRequired DEF SynthInv, AllRequired

\* The ports of a connection without a source are open to all, or to the
\* cluster.
LEMMA SourcelessIsOpen ==
  ASSUME SynthInv, Finished, NamesIdentify, NEW i \in DOMAIN connections,
         connections[i].source = NoSource, NEW p, Among(p, TargetPorts(connections[i]))
  PROVE  OpenTo(connections[i].target, p,
                IF services[connections[i].link].exposeExternally THEN {} ELSE {ClusterPeer})
<1> DEFINE c == connections[i]
           t == workloads[c.target].name
           in == IngressRule(deploys, c)
           peers == IF services[c.link].exposeExternally THEN {} ELSE {ClusterPeer}
<1>1. c.target \in DOMAIN workloads
  BY ConnectionsProper DEF SynthInv, Proper
<1>2. t \in DOMAIN deploys /\ Has(deploys[t].ingress, in)
  BY OpenInTheEnd DEF OpenedBy
<1>3. in.peers = peers /\ Opens(in, p)
  BY DEF IngressRule, IngressPeers, Nil, Opens, Among
<1>4. Selects(NetpolOf(t), c.target)
  BY <1>1, <1>2, PolicySelects
<1>5. PICK a \in DOMAIN netpols : netpols[a] = NetpolOf(t)
  BY <1>2, EntryBuilt
<1>6. Has(netpols[a].ingress, in)
  BY <1>2, <1>5, PolicyRules
<1> HIDE DEF c, t, in, peers
<1>7. OpenTo(c.target, p, peers)
  BY <1>3, <1>4, <1>5, <1>6 DEF OpenTo, Has
<1>8. QED
  BY <1>7 DEF c, peers

LEMMA ExposedOpen ==
  ASSUME SynthInv, Finished, NamesIdentify, NEW d \in DOMAIN workloads, NEW p
  PROVE  /\ ExternalPort(d, p) => OpenTo(d, p, {})
         /\ ClusterPort(d, p) => OpenTo(d, p, {ClusterPeer}) \/ ExternalPort(d, p)
<1>1. TypeOK /\ Done
  BY SynthTypes DEF SynthInv, Progress, Finished, Determined
<1>2. ASSUME ExternalPort(d, p) PROVE OpenTo(d, p, {})
  <2>1. PICK l \in DOMAIN services :
          Promise!Exposes(l, d) /\ services[l].exposeExternally /\ p \in PortsOf(l)
    BY <1>2 DEF ExternalPort
  <2>2. PICK i \in DOMAIN connections :
          /\ connections[i].source = NoSource
          /\ connections[i].target = d
          /\ connections[i].link = l
    BY <1>1, <2>1, SourcelessFound DEF HasExposedPorts
  <2>3. Proper(connections[i])
    BY ConnectionsProper DEF SynthInv
  <2>4. Among(p, TargetPorts(connections[i]))
    BY <1>1, <2>1, <2>2, <2>3, TargetPortsAre DEF PortsOf
  <2>5. QED
    BY <2>1, <2>2, <2>4, SourcelessIsOpen
<1>3. ASSUME ClusterPort(d, p), ~ExternalPort(d, p) PROVE OpenTo(d, p, {ClusterPeer})
  <2>1. PICK l \in DOMAIN services :
          /\ Promise!Exposes(l, d)
          /\ \E q \in DOMAIN services[l].network :
               services[l].network[q].exposeToCluster /\ p = ToNetpolPort(services[l].network[q])
    BY <1>3 DEF ClusterPort
  <2>2. ~services[l].exposeExternally
    BY <1>3, <2>1 DEF ExternalPort, PortsOf
  <2>3. PICK i \in DOMAIN connections :
          /\ connections[i].source = NoSource
          /\ connections[i].target = d
          /\ connections[i].link = l
    BY <1>1, <2>1, SourcelessFound DEF HasExposedPorts
  <2>4. Proper(connections[i])
    BY ConnectionsProper DEF SynthInv
  <2>5. Among(p, TargetPorts(connections[i]))
    BY <1>1, <2>1, <2>3, <2>4, TargetPortsAre
  <2>6. QED
    BY <2>2, <2>3, <2>5, SourcelessIsOpen
<1>4. QED
  BY <1>2, <1>3

\* Every port of a service that is exposed, to the outside or to the cluster,
\* is open to it at each workload behind the service, if the name of a
\* workload identifies its namespace and labels.
THEOREM ExposedIsOpenHolds == SynthSpec => []ExposedIsOpen
<1>1. SynthInv => ExposedIsOpen
  BY ExposedOpen, Zenon DEF ExposedIsOpen
<1>2. QED
  BY <1>1, SynthInvariant, PTL

-----------------------------------------------------------------------------
(* What the policies do not allow *)

\* A policy with rules is that of an entry.
LEMMA PolicyWithRules ==
  ASSUME SynthInv, NEW i \in DOMAIN netpols,
         netpols[i].ingress # <<>> \/ netpols[i].egress # <<>>
  PROVE  \E n \in DOMAIN deploys : netpols[i] = NetpolOf(n)
<1>1. Accounted(netpols[i])
  BY DEF SynthInv, Progress, NetpolsInv
<1>2. QED
  BY <1>1 DEF Accounted, DenyPolicy

\* A rule of a policy that selects d is that of a connection to one like d.
LEMMA IngressComesFrom ==
  ASSUME SynthInv, NamesIdentify, LabelsIdentify, NEW d \in DOMAIN workloads,
         NEW i \in DOMAIN netpols, Selects(netpols[i], d), NEW q \in DOMAIN netpols[i].ingress
  PROVE  \E k \in DOMAIN connections :
           /\ Allows(connections[k])
           /\ netpols[i].ingress[q] = IngressRule(deploys, connections[k])
           /\ Ends(deploys, connections[k])
           /\ Alike(connections[k].target, d)
<1>1. netpols[i].ingress # <<>>
  OBVIOUS
<1>2. PICK n \in DOMAIN deploys : netpols[i] = NetpolOf(n)
  BY <1>1, PolicyWithRules
<1>3. Has(deploys[n].ingress, netpols[i].ingress[q])
  BY <1>2, PolicyRules DEF Has
<1>4. PICK k \in DOMAIN connections :
        k < cur /\ IngressFrom(deploys, n, netpols[i].ingress[q], k)
  BY <1>3 DEF SynthInv, Progress, RulesInv, Justified
<1> DEFINE c == connections[k]
<1>5. /\ Allows(c) /\ n = workloads[c.target].name
      /\ netpols[i].ingress[q] = IngressRule(deploys, c)
  BY <1>4 DEF IngressFrom
<1>6. OpenedBy(deploys, c)
  BY <1>4, <1>5 DEF SynthInv, Progress, RulesInv, Opened, Allows
<1>7. Ends(deploys, c)
  BY <1>6 DEF OpenedBy, Ends
<1>8. c.target \in DOMAIN workloads
  BY ConnectionsProper DEF SynthInv, Proper
<1>9. deploys[n].resource \in DOMAIN workloads
  BY SynthTypes DEF SynthInv, Progress, DeploysOK
<1>10. Alike(deploys[n].resource, c.target)
  BY <1>5, <1>8, PolicySelects
<1>11. Alike(deploys[n].resource, d)
  BY <1>2, <1>9 DEF Selects, NetpolOf, LabelsIdentify
<1>12. Alike(c.target, d)
  BY <1>10, <1>11 DEF Alike
<1>13. QED
  BY <1>5, <1>7, <1>12

\* A rule whose only peer is that of entry o covers only workloads like it.
LEMMA CoversOnly ==
  ASSUME SynthInv, NamesIdentify, LabelsIdentify, NEW d \in DOMAIN workloads,
         NEW v \in DOMAIN workloads, workloads[v].name \in DOMAIN deploys,
         NEW n, NEW rule, NEW np,
         rule.peers = {NetpolPeer(deploys, n, workloads[v].name)}, Covers(rule, np, d)
  PROVE  Alike(v, d)
<1> DEFINE o == workloads[v].name
<1>1. deploys[o].resource \in DOMAIN workloads
  BY SynthTypes DEF SynthInv, Progress, DeploysOK
<1>2. NetpolPeer(deploys, n, o).labels \subseteq workloads[d].labels
  BY DEF Covers
<1>3. workloads[deploys[o].resource].labels \subseteq workloads[d].labels
  BY <1>2 DEF NetpolPeer
<1>4. Alike(deploys[o].resource, d)
  BY <1>1, <1>3 DEF LabelsIdentify
<1>5. Alike(deploys[o].resource, v)
  BY PolicySelects
<1>6. QED
  BY <1>4, <1>5 DEF Alike

\* The ports of a connection are ports of its service, which exposes its target.
LEMMA ServicePorts ==
  ASSUME SynthInv, NEW k \in DOMAIN connections
  PROVE  /\ ConnectionPorts(connections[k]) \subseteq PortsOf(connections[k].link)
         /\ connections[k].link \in DOMAIN services
         /\ \A d : Alike(connections[k].target, d) => Promise!Exposes(connections[k].link, d)
<1> DEFINE c == connections[k]
<1>1. IInv /\ ExactPorts(c)
  BY DEF SynthInv, PortsInv
<1>2. \A u \in DOMAIN c.usedPorts :
        \E q \in DOMAIN services[c.link].network : c.usedPorts[u] = services[c.link].network[q]
  BY <1>1 DEF ExactPorts, PortsNamed, StandsFor, IsFirstPort
<1>3. ConnectionPorts(c) \subseteq PortsOf(c.link)
  BY <1>2 DEF ConnectionPorts, PortsOf
<1>4. Promise!Exposes(c.link, c.target) /\ c.link \in DOMAIN services
  BY <1>1, Triples DEF IInv, Promise!Required
<1>5. QED
  BY <1>3, <1>4 DEF Promise!Exposes, Alike

\* What an ingress rule opens, by the kind of its connection.
LEMMA IngressOpens ==
  ASSUME SynthInv, AllNamed, NEW k \in DOMAIN connections, Allows(connections[k]),
         NEW d \in DOMAIN workloads, Alike(connections[k].target, d),
         NEW p, Opens(IngressRule(deploys, connections[k]), p)
  PROVE  /\ services[connections[k].link].exposeExternally => ExternalPort(d, p)
         /\ Nil(connections[k].source) =>
              /\ connections[k].source = NoSource
              /\ ExternalPort(d, p) \/ ClusterPort(d, p)
              /\ ~services[connections[k].link].exposeExternally => ClusterPort(d, p)
         /\ ~Nil(connections[k].source) => p \in ConnectionPorts(connections[k])
<1> DEFINE c == connections[k]
           l == c.link
<1>1. TypeOK /\ Proper(c)
  BY SynthTypes, ConnectionsProper DEF SynthInv, Progress
<1>2. Among(p, TargetPorts(c))
  BY DEF Opens, Among, IngressRule, Allows
<1>3. /\ ConnectionPorts(c) \subseteq PortsOf(l) /\ l \in DOMAIN services
      /\ Promise!Exposes(l, d)
  BY ServicePorts
<1>4. CASE ~Nil(c.source)
  <2>1. p \in ConnectionPorts(c)
    BY <1>1, <1>2, <1>4, TargetPortsAre
  <2>2. QED
    BY <1>3, <1>4, <2>1 DEF ExternalPort
<1>5. CASE Nil(c.source)
  <2>1. c.source = NoSource
    BY <1>1, <1>5 DEF Nil, Proper, AllNamed
  <2>2. PICK q \in DOMAIN services[l].network :
          /\ p = ToNetpolPort(services[l].network[q])
          /\ services[l].exposeExternally \/ services[l].network[q].exposeToCluster
    BY <1>1, <1>2, <2>1, TargetPortsAre
  <2>3. p \in PortsOf(l)
    BY <2>2 DEF PortsOf
  <2>4. services[l].exposeExternally => ExternalPort(d, p)
    BY <1>3, <2>3 DEF ExternalPort
  <2>5. ~services[l].exposeExternally => ClusterPort(d, p)
    BY <1>3, <2>2 DEF ClusterPort
  <2>6. QED
    BY <1>5, <2>1, <2>4, <2>5
<1>6. QED
  BY <1>4, <1>5

LEMMA OpenToIsExternal ==
  ASSUME SynthInv, AllNamed, NamesIdentify, LabelsIdentify, NEW d \in DOMAIN workloads,
         NEW p, OpenTo(d, p, {})
  PROVE  ExternalPort(d, p)
<1>1. PICK i \in DOMAIN netpols :
        /\ Selects(netpols[i], d)
        /\ \E q \in DOMAIN netpols[i].ingress :
             Opens(netpols[i].ingress[q], p) /\ netpols[i].ingress[q].peers = {}
  BY DEF OpenTo
<1>2. PICK q \in DOMAIN netpols[i].ingress :
        Opens(netpols[i].ingress[q], p) /\ netpols[i].ingress[q].peers = {}
  BY <1>1
<1>3. PICK k \in DOMAIN connections :
        /\ Allows(connections[k])
        /\ netpols[i].ingress[q] = IngressRule(deploys, connections[k])
        /\ Alike(connections[k].target, d)
  BY <1>1, IngressComesFrom
<1>4. services[connections[k].link].exposeExternally
  BY <1>2, <1>3 DEF IngressRule, IngressPeers
<1>5. QED
  BY <1>2, <1>3, <1>4, IngressOpens

\* Open to the cluster is only what is exposed to it: a rule for one workload
\* is not one for all.
LEMMA OpenToIsCluster ==
  ASSUME SynthInv, AllNamed, NamesIdentify, LabelsIdentify, NEW d \in DOMAIN workloads,
         NEW p, OpenTo(d, p, {ClusterPeer})
  PROVE  ClusterPort(d, p)
<1>1. PICK i \in DOMAIN netpols :
        /\ Selects(netpols[i], d)
        /\ \E q \in DOMAIN netpols[i].ingress :
             Opens(netpols[i].ingress[q], p) /\ netpols[i].ingress[q].peers = {ClusterPeer}
  BY DEF OpenTo
<1>2. PICK q \in DOMAIN netpols[i].ingress :
        Opens(netpols[i].ingress[q], p) /\ netpols[i].ingress[q].peers = {ClusterPeer}
  BY <1>1
<1>3. PICK k \in DOMAIN connections :
        /\ Allows(connections[k])
        /\ netpols[i].ingress[q] = IngressRule(deploys, connections[k])
        /\ Ends(deploys, connections[k])
        /\ Alike(connections[k].target, d)
  BY <1>1, IngressComesFrom
<1> DEFINE c == connections[k]
           s == workloads[c.source].name
           t == workloads[c.target].name
<1>4. IngressPeers(deploys, c) = {ClusterPeer}
  BY <1>2, <1>3 DEF IngressRule
<1>5. ~services[c.link].exposeExternally
  BY <1>4 DEF IngressPeers
<1>6. CASE Nil(c.source)
  BY <1>2, <1>3, <1>5, <1>6, IngressOpens
<1>7. CASE ~Nil(c.source)
  <2>1. NetpolPeer(deploys, t, s) = ClusterPeer
    BY <1>4, <1>5, <1>7 DEF IngressPeers
  <2>2. s \in DOMAIN deploys /\ t \in DOMAIN deploys
    BY <1>3, <1>7 DEF Ends, Allows
  <2>3. deploys[s].resource \in DOMAIN workloads /\ deploys[t].resource \in DOMAIN workloads
    BY <2>2, SynthTypes DEF SynthInv, Progress, DeploysOK
  <2>4. workloads[deploys[s].resource].labels = {}
    BY <2>1 DEF NetpolPeer, ClusterPeer
  <2>5. Alike(deploys[s].resource, deploys[t].resource)
    BY <2>3, <2>4 DEF LabelsIdentify
  <2>6. NetpolPeer(deploys, t, s).namespace = NoNamespace
    BY <2>5 DEF NetpolPeer, Alike
  <2>7. QED
    BY <2>1, <2>6 DEF ClusterPeer, AnyNamespace, NoNamespace
<1>8. QED
  BY <1>6, <1>7

LEMMA IngressIsDetected ==
  ASSUME SynthInv, AllNamed, NamesIdentify, LabelsIdentify, NEW d \in DOMAIN workloads,
         NEW s \in DOMAIN workloads, NEW p, IngressAllowed(s, d, p)
  PROVE  Detected(s, d, p) \/ ExternalPort(d, p) \/ ClusterPort(d, p)
<1>1. PICK i \in DOMAIN netpols :
        /\ Selects(netpols[i], d)
        /\ \E q \in DOMAIN netpols[i].ingress :
             Opens(netpols[i].ingress[q], p) /\ Covers(netpols[i].ingress[q], netpols[i], s)
  BY DEF IngressAllowed
<1>2. PICK q \in DOMAIN netpols[i].ingress :
        Opens(netpols[i].ingress[q], p) /\ Covers(netpols[i].ingress[q], netpols[i], s)
  BY <1>1
<1>3. PICK k \in DOMAIN connections :
        /\ Allows(connections[k])
        /\ netpols[i].ingress[q] = IngressRule(deploys, connections[k])
        /\ Ends(deploys, connections[k])
        /\ Alike(connections[k].target, d)
  BY <1>1, IngressComesFrom
<1> DEFINE c == connections[k]
<1>4. CASE services[c.link].exposeExternally \/ Nil(c.source)
  BY <1>2, <1>3, <1>4, IngressOpens
<1>5. CASE ~(services[c.link].exposeExternally \/ Nil(c.source))
  <2>1. netpols[i].ingress[q].peers =
          {NetpolPeer(deploys, workloads[c.target].name, workloads[c.source].name)}
    BY <1>3, <1>5 DEF IngressRule, IngressPeers
  <2>2. c.source \in DOMAIN workloads /\ c.source # NoSource
    BY <1>5, ConnectionsProper DEF SynthInv, Proper, Nil
  <2>3. workloads[c.source].name \in DOMAIN deploys
    BY <1>3, <1>5 DEF Ends
  <2>4. Alike(c.source, s)
    BY <1>2, <2>1, <2>2, <2>3, CoversOnly
  <2>5. p \in ConnectionPorts(c)
    BY <1>2, <1>3, <1>5, IngressOpens
  <2>6. QED
    BY <1>3, <2>2, <2>4, <2>5 DEF Detected
<1>6. QED
  BY <1>4, <1>5

LEMMA EgressIsDetected ==
  ASSUME SynthInv, NamesIdentify, LabelsIdentify, NEW d \in DOMAIN workloads,
         NEW s \in DOMAIN workloads, NEW p, EgressAllowed(s, d, p)
  PROVE  p = DNS \/ Detected(s, d, p)
<1>1. PICK i \in DOMAIN netpols :
        /\ Selects(netpols[i], s)
        /\ \E q \in DOMAIN netpols[i].egress :
             Opens(netpols[i].egress[q], p) /\ Covers(netpols[i].egress[q], netpols[i], d)
  BY DEF EgressAllowed
<1>2. PICK q \in DOMAIN netpols[i].egress :
        Opens(netpols[i].egress[q], p) /\ Covers(netpols[i].egress[q], netpols[i], d)
  BY <1>1
<1> DEFINE rule == netpols[i].egress[q]
<1>3. netpols[i].egress # <<>>
  OBVIOUS
<1>4. PICK n \in DOMAIN deploys : netpols[i] = NetpolOf(n)
  BY <1>3, PolicyWithRules
<1>5. Has(deploys[n].egress, rule) \/ rule = DNSRule
  BY <1>4, PolicyRules DEF Has
<1> HIDE DEF rule
<1>6. CASE rule = DNSRule
  BY <1>2, <1>6 DEF Opens, DNSRule, DNS, rule
<1>7. CASE Has(deploys[n].egress, rule)
  <2>1. PICK k \in DOMAIN connections : k < cur /\ EgressFrom(deploys, n, rule, k)
    BY <1>7 DEF SynthInv, Progress, RulesInv, Justified
  <2> DEFINE c == connections[k]
  <2>2. /\ Allows(c) /\ ~Nil(c.source) /\ n = workloads[c.source].name
        /\ rule = EgressRule(deploys, c)
    BY <2>1 DEF EgressFrom
  <2>3. TypeOK /\ Proper(c)
    BY SynthTypes, ConnectionsProper DEF SynthInv, Progress
  <2>4. /\ c.source \in DOMAIN workloads /\ c.source # NoSource
        /\ c.target \in DOMAIN workloads
    BY <2>2, <2>3 DEF Proper, Nil
  <2>5. OpenedBy(deploys, c)
    BY <2>1, <2>2 DEF SynthInv, Progress, RulesInv, Opened, Allows
  <2>6. workloads[c.target].name \in DOMAIN deploys
    BY <2>5 DEF OpenedBy
  <2>7. rule.peers = {NetpolPeer(deploys, n, workloads[c.target].name)}
        /\ rule.ports = TargetPorts(c)
    BY <2>2 DEF EgressRule
  <2>8. Alike(c.target, d)
    BY <1>2, <2>4, <2>6, <2>7, CoversOnly DEF rule
  <2>9. deploys[n].resource \in DOMAIN workloads
    BY SynthTypes DEF SynthInv, Progress, DeploysOK
  <2>10. Alike(deploys[n].resource, s)
    BY <1>1, <1>4, <2>9 DEF Selects, NetpolOf, LabelsIdentify
  <2>11. Alike(deploys[n].resource, c.source)
    BY <2>2, <2>4, PolicySelects
  <2>12. Alike(c.source, s)
    BY <2>10, <2>11 DEF Alike
  <2>13. p \in ConnectionPorts(c)
    <3>1. Among(p, TargetPorts(c))
      BY <1>2, <2>2, <2>7 DEF Opens, Among, Allows, rule
    <3>2. QED
      BY <2>2, <2>3, <3>1, TargetPortsAre
  <2>14. QED
    BY <2>4, <2>8, <2>12, <2>13 DEF Detected
<1>8. QED
  BY <1>5, <1>6, <1>7

\* Nothing else is open: egress is a detected connection or DNS, ingress is
\* a detected connection or an exposed port; if names, and labels, identify
\* workloads.
THEOREM OnlyDetectedAllowedHolds == SynthSpec => []OnlyDetectedAllowed
<1>1. SynthInv => OnlyDetectedAllowed
  BY OpenToIsExternal, IngressIsDetected, EgressIsDetected, Zenon DEF OnlyDetectedAllowed
<1>2. QED
  BY <1>1, SynthInvariant, PTL

-----------------------------------------------------------------------------
(* Exposure in Pipeline and in its proofs *)

P == INSTANCE Exposure_proofs

LEMMA SameSets ==
  /\ Acc!ServiceInfo = P!ServiceInfo
  /\ Acc!PointingInfo = P!PointingInfo
  /\ Acc!ServiceInfos = P!ServiceInfos
  /\ Acc!accVars = P!accVars
<1>1. Acc!ServiceInfo = P!ServiceInfo
  BY DEF Acc!ServiceInfo, P!ServiceInfo, Acc!Annotations, P!Annotations,
         Acc!IntOrString, P!IntOrString
<1>2. Acc!PointingInfo = P!PointingInfo
  BY DEF Acc!PointingInfo, P!PointingInfo, Acc!PointingKinds, P!PointingKinds,
         Acc!Backend, P!Backend, Acc!IntOrString, P!IntOrString
<1>3. Acc!ServiceInfos = P!ServiceInfos
  BY <1>1 DEF Acc!ServiceInfos, P!ServiceInfos, Acc!Those, P!Those
<1>4. Acc!accVars = P!accVars
  BY DEF Acc!accVars, P!accVars
<1>5. QED
  BY <1>1, <1>2, <1>3, <1>4

LEMMA SameParts ==
  /\ Acc!AllParsed <=> P!AllParsed
  /\ Acc!Accumulated <=> P!Accumulated
  /\ Acc!NilPort = P!NilPort
  /\ Acc!NextInfo = P!NextInfo
  /\ \A ann : Acc!ScrapePorts(ann) = P!ScrapePorts(ann)
  /\ \A p, q : Acc!PortEquals(p, q) <=> P!PortEquals(p, q)
  /\ \A kinds : Acc!AtInfo(kinds) <=> P!AtInfo(kinds)
  BY DEF Acc!AllParsed, P!AllParsed, Acc!Accumulated, P!Accumulated, Acc!NilPort, P!NilPort,
     Acc!NextInfo, P!NextInfo, Acc!ScrapePorts, P!ScrapePorts, Acc!PortEquals, P!PortEquals,
     Acc!AtInfo, P!AtInfo

LEMMA SameServiceFrom == \A i, p : Acc!ServiceFrom(i, p) = P!ServiceFrom(i, p)
  BY DEF Acc!ServiceFrom, P!ServiceFrom, Acc!PortEquals, P!PortEquals

LEMMA SameParseService == Acc!ParseService <=> P!ParseService
  BY SameParts, SameServiceFrom DEF Acc!ParseService, P!ParseService

LEMMA SameAppendPort == Acc!AppendPort <=> P!AppendPort
  BY DEF Acc!AppendPort, P!AppendPort, Acc!AtPointing, P!AtPointing, Acc!Ignored, P!Ignored,
     Acc!WithPort, P!WithPort, Acc!BackendPort, P!BackendPort, Acc!BackendNamespace,
     P!BackendNamespace, Acc!AtInfo, P!AtInfo, Acc!PointingKinds, P!PointingKinds,
     Acc!NilPort, P!NilPort, Acc!NoNamespace, P!NoNamespace

LEMMA SameBackendsDone == Acc!BackendsDone <=> P!BackendsDone
  BY SameParts DEF Acc!BackendsDone, P!BackendsDone, Acc!AtPointing, P!AtPointing,
     Acc!FirstBackend, P!FirstBackend, Acc!PointingKinds, P!PointingKinds

LEMMA SameRoutePanics == Acc!RoutePanics <=> P!RoutePanics
  BY SameParts DEF Acc!RoutePanics, P!RoutePanics

LEMMA SameExposeService == Acc!ExposeService <=> P!ExposeService
  BY DEF Acc!ExposeService, P!ExposeService, Acc!AllParsed, P!AllParsed, Acc!Expose, P!Expose,
     Acc!PortsToExpose, P!PortsToExpose, Acc!PortEquals, P!PortEquals

LEMMA SameAccumulate ==
  /\ Acc!AccInit <=> P!AccInit
  /\ Acc!Accumulate <=> P!Accumulate
<1>1. Acc!AccInit <=> P!AccInit
  BY DEF Acc!AccInit, P!AccInit
<1>2. QED
  BY <1>1, SameParseService, SameAppendPort, SameBackendsDone, SameRoutePanics,
     SameExposeService DEF Acc!Accumulate, P!Accumulate

LEMMA SamePointed ==
  /\ \A i, b, name, namespace, p :
       Acc!PointsAt(i, b, name, namespace, p) <=> P!PointsAt(i, b, name, namespace, p)
  /\ \A name, namespace, p : Acc!Pointed(name, namespace, p) <=> P!Pointed(name, namespace, p)
  /\ \A i, p : Acc!Scraped(i, p) <=> P!Scraped(i, p)
  /\ \A i, p : Acc!MayBeScraped(i, p) <=> P!MayBeScraped(i, p)
<1>1. \A i, b, name, namespace, p :
        Acc!PointsAt(i, b, name, namespace, p) <=> P!PointsAt(i, b, name, namespace, p)
  BY DEF Acc!PointsAt, P!PointsAt, Acc!PortEquals, P!PortEquals, Acc!NoNamespace, P!NoNamespace
<1>2. \A name, namespace, p : Acc!Pointed(name, namespace, p) <=> P!Pointed(name, namespace, p)
  BY <1>1 DEF Acc!Pointed, P!Pointed, Acc!PointingKinds, P!PointingKinds
<1>3. /\ \A i, p : Acc!Scraped(i, p) <=> P!Scraped(i, p)
      /\ \A i, p : Acc!MayBeScraped(i, p) <=> P!MayBeScraped(i, p)
  BY SameParts DEF Acc!Scraped, P!Scraped, Acc!MayBeScraped, P!MayBeScraped
<1>4. QED
  BY <1>1, <1>2, <1>3

-----------------------------------------------------------------------------
(* The invariant *)

ManifestsInv == P!AccIInv /\ P!ExactInv

\* Each half has its own invariant, and the second half starts late: discovery
\* has not begun while the services it reads are still being filled in. (The
\* process ends with a nil pointer in either half; nothing is claimed then.)
PipeInv ==
  ~panicked =>
    /\ ManifestsInv
    /\ SynthInv
    /\ ~Acc!Accumulated => SynthStart

\* What Exposure_proofs assumes of its constants.
LEMMA Assumptions == P!InfoListsAssumption /\ P!NamesAssumption /\ P!PortNamesAssumption
  BY PipelineAssumption, SameSets, NamesAssumption, PortNamesAssumption
     DEF P!InfoListsAssumption, P!NamesAssumption, P!PortNamesAssumption

LEMMA ManifestsInit == P!AccInit => ManifestsInv
  BY Assumptions, P!AccTypeInit, P!ExactInit DEF ManifestsInv,
     P!InfoListsAssumption, P!NamesAssumption, P!PortNamesAssumption

LEMMA ManifestsStep ==
  ManifestsInv /\ [P!Accumulate \/ P!AccEnded]_(P!accVars) => ManifestsInv'
  BY Assumptions, P!AccTypeStep, P!ExactStep DEF ManifestsInv,
     P!InfoListsAssumption, P!NamesAssumption, P!PortNamesAssumption

\* In the end the services realize the Service manifests.
LEMMA Realized ==
  ASSUME ManifestsInv, P!Accumulated
  PROVE  /\ P!ServiceInfos \in Seq(P!ServiceInfo)
         /\ Len(services) = Len(P!ServiceInfos)
         /\ DOMAIN services = DOMAIN P!ServiceInfos
         /\ \A s \in DOMAIN services : P!Realizes(services[s], P!ServiceInfos[s])
  BY Assumptions, P!AllRealized DEF ManifestsInv,
     P!InfoListsAssumption, P!NamesAssumption, P!PortNamesAssumption

LEMMA PipeInitInv == PipeInit => PipeInv
<1> SUFFICES ASSUME PipeInit PROVE PipeInv
  OBVIOUS
<1>1. ManifestsInv
  BY SameAccumulate, ManifestsInit DEF PipeInit
<1>2. SynthInv
  BY SynthInitInv DEF PipeInit
<1>3. SynthStart
  BY SynthInitReady DEF PipeInit, Ready
<1>4. QED
  BY <1>1, <1>2, <1>3 DEF PipeInv

\* A process that is gone takes no step.
LEMMA NoStepsAfterPanic == (Accumulate \/ Analyze) => ~panicked
<1>1. Acc!Accumulate => ~panicked
  BY DEF Acc!Accumulate, Acc!ParseService, Acc!AppendPort, Acc!BackendsDone, Acc!RoutePanics,
         Acc!ExposeService, Acc!AtPointing, Acc!AtInfo, Acc!AllParsed
<1>2. Acc!Accumulated => ~panicked
  BY DEF Acc!Accumulated, Acc!AllParsed
<1>3. QED
  BY <1>1, <1>2 DEF Accumulate, Analyze

\* The services change, and the second half is still at its start.
LEMMA AccumulateStep ==
  ASSUME PipeInv, Accumulate
  PROVE  PipeInv'
<1> SUFFICES ASSUME ~panicked' PROVE PipeInv'
  BY DEF PipeInv
<1>1. ~panicked /\ ManifestsInv /\ SynthInv
  BY NoStepsAfterPanic DEF PipeInv
<1>2. P!Accumulate
  BY SameAccumulate DEF Accumulate
<1>3. ManifestsInv'
  BY <1>1, <1>2, ManifestsStep
<1>4. ~Acc!Accumulated
  <2>1. at \in Nat /\ Len(infos) \in Nat /\ exposed \in Nat /\ Len(services) \in Nat
    <3>1. /\ infos \in InfoLists /\ services \in Seq(P!Service)
          /\ at \in 1..(Len(infos) + 1) /\ exposed \in 0..Len(services)
      BY <1>1 DEF ManifestsInv, P!AccIInv, P!AccTypeOK
    <3>2. Len(infos) \in Nat /\ Len(services) \in Nat
      BY <3>1, PipelineAssumption
    <3>3. QED
      BY <3>1, <3>2
  <2>2. at <= Len(infos) \/ exposed < Len(services)
    BY DEF Accumulate, Acc!Accumulate, Acc!ParseService, Acc!AppendPort, Acc!BackendsDone,
           Acc!RoutePanics, Acc!ExposeService, Acc!AtPointing, Acc!AtInfo
  <2>3. QED
    BY <2>1, <2>2 DEF Acc!Accumulated, Acc!AllParsed
<1>5. SynthStart /\ workloads \in Seq(Resource) \ {<<>>}
  BY <1>1, <1>4 DEF PipeInv, SynthInv, IInv, TypeOK
<1>6. SynthStart' /\ workloads' \in Seq(Resource) \ {<<>>}
  BY <1>5 DEF Accumulate, downstream, loops, SynthStart, Start
<1>7. services' \in Seq(Service)
  BY <1>3 DEF ManifestsInv, P!AccIInv, P!AccTypeOK, P!Service, Service, P!SvcNetworkAttr,
     SvcNetworkAttr, P!IntOrString, IntOrString
<1>8. (panicked = FALSE)'
  BY <1>3, Zenon DEF ManifestsInv, P!AccIInv, P!AccTypeOK
<1>9. Ready'
  BY <1>6, <1>7, <1>8 DEF Ready
<1>10. SynthInv'
  BY <1>9, ReadyInv, PTL
<1>11. QED
  BY <1>3, <1>6, <1>10 DEF PipeInv

\* The manifests and the services are what they were.
LEMMA AnalyzeStep ==
  ASSUME PipeInv, Analyze
  PROVE  PipeInv'
<1> SUFFICES ASSUME ~panicked' PROVE PipeInv'
  BY DEF PipeInv
<1>1. ~panicked /\ ManifestsInv /\ SynthInv /\ Acc!Accumulated
  BY NoStepsAfterPanic DEF PipeInv, Analyze
<1>2. services' = services /\ UNCHANGED accumulator
  BY DEF Analyze, Extract, Discover, SkipService, TestAddress, RecordSource, FinishService,
     NextTarget, Synthesize, SkipPortless, AllowConnection, Panic, BuildNetpol, DenyNamespace,
     vars, inputs
<1>3. panicked' = panicked
  BY <1>1 DEF Analyze, Extract, outputs, Synthesize, SkipPortless, AllowConnection, Panic,
     BuildNetpol, DenyNamespace
<1>4. UNCHANGED P!accVars
  BY <1>2, <1>3 DEF accumulator, P!accVars
<1>5. ManifestsInv'
  BY <1>1, <1>4, ManifestsStep
<1>6. SynthInv'
  BY <1>1, SynthInductive DEF Analyze, SynthNext
<1>7. Acc!Accumulated'
  BY <1>1, <1>2, <1>3 DEF Acc!Accumulated, Acc!AllParsed, accumulator
<1>8. QED
  BY <1>5, <1>6, <1>7 DEF PipeInv

LEMMA PipeStutter == PipeInv /\ UNCHANGED pipeVars => PipeInv'
<1> SUFFICES ASSUME PipeInv, UNCHANGED pipeVars, ~panicked' PROVE PipeInv'
  BY DEF PipeInv
<1>1. UNCHANGED allVars /\ UNCHANGED accumulator /\ UNCHANGED P!accVars
  BY DEF pipeVars, allVars, accumulator, vars, inputs, outputs, P!accVars
<1>2. ~panicked
  BY <1>1 DEF allVars, outputs
<1>3. ManifestsInv'
  BY <1>1, <1>2, ManifestsStep DEF PipeInv
<1>4. SynthInv'
  BY <1>1, <1>2, SynthInductive DEF PipeInv
<1>5. (~Acc!Accumulated => SynthStart)'
  BY <1>1, <1>2 DEF PipeInv, Acc!Accumulated, Acc!AllParsed, SynthStart, Start, allVars, accumulator,
     vars, inputs, loops, outputs
<1>6. QED
  BY <1>3, <1>4, <1>5 DEF PipeInv

LEMMA PipeInvariant == PipeSpec => []PipeInv
<1>1. PipeInv /\ [Accumulate \/ Analyze \/ PipeEnded]_pipeVars => PipeInv'
  BY AccumulateStep, AnalyzeStep, PipeStutter DEF PipeEnded
<1>2. QED
  BY <1>1, PipeInitInv, PTL DEF PipeSpec

-----------------------------------------------------------------------------
(* What the policies make of the manifests *)

\* At the end each service stands for its manifest: same workloads behind it,
\* same ports.
LEMMA InTheEnd ==
  ASSUME PipeInv, AllDone
  PROVE  /\ SynthInv /\ Finished
         /\ DOMAIN services = DOMAIN Acc!ServiceInfos
         /\ \A s \in DOMAIN services :
              /\ P!Realizes(services[s], Acc!ServiceInfos[s])
              /\ \A n \in DOMAIN services[s].network :
                   ToNetpolPort(services[s].network[n]) =
                     ToNetpolPort(Acc!ServiceInfos[s].network[n])
              /\ \A d \in DOMAIN workloads :
                   InFront(Acc!ServiceInfos[s], d) <=> Promise!Exposes(s, d)
<1>1. SynthInv /\ Finished /\ ManifestsInv /\ P!Accumulated
  BY SameParts DEF PipeInv, AllDone, Acc!Accumulated, Acc!AllParsed
<1>2. /\ DOMAIN services = DOMAIN Acc!ServiceInfos
      /\ \A s \in DOMAIN services : P!Realizes(services[s], Acc!ServiceInfos[s])
  BY <1>1, Realized, SameSets
<1>3. ASSUME NEW s \in DOMAIN services, NEW d \in DOMAIN workloads
      PROVE  InFront(Acc!ServiceInfos[s], d) <=> Promise!Exposes(s, d)
  BY <1>2 DEF InFront, Promise!Exposes, P!Realizes
<1>4. ASSUME NEW s \in DOMAIN services, NEW n \in DOMAIN services[s].network
      PROVE  ToNetpolPort(services[s].network[n]) =
               ToNetpolPort(Acc!ServiceInfos[s].network[n])
  <2> DEFINE i == Acc!ServiceInfos[s]
             q == services[s].network[n]
  <2>1. i \in P!ServiceInfo
    BY <1>1, <1>2, Realized, SameSets
  <2>2. n \in DOMAIN i.network /\ P!ExposedPort(q, i, i.network[n])
    BY <1>2 DEF P!Realizes
  <2>3. q = [i.network[n] EXCEPT !.exposeToCluster = q.exposeToCluster]
    BY <2>2 DEF P!ExposedPort
  <2>4. i.network[n] \in [name : PortNames, port : Nat, targetPort : P!IntOrString,
                          protocol : {"", "TCP", "UDP"}, exposeToCluster : {FALSE}]
    BY <2>1, <2>2, Assumptions, P!ServiceInfoPorts
       DEF P!InfoListsAssumption, P!NamesAssumption, P!PortNamesAssumption
  <2> HIDE DEF i, q
  <2>5. /\ q.protocol = i.network[n].protocol /\ q.port = i.network[n].port
        /\ q.targetPort = i.network[n].targetPort
    BY <2>3, <2>4
  <2>6. ToNetpolPort(q) = ToNetpolPort(i.network[n])
    BY <2>5 DEF ToNetpolPort
  <2>7. QED
    BY <2>6 DEF i, q
<1>5. QED
  BY <1>1, <1>2, <1>3, <1>4

\* A port of a Service manifest that an Ingress, a Route, a Gateway route or
\* Prometheus needs is open to the cluster, or to everybody, at each workload
\* behind the service, wherever among the manifests it is said.
THEOREM PointedIsOpenHolds == PipeSpec => []PointedIsOpen
<1>1. PipeInv => PointedIsOpen
  <2> SUFFICES ASSUME PipeInv, AllDone, NamesIdentify,
                      NEW s \in DOMAIN Acc!ServiceInfos, NEW d \in DOMAIN workloads,
                      InFront(Acc!ServiceInfos[s], d),
                      NEW n \in DOMAIN Acc!ServiceInfos[s].network,
                      \/ Acc!Pointed(Acc!ServiceInfos[s].name, Acc!ServiceInfos[s].namespace,
                                     Acc!ServiceInfos[s].network[n])
                      \/ Acc!Scraped(Acc!ServiceInfos[s], Acc!ServiceInfos[s].network[n])
               PROVE  LET p == ToNetpolPort(Acc!ServiceInfos[s].network[n]) IN
                      OpenTo(d, p, {ClusterPeer}) \/ OpenTo(d, p, {})
    BY DEF PointedIsOpen
  <2> DEFINE i == Acc!ServiceInfos[s]
             q == services[s].network[n]
  <2>1. /\ SynthInv /\ Finished /\ s \in DOMAIN services
        /\ P!Realizes(services[s], i) /\ Promise!Exposes(s, d)
    BY InTheEnd
  <2>2. n \in DOMAIN services[s].network /\ P!ExposedPort(q, i, i.network[n])
    BY <2>1 DEF P!Realizes
  <2>3. q.exposeToCluster
    BY <2>2, SamePointed DEF P!ExposedPort
  <2>4. ToNetpolPort(q) = ToNetpolPort(i.network[n])
    BY <2>1, <2>2, InTheEnd
  <2>5. ClusterPort(d, ToNetpolPort(i.network[n]))
    BY <2>1, <2>2, <2>3, <2>4 DEF ClusterPort
  <2>6. QED
    BY <2>1, <2>5, ExposedOpen
<1>2. QED
  BY <1>1, PipeInvariant, PTL

\* Where a port is open to the cluster or to everybody, a manifest says so.
LEMMA OpenIsPointed ==
  ASSUME PipeInv, AllDone, AllNamed, NamesIdentify, LabelsIdentify,
         NEW d \in DOMAIN workloads, NEW p
  PROVE  /\ OpenTo(d, p, {ClusterPeer}) =>
              \E s \in DOMAIN Acc!ServiceInfos :
                LET i == Acc!ServiceInfos[s] IN
                /\ InFront(i, d)
                /\ \E n \in DOMAIN i.network :
                     /\ p = ToNetpolPort(i.network[n])
                     /\ \/ Acc!Pointed(i.name, i.namespace, i.network[n])
                        \/ Acc!MayBeScraped(i, i.network[n])
         /\ OpenTo(d, p, {}) =>
              \E s \in DOMAIN Acc!ServiceInfos :
                LET i == Acc!ServiceInfos[s] IN
                /\ InFront(i, d)
                /\ i.type \in {"NodePort", "LoadBalancer"}
                /\ \E n \in DOMAIN i.network : p = ToNetpolPort(i.network[n])
<1>1. SynthInv /\ DOMAIN services = DOMAIN Acc!ServiceInfos
  BY InTheEnd
<1>2. ASSUME OpenTo(d, p, {ClusterPeer})
      PROVE  \E s \in DOMAIN Acc!ServiceInfos :
               /\ InFront(Acc!ServiceInfos[s], d)
               /\ \E n \in DOMAIN Acc!ServiceInfos[s].network :
                    /\ p = ToNetpolPort(Acc!ServiceInfos[s].network[n])
                    /\ \/ Acc!Pointed(Acc!ServiceInfos[s].name, Acc!ServiceInfos[s].namespace,
                                      Acc!ServiceInfos[s].network[n])
                       \/ Acc!MayBeScraped(Acc!ServiceInfos[s], Acc!ServiceInfos[s].network[n])
  <2>1. ClusterPort(d, p)
    BY <1>1, <1>2, OpenToIsCluster
  <2>2. PICK s \in DOMAIN services :
          /\ Promise!Exposes(s, d)
          /\ \E n \in DOMAIN services[s].network :
               services[s].network[n].exposeToCluster /\ p = ToNetpolPort(services[s].network[n])
    BY <2>1 DEF ClusterPort
  <2>3. PICK n \in DOMAIN services[s].network :
          services[s].network[n].exposeToCluster /\ p = ToNetpolPort(services[s].network[n])
    BY <2>2
  <2> DEFINE i == Acc!ServiceInfos[s]
  <2>4. P!Realizes(services[s], i) /\ InFront(i, d) /\ p = ToNetpolPort(i.network[n])
    BY <2>2, <2>3, InTheEnd
  <2>5. n \in DOMAIN i.network /\ P!ExposedPort(services[s].network[n], i, i.network[n])
    BY <2>4 DEF P!Realizes
  <2>6. \/ P!Pointed(i.name, i.namespace, i.network[n])
        \/ P!MayBeScraped(i, i.network[n])
    BY <2>3, <2>5 DEF P!ExposedPort
  <2>7. QED
    BY <1>1, <2>4, <2>5, <2>6, SamePointed
<1>3. ASSUME OpenTo(d, p, {})
      PROVE  \E s \in DOMAIN Acc!ServiceInfos :
               /\ InFront(Acc!ServiceInfos[s], d)
               /\ Acc!ServiceInfos[s].type \in {"NodePort", "LoadBalancer"}
               /\ \E n \in DOMAIN Acc!ServiceInfos[s].network :
                    p = ToNetpolPort(Acc!ServiceInfos[s].network[n])
  <2>1. ExternalPort(d, p)
    BY <1>1, <1>3, OpenToIsExternal
  <2>2. PICK s \in DOMAIN services :
          Promise!Exposes(s, d) /\ services[s].exposeExternally /\ p \in PortsOf(s)
    BY <2>1 DEF ExternalPort
  <2>3. PICK n \in DOMAIN services[s].network : p = ToNetpolPort(services[s].network[n])
    BY <2>2 DEF PortsOf
  <2>4. /\ P!Realizes(services[s], Acc!ServiceInfos[s]) /\ InFront(Acc!ServiceInfos[s], d)
        /\ p = ToNetpolPort(Acc!ServiceInfos[s].network[n])
    BY <2>2, <2>3, InTheEnd
  <2>5. /\ n \in DOMAIN Acc!ServiceInfos[s].network
        /\ Acc!ServiceInfos[s].type \in {"NodePort", "LoadBalancer"}
    BY <2>2, <2>4 DEF P!Realizes
  <2>6. QED
    BY <1>1, <2>4, <2>5
<1>4. QED
  BY <1>2, <1>3

\* No other port is open to the cluster, and only ports of NodePort and
\* LoadBalancer services are open to everybody.
THEOREM OpenOnlyIfPointedHolds == PipeSpec => []OpenOnlyIfPointed
<1>1. PipeInv => OpenOnlyIfPointed
  BY OpenIsPointed DEF OpenOnlyIfPointed
<1>2. QED
  BY <1>1, PipeInvariant, PTL

-----------------------------------------------------------------------------
(* The rest of what is promised *)

\* On services made of manifests, discovery and synthesis do what they do on
\* any others: the required connections and no others are found, and what the
\* policies open is what was detected or exposed.
THEOREM GuaranteesKept ==
  PipeSpec =>
    [](~panicked => OnlyRequired /\ AllRequired /\ DetectedAllowed /\ OnlyDetectedAllowed)
<1>1. SynthInv => OnlyRequired /\ AllRequired
  BY CompleteIsAllRequired DEF SynthInv, IInv, ResultInv
<1>2. SynthInv => DetectedAllowed
  BY DetectedIsAllowed, Zenon DEF DetectedAllowed
<1>3. SynthInv => OnlyDetectedAllowed
  BY OpenToIsExternal, IngressIsDetected, EgressIsDetected, Zenon DEF OnlyDetectedAllowed
<1>4. PipeInv =>
        (~panicked => OnlyRequired /\ AllRequired /\ DetectedAllowed /\ OnlyDetectedAllowed)
  BY <1>1, <1>2, <1>3 DEF PipeInv
<1>5. QED
  BY <1>4, PipeInvariant, PTL

================================================================================
