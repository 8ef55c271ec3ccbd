---------------------------- MODULE Exposure_proofs ----------------------------
(***************************************************************************)
(* Proofs about Exposure, for all lists of manifests: types, that a port   *)
(* is exposed exactly if a manifest asks for it, and that it stays so.     *)
(*                                                                         *)
(* The inductive invariant, AccIInv with ExactInv, says what is recorded   *)
(* of the manifests that the parser has behind it, and what the services   *)
(* are made of.                                                            *)
(***************************************************************************)
EXTENDS Exposure, Iteration, SequenceTheorems, TLAPS

\* Between resources the position in the backends is at its start.
BackendInv == ~panicked /\ ~AtInfo(PointingKinds) => bck = 1

AccIInv == AccTypeOK /\ BackendInv

-----------------------------------------------------------------------------
(* Lemmas about the operators *)

\* A function on the positions of a sequence is a sequence.
LEMMA SeqMap ==
  ASSUME NEW S, NEW s \in Seq(S), NEW T, NEW t,
         t = [n \in DOMAIN s |-> t[n]], \A n \in DOMAIN s : t[n] \in T
  PROVE  /\ t \in Seq(T)
         /\ Len(t) = Len(s)
         /\ DOMAIN t = DOMAIN s
<1>1. DOMAIN s = 1..Len(s) /\ Len(s) \in Nat
  OBVIOUS
<1>2. QED
  BY <1>1

\* The ports of a Service manifest.
LEMMA ServiceInfoPorts ==
  ASSUME NEW i \in ServiceInfo
  PROVE  /\ i.network \in Seq([name : PortNames, port : Nat, targetPort : IntOrString,
                               protocol : {"", "TCP", "UDP"}, exposeToCluster : {FALSE}])
         /\ \A n \in DOMAIN i.network :
              i.network[n] \in [name : PortNames, port : Nat, targetPort : IntOrString,
                                protocol : {"", "TCP", "UDP"}, exposeToCluster : {FALSE}]
<1> DEFINE Ports == [name : PortNames, port : Nat, targetPort : IntOrString,
                     protocol : {"", "TCP", "UDP"}, exposeToCluster : {FALSE}]
<1>1. i.network \in Seq(Ports)
  BY DEF ServiceInfo
<1> HIDE DEF Ports
<1>2. PICK network \in Seq(Ports) : network = i.network
  BY <1>1
<1>3. \A n \in DOMAIN network : network[n] \in Ports
  OBVIOUS
<1>4. QED
  BY <1>2, <1>3, Zenon DEF Ports

\* A Service manifest becomes a service with the ports it has.
LEMMA ServiceFromType ==
  ASSUME NEW i \in ServiceInfo, NEW p
  PROVE  ServiceFrom(i, p) \in Service
<1> DEFINE Marked(n) == i.annotations.scrape /\ PortEquals(i.network[n], p)
           net == [n \in DOMAIN i.network |->
                    [i.network[n] EXCEPT !.exposeToCluster = Marked(n)]]
<1>1. \A n \in DOMAIN i.network : Marked(n) \in BOOLEAN
  BY Zenon
<1> HIDE DEF Marked
<1>2. \A n \in DOMAIN i.network : net[n] \in SvcNetworkAttr
  BY <1>1, ServiceInfoPorts DEF SvcNetworkAttr
<1>3. net = [n \in DOMAIN i.network |-> net[n]]
  OBVIOUS
<1> HIDE DEF net
<1>4. net \in Seq(SvcNetworkAttr)
  <2>1. PICK Ports : i.network \in Seq(Ports)
    BY ServiceInfoPorts
  <2>2. QED
    BY <1>2, <1>3, <2>1, SeqMap
<1>5. ServiceFrom(i, p) =
        [name |-> i.name, namespace |-> i.namespace, selectors |-> i.selectors,
         exposeExternally |-> i.type \in {"NodePort", "LoadBalancer"}, network |-> net]
  BY Zenon DEF ServiceFrom, net, Marked
<1>6. i.name \in Names /\ i.namespace \in Namespaces /\ i.selectors \in SUBSET Labels
  BY DEF ServiceInfo
<1>7. QED
  BY <1>4, <1>5, <1>6 DEF Service

\* Marking ports of a service as exposed makes a service.
LEMMA ExposeType ==
  ASSUME NEW p \in SvcNetworkAttr, NEW ports
  PROVE  /\ Expose(p, ports) \in SvcNetworkAttr
         /\ p.exposeToCluster => Expose(p, ports).exposeToCluster
<1>1. (p.exposeToCluster \/ \E j \in DOMAIN ports : PortEquals(p, ports[j])) \in BOOLEAN
  BY Zenon
<1>2. QED
  BY <1>1 DEF Expose, SvcNetworkAttr

\* The Infos of the call are manifests.
LEMMA InfoTypes ==
  ASSUME infos \in InfoLists
  PROVE  /\ Len(infos) \in Nat
         /\ DOMAIN infos = 1..Len(infos)
         /\ \A i \in DOMAIN infos : infos[i] \in ServiceInfo \union PointingInfo
<1>1. QED
  BY InfoListsAssumption

\* The kind of an Info tells what it is.
LEMMA ServiceAt ==
  ASSUME infos \in InfoLists, NEW n \in 1..Len(infos)
  PROVE  infos[n] \in ServiceInfo <=> infos[n].kind = "Service"
<1>1. infos[n] \in ServiceInfo \union PointingInfo
  BY InfoTypes
<1>2. infos[n] \in PointingInfo => infos[n].kind \in PointingKinds
  BY DEF PointingInfo
<1>3. QED
  BY <1>1, <1>2 DEF ServiceInfo, PointingKinds

-----------------------------------------------------------------------------
(* Types *)

\* A resource at hand has a sequence of backends, each with a port.
LEMMA AtPointingType ==
  ASSUME infos \in InfoLists, at \in Nat \ {0}, AtInfo(PointingKinds)
  PROVE  /\ infos[at] \in PointingInfo
         /\ Len(infos[at].backends) \in Nat
         /\ \A b \in 1..Len(infos[at].backends) : infos[at].backends[b] \in Backend
<1>1. infos[at] \in ServiceInfo \union PointingInfo
  BY InfoTypes DEF AtInfo
<1>2. infos[at] \in PointingInfo
  BY <1>1 DEF AtInfo, PointingKinds, ServiceInfo
<1>3. infos[at].backends \in Seq(Backend)
  BY <1>2 DEF PointingInfo
<1>4. QED
  BY <1>2, <1>3, ElementOfSeq

\* The same at the resource that comes next.
LEMMA AtPointingTypeNext ==
  ASSUME infos' \in InfoLists, at' \in 1..(Len(infos') + 1), AtInfo(PointingKinds)'
  PROVE  (Len(infos[at].backends) \in Nat)'
<1>1. infos'[at'] \in ServiceInfo \union PointingInfo
  <2>1. Len(infos') \in Nat /\ \A i \in 1..Len(infos') : infos'[i] \in ServiceInfo \union PointingInfo
    BY InfoListsAssumption
  <2>2. QED
    BY <2>1 DEF AtInfo
<1>2. infos'[at'] \in PointingInfo
  BY <1>1 DEF AtInfo, PointingKinds, ServiceInfo
<1>3. infos'[at'].backends \in Seq(Backend)
  BY <1>2 DEF PointingInfo
<1>4. QED
  BY <1>3

LEMMA AccTypeInit == AccInit => AccIInv
<1> SUFFICES ASSUME AccInit PROVE AccIInv
  OBVIOUS
<1>1. bck = 1 /\ at = 1 /\ exposed = 0 /\ services = <<>> /\ ~panicked
  BY DEF AccInit
<1>2. infos \in InfoLists /\ DOMAIN toExpose = {}
  BY DEF AccInit
<1>3. at \in 1..(Len(infos) + 1) /\ panicked \in BOOLEAN
  <2>1. Len(infos) \in Nat
    BY <1>2, InfoTypes
  <2>2. panicked \in BOOLEAN
    BY DEF AccInit
  <2>3. QED
    BY <1>1, <2>1, <2>2
<1>4. AtInfo(PointingKinds) => bck <= Len(infos[at].backends) + 1
  BY <1>1, <1>2, AtPointingType
<1>5. QED
  BY <1>1, <1>2, <1>3, <1>4 DEF AccIInv, AccTypeOK, BackendInv

\* The step of parsing one Service.
LEMMA ParseServiceType == AccIInv /\ ParseService => AccIInv'
<1> SUFFICES ASSUME AccIInv, ParseService PROVE AccIInv'
  OBVIOUS
<1>1. infos[at] \in ServiceInfo /\ at \in 1..Len(infos)
  <2>1. infos \in InfoLists /\ at \in 1..Len(infos) /\ infos[at].kind = "Service"
    BY InfoTypes DEF AccIInv, AccTypeOK, ParseService, AtInfo
  <2>2. QED
    BY <2>1, ServiceAt
<1>2. services' \in Seq(Service) /\ Len(services') = Len(services) + 1
  BY <1>1, ServiceFromType DEF AccIInv, AccTypeOK, ParseService
<1>3. bck = 1
  BY DEF AccIInv, BackendInv, ParseService, AtInfo, PointingKinds
<1>4. at' \in 1..(Len(infos') + 1) /\ infos' \in InfoLists
  BY <1>1, InfoTypes DEF AccIInv, AccTypeOK, ParseService, NextInfo
<1>5. bck' = 1
  BY <1>3 DEF ParseService
<1>6. (AtInfo(PointingKinds) => bck <= Len(infos[at].backends) + 1)'
  BY <1>4, <1>5, AtPointingTypeNext
<1>7. QED
  BY <1>2, <1>4, <1>5, <1>6 DEF AccIInv, AccTypeOK, BackendInv, ParseService

\* servicesToExpose stays a map to sequences of ports.
LEMMA WithPortType ==
  ASSUME NEW ste, DOMAIN ste \subseteq Namespaces \X Names,
         \A k \in DOMAIN ste : ste[k] \in Seq(IntOrString),
         NEW key \in Namespaces \X Names, NEW port \in IntOrString
  PROVE  /\ DOMAIN WithPort(ste, key, port) \subseteq Namespaces \X Names
         /\ \A k \in DOMAIN WithPort(ste, key, port) :
              WithPort(ste, key, port)[k] \in Seq(IntOrString)
<1> DEFINE w == WithPort(ste, key, port)
<1>1. DOMAIN w = DOMAIN ste \union {key}
  BY DEF WithPort
<1>2. ASSUME NEW k \in DOMAIN ste \union {key} PROVE w[k] \in Seq(IntOrString)
  <2>1. CASE k # key
    BY <2>1 DEF WithPort
  <2>2. CASE k = key /\ k \in DOMAIN ste
    <3>1. ste[k] \in Seq(IntOrString) /\ w[k] = Append(ste[k], port)
      BY <2>2, Zenon DEF WithPort
    <3>2. QED
      BY <3>1
  <2>3. CASE k = key /\ k \notin DOMAIN ste
    <3>1. w[k] = <<port>>
      BY <2>3, Zenon DEF WithPort
    <3>2. QED
      BY <3>1
  <2>4. QED
    BY <2>1, <2>2, <2>3
<1>3. QED
  BY <1>1, <1>2

\* The step of parsing one backend.
LEMMA AppendPortType == AccIInv /\ AppendPort => AccIInv'
<1> SUFFICES ASSUME AccIInv, AppendPort PROVE AccIInv'
  OBVIOUS
<1> DEFINE i == infos[at]
           b == i.backends[bck]
<1>1. AtInfo(PointingKinds) /\ bck <= Len(i.backends)
  BY DEF AppendPort, AtPointing
<1>2. at \in Nat \ {0} /\ infos \in InfoLists /\ bck \in Nat \ {0}
  BY InfoTypes DEF AccIInv, AccTypeOK
<1>3. i \in PointingInfo /\ b \in Backend /\ Len(i.backends) \in Nat
  BY <1>1, <1>2, AtPointingType
<1>4. /\ DOMAIN toExpose' \subseteq Namespaces \X Names
      /\ \A k \in DOMAIN toExpose' : toExpose'[k] \in Seq(IntOrString)
  <2>1. CASE Ignored(i, b)
    BY <2>1 DEF AccIInv, AccTypeOK, AppendPort
  <2>2. CASE ~Ignored(i, b)
    <3> DEFINE key == <<BackendNamespace(i, b), b.svc>>
    <3>1. BackendNamespace(i, b) \in Namespaces /\ b.svc \in Names
      BY <1>3 DEF BackendNamespace, PointingInfo, Backend
    <3>2. BackendPort(i, b) \in IntOrString
      BY <1>3, PortNamesAssumption DEF BackendPort, PointingInfo, Backend, IntOrString
    <3>3. toExpose' = WithPort(toExpose, key, BackendPort(i, b))
      BY <2>2 DEF AppendPort
    <3>4. key \in Namespaces \X Names
      BY <3>1
    <3> HIDE DEF key
    <3>5. QED
      BY <3>2, <3>3, <3>4, WithPortType DEF AccIInv, AccTypeOK
  <2>3. QED
    BY <2>1, <2>2
<1>5. bck' \in Nat \ {0} /\ bck' <= Len(i.backends) + 1
  BY <1>1, <1>2, <1>3 DEF AppendPort
<1>6. (/\ infos \in InfoLists
       /\ at \in 1..(Len(infos) + 1)
       /\ bck \in Nat \ {0}
       /\ AtInfo(PointingKinds) => bck <= Len(infos[at].backends) + 1
       /\ services \in Seq(Service)
       /\ exposed \in 0..Len(services)
       /\ panicked \in BOOLEAN)'
  BY <1>5 DEF AccIInv, AccTypeOK, AppendPort
<1>7. BackendInv'
  BY <1>1 DEF AppendPort, BackendInv, AtInfo
<1>8. QED
  BY <1>4, <1>6, <1>7 DEF AccIInv, AccTypeOK

\* The step from one resource to the next.
LEMMA BackendsDoneType == AccIInv /\ BackendsDone => AccIInv'
<1> SUFFICES ASSUME AccIInv, BackendsDone PROVE AccIInv'
  OBVIOUS
<1>1. at' \in 1..(Len(infos') + 1) /\ infos' \in InfoLists
  BY InfoTypes DEF AccIInv, AccTypeOK, BackendsDone, NextInfo, AtPointing, AtInfo
<1>2. bck' = 1
  BY DEF BackendsDone, FirstBackend
<1>3. (AtInfo(PointingKinds) => bck <= Len(infos[at].backends) + 1)'
  BY <1>1, <1>2, AtPointingTypeNext
<1>4. QED
  BY <1>1, <1>2, <1>3 DEF AccIInv, AccTypeOK, BackendInv, BackendsDone

\* The step of exposing one service, whose ports only gain.
LEMMA ExposeServiceType ==
  ASSUME AccTypeOK, ExposeService
  PROVE  /\ services' \in Seq(Service)
         /\ Len(services') = Len(services)
         /\ \A s \in DOMAIN services : \A n \in DOMAIN services[s].network :
              services[s].network[n].exposeToCluster =>
                services'[s].network[n].exposeToCluster
<1> DEFINE e == exposed + 1
           svc == services[e]
           net == [n \in DOMAIN svc.network |-> Expose(svc.network[n], PortsToExpose(svc))]
<1>1. e \in 1..Len(services) /\ services \in Seq(Service)
  BY DEF AccTypeOK, ExposeService
<1>2. svc \in Service
  BY <1>1, ElementOfSeq
<1>3. svc.network \in Seq(SvcNetworkAttr)
  BY <1>2 DEF Service
<1>4. services' = [services EXCEPT ![e].network = net]
  BY DEF ExposeService
<1> HIDE DEF e
<1>5. \A n \in DOMAIN svc.network : svc.network[n] \in SvcNetworkAttr
  <2>1. PICK network \in Seq(SvcNetworkAttr) : network = svc.network
    BY <1>3
  <2>2. \A n \in DOMAIN network : network[n] \in SvcNetworkAttr
    OBVIOUS
  <2>3. QED
    BY <2>1, <2>2
<1>6. \A n \in DOMAIN svc.network :
        /\ net[n] \in SvcNetworkAttr
        /\ svc.network[n].exposeToCluster => net[n].exposeToCluster
  BY <1>5, ExposeType
<1>7. net = [n \in DOMAIN svc.network |-> net[n]]
  OBVIOUS
<1> HIDE DEF net
<1>8. net \in Seq(SvcNetworkAttr) /\ DOMAIN net = DOMAIN svc.network
  BY <1>3, <1>6, <1>7, SeqMap
<1>9. [svc EXCEPT !.network = net] \in Service
  BY <1>2, <1>8 DEF Service
<1>10. services' = [services EXCEPT ![e] = [svc EXCEPT !.network = net]]
  BY <1>4
<1>11. services' \in Seq(Service) /\ Len(services') = Len(services)
  BY <1>1, <1>9, <1>10
<1>12. ASSUME NEW s \in DOMAIN services, NEW n \in DOMAIN services[s].network,
              services[s].network[n].exposeToCluster
       PROVE  services'[s].network[n].exposeToCluster
  <2>1. CASE s = e
    <3>1. services'[s] = [svc EXCEPT !.network = net]
      BY <1>10, <2>1
    <3>2. services'[s].network = net
      BY <1>2, <3>1 DEF Service
    <3>3. QED
      BY <1>6, <1>12, <2>1, <3>2
  <2>2. CASE s # e
    <3>1. services'[s] = services[s]
      BY <1>10, <2>2
    <3>2. QED
      BY <1>12, <3>1
  <2>3. QED
    BY <2>1, <2>2
<1>13. QED
  BY <1>11, <1>12

LEMMA AccTypeStep == AccIInv /\ [Accumulate \/ AccEnded]_accVars => AccIInv'
<1> SUFFICES ASSUME AccIInv, [Accumulate \/ AccEnded]_accVars PROVE AccIInv'
  OBVIOUS
<1>1. CASE ParseService
  BY <1>1, ParseServiceType
<1>2. CASE AppendPort
  BY <1>2, AppendPortType
<1>3. CASE BackendsDone
  BY <1>3, BackendsDoneType
<1>4. CASE RoutePanics
  BY <1>4 DEF AccIInv, AccTypeOK, BackendInv, RoutePanics, AtInfo
<1>5. CASE ExposeService
  <2>1. services' \in Seq(Service) /\ Len(services') = Len(services)
    BY <1>5, ExposeServiceType DEF AccIInv
  <2>2. exposed' \in 0..Len(services')
    BY <1>5, <2>1 DEF AccIInv, AccTypeOK, ExposeService
  <2>3. QED
    BY <1>5, <2>1, <2>2 DEF AccIInv, AccTypeOK, BackendInv, ExposeService, AtInfo
<1>6. CASE UNCHANGED accVars
  BY <1>6 DEF accVars, AccIInv, AccTypeOK, BackendInv, AtInfo
<1>7. QED
  BY <1>1, <1>2, <1>3, <1>4, <1>5, <1>6 DEF Accumulate, AccEnded

\* The positions of the parser and of exposeServices stay within their slices,
\* and what they collect is ports, services and names.
THEOREM AccTypeCorrect == AccSpec => []AccTypeOK
<1>1. AccIInv => AccTypeOK
  BY DEF AccIInv
<1>2. QED
  BY <1>1, AccTypeInit, AccTypeStep, PTL DEF AccSpec

-----------------------------------------------------------------------------
(* Exposure only grows *)

\* A port once exposed is never closed again, by whatever manifest comes
\* later: neither the rest of the parsing nor exposeServices takes it back.
THEOREM NeverClosedHolds == AccSpec => NeverClosed
<1> DEFINE Kept ==
      \A s \in DOMAIN services : \A n \in DOMAIN services[s].network :
        services[s].network[n].exposeToCluster =>
          services'[s].network[n].exposeToCluster
<1>1. AccTypeOK /\ [Accumulate \/ AccEnded]_accVars => [Kept]_accVars
  <2> SUFFICES ASSUME AccTypeOK, Accumulate \/ UNCHANGED services PROVE Kept
    BY DEF accVars, AccEnded
  <2>1. CASE ParseService
    <3>1. services \in Seq(Service)
      BY DEF AccTypeOK
    <3>2. PICK svc : services' = Append(services, svc)
      BY <2>1 DEF ParseService
    <3>3. \A s \in DOMAIN services : services'[s] = services[s]
      BY <3>1, <3>2
    <3>4. QED
      BY <3>3
  <2>2. CASE ExposeService
    BY <2>2, ExposeServiceType
  <2>3. CASE UNCHANGED services
    BY <2>3
  <2>4. QED
    BY <2>1, <2>2, <2>3 DEF Accumulate, AppendPort, BackendsDone, RoutePanics
<1>2. QED
  BY <1>1, AccTypeCorrect, PTL DEF AccSpec, NeverClosed

-----------------------------------------------------------------------------
(* Exactly the ports that are asked for are exposed *)

\* Backend b of Info i asks for a port of the service that key names.
Asks(i, b, key, port) ==
  /\ ~Ignored(i, b)
  /\ key = <<BackendNamespace(i, b), b.svc>>
  /\ port = BackendPort(i, b)

\* The parser has gone past backend b of Info n.
Behind(n, b) == n < at \/ (n = at /\ b < bck)

\* Port is one of those that ste has for key.
HasPort(ste, key, port) ==
  key \in DOMAIN ste /\ \E j \in DOMAIN ste[key] : ste[key][j] = port

\* What the backends behind the parser ask for is in toExpose, ...
RecordedInv ==
  \A n \in DOMAIN infos : infos[n].kind \in PointingKinds =>
    \A m \in DOMAIN infos[n].backends :
      LET i == infos[n]
          b == i.backends[m]
      IN  Behind(n, m) /\ ~Ignored(i, b) =>
            HasPort(toExpose, <<BackendNamespace(i, b), b.svc>>, BackendPort(i, b))

\* ... and nothing else is.
AskedBy(key, port) ==
  \E n \in DOMAIN infos :
    /\ infos[n].kind \in PointingKinds
    /\ \E m \in DOMAIN infos[n].backends :
         Behind(n, m) /\ Asks(infos[n], infos[n].backends[m], key, port)
AskedInv ==
  \A key \in DOMAIN toExpose : \A j \in DOMAIN toExpose[key] :
    AskedBy(key, toExpose[key][j])

\* Service svc is made of manifest i, ...
Parsed(svc, i) == \E p \in ScrapePorts(i.annotations) : svc = ServiceFrom(i, p)

\* ... and exposeServices has gone over it.
ParsedAndExposed(svc, i) ==
  \E p \in ScrapePorts(i.annotations) :
    svc = [ServiceFrom(i, p) EXCEPT !.network =
             [n \in DOMAIN @ |-> Expose(@[n], PortsToExpose(i))]]

\* The Service manifests that are parsed.
ParsedServices == Those(SubSeq(infos, 1, at - 1), ServiceInfo)

\* The services slice is what is made of these.
ServicesInv ==
  /\ Len(services) = Len(ParsedServices)
  /\ \A s \in DOMAIN services :
       IF s <= exposed THEN ParsedAndExposed(services[s], ParsedServices[s])
       ELSE Parsed(services[s], ParsedServices[s])

\* exposeServices comes after parsing.
ExposingInv == exposed > 0 => AllParsed

ExactInv == RecordedInv /\ AskedInv /\ ServicesInv /\ ExposingInv

\* appendPort adds one port for one service, and nothing else.
LEMMA WithPortAdds ==
  ASSUME NEW ste, \A k \in DOMAIN ste : ste[k] \in Seq(IntOrString),
         NEW key, NEW port \in IntOrString, NEW k, NEW p
  PROVE  HasPort(WithPort(ste, key, port), k, p) <=>
           HasPort(ste, k, p) \/ (k = key /\ p = port)
<1> DEFINE w == WithPort(ste, key, port)
<1>1. DOMAIN w = DOMAIN ste \union {key}
  BY DEF WithPort
<1>2. CASE k # key
  <2>1. k \in DOMAIN ste => w[k] = ste[k]
    BY <1>2 DEF WithPort
  <2> HIDE DEF w
  <2>2. QED
    BY <1>1, <1>2, <2>1 DEF HasPort, w
<1>3. CASE k = key /\ k \in DOMAIN ste
  <2>1. w[k] = Append(ste[k], port)
    BY <1>3, Zenon DEF WithPort
  <2>2. PICK s \in Seq(IntOrString) : s = ste[k]
    BY <1>3
  <2>3. (\E j \in DOMAIN Append(s, port) : Append(s, port)[j] = p) <=>
          (\E j \in DOMAIN s : s[j] = p) \/ p = port
    <3> DEFINE t == Append(s, port)
    <3>1. /\ DOMAIN t = DOMAIN s \union {Len(s) + 1}
          /\ \A j \in DOMAIN s : t[j] = s[j]
          /\ t[Len(s) + 1] = port
      OBVIOUS
    <3> HIDE DEF t
    <3>2. (\E j \in DOMAIN t : t[j] = p) <=> (\E j \in DOMAIN s : s[j] = p) \/ p = port
      BY <3>1
    <3>3. QED
      BY <3>2 DEF t
  <2> HIDE DEF w
  <2>4. QED
    BY <1>1, <1>3, <2>1, <2>2, <2>3 DEF HasPort, w
<1>4. CASE k = key /\ k \notin DOMAIN ste
  <2>1. w[k] = <<port>>
    BY <1>4, Zenon DEF WithPort
  <2>2. DOMAIN <<port>> = {1} /\ <<port>>[1] = port
    OBVIOUS
  <2> HIDE DEF w
  <2>3. QED
    BY <1>1, <1>4, <2>1, <2>2 DEF HasPort, w
<1>5. QED
  BY <1>2, <1>3, <1>4

\* A step of exposeServices, or of parsing a Service, passes no backend.
SameBackends ==
  \A n \in DOMAIN infos : infos[n].kind \in PointingKinds =>
    \A m \in DOMAIN infos[n].backends : Behind(n, m)' <=> Behind(n, m)

LEMMA SameRecords ==
  ASSUME UNCHANGED <<infos, toExpose>>, SameBackends, RecordedInv, AskedInv
  PROVE  RecordedInv' /\ AskedInv'
<1>1. RecordedInv'
  BY DEF RecordedInv, SameBackends
<1>2. ASSUME NEW key, NEW port, AskedBy(key, port) PROVE AskedBy(key, port)'
  BY <1>2 DEF AskedBy, SameBackends
<1>3. AskedInv'
  BY <1>2 DEF AskedInv
<1>4. QED
  BY <1>1, <1>3

\* The step over one backend.
LEMMA AppendPortRecords ==
  ASSUME AccIInv, RecordedInv, AskedInv, AppendPort
  PROVE  RecordedInv' /\ AskedInv'
<1> DEFINE i == infos[at]
           b == i.backends[bck]
           K == <<BackendNamespace(i, b), b.svc>>
           Q == BackendPort(i, b)
<1>1. AtInfo(PointingKinds) /\ bck \in 1..Len(i.backends)
  BY AtPointingType DEF AppendPort, AtPointing, AccIInv, AccTypeOK
<1>2. at \in Nat \ {0} /\ infos \in InfoLists /\ bck \in Nat \ {0}
  BY InfoTypes DEF AccIInv, AccTypeOK
<1>3. i \in PointingInfo /\ b \in Backend /\ at \in DOMAIN infos
      /\ i.kind \in PointingKinds
  BY <1>1, <1>2, AtPointingType, InfoTypes DEF AtInfo
<1>4. bck \in DOMAIN i.backends /\ DOMAIN i.backends = 1..Len(i.backends)
  <2>1. i.backends \in Seq(Backend)
    BY <1>3 DEF PointingInfo
  <2>2. DOMAIN i.backends = 1..Len(i.backends)
    BY <2>1
  <2>3. QED
    BY <1>1, <2>2
<1>5. Q \in IntOrString
  BY <1>3, PortNamesAssumption DEF BackendPort, PointingInfo, Backend, IntOrString
<1>6. infos' = infos /\ at' = at /\ bck' = bck + 1
  BY DEF AppendPort
<1>7. toExpose' = IF Ignored(i, b) THEN toExpose ELSE WithPort(toExpose, K, Q)
  BY DEF AppendPort
<1>8. ASSUME NEW n \in DOMAIN infos, infos[n].kind \in PointingKinds,
             NEW m \in DOMAIN infos[n].backends
      PROVE  Behind(n, m)' <=> Behind(n, m) \/ (n = at /\ m = bck)
  <2>1. n = at => m \in Nat
    BY <1>4
  <2>2. QED
    BY <1>2, <1>6, <2>1 DEF Behind
<1> HIDE DEF i, b, K, Q
<1>9. ASSUME NEW k, NEW p
      PROVE  HasPort(toExpose', k, p) <=>
               HasPort(toExpose, k, p) \/ (~Ignored(i, b) /\ k = K /\ p = Q)
  <2>1. \A x \in DOMAIN toExpose : toExpose[x] \in Seq(IntOrString)
    BY DEF AccIInv, AccTypeOK
  <2>2. CASE Ignored(i, b)
    BY <1>7, <2>2
  <2>3. CASE ~Ignored(i, b)
    <3>1. HasPort(WithPort(toExpose, K, Q), k, p) <=>
            HasPort(toExpose, k, p) \/ (k = K /\ p = Q)
      BY <1>5, <2>1, WithPortAdds
    <3>2. QED
      BY <1>7, <2>3, <3>1
  <2>4. QED
    BY <2>2, <2>3
<1>10. RecordedInv'
  <2>1. ASSUME NEW n \in DOMAIN infos, infos[n].kind \in PointingKinds,
               NEW m \in DOMAIN infos[n].backends, Behind(n, m)',
               ~Ignored(infos[n], infos[n].backends[m])
        PROVE  HasPort(toExpose',
                 <<BackendNamespace(infos[n], infos[n].backends[m]), infos[n].backends[m].svc>>,
                 BackendPort(infos[n], infos[n].backends[m]))
    <3>1. CASE Behind(n, m)
      <4>1. HasPort(toExpose,
                 <<BackendNamespace(infos[n], infos[n].backends[m]), infos[n].backends[m].svc>>,
                 BackendPort(infos[n], infos[n].backends[m]))
        BY <2>1, <3>1 DEF RecordedInv
      <4>2. QED
        BY <4>1, <1>9
    <3>2. CASE n = at /\ m = bck
      <4>1. infos[n] = i /\ infos[n].backends[m] = b
        BY <3>2 DEF i, b
      <4>2. HasPort(toExpose', K, Q)
        BY <1>9, <2>1, <4>1
      <4>3. HasPort(toExpose', <<BackendNamespace(i, b), b.svc>>, BackendPort(i, b))
        BY <4>2 DEF K, Q
      <4>4. QED
        BY <4>1, <4>3
    <3>3. QED
      BY <1>8, <2>1, <3>1, <3>2
  <2>2. QED
    BY <1>6, <2>1 DEF RecordedInv
<1>11. AskedInv'
  <2>1. ASSUME NEW k, NEW p, HasPort(toExpose', k, p) PROVE AskedBy(k, p)'
    <3>1. CASE HasPort(toExpose, k, p)
      <4>1. AskedBy(k, p)
        BY <3>1 DEF AskedInv, HasPort
      <4>2. QED
        BY <4>1, <1>6, <1>8 DEF AskedBy
    <3>2. CASE ~Ignored(i, b) /\ k = K /\ p = Q
      <4>1. Asks(i, b, k, p)
        BY <3>2 DEF Asks, K, Q
      <4>2. PICK n, m : n = at /\ m = bck
        OBVIOUS
      <4>3. Behind(n, m)'
        BY <1>2, <1>6, <4>2 DEF Behind
      <4>4. /\ n \in DOMAIN infos /\ infos[n].kind \in PointingKinds
            /\ m \in DOMAIN infos[n].backends
            /\ Asks(infos[n], infos[n].backends[m], k, p)
        BY <1>3, <1>4, <4>1, <4>2 DEF i, b
      <4>5. QED
        BY <1>6, <4>3, <4>4 DEF AskedBy
    <3>3. QED
      BY <1>9, <2>1, <3>1, <3>2
  <2>2. \A k \in DOMAIN toExpose' : \A j \in DOMAIN toExpose'[k] :
          HasPort(toExpose', k, toExpose'[k][j])
    BY DEF HasPort
  <2>3. QED
    BY <2>1, <2>2 DEF AskedInv
<1>12. QED
  BY <1>10, <1>11

\* The service manifests among the Infos, with one Info more.
LEMMA ParsedNext ==
  ASSUME infos \in InfoLists, at \in 1..Len(infos)
  PROVE  /\ ParsedServices \in Seq(ServiceInfo)
         /\ Those(SubSeq(infos, 1, at), ServiceInfo) =
              Keep(ParsedServices, infos[at], ServiceInfo)
<1> DEFINE T == ServiceInfo \union PointingInfo
<1>1. infos \in Seq(T)
  BY InfoListsAssumption
<1> HIDE DEF T
<1>2. SubSeq(infos, 1, at - 1) \in Seq(T)
  <2>1. \A i \in 1..(at - 1) : infos[i] \in T
    BY <1>1
  <2>2. QED
    BY <2>1, SubSeqProperties
<1>3. ParsedServices \in Seq(ServiceInfo)
  BY <1>2, ThoseIn DEF ParsedServices
<1>4. QED
  BY <1>1, <1>3, ThoseNext DEF ParsedServices

\* Parsing comes before exposeServices.
LEMMA NoneExposed ==
  ASSUME AccIInv, ExposingInv, ~AllParsed
  PROVE  exposed = 0
<1>1. exposed \in Nat
  <2>1. services \in Seq(Service) /\ exposed \in 0..Len(services)
    BY DEF AccIInv, AccTypeOK
  <2>2. QED
    BY <2>1
<1>2. QED
  BY <1>1 DEF ExposingInv

\* The step of parsing one Service.
LEMMA ParseServiceExact ==
  ASSUME AccIInv, ExactInv, ParseService
  PROVE  ExactInv'
<1>1. /\ infos \in InfoLists /\ at \in 1..Len(infos) /\ infos[at].kind = "Service"
      /\ ~AllParsed /\ infos' = infos /\ at' = at + 1 /\ exposed' = exposed
      /\ toExpose' = toExpose
  BY InfoTypes DEF AccIInv, AccTypeOK, ParseService, AtInfo, AllParsed, NextInfo
<1>2. infos[at] \in ServiceInfo
  BY <1>1, ServiceAt
<1>3. exposed = 0
  BY <1>1, NoneExposed DEF ExactInv
<1>4. bck = 1 /\ bck' = 1
  BY <1>1 DEF AccIInv, BackendInv, ParseService, AtInfo, PointingKinds
<1>5. RecordedInv' /\ AskedInv'
  <2>1. ASSUME NEW n \in DOMAIN infos, infos[n].kind \in PointingKinds,
               NEW m \in DOMAIN infos[n].backends
        PROVE  Behind(n, m)' <=> Behind(n, m)
    <3>1. n # at
      BY <1>1, <2>1 DEF PointingKinds
    <3>2. n \in Nat /\ m \in Nat /\ m >= 1
      <4>1. n \in 1..Len(infos) /\ infos[n] \in ServiceInfo \union PointingInfo
        BY <1>1, InfoTypes
      <4>2. infos[n] \in PointingInfo
        BY <2>1, <4>1 DEF ServiceInfo, PointingKinds
      <4>3. infos[n].backends \in Seq(Backend)
        BY <4>2 DEF PointingInfo
      <4>4. QED
        BY <4>1, <4>3
    <3>3. QED
      BY <1>1, <1>4, <3>1, <3>2 DEF Behind
  <2>2. SameBackends
    BY <2>1 DEF SameBackends
  <2>3. QED
    BY <1>1, <2>2, SameRecords DEF ExactInv
<1>6. PICK p \in ScrapePorts(infos[at].annotations) :
        services' = Append(services, ServiceFrom(infos[at], p))
  BY DEF ParseService
<1>7. ParsedServices \in Seq(ServiceInfo)
      /\ ParsedServices' = Append(ParsedServices, infos[at])
  <2>1. (at + 1) - 1 = at
    BY <1>1
  <2>2. ParsedServices' = Those(SubSeq(infos, 1, at), ServiceInfo)
    BY <1>1, <2>1 DEF ParsedServices
  <2>3. QED
    BY <1>1, <1>2, <2>2, ParsedNext DEF Keep
<1>8. ServicesInv'
  <2>1. services \in Seq(Service) /\ Len(services) = Len(ParsedServices)
    BY DEF AccIInv, AccTypeOK, ExactInv, ServicesInv
  <2>2. \A s \in DOMAIN services : Parsed(services[s], ParsedServices[s])
    BY <1>3, <2>1 DEF ExactInv, ServicesInv
  <2>3. Parsed(ServiceFrom(infos[at], p), infos[at])
    BY DEF Parsed
  <2>4. Len(services') = Len(ParsedServices')
    BY <1>6, <1>7, <2>1
  <2>5. ASSUME NEW s \in DOMAIN services' PROVE Parsed(services'[s], ParsedServices'[s])
    <3>1. CASE s \in DOMAIN services
      <4>1. services'[s] = services[s] /\ ParsedServices'[s] = ParsedServices[s]
        BY <1>6, <1>7, <2>1, <3>1
      <4>2. QED
        BY <2>2, <3>1, <4>1
    <3>2. CASE s \notin DOMAIN services
      <4>1. s = Len(services) + 1
        BY <1>6, <2>1, <3>2
      <4>2. services'[s] = ServiceFrom(infos[at], p) /\ ParsedServices'[s] = infos[at]
        BY <1>6, <1>7, <2>1, <4>1
      <4>3. QED
        BY <2>3, <4>2
    <3>3. QED
      BY <3>1, <3>2
  <2>6. \A s \in DOMAIN services' : ~(s <= exposed')
    <3>1. services' \in Seq(Service)
      BY ParseServiceType DEF AccIInv, AccTypeOK
    <3>2. QED
      BY <1>1, <1>3, <3>1
  <2>7. QED
    BY <2>4, <2>5, <2>6 DEF ServicesInv
<1>9. ExposingInv'
  BY <1>1, <1>3 DEF ExposingInv
<1>10. QED
  BY <1>5, <1>8, <1>9 DEF ExactInv

\* A step of the parser that makes no service.
LEMMA NoServiceExact ==
  ASSUME AccIInv, ExactInv, ~AllParsed,
         UNCHANGED <<infos, services, exposed>>, ParsedServices' = ParsedServices
  PROVE  ServicesInv' /\ ExposingInv'
<1>1. exposed = 0 /\ exposed' = 0
  BY NoneExposed DEF ExactInv
<1>2. services \in Seq(Service)
  BY DEF AccIInv, AccTypeOK
<1>3. \A s \in DOMAIN services : ~(s <= exposed)
  BY <1>1, <1>2
<1>4. Len(services) = Len(ParsedServices)
      /\ \A s \in DOMAIN services : Parsed(services[s], ParsedServices[s])
  BY <1>3 DEF ExactInv, ServicesInv
<1>5. ServicesInv'
  <2>1. \A s \in DOMAIN services' : Parsed(services'[s], ParsedServices'[s])
    BY <1>4
  <2>2. QED
    BY <1>1, <1>3, <1>4, <2>1 DEF ServicesInv
<1>6. ExposingInv'
  BY <1>1 DEF ExposingInv
<1>7. QED
  BY <1>5, <1>6

\* The step from one resource to the next.
LEMMA BackendsDoneExact ==
  ASSUME AccIInv, ExactInv, BackendsDone
  PROVE  ExactInv'
<1>1. /\ infos \in InfoLists /\ at \in 1..Len(infos) /\ infos[at].kind \in PointingKinds
      /\ ~AllParsed /\ infos' = infos /\ at' = at + 1 /\ bck' = 1
      /\ UNCHANGED <<toExpose, services, exposed>>
  BY InfoTypes DEF AccIInv, AccTypeOK, BackendsDone, AtPointing, AtInfo, AllParsed, NextInfo,
                   FirstBackend
<1>2. bck \in Nat /\ bck > Len(infos[at].backends)
  BY DEF AccIInv, AccTypeOK, BackendsDone
<1>3. RecordedInv' /\ AskedInv'
  <2>1. ASSUME NEW n \in DOMAIN infos, infos[n].kind \in PointingKinds,
               NEW m \in DOMAIN infos[n].backends
        PROVE  Behind(n, m)' <=> Behind(n, m)
    <3>1. n \in 1..Len(infos) /\ infos[n] \in ServiceInfo \union PointingInfo
      BY <1>1, InfoTypes
    <3>2. infos[n] \in PointingInfo
      BY <2>1, <3>1 DEF ServiceInfo, PointingKinds
    <3>3. infos[n].backends \in Seq(Backend)
      BY <3>2 DEF PointingInfo
    <3>4. n \in Nat /\ m \in 1..Len(infos[n].backends) /\ Len(infos[n].backends) \in Nat
      BY <3>1, <3>3
    <3>5. QED
      BY <1>1, <1>2, <3>4 DEF Behind
  <2>2. SameBackends
    BY <2>1 DEF SameBackends
  <2>3. QED
    BY <1>1, <2>2, SameRecords DEF ExactInv
<1>4. ParsedServices' = ParsedServices
  <2>1. (at + 1) - 1 = at
    BY <1>1
  <2>2. ParsedServices' = Those(SubSeq(infos, 1, at), ServiceInfo)
    BY <1>1, <2>1 DEF ParsedServices
  <2>3. infos[at] \notin ServiceInfo
    BY <1>1 DEF ServiceInfo, PointingKinds
  <2>4. QED
    BY <1>1, <2>2, <2>3, ParsedNext DEF Keep
<1>5. QED
  BY <1>1, <1>3, <1>4, NoServiceExact DEF ExactInv

\* The step of exposing the ports of one service.
LEMMA ExposeServiceExact ==
  ASSUME AccIInv, ExactInv, ExposeService
  PROVE  ExactInv'
<1> DEFINE e == exposed + 1
           svc == services[e]
           net == [n \in DOMAIN svc.network |-> Expose(svc.network[n], PortsToExpose(svc))]
<1>1. /\ AllParsed /\ UNCHANGED <<infos, at, bck, toExpose, panicked>>
      /\ exposed' = e
      /\ services' = [services EXCEPT ![e].network = net]
  BY DEF ExposeService
<1>2. services \in Seq(Service) /\ exposed \in Nat /\ e \in 1..Len(services)
  BY DEF AccIInv, AccTypeOK, ExposeService
<1>3. DOMAIN services' = DOMAIN services /\ Len(services') = Len(services)
      /\ \A s \in DOMAIN services : s # e => services'[s] = services[s]
  BY <1>1, <1>2, ExposeServiceType DEF AccIInv
<1>4. services'[e] = [svc EXCEPT !.network = net]
  <2> HIDE DEF e, net
  <2>1. QED
    BY <1>1, <1>2 DEF net
<1>5. ParsedAndExposed(services'[e], ParsedServices[e])
  <2>1. PICK i : i = ParsedServices[e]
    OBVIOUS
  <2>2. ~(e <= exposed)
    BY <1>2
  <2>3. Parsed(svc, i)
    BY <1>2, <2>1, <2>2 DEF ExactInv, ServicesInv
  <2>4. PICK p \in ScrapePorts(i.annotations) : svc = ServiceFrom(i, p)
    BY <2>3 DEF Parsed
  <2>5. svc.name = i.name /\ svc.namespace = i.namespace
    <3>1. ServiceFrom(i, p).name = i.name /\ ServiceFrom(i, p).namespace = i.namespace
      BY DEF ServiceFrom
    <3>2. QED
      BY <2>4, <3>1
  <2>6. PortsToExpose(svc) = PortsToExpose(i)
    BY <2>5 DEF PortsToExpose
  <2>7. services'[e] = [ServiceFrom(i, p) EXCEPT !.network =
                         [n \in DOMAIN @ |-> Expose(@[n], PortsToExpose(i))]]
    <3> HIDE DEF e
    <3>1. QED
      BY <1>4, <2>4, <2>6
  <2>8. ParsedAndExposed(services'[e], i)
    BY <2>7 DEF ParsedAndExposed
  <2>9. QED
    BY <2>1, <2>8
<1> HIDE DEF svc, net
<1>6. RecordedInv' /\ AskedInv'
  <2>1. SameBackends
    BY <1>1 DEF SameBackends, Behind
  <2>2. QED
    BY <1>1, <2>1, SameRecords DEF ExactInv
<1>7. ServicesInv'
  <2>1. ParsedServices' = ParsedServices
    BY <1>1 DEF ParsedServices
  <2>2. ASSUME NEW s, NEW i, ParsedAndExposed(s, i) PROVE ParsedAndExposed(s, i)'
    BY <1>1, <2>2 DEF ParsedAndExposed, PortsToExpose
  <2>3. ASSUME NEW s \in DOMAIN services, s <= e
        PROVE  ParsedAndExposed(services'[s], ParsedServices[s])
    <3>1. CASE s = e
      BY <1>5, <3>1
    <3>2. CASE s # e
      <4>1. s <= exposed
        BY <1>2, <2>3, <3>2
      <4>2. QED
        BY <1>3, <3>2, <4>1 DEF ExactInv, ServicesInv
    <3>3. QED
      BY <3>1, <3>2
  <2>4. ASSUME NEW s \in DOMAIN services, ~(s <= e)
        PROVE  Parsed(services'[s], ParsedServices[s])
    <3>1. ~(s <= exposed) /\ s # e
      BY <1>2, <2>4
    <3>2. QED
      BY <1>3, <3>1 DEF ExactInv, ServicesInv
  <2> HIDE DEF e
  <2>5. ASSUME NEW s \in DOMAIN services'
        PROVE  IF s <= e THEN ParsedAndExposed(services'[s], ParsedServices[s])
               ELSE Parsed(services'[s], ParsedServices[s])
    BY <1>3, <2>3, <2>4
  <2>6. ASSUME NEW s \in DOMAIN services'
        PROVE  IF s <= exposed' THEN ParsedAndExposed(services[s], ParsedServices[s])'
               ELSE Parsed(services[s], ParsedServices[s])'
    <3>1. CASE s <= e
      <4>1. PICK x, y : x = services'[s] /\ y = ParsedServices[s]
        OBVIOUS
      <4>2. ParsedAndExposed(x, y)'
        BY <2>2, <2>5, <3>1, <4>1
      <4>3. QED
        BY <1>1, <2>1, <3>1, <4>1, <4>2 DEF ParsedAndExposed
    <3>2. CASE ~(s <= e)
      BY <1>1, <2>1, <2>5, <3>2 DEF Parsed
    <3>3. QED
      BY <3>1, <3>2
  <2>7. Len(services') = Len(ParsedServices')
    BY <1>3, <2>1 DEF ExactInv, ServicesInv
  <2>8. QED
    BY <2>6, <2>7 DEF ServicesInv
<1>8. ExposingInv'
  BY <1>1 DEF ExposingInv, AllParsed
<1>9. QED
  BY <1>6, <1>7, <1>8 DEF ExactInv

LEMMA ExactInit == AccInit => ExactInv
<1> SUFFICES ASSUME AccInit PROVE ExactInv
  OBVIOUS
<1>1. /\ infos \in InfoLists /\ at = 1 /\ bck = 1 /\ DOMAIN toExpose = {}
      /\ services = <<>> /\ exposed = 0
  BY DEF AccInit
<1>2. RecordedInv
  <2>1. ASSUME NEW n \in DOMAIN infos, infos[n].kind \in PointingKinds,
               NEW m \in DOMAIN infos[n].backends
        PROVE  ~Behind(n, m)
    <3>1. n \in 1..Len(infos) /\ infos[n] \in ServiceInfo \union PointingInfo
      BY <1>1, InfoTypes
    <3>2. infos[n] \in PointingInfo
      BY <2>1, <3>1 DEF ServiceInfo, PointingKinds
    <3>3. infos[n].backends \in Seq(Backend)
      BY <3>2 DEF PointingInfo
    <3>4. QED
      BY <1>1, <3>1, <3>3 DEF Behind
  <2>2. QED
    BY <2>1 DEF RecordedInv
<1>3. AskedInv
  BY <1>1 DEF AskedInv
<1>4. ServicesInv
  <2>1. SubSeq(infos, 1, at - 1) = <<>>
    BY <1>1, SubSeqEmpty
  <2>2. ParsedServices = <<>>
    BY <2>1, ThoseEmpty DEF ParsedServices
  <2>3. QED
    BY <1>1, <2>2 DEF ServicesInv
<1>5. ExposingInv
  BY <1>1 DEF ExposingInv
<1>6. QED
  BY <1>2, <1>3, <1>4, <1>5 DEF ExactInv

\* A step that changes none of what the invariant speaks of.
LEMMA ExactStable ==
  ASSUME ExactInv, UNCHANGED <<infos, at, bck, toExpose, services, exposed>>,
         AllParsed => AllParsed'
  PROVE  ExactInv'
<1>1. RecordedInv' /\ AskedInv'
  <2>1. SameBackends
    BY DEF SameBackends, Behind
  <2>2. QED
    BY <2>1, SameRecords DEF ExactInv
<1>2. ServicesInv'
  BY DEF ExactInv, ServicesInv, ParsedServices, Parsed, ParsedAndExposed, PortsToExpose
<1>3. ExposingInv'
  BY DEF ExactInv, ExposingInv
<1>4. QED
  BY <1>1, <1>2, <1>3 DEF ExactInv

LEMMA ExactStep == AccIInv /\ ExactInv /\ [Accumulate \/ AccEnded]_accVars => ExactInv'
<1> SUFFICES ASSUME AccIInv, ExactInv, [Accumulate \/ AccEnded]_accVars PROVE ExactInv'
  OBVIOUS
<1>1. CASE ParseService
  BY <1>1, ParseServiceExact
<1>2. CASE AppendPort
  <2>1. ~AllParsed /\ UNCHANGED <<infos, at, services, exposed>>
    <3>1. at \in 1..(Len(infos) + 1) /\ Len(infos) \in Nat
      BY InfoTypes DEF AccIInv, AccTypeOK
    <3>2. QED
      BY <1>2, <3>1 DEF AppendPort, AtPointing, AtInfo, AllParsed
  <2>2. ParsedServices' = ParsedServices
    BY <2>1 DEF ParsedServices
  <2>3. QED
    BY <1>2, <2>1, <2>2, AppendPortRecords, NoServiceExact DEF ExactInv
<1>3. CASE BackendsDone
  BY <1>3, BackendsDoneExact
<1>4. CASE RoutePanics
  <2>1. ~AllParsed
    <3>1. at \in 1..(Len(infos) + 1) /\ Len(infos) \in Nat
      BY InfoTypes DEF AccIInv, AccTypeOK
    <3>2. QED
      BY <1>4, <3>1 DEF RoutePanics, AtInfo, AllParsed
  <2>2. QED
    BY <1>4, <2>1, ExactStable DEF RoutePanics
<1>5. CASE ExposeService
  BY <1>5, ExposeServiceExact
<1>6. CASE UNCHANGED accVars
  <2>1. AllParsed => AllParsed'
    BY <1>6 DEF accVars, AllParsed
  <2>2. QED
    BY <1>6, <2>1, ExactStable DEF accVars
<1>7. QED
  BY <1>1, <1>2, <1>3, <1>4, <1>5, <1>6 DEF Accumulate, AccEnded

\* A number means the ports of this number, ...
LEMMA EqualsNumber ==
  ASSUME NEW p, p.port \in Nat, NEW n \in Nat, n # 0
  PROVE  PortEquals(p, [int |-> n, str |-> ""]) <=> p.port = n
<1> DEFINE q == [int |-> n, str |-> ""]
<1>1. q.int = n /\ q.str = ""
  OBVIOUS
<1> HIDE DEF q
<1>2. PICK k \in Nat : k = p.port
  OBVIOUS
<1>3. p.port > 0 /\ p.port = q.int <=> p.port = n
  <2>1. k > 0 /\ k = n <=> k = n
    OBVIOUS
  <2>2. QED
    BY <1>1, <1>2, <2>1
<1>4. PortEquals(p, q) <=> p.port = n
  BY <1>1, <1>3, Zenon DEF PortEquals
<1>5. QED
  BY <1>4 DEF q

\* ... and a name those of this name.
LEMMA EqualsName ==
  ASSUME NEW p, p.port \in Nat, NEW s
  PROVE  PortEquals(p, [int |-> 0, str |-> s]) <=> p.name # "" /\ p.name = s
<1> DEFINE q == [int |-> 0, str |-> s]
<1>1. q.int = 0 /\ q.str = s
  OBVIOUS
<1> HIDE DEF q
<1>2. ~(p.port > 0 /\ p.port = q.int)
  BY <1>1
<1>3. PortEquals(p, q) <=> p.name # "" /\ p.name = s
  BY <1>1, <1>2, Zenon DEF PortEquals
<1>4. QED
  BY <1>3 DEF q

\* The port that a backend asks for is the one that Pointed speaks of.
LEMMA AsksIsPoints ==
  ASSUME NEW i \in PointingInfo, NEW m \in DOMAIN i.backends,
         NEW p, p.port \in Nat, NEW name, NEW namespace
  PROVE  (/\ ~Ignored(i, i.backends[m])
          /\ <<namespace, name>> = <<BackendNamespace(i, i.backends[m]), i.backends[m].svc>>
          /\ PortEquals(p, BackendPort(i, i.backends[m]))) <=>
         PointsAt(i, i.backends[m], name, namespace, p)
<1> DEFINE b == i.backends[m]
<1>1. b \in Backend /\ i.kind \in PointingKinds
  <2>1. i.backends \in Seq(Backend) /\ i.kind \in PointingKinds
    BY DEF PointingInfo
  <2>2. PICK s \in Seq(Backend) : s = i.backends
    BY <2>1
  <2>3. \A n \in DOMAIN s : s[n] \in Backend
    OBVIOUS
  <2>4. QED
    BY <2>1, <2>2, <2>3
<1>2. i.kind = "Gateway" => b.port.str = ""
  BY DEF PointingInfo
<1>3. b.port.int \in Nat /\ b.port = [int |-> b.port.int, str |-> b.port.str]
  BY <1>1 DEF Backend, IntOrString
<1>4. <<namespace, name>> = <<BackendNamespace(i, b), b.svc>> <=>
        namespace = BackendNamespace(i, b) /\ name = b.svc
  OBVIOUS
<1> DEFINE q == BackendPort(i, b)
<1>5. ASSUME i.kind # "Route"
      PROVE  /\ b.port.int = 0 => (PortEquals(p, q) <=> p.name # "" /\ p.name = b.port.str)
             /\ b.port.int # 0 => (PortEquals(p, q) <=> p.port = b.port.int)
  <2>1. ASSUME b.port.int = 0
        PROVE  PortEquals(p, q) <=> p.name # "" /\ p.name = b.port.str
    <3>1. q = [int |-> 0, str |-> b.port.str]
      BY <1>3, <1>5, <2>1, Zenon DEF BackendPort
    <3> HIDE DEF b, q
    <3>2. QED
      BY <3>1, EqualsName
  <2>2. ASSUME b.port.int # 0
        PROVE  PortEquals(p, q) <=> p.port = b.port.int
    <3>1. q = [int |-> b.port.int, str |-> ""]
      BY <1>5, <2>2, Zenon DEF BackendPort
    <3> HIDE DEF q, b
    <3>2. QED
      BY <1>3, <2>2, <3>1, EqualsNumber
  <2>3. QED
    BY <2>1, <2>2
<1> HIDE DEF q
<1>6. b.port.int > 0 <=> b.port.int # 0
  BY <1>3
<1>7. CASE i.kind = "Route"
  <2>1. q = i.port
    BY <1>7 DEF q, BackendPort
  <2>2. BackendNamespace(i, b) = i.namespace /\ ~Ignored(i, b)
    BY <1>7 DEF BackendNamespace, Ignored
  <2>3. PointsAt(i, b, name, namespace, p) <=>
          b.svc = name /\ i.namespace = namespace /\ PortEquals(p, i.port)
    BY <1>7 DEF PointsAt
  <2> HIDE DEF b
  <2>4. QED
    BY <1>4, <2>1, <2>2, <2>3 DEF b, q
<1>8. CASE i.kind = "Ingress"
  <2>1. BackendNamespace(i, b) = i.namespace
    BY <1>8 DEF BackendNamespace
  <2>2. Ignored(i, b) <=> ~b.isService
    BY <1>8 DEF Ignored
  <2>3. PointsAt(i, b, name, namespace, p) <=>
          /\ b.svc = name /\ b.isService /\ i.namespace = namespace
          /\ IF b.port.int > 0 THEN p.port = b.port.int
             ELSE p.name # "" /\ p.name = b.port.str
    BY <1>8 DEF PointsAt
  <2> HIDE DEF b
  <2>4. QED
    BY <1>4, <1>5, <1>6, <1>8, <2>1, <2>2, <2>3 DEF b, q
<1>9. CASE i.kind = "Gateway"
  <2>1. BackendNamespace(i, b) = IF b.namespace = NoNamespace THEN i.namespace ELSE b.namespace
    BY <1>9 DEF BackendNamespace
  <2>2. Ignored(i, b) <=> ~b.isService \/ b.port.int = 0
    <3>1. b.port = NilPort <=> b.port.int = 0
      <4>1. b.port.int = 0 => b.port = NilPort
        BY <1>2, <1>3, <1>9, Zenon DEF NilPort
      <4>2. NilPort.int = 0
        BY DEF NilPort
      <4>3. QED
        BY <4>1, <4>2
    <3>2. QED
      BY <1>9, <3>1 DEF Ignored
  <2>3. PointsAt(i, b, name, namespace, p) <=>
          /\ b.svc = name /\ b.isService
          /\ namespace = IF b.namespace = NoNamespace THEN i.namespace ELSE b.namespace
          /\ b.port.int > 0 /\ p.port = b.port.int
    BY <1>9 DEF PointsAt
  <2> HIDE DEF b
  <2>4. CASE b.port.int = 0
    BY <1>6, <2>2, <2>3, <2>4 DEF b
  <2>5. CASE b.port.int # 0
    <3>1. PortEquals(p, q) <=> p.port = b.port.int
      BY <1>5, <1>9, <2>5
    <3>2. Ignored(i, b) <=> ~b.isService
      BY <2>2, <2>5
    <3>3. b.port.int > 0
      BY <1>6, <2>5
    <3>4. PointsAt(i, b, name, namespace, p) <=>
            /\ b.svc = name /\ b.isService
            /\ namespace = BackendNamespace(i, b)
            /\ PortEquals(p, q)
      BY <2>1, <2>3, <3>1, <3>3
    <3>5. QED
      BY <1>4, <3>2, <3>4 DEF b, q
  <2>6. QED
    BY <2>4, <2>5
<1>10. QED
  BY <1>1, <1>7, <1>8, <1>9 DEF PointingKinds

\* When all is parsed, a service's ports to expose are those pointed at.
LEMMA ToExposeIsPointed ==
  ASSUME AccIInv, ExactInv, AllParsed, NEW s, NEW p, p.port \in Nat
  PROVE  (\E j \in DOMAIN PortsToExpose(s) : PortEquals(p, PortsToExpose(s)[j])) <=>
         Pointed(s.name, s.namespace, p)
<1> DEFINE key == <<s.namespace, s.name>>
           Open == \E j \in DOMAIN PortsToExpose(s) : PortEquals(p, PortsToExpose(s)[j])
<1>1. infos \in InfoLists /\ at = Len(infos) + 1 /\ Len(infos) \in Nat
  BY InfoTypes DEF AccIInv, AccTypeOK, AllParsed
<1>2. ASSUME NEW n \in DOMAIN infos, infos[n].kind \in PointingKinds
      PROVE  infos[n] \in PointingInfo
  BY <1>1, <1>2, InfoTypes DEF ServiceInfo, PointingKinds
<1>3. Open <=> \E q : HasPort(toExpose, key, q) /\ PortEquals(p, q)
  <2>1. CASE key \in DOMAIN toExpose
    <3>1. PortsToExpose(s) = toExpose[key]
      BY <2>1 DEF PortsToExpose
    <3> HIDE DEF key
    <3>2. QED
      BY <2>1, <3>1 DEF HasPort
  <2>2. CASE key \notin DOMAIN toExpose
    <3>1. PortsToExpose(s) = <<>>
      BY <2>2 DEF PortsToExpose
    <3>2. DOMAIN PortsToExpose(s) = {}
      BY <3>1
    <3> HIDE DEF key
    <3>3. QED
      BY <2>2, <3>2 DEF HasPort
  <2>3. QED
    BY <2>1, <2>2
<1> HIDE DEF key, Open
<1>4. ASSUME NEW q, HasPort(toExpose, key, q), PortEquals(p, q)
      PROVE  Pointed(s.name, s.namespace, p)
  <2>1. AskedBy(key, q)
    BY <1>4 DEF HasPort, ExactInv, AskedInv
  <2>2. PICK n \in DOMAIN infos :
          /\ infos[n].kind \in PointingKinds
          /\ \E m \in DOMAIN infos[n].backends : Asks(infos[n], infos[n].backends[m], key, q)
    BY <2>1 DEF AskedBy
  <2>3. PICK m \in DOMAIN infos[n].backends : Asks(infos[n], infos[n].backends[m], key, q)
    BY <2>2
  <2>4. PointsAt(infos[n], infos[n].backends[m], s.name, s.namespace, p)
    BY <1>2, <1>4, <2>2, <2>3, AsksIsPoints DEF Asks, key
  <2>5. QED
    BY <2>2, <2>4 DEF Pointed
<1>5. ASSUME Pointed(s.name, s.namespace, p)
      PROVE  \E q : HasPort(toExpose, key, q) /\ PortEquals(p, q)
  <2>1. PICK n \in DOMAIN infos :
          /\ infos[n].kind \in PointingKinds
          /\ \E m \in DOMAIN infos[n].backends :
               PointsAt(infos[n], infos[n].backends[m], s.name, s.namespace, p)
    BY <1>5 DEF Pointed
  <2>2. PICK m \in DOMAIN infos[n].backends :
          PointsAt(infos[n], infos[n].backends[m], s.name, s.namespace, p)
    BY <2>1
  <2> DEFINE i == infos[n]
             b == i.backends[m]
  <2>3. /\ ~Ignored(i, b)
        /\ key = <<BackendNamespace(i, b), b.svc>>
        /\ PortEquals(p, BackendPort(i, b))
    BY <1>2, <2>1, <2>2, AsksIsPoints DEF key
  <2>4. Behind(n, m)
    <3>1. n < at
      BY <1>1, InfoTypes
    <3>2. QED
      BY <3>1 DEF Behind
  <2>5. HasPort(toExpose, <<BackendNamespace(i, b), b.svc>>, BackendPort(i, b))
    BY <2>1, <2>3, <2>4 DEF ExactInv, RecordedInv
  <2> HIDE DEF i, b
  <2>6. QED
    BY <2>3, <2>5
<1>6. QED
  BY <1>3, <1>4, <1>5 DEF Open

\* Port q of a service is port p of its manifest i, exposed as it should be.
ExposedPort(q, i, p) ==
  /\ q = [p EXCEPT !.exposeToCluster = q.exposeToCluster]
  /\ Pointed(i.name, i.namespace, p) \/ Scraped(i, p) => q.exposeToCluster
  /\ q.exposeToCluster => Pointed(i.name, i.namespace, p) \/ MayBeScraped(i, p)

\* Service svc is what manifest i says.
Realizes(svc, i) ==
  /\ svc.name = i.name /\ svc.namespace = i.namespace /\ svc.selectors = i.selectors
  /\ svc.exposeExternally = (i.type \in {"NodePort", "LoadBalancer"})
  /\ DOMAIN svc.network = DOMAIN i.network
  /\ \A n \in DOMAIN i.network : ExposedPort(svc.network[n], i, i.network[n])

LEMMA RealizesManifest ==
  ASSUME AccIInv, ExactInv, AllParsed, NEW i \in ServiceInfo, NEW svc,
         ParsedAndExposed(svc, i)
  PROVE  Realizes(svc, i)
<1>1. PICK sp \in ScrapePorts(i.annotations) :
        svc = [ServiceFrom(i, sp) EXCEPT !.network =
                 [n \in DOMAIN @ |-> Expose(@[n], PortsToExpose(i))]]
  BY DEF ParsedAndExposed
<1> DEFINE Marked(n) == i.annotations.scrape /\ PortEquals(i.network[n], sp)
           net == [n \in DOMAIN i.network |->
                    [i.network[n] EXCEPT !.exposeToCluster = Marked(n)]]
           open == [n \in DOMAIN net |-> Expose(net[n], PortsToExpose(i))]
<1>2. ServiceFrom(i, sp) =
        [name |-> i.name, namespace |-> i.namespace, selectors |-> i.selectors,
         exposeExternally |-> i.type \in {"NodePort", "LoadBalancer"}, network |-> net]
  BY Zenon DEF ServiceFrom
<1>3. svc = [name |-> i.name, namespace |-> i.namespace, selectors |-> i.selectors,
             exposeExternally |-> i.type \in {"NodePort", "LoadBalancer"}, network |-> open]
  <2> DEFINE f == ServiceFrom(i, sp)
  <2>1. svc = [f EXCEPT !.network = [n \in DOMAIN f.network |-> Expose(f.network[n], PortsToExpose(i))]]
    BY <1>1
  <2>2. f.network = net
    BY <1>2
  <2>3. svc = [f EXCEPT !.network = open]
    BY <2>1, <2>2
  <2> HIDE DEF open, net
  <2>4. QED
    BY <1>2, <2>3
<1>4. DOMAIN net = DOMAIN i.network /\ DOMAIN open = DOMAIN i.network
  OBVIOUS
<1>5. ASSUME NEW n \in DOMAIN i.network
      PROVE  ExposedPort(open[n], i, i.network[n])
  <2> DEFINE p == i.network[n]
             Asked == \E j \in DOMAIN PortsToExpose(i) : PortEquals(net[n], PortsToExpose(i)[j])
  <2>1. p \in [name : PortNames, port : Nat, targetPort : IntOrString,
               protocol : {"", "TCP", "UDP"}, exposeToCluster : {FALSE}]
    BY ServiceInfoPorts
  <2>2. net[n] = [p EXCEPT !.exposeToCluster = Marked(n)]
    OBVIOUS
  <2>3. open[n] = [net[n] EXCEPT !.exposeToCluster = @ \/ Asked]
    BY <1>4 DEF Expose
  <2> HIDE DEF net, open, Asked
  <2>4. PICK x \in BOOLEAN : x <=> Marked(n)
    <3>1. Marked(n) \in BOOLEAN
      BY Zenon
    <3>2. QED
      BY <3>1
  <2>5. PICK y \in BOOLEAN : y <=> Asked
    <3>1. Asked \in BOOLEAN
      BY Zenon DEF Asked
    <3>2. QED
      BY <3>1
  <2>6. open[n] = [p EXCEPT !.exposeToCluster = x \/ y]
    BY <2>1, <2>2, <2>3, <2>4, <2>5
  <2>7. open[n] = [p EXCEPT !.exposeToCluster = open[n].exposeToCluster]
        /\ (open[n].exposeToCluster <=> x \/ y)
    BY <2>1, <2>6
  <2>8. net[n].name = p.name /\ net[n].port = p.port /\ p.port \in Nat
    BY <2>1, <2>2
  <2>9. Asked <=> Pointed(i.name, i.namespace, p)
    <3>1. \A q : PortEquals(net[n], q) <=> PortEquals(p, q)
      BY <2>8 DEF PortEquals
    <3>2. Asked <=> \E j \in DOMAIN PortsToExpose(i) : PortEquals(p, PortsToExpose(i)[j])
      BY <3>1 DEF Asked
    <3> HIDE DEF p
    <3>3. QED
      BY <2>8, <3>2, ToExposeIsPointed
  <2>10. Scraped(i, p) => Marked(n)
    BY DEF Scraped
  <2>11. Marked(n) => MayBeScraped(i, p)
    BY DEF MayBeScraped
  <2> HIDE DEF Marked
  <2>12. QED
    BY <2>4, <2>5, <2>7, <2>9, <2>10, <2>11 DEF ExposedPort
<1> HIDE DEF net, open
<1>6. /\ svc.name = i.name /\ svc.namespace = i.namespace /\ svc.selectors = i.selectors
      /\ svc.exposeExternally = (i.type \in {"NodePort", "LoadBalancer"})
      /\ svc.network = open
  BY <1>3
<1>7. QED
  BY <1>4, <1>5, <1>6 DEF Realizes

\* In the end the slice realizes the Service manifests one by one.
LEMMA AllRealized ==
  ASSUME AccIInv, ExactInv, Accumulated
  PROVE  /\ ServiceInfos \in Seq(ServiceInfo)
         /\ Len(services) = Len(ServiceInfos)
         /\ DOMAIN services = DOMAIN ServiceInfos
         /\ \A s \in DOMAIN services : Realizes(services[s], ServiceInfos[s])
<1> DEFINE T == ServiceInfo \union PointingInfo
<1>1. infos \in Seq(T) /\ AllParsed /\ exposed = Len(services) /\ services \in Seq(Service)
  BY InfoListsAssumption DEF AccIInv, AccTypeOK, Accumulated
<1>2. at - 1 = Len(infos)
  BY <1>1, InfoTypes DEF AccIInv, AccTypeOK, AllParsed
<1> HIDE DEF T
<1>3. ParsedServices = ServiceInfos
  BY <1>1, <1>2, SubSeqFull DEF ParsedServices, ServiceInfos
<1>4. ServiceInfos \in Seq(ServiceInfo)
  BY <1>1, ThoseIn DEF ServiceInfos
<1>5. Len(services) = Len(ServiceInfos)
  BY <1>3 DEF ExactInv, ServicesInv
<1>6. DOMAIN services = DOMAIN ServiceInfos
  BY <1>1, <1>4, <1>5
<1>7. ASSUME NEW s \in DOMAIN services PROVE Realizes(services[s], ServiceInfos[s])
  <2>1. s <= exposed
    BY <1>1
  <2>2. ParsedAndExposed(services[s], ServiceInfos[s])
    BY <1>3, <2>1 DEF ExactInv, ServicesInv
  <2>3. ServiceInfos[s] \in ServiceInfo
    BY <1>4, <1>6
  <2>4. QED
    BY <1>1, <2>2, <2>3, RealizesManifest
<1>8. QED
  BY <1>4, <1>5, <1>6, <1>7

LEMMA ExactInvariant == AccSpec => [](AccIInv /\ ExactInv)
<1>1. AccInit => AccIInv /\ ExactInv
  BY AccTypeInit, ExactInit
<1>2. (AccIInv /\ ExactInv) /\ [Accumulate \/ AccEnded]_accVars => (AccIInv /\ ExactInv)'
  BY AccTypeStep, ExactStep
<1>3. QED
  BY <1>1, <1>2, PTL DEF AccSpec

\* When exposeServices is done, the ports that some resource points at, or
\* Prometheus scrapes, are exposed, and no others, in whatever order the
\* manifests come.
THEOREM ExposedExactlyHolds == AccSpec => []ExposedExactly
<1>1. AccIInv /\ ExactInv => ExposedExactly
  <2> SUFFICES ASSUME AccIInv, ExactInv, Accumulated
               PROVE  /\ Len(services) = Len(ServiceInfos)
                      /\ \A s \in DOMAIN services : \A n \in DOMAIN ServiceInfos[s].network :
                           ExposedPort(services[s].network[n], ServiceInfos[s],
                                       ServiceInfos[s].network[n])
    BY DEF ExposedExactly, ExposedPort
  <2>1. QED
    BY AllRealized DEF Realizes
<1>2. QED
  BY <1>1, ExactInvariant, PTL

================================================================================
