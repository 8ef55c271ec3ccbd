--------------------------- MODULE Discovery_proofs ---------------------------
(***************************************************************************)
(* Proofs about Discovery, for all inputs: types, that every connection    *)
(* found is required and none is missed or repeated, and that the loops    *)
(* implement RequiredConnectivity.                                         *)
(*                                                                         *)
(* The inductive invariant IInv says what the four counters have behind    *)
(* them: the addresses before adr decide matched, the sources before src   *)
(* decide anySource, and the connections are the required ones among those *)
(* that Handled puts behind the counters.                                  *)
(***************************************************************************)
EXTENDS Discovery, Iteration, SequenceTheorems, TLAPS

-----------------------------------------------------------------------------
(* Lemmas about the operators of Topology *)

\* envValueMatchesService finds a port of the service with the number asked.
LEMMA FirstPort ==
  ASSUME NEW svc \in Service, NEW n \in Nat, PortsNumbered(svc, n) # {}
  PROVE  \E i \in DOMAIN svc.network :
           /\ FirstPortNumbered(svc, n) = svc.network[i]
           /\ svc.network[i].port = n
           /\ svc.network[i] \in SvcNetworkAttr
           /\ \A j \in 1..(i - 1) : svc.network[j].port # n
<1> DEFINE P == PortsNumbered(svc, n)
<1>1. svc.network \in Seq(SvcNetworkAttr)
  BY DEF Service
<1>2. P \subseteq Nat
  BY <1>1 DEF PortsNumbered
<1>3. PICK i \in P : \A j \in P : i <= j
  BY <1>2, LeastNat
<1> DEFINE k == CHOOSE k \in P : \A j \in P : k <= j
<1>6. FirstPortNumbered(svc, n) = svc.network[k]
  BY DEF FirstPortNumbered
<1>7. k \in P /\ \A j \in P : k <= j
  BY <1>3
<1> HIDE DEF k
<1>8. k \in DOMAIN svc.network /\ svc.network[k].port = n
  BY <1>7 DEF PortsNumbered
<1>9. svc.network[k] \in SvcNetworkAttr
  BY <1>1, <1>8
<1>10. ASSUME NEW j \in 1..(k - 1) PROVE svc.network[j].port # n
  <2>1. k \in 1..Len(svc.network) /\ Len(svc.network) \in Nat
    BY <1>1, <1>8
  <2>2. j \in DOMAIN svc.network /\ ~(k <= j)
    BY <1>1, <2>1
  <2>3. QED
    BY <1>7, <2>2 DEF PortsNumbered
<1>11. QED
  BY <1>6, <1>8, <1>9, <1>10

\* The used ports stay ports of a service.
LEMMA AddUsedPortType ==
  ASSUME NEW used \in Seq(SvcNetworkAttr), NEW addr \in Address,
         NEW svc \in Service, NEW r
  PROVE  AddUsedPort(used, addr, svc, r) \in Seq(SvcNetworkAttr)
<1>1. CASE AddressMatches(addr, svc, r) /\ addr.port > NoPort
  <2>1. addr.port \in Nat /\ addr.port # NoPort
    BY <1>1 DEF Address, NoPort
  <2>2. PortsNumbered(svc, addr.port) # {}
    BY <1>1, <2>1 DEF AddressMatches
  <2>3. FirstPortNumbered(svc, addr.port) \in SvcNetworkAttr
    BY <2>1, <2>2, FirstPort
  <2>4. QED
    BY <1>1, <2>3, AppendProperties DEF AddUsedPort
<1>2. CASE ~(AddressMatches(addr, svc, r) /\ addr.port > NoPort)
  BY <1>2 DEF AddUsedPort
<1>3. QED
  BY <1>1, <1>2

-----------------------------------------------------------------------------
(* Type correctness *)

LEMMA InputTypes ==
  ASSUME TypeOK
  PROVE  /\ workloads \in Seq(Resource) /\ Len(workloads) # 0
         /\ services \in Seq(Service)
  BY DEF TypeOK

LEMMA AddressTypes ==
  ASSUME TypeOK, NEW s \in DOMAIN workloads
  PROVE  /\ workloads[s].networkAddrs \in Seq(Address)
         /\ \A a \in DOMAIN workloads[s].networkAddrs : workloads[s].networkAddrs[a] \in Address
<1>1. workloads[s] \in Resource
  BY InputTypes
<1>2. workloads[s].networkAddrs \in Seq(Address)
  BY <1>1 DEF Resource
<1>3. QED
  BY <1>2

\* findSource starts with the first resource.
LEMMA FirstAddrs ==
  ASSUME workloads' \in Seq(Resource), Len(workloads') # 0, src' = 1
  PROVE  Len(CurrentAddrs') \in Nat
<1>1. workloads'[1] \in Resource /\ 1 <= Len(workloads')
  OBVIOUS
<1>2. CurrentAddrs' = workloads'[1].networkAddrs
  BY <1>1 DEF CurrentAddrs
<1>3. QED
  BY <1>1, <1>2 DEF Resource

\* TypeOK is inductive by itself.
LEMMA TypeStep == TypeOK /\ [Next]_vars => TypeOK'
<1> SUFFICES ASSUME TypeOK, [Next]_vars PROVE TypeOK'
  OBVIOUS
<1>a. /\ workloads \in Seq(Resource) /\ Len(workloads) \in Nat
      /\ services \in Seq(Service) /\ Len(services) \in Nat
  BY InputTypes
<1>b. <<>> \in Seq(SvcNetworkAttr) /\ connections \in Seq(Connection)
  BY DEF TypeOK
<1>1. CASE SkipService
  BY <1>1, <1>a DEF TypeOK, CurrentAddrs, SkipService, inputs
<1>2. CASE TestAddress
  <2>1. src \in DOMAIN workloads /\ lnk \in DOMAIN services
    BY <1>2, <1>a DEF TypeOK, TestAddress, InAddresses, InFindSource
  <2>2. workloads[src] \in Resource /\ services[lnk] \in Service
    BY <2>1, <1>a
  <2>3. workloads[src].networkAddrs \in Seq(Address)
    BY <2>2 DEF Resource
  <2>4. adr \in DOMAIN workloads[src].networkAddrs
    BY <1>2, <2>3 DEF TypeOK, TestAddress, InAddresses
  <2>5. workloads[src].networkAddrs[adr] \in Address
    BY <2>3, <2>4
  <2>6. usedPorts' \in Seq(SvcNetworkAttr)
    BY <1>2, <2>2, <2>5, AddUsedPortType DEF TypeOK, TestAddress
  <2>7. matched' \in BOOLEAN
    BY <1>2 DEF TypeOK, TestAddress, AddressMatches
  <2>8. adr' \in 1..(Len(CurrentAddrs') + 1)
    <3>1. src <= Len(workloads) /\ src' = src /\ workloads' = workloads
      BY <1>2 DEF TestAddress, InAddresses, inputs
    <3>2. CurrentAddrs' = workloads[src].networkAddrs
      BY <3>1 DEF CurrentAddrs
    <3>3. QED
      BY <1>2, <2>3, <2>4, <3>2 DEF TestAddress
  <2>9. QED
    BY <1>2, <2>6, <2>7, <2>8 DEF TypeOK, TestAddress, inputs
<1>3. CASE RecordSource
  <2>1. ConnectionHere \in Connection
    BY <1>a DEF TypeOK, ConnectionHere, Connection
  <2>2. connections' = connections \/ connections' = Append(connections, ConnectionHere)
    BY <1>3 DEF RecordSource, ConnectionFrom
  <2>3. connections' \in Seq(Connection)
    BY <1>b, <2>1, <2>2, AppendProperties
  <2>4. src' \in 1..(Len(workloads) + 1)
    BY <1>3, <1>a DEF TypeOK, RecordSource, SourceScanned
  <2>5. anySource' \in BOOLEAN
    BY <1>3 DEF TypeOK, RecordSource
  <2>6. adr' = 1 /\ matched' \in BOOLEAN
    BY <1>3, Zenon DEF RecordSource
  <2>7. usedPorts' \in Seq(SvcNetworkAttr)
    BY <1>3, <1>b, Zenon DEF RecordSource
  <2>8. /\ workloads' \in Seq(Resource) \ {<<>>} /\ services' \in Seq(Service)
        /\ dst' \in 1..(Len(workloads') + 1) /\ lnk' \in 1..(Len(services') + 1)
        /\ src' \in 1..(Len(workloads') + 1)
    BY <1>3, <2>4 DEF TypeOK, RecordSource, inputs
  <2>9. QED
    BY <2>3, <2>5, <2>6, <2>7, <2>8 DEF TypeOK
<1>4. CASE FinishService
  <2>1. SourcelessHere \in Connection
    BY <1>a, <1>b DEF TypeOK, SourcelessHere, NoSource, Connection
  <2>2. connections' = connections \/ connections' = Append(connections, SourcelessHere)
    BY <1>4 DEF FinishService, SourcelessConnection
  <2>3. connections' \in Seq(Connection)
    BY <1>b, <2>1, <2>2, AppendProperties
  <2>4. lnk' \in 1..(Len(services) + 1) /\ src' \in 1..(Len(workloads) + 1)
    BY <1>4, <1>a DEF TypeOK, FinishService, SourcesScanned, InFindSource
  <2>5. adr = 1
    <3>1. CurrentAddrs = <<>>
      BY <1>4, <1>a DEF TypeOK, FinishService, SourcesScanned, CurrentAddrs
    <3>2. QED
      BY <3>1 DEF TypeOK
  <2>6. Len(CurrentAddrs') \in Nat
    BY <1>4, InputTypes, FirstAddrs DEF FinishService, inputs
  <2>7. adr' \in 1..(Len(CurrentAddrs') + 1)
    BY <1>4, <2>5, <2>6 DEF FinishService
  <2>8. QED
    BY <1>4, <2>3, <2>4, <2>7 DEF TypeOK, FinishService, inputs
<1>5. CASE NextTarget
  BY <1>5, <1>a DEF TypeOK, CurrentAddrs, NextTarget, inputs
<1>6. CASE UNCHANGED vars
  BY <1>6 DEF TypeOK, CurrentAddrs, vars, inputs, loops
<1>7. QED
  BY <1>1, <1>2, <1>3, <1>4, <1>5, <1>6 DEF Next, Discover, Returned

\* The four loops have yet to begin.
Start ==
  /\ dst = 1 /\ lnk = 1 /\ src = 1 /\ adr = 1
  /\ matched = FALSE /\ usedPorts = <<>> /\ anySource = FALSE
  /\ connections = <<>>

LEMMA StartType ==
  ASSUME workloads \in Seq(Resource) \ {<<>>}, services \in Seq(Service), Start
  PROVE  TypeOK
<1>1. /\ Len(workloads) \in Nat /\ 1 <= Len(workloads) /\ Len(services) \in Nat
      /\ workloads[1] \in Resource
  OBVIOUS
<1>a. Len(CurrentAddrs) \in Nat
  BY <1>1 DEF Start, CurrentAddrs, Resource
<1>2. /\ dst \in 1..(Len(workloads) + 1) /\ lnk \in 1..(Len(services) + 1)
      /\ src \in 1..(Len(workloads) + 1) /\ adr \in 1..(Len(CurrentAddrs) + 1)
  BY <1>1, <1>a DEF Start
<1>3. usedPorts \in Seq(SvcNetworkAttr) /\ connections \in Seq(Connection)
  BY DEF Start
<1>4. matched \in BOOLEAN /\ anySource \in BOOLEAN
  BY Zenon DEF Start
<1>5. QED
  BY <1>2, <1>3, <1>4 DEF TypeOK

LEMMA InitStarts ==
  ASSUME Init
  PROVE  workloads \in Seq(Resource) \ {<<>>} /\ services \in Seq(Service) /\ Start
<1>1. PICK in \in Inputs : workloads = in[1] /\ services = in[2]
  BY DEF Init
<1>2. workloads \in Seq(Resource) \ {<<>>} /\ services \in Seq(Service)
  BY <1>1, InputsAssumption
<1>3. QED
  BY <1>2 DEF Init, Start

LEMMA TypeInit == Init => TypeOK
  BY InitStarts, StartType

\* The counters, the flags and the result of discoverConnections keep their
\* types, and the counters never run past their slices.
THEOREM TypeCorrect == Spec => []TypeOK
<1>1. QED
  BY TypeInit, TypeStep, PTL DEF Spec

-----------------------------------------------------------------------------
(* The inductive invariant *)

\* A connection from s to d by l is in the result.
Found(s, d, l) ==
  \E i \in DOMAIN connections :
    /\ connections[i].source = s
    /\ connections[i].target = d
    /\ connections[i].link = l

\* The loops have decided on source s, target d and service l: the sourceless
\* connection is decided after all sources.
Handled(s, d, l) ==
  \/ d < dst
  \/ d = dst /\ l < lnk
  \/ d = dst /\ l = lnk /\ s # NoSource /\ s < src

\* Outside findSource its counters and flags are as it starts.
FreshInv ==
  ~InFindSource =>
    src = 1 /\ adr = 1 /\ ~matched /\ usedPorts = <<>> /\ ~anySource

\* matched stands for the addresses of src before adr.
MatchedInv ==
  /\ src > Len(workloads) => adr = 1 /\ ~matched /\ usedPorts = <<>>
  /\ src <= Len(workloads) => adr <= Len(workloads[src].networkAddrs) + 1
  /\ src <= Len(workloads) /\ lnk <= Len(services) =>
       (matched <=> \E a \in 1..(adr - 1) :
          Promise!Designates(workloads[src].networkAddrs[a], src, lnk))

\* anySource stands for the resources before src.
AnySourceInv ==
  lnk <= Len(services) => (anySource <=> \E w \in 1..(src - 1) : Promise!Calls(w, lnk))

CompleteInv ==
  \A s \in Promise!Sources, d \in DOMAIN workloads, l \in DOMAIN services :
    Promise!Required(s, d, l) /\ Handled(s, d, l) => Found(s, d, l)

\* Only what is handled is found, so nothing is found twice.
HandledInv ==
  \A i \in DOMAIN connections :
    Handled(connections[i].source, connections[i].target, connections[i].link)

ResultInv == OnlyRequired /\ CompleteInv /\ HandledInv /\ NoRepeats

IInv == TypeOK /\ FreshInv /\ MatchedInv /\ AnySourceInv /\ ResultInv

-----------------------------------------------------------------------------
(* The steps of the loops preserve it *)

\* The tests of the code are those of the README.
LEMMA MatchesIsExposes ==
  ASSUME TypeOK, NEW d \in DOMAIN workloads, NEW l \in DOMAIN services
  PROVE  Matches(services[l], workloads[d]) <=> Promise!Exposes(l, d)
  BY DEF Matches, Promise!Exposes

LEMMA MatchesIsDesignates ==
  ASSUME TypeOK, NEW s \in DOMAIN workloads, NEW l \in DOMAIN services,
         NEW a \in DOMAIN workloads[s].networkAddrs
  PROVE  AddressMatches(workloads[s].networkAddrs[a], services[l], workloads[s])
           <=> Promise!Designates(workloads[s].networkAddrs[a], s, l)
<1> DEFINE addr == workloads[s].networkAddrs[a]
           svc == services[l]
           res == workloads[s]
<1>1. addr \in Address /\ addr.host \in Host
  BY AddressTypes DEF Address
<1> HIDE DEF addr, svc, res
<1>2. addr.host \in PossibleHosts(svc, res) <=>
        /\ addr.host.svc = svc.name
        /\ \/ addr.host.namespace = NoNamespace /\ ~addr.host.fqdn
              /\ res.namespace = svc.namespace
           \/ addr.host.namespace # NoNamespace /\ addr.host.namespace = svc.namespace
  BY <1>1 DEF PossibleHosts, Host
<1>3. PortsNumbered(svc, addr.port) # {} <=>
        \E i \in DOMAIN svc.network : svc.network[i].port = addr.port
  BY DEF PortsNumbered
<1>4. QED
  BY <1>2, <1>3 DEF AddressMatches, Promise!Designates, Promise!NoNamespace,
       Promise!NoPort, NoNamespace, NoPort, addr, svc, res

\* What is required depends on the inputs only.
LEMMA Stable ==
  ASSUME inputs' = inputs
  PROVE  /\ workloads' = workloads /\ services' = services
         /\ \A addr, s, l : Promise!Designates(addr, s, l)' <=> Promise!Designates(addr, s, l)
         /\ \A s, l : Promise!Calls(s, l)' <=> Promise!Calls(s, l)
         /\ \A s, d, l : Promise!Required(s, d, l)' <=> Promise!Required(s, d, l)
         /\ Promise!Sources' = Promise!Sources
<1>1. workloads' = workloads /\ services' = services
  BY DEF inputs
<1>2. \A addr, s, l : Promise!Designates(addr, s, l)' <=> Promise!Designates(addr, s, l)
  BY <1>1 DEF Promise!Designates
<1>3. \A s, l : Promise!Calls(s, l)' <=> Promise!Calls(s, l)
  BY <1>1, <1>2 DEF Promise!Calls
<1>4. \A s, d, l : Promise!Required(s, d, l)' <=> Promise!Required(s, d, l)
  BY <1>1, <1>3 DEF Promise!Required, Promise!Exposes
<1>5. QED
  BY <1>1, <1>2, <1>3, <1>4 DEF Promise!Sources

LEMMA SourcesType == ASSUME TypeOK PROVE Promise!Sources \subseteq Nat
  BY InputTypes DEF Promise!Sources, Promise!NoSource

LEMMA Triples ==
  ASSUME TypeOK, ResultInv, NEW i \in DOMAIN connections
  PROVE  /\ connections[i] \in Connection
         /\ connections[i].source \in Promise!Sources
         /\ connections[i].target \in DOMAIN workloads
         /\ connections[i].link \in DOMAIN services
         /\ Promise!Required(connections[i].source, connections[i].target, connections[i].link)
         /\ Handled(connections[i].source, connections[i].target, connections[i].link)
<1>1. connections \in Seq(Connection)
  BY DEF TypeOK
<1>2. connections[i] \in Connection
  BY <1>1
<1>3. QED
  BY <1>2 DEF ResultInv, OnlyRequired, HandledInv

\* A step that appends nothing keeps ResultInv when what it puts behind the
\* counters is not required.
LEMMA SameResult ==
  ASSUME TypeOK, ResultInv, inputs' = inputs, connections' = connections,
         \A s \in Promise!Sources, d \in DOMAIN workloads, l \in DOMAIN services :
           /\ Handled(s, d, l) => Handled(s, d, l)'
           /\ Handled(s, d, l)' /\ Promise!Required(s, d, l) => Handled(s, d, l)
  PROVE  ResultInv'
<1>1. OnlyRequired' /\ NoRepeats'
  BY Stable DEF ResultInv, OnlyRequired, NoRepeats
<1>2. HandledInv'
  <2> SUFFICES ASSUME NEW i \in DOMAIN connections
               PROVE Handled(connections[i].source, connections[i].target, connections[i].link)'
    BY DEF HandledInv
  <2>1. QED
    BY Triples
<1>3. CompleteInv'
  <2> SUFFICES ASSUME NEW s \in Promise!Sources, NEW d \in DOMAIN workloads,
                      NEW l \in DOMAIN services,
                      Promise!Required(s, d, l), Handled(s, d, l)'
               PROVE Found(s, d, l)'
    BY Stable, Zenon DEF CompleteInv
  <2>1. Found(s, d, l)
    BY DEF ResultInv, CompleteInv
  <2>2. QED
    BY <2>1 DEF Found
<1>4. QED
  BY <1>1, <1>2, <1>3 DEF ResultInv

\* A step that appends one connection keeps ResultInv when the connection is
\* required and is the only required one the step puts behind the counters.
LEMMA OneAdded ==
  ASSUME TypeOK, ResultInv, inputs' = inputs, NEW c \in Connection,
         connections' = Append(connections, c),
         c.source \in Promise!Sources, c.target \in DOMAIN workloads,
         c.link \in DOMAIN services, Promise!Required(c.source, c.target, c.link),
         ~Handled(c.source, c.target, c.link), Handled(c.source, c.target, c.link)',
         \A s \in Promise!Sources, d \in DOMAIN workloads, l \in DOMAIN services :
           /\ Handled(s, d, l) => Handled(s, d, l)'
           /\ Handled(s, d, l)' /\ Promise!Required(s, d, l) /\ ~Handled(s, d, l) =>
                s = c.source /\ d = c.target /\ l = c.link
  PROVE  ResultInv'
<1> DEFINE n == Len(connections)
<1>1. /\ n \in Nat /\ DOMAIN connections = 1..n
      /\ DOMAIN connections' = 1..(n + 1)
      /\ \A i \in 1..n : connections'[i] = connections[i]
      /\ connections'[n + 1] = c
  <2>1. connections \in Seq(Connection)
    BY DEF TypeOK
  <2>2. QED
    BY <2>1
<1> HIDE DEF n
<1>2. OnlyRequired'
  <2> SUFFICES ASSUME NEW i \in 1..(n + 1)
               PROVE  /\ connections'[i].source \in Promise!Sources
                      /\ connections'[i].target \in DOMAIN workloads
                      /\ connections'[i].link \in DOMAIN services
                      /\ Promise!Required(connections'[i].source,
                                          connections'[i].target, connections'[i].link)
    BY <1>1, Stable, Zenon DEF OnlyRequired
  <2>1. CASE i \in 1..n
    BY <2>1, <1>1, Triples
  <2>2. CASE i = n + 1
    BY <2>2, <1>1
  <2>3. QED
    BY <1>1, <2>1, <2>2
<1>3. HandledInv'
  <2> SUFFICES ASSUME NEW i \in 1..(n + 1)
               PROVE Handled(connections[i].source,
                             connections[i].target, connections[i].link)'
    BY <1>1, Zenon DEF HandledInv
  <2>1. CASE i \in 1..n
    BY <2>1, <1>1, Triples
  <2>2. CASE i = n + 1
    BY <2>2, <1>1
  <2>3. QED
    BY <1>1, <2>1, <2>2
<1>4. CompleteInv'
  <2> SUFFICES ASSUME NEW s \in Promise!Sources, NEW d \in DOMAIN workloads,
                      NEW l \in DOMAIN services,
                      Promise!Required(s, d, l), Handled(s, d, l)'
               PROVE Found(s, d, l)'
    BY Stable, Zenon DEF CompleteInv
  <2>1. CASE Handled(s, d, l)
    <3>1. Found(s, d, l)
      BY <2>1 DEF ResultInv, CompleteInv
    <3>2. QED
      BY <3>1, <1>1 DEF Found
  <2>2. CASE ~Handled(s, d, l)
    BY <2>2, <1>1 DEF Found
  <2>3. QED
    BY <2>1, <2>2
<1>5. NoRepeats'
  <2>1. \A i \in 1..n : ~(/\ connections[i].source = c.source
                          /\ connections[i].target = c.target
                          /\ connections[i].link = c.link)
    BY <1>1, Triples
  <2>2. \A i, j \in 1..n :
          (/\ connections[i].source = connections[j].source
           /\ connections[i].target = connections[j].target
           /\ connections[i].link = connections[j].link) => i = j
    BY <1>1 DEF ResultInv, NoRepeats
  <2>3. QED
    BY <1>1, <2>1, <2>2 DEF NoRepeats
<1>6. QED
  BY <1>2, <1>3, <1>4, <1>5 DEF ResultInv

\* The types of what the counters are compared with.
LEMMA CounterTypes ==
  ASSUME TypeOK
  PROVE  /\ dst \in Nat \ {0} /\ lnk \in Nat \ {0} /\ src \in Nat \ {0} /\ adr \in Nat \ {0}
         /\ Promise!Sources \subseteq Nat
         /\ DOMAIN workloads = 1..Len(workloads) /\ Len(workloads) \in Nat
         /\ DOMAIN services = 1..Len(services) /\ Len(services) \in Nat
<1>1. workloads \in Seq(Resource) /\ services \in Seq(Service)
  BY InputTypes
<1>2. QED
  BY <1>1, SourcesType DEF TypeOK

\* A step that leaves findSource at the first address of a resource.
LEMMA FreshMatched ==
  ASSUME TypeOK', (adr = 1)', (~matched)', (usedPorts = <<>>)'
  PROVE  MatchedInv'
<1>1. ASSUME src' <= Len(workloads') PROVE 1 <= Len(workloads'[src'].networkAddrs) + 1
  <2>1. workloads' \in Seq(Resource) /\ src' \in Nat \ {0}
    BY DEF TypeOK
  <2>2. workloads'[src'] \in Resource
    BY <1>1, <2>1
  <2>3. Len(workloads'[src'].networkAddrs) \in Nat
    BY <2>2 DEF Resource
  <2>4. QED
    BY <2>3
<1>2. QED
  BY <1>1 DEF MatchedInv

\* A service that is not in front of dst leaves nothing to report.
LEMMA SkipServiceStep == ASSUME IInv, TypeOK', SkipService PROVE IInv'
<1>1. /\ inputs' = inputs /\ connections' = connections /\ dst' = dst
      /\ lnk' = lnk + 1 /\ src' = src
  BY DEF SkipService
<1>2. TypeOK /\ ResultInv /\ dst \in DOMAIN workloads /\ lnk \in DOMAIN services
  BY CounterTypes DEF IInv, SkipService
<1>3. src = 1 /\ adr = 1 /\ ~matched /\ usedPorts = <<>> /\ ~anySource
  BY DEF IInv, FreshInv, InFindSource, SkipService
<1>4. src' = 1 /\ adr' = 1 /\ ~matched' /\ usedPorts' = <<>> /\ ~anySource'
  BY <1>3 DEF SkipService
<1>5. FreshInv' /\ AnySourceInv'
  BY <1>4 DEF FreshInv, AnySourceInv
<1>6. MatchedInv'
  BY <1>4, FreshMatched
<1>7. ASSUME NEW s \in Promise!Sources, NEW d \in DOMAIN workloads, NEW l \in DOMAIN services
      PROVE  /\ Handled(s, d, l) => Handled(s, d, l)'
             /\ Handled(s, d, l)' /\ Promise!Required(s, d, l) => Handled(s, d, l)
  <2>1. s \in Nat /\ d \in Nat /\ l \in Nat /\ lnk \in Nat /\ dst \in Nat /\ src \in Nat
    BY <1>2, CounterTypes
  <2>2. Handled(s, d, l) => Handled(s, d, l)'
    BY <1>1, <1>2, <2>1 DEF Handled
  <2>3. Handled(s, d, l)' /\ ~Handled(s, d, l) => d = dst /\ l = lnk
    BY <1>1, <1>3, <2>1 DEF Handled, NoSource
  <2>4. ~Promise!Exposes(lnk, dst)
    BY <1>2, MatchesIsExposes DEF SkipService
  <2>5. QED
    BY <2>2, <2>3, <2>4 DEF Promise!Required
<1>8. ResultInv'
  BY <1>1, <1>2, <1>7, SameResult
<1>9. QED
  BY <1>5, <1>6, <1>8 DEF IInv

\* One more address of src is behind adr.
LEMMA TestAddressStep == ASSUME IInv, TypeOK', TestAddress PROVE IInv'
<1>1. /\ inputs' = inputs /\ connections' = connections /\ dst' = dst
      /\ lnk' = lnk /\ src' = src /\ adr' = adr + 1 /\ anySource' = anySource
  BY DEF TestAddress
<1>2. TypeOK /\ ResultInv /\ InFindSource
  BY DEF IInv, TestAddress, InAddresses
<1>3. src \in DOMAIN workloads /\ lnk \in DOMAIN services
  BY <1>2, CounterTypes DEF TestAddress, InAddresses, InFindSource
<1>4. workloads' = workloads /\ services' = services
  BY <1>1, Stable
<1>5. Len(workloads[src].networkAddrs) \in Nat /\ adr \in DOMAIN workloads[src].networkAddrs
  <2>1. workloads[src] \in Resource
    BY <1>2, <1>3, InputTypes
  <2>2. workloads[src].networkAddrs \in Seq(Address)
    BY <2>1 DEF Resource
  <2>3. adr \in Nat \ {0} /\ adr <= Len(workloads[src].networkAddrs)
    BY <1>2, CounterTypes DEF TestAddress, InAddresses
  <2>4. QED
    BY <2>2, <2>3
<1>6. FreshInv'
  BY <1>1, <1>2, <1>4 DEF FreshInv, InFindSource, Matches
<1>7. MatchedInv'
  <2>1. matched' <=> (matched \/ Promise!Designates(workloads[src].networkAddrs[adr], src, lnk))
    BY <1>2, <1>3, <1>5, MatchesIsDesignates DEF TestAddress
  <2>2. src <= Len(workloads) /\ lnk <= Len(services)
    BY <1>2, <1>3, CounterTypes
  <2>3. matched <=> \E a \in 1..(adr - 1) :
                      Promise!Designates(workloads[src].networkAddrs[a], src, lnk)
    BY <2>2 DEF IInv, MatchedInv
  <2>4. adr \in Nat \ {0} /\ adr <= Len(workloads[src].networkAddrs)
    BY <1>2, CounterTypes DEF TestAddress, InAddresses
  <2>5. 1..(adr' - 1) = (1..(adr - 1)) \union {adr}
    BY <1>1, <2>4
  <2>6. matched' <=> \E a \in 1..(adr' - 1) :
                       Promise!Designates(workloads[src].networkAddrs[a], src, lnk)
    BY <2>1, <2>3, <2>5, Zenon
  <2>7. (matched <=> \E a \in 1..(adr - 1) :
                       Promise!Designates(workloads[src].networkAddrs[a], src, lnk))'
    BY <1>1, <1>4, <2>6 DEF Promise!Designates
  <2>8. (adr <= Len(workloads[src].networkAddrs) + 1 /\ ~(src > Len(workloads)))'
    BY <1>1, <1>2, <1>4, <1>5, <2>2, <2>4, CounterTypes
  <2>9. QED
    BY <2>7, <2>8 DEF MatchedInv
<1>8. AnySourceInv'
  BY <1>1, <1>4, Stable DEF IInv, AnySourceInv
<1>9. ResultInv'
  BY <1>1, <1>2, SameResult DEF Handled
<1>10. QED
  BY <1>6, <1>7, <1>8, <1>9 DEF IInv

\* The decision on src, dst and lnk is the one the README requires.
LEMMA RecordSourceStep == ASSUME IInv, TypeOK', RecordSource PROVE IInv'
<1>1. /\ inputs' = inputs /\ connections' = ConnectionFrom /\ dst' = dst
      /\ lnk' = lnk /\ src' = src + 1 /\ adr' = 1
  BY DEF RecordSource
<1>2. (~matched)' /\ (usedPorts = <<>>)' /\ (anySource' <=> anySource \/ matched)
  BY Zenon DEF RecordSource
<1>3. TypeOK /\ ResultInv /\ InFindSource
  BY DEF IInv, RecordSource, SourceScanned
<1>4. /\ src \in DOMAIN workloads /\ lnk \in DOMAIN services /\ dst \in DOMAIN workloads
      /\ src \in Nat \ {0} /\ dst \in Nat /\ lnk \in Nat
  BY <1>3, CounterTypes DEF RecordSource, SourceScanned, InFindSource
<1>5. workloads' = workloads /\ services' = services
  BY <1>1, Stable
<1>6. FreshInv'
  BY <1>1, <1>3, <1>5 DEF FreshInv, InFindSource, Matches
<1>7. MatchedInv'
  BY <1>1, <1>2, FreshMatched
<1>8. matched <=> Promise!Calls(src, lnk)
  <2>1. workloads[src] \in Resource
    BY <1>3, <1>4, InputTypes
  <2>2. workloads[src].networkAddrs \in Seq(Address)
    BY <2>1 DEF Resource
  <2>3. src <= Len(workloads) /\ lnk <= Len(services)
    BY <1>3, <1>4, CounterTypes
  <2>4. adr \in Nat /\ adr <= Len(workloads[src].networkAddrs) + 1
    BY <1>3, <2>3, CounterTypes DEF IInv, MatchedInv
  <2>5. adr > Len(workloads[src].networkAddrs)
    BY DEF RecordSource, SourceScanned
  <2>6. 1..(adr - 1) = DOMAIN workloads[src].networkAddrs
    BY <2>2, <2>4, <2>5
  <2>7. QED
    BY <2>3, <2>6 DEF IInv, MatchedInv, Promise!Calls
<1>9. AnySourceInv'
  <2>1. lnk <= Len(services)
    BY <1>3, <1>4, CounterTypes
  <2>2. anySource <=> \E w \in 1..(src - 1) : Promise!Calls(w, lnk)
    BY <2>1 DEF IInv, AnySourceInv
  <2>3. 1..(src' - 1) = (1..(src - 1)) \union {src}
    BY <1>1, <1>4
  <2>4. anySource' <=> \E w \in 1..(src' - 1) : Promise!Calls(w, lnk)
    BY <1>2, <1>8, <2>2, <2>3, Zenon
  <2>5. (anySource <=> \E w \in 1..(src - 1) : Promise!Calls(w, lnk))'
    BY <1>1, <1>5, <2>4 DEF Promise!Calls, Promise!Designates
  <2>6. QED
    BY <2>5 DEF AnySourceInv
<1>10. ASSUME NEW s \in Promise!Sources, NEW d \in DOMAIN workloads, NEW l \in DOMAIN services
       PROVE  /\ Handled(s, d, l) => Handled(s, d, l)'
              /\ Handled(s, d, l)' /\ ~Handled(s, d, l) => s = src /\ d = dst /\ l = lnk
  <2>1. s \in Nat /\ d \in Nat /\ l \in Nat
    BY <1>3, CounterTypes
  <2>2. QED
    BY <1>1, <1>4, <2>1 DEF Handled
<1>11. Promise!Required(src, dst, lnk) <=>
         matched /\ ~SameResource(workloads[src], workloads[dst])
  <2>1. Promise!Exposes(lnk, dst)
    BY <1>3, <1>4, MatchesIsExposes DEF InFindSource
  <2>2. QED
    BY <1>4, <1>8, <2>1
       DEF Promise!Required, Promise!NoSource, SameResource, Promise!SameResource
<1>12. ResultInv'
  <2>1. CASE Promise!Required(src, dst, lnk)
    <3>1. ConnectionHere \in Connection
      BY <1>3, <1>4 DEF ConnectionHere, Connection, TypeOK
    <3>2. PICK c \in Connection : c = ConnectionHere
      BY <3>1
    <3>3. connections' = Append(connections, c)
      BY <1>1, <1>11, <2>1, <3>2 DEF ConnectionFrom
    <3>4. c.source = src /\ c.target = dst /\ c.link = lnk
      BY <3>2 DEF ConnectionHere
    <3>5. src \in Promise!Sources
      BY <1>4 DEF Promise!Sources
    <3>6. ~Handled(c.source, c.target, c.link) /\ Handled(c.source, c.target, c.link)'
      BY <1>1, <1>4, <3>4 DEF Handled, NoSource
    <3>7. QED
      BY <1>1, <1>3, <1>4, <1>10, <2>1, <3>3, <3>4, <3>5, <3>6, OneAdded
  <2>2. CASE ~Promise!Required(src, dst, lnk)
    <3>1. connections' = connections
      BY <1>1, <1>11, <2>2 DEF ConnectionFrom
    <3>2. QED
      BY <1>1, <1>3, <1>10, <2>2, <3>1, SameResult
  <2>3. QED
    BY <2>1, <2>2
<1>13. QED
  BY <1>6, <1>7, <1>9, <1>12 DEF IInv

\* The sourceless connection is decided when all sources are behind src.
LEMMA FinishServiceStep == ASSUME IInv, TypeOK', FinishService PROVE IInv'
<1>1. /\ inputs' = inputs /\ connections' = SourcelessConnection /\ dst' = dst
      /\ lnk' = lnk + 1 /\ src' = 1 /\ adr' = adr
  BY DEF FinishService
<1>2. (~anySource)' /\ (matched' <=> matched) /\ usedPorts' = usedPorts
  BY Zenon DEF FinishService
<1>3. TypeOK /\ ResultInv /\ InFindSource
  BY DEF IInv, FinishService, SourcesScanned
<1>4. /\ lnk \in DOMAIN services /\ dst \in DOMAIN workloads
      /\ src \in Nat \ {0} /\ dst \in Nat /\ lnk \in Nat
  BY <1>3, CounterTypes DEF InFindSource
<1>5. workloads' = workloads /\ services' = services
  BY <1>1, Stable
<1>6. src = Len(workloads) + 1
  BY <1>3, InputTypes DEF FinishService, SourcesScanned, TypeOK
<1>7. adr = 1 /\ ~matched /\ usedPorts = <<>>
  BY <1>3, <1>6, CounterTypes DEF IInv, MatchedInv
<1>8. (adr = 1)' /\ (~matched)' /\ (usedPorts = <<>>)'
  BY <1>1, <1>2, <1>7
<1>9. FreshInv' /\ MatchedInv'
  BY <1>1, <1>2, <1>8, FreshMatched DEF FreshInv
<1>10. AnySourceInv'
  BY <1>1, <1>2 DEF AnySourceInv
<1>11. anySource <=> \E w \in DOMAIN workloads : Promise!Calls(w, lnk)
  <2>1. lnk <= Len(services) /\ 1..(src - 1) = DOMAIN workloads
    BY <1>3, <1>4, <1>6, CounterTypes
  <2>2. QED
    BY <2>1 DEF IInv, AnySourceInv
<1>12. ASSUME NEW s \in Promise!Sources, NEW d \in DOMAIN workloads, NEW l \in DOMAIN services
       PROVE  /\ Handled(s, d, l) => Handled(s, d, l)'
              /\ Handled(s, d, l)' /\ ~Handled(s, d, l) =>
                   s = NoSource /\ d = dst /\ l = lnk
  <2>1. s \in Nat /\ d \in Nat /\ l \in Nat /\ s <= Len(workloads)
    BY <1>3, CounterTypes DEF Promise!Sources, Promise!NoSource
  <2>2. QED
    BY <1>1, <1>4, <1>6, <2>1 DEF Handled, NoSource
<1>13. Promise!Required(NoSource, dst, lnk) <=> ~anySource \/ HasExposedPorts(services[lnk])
  <2>1. Promise!Exposes(lnk, dst)
    BY <1>3, <1>4, MatchesIsExposes DEF InFindSource
  <2>2. QED
    BY <1>11, <2>1 DEF Promise!Required, Promise!NoSource, NoSource,
         HasExposedPorts, Promise!HasExposedPorts
<1>14. ResultInv'
  <2>1. CASE Promise!Required(NoSource, dst, lnk)
    <3>1. SourcelessHere \in Connection
      BY <1>3, <1>4 DEF SourcelessHere, NoSource, Connection, TypeOK
    <3>2. PICK c \in Connection : c = SourcelessHere
      BY <3>1
    <3>3. connections' = Append(connections, c)
      BY <1>1, <1>13, <2>1, <3>2 DEF SourcelessConnection
    <3>4. c.source = NoSource /\ c.target = dst /\ c.link = lnk
      BY <3>2 DEF SourcelessHere
    <3>5. NoSource \in Promise!Sources
      BY DEF Promise!Sources, Promise!NoSource, NoSource
    <3>6. ~Handled(c.source, c.target, c.link) /\ Handled(c.source, c.target, c.link)'
      BY <1>1, <1>4, <3>4 DEF Handled, NoSource
    <3>7. QED
      BY <1>1, <1>3, <1>4, <1>12, <2>1, <3>3, <3>4, <3>5, <3>6, OneAdded
  <2>2. CASE ~Promise!Required(NoSource, dst, lnk)
    <3>1. connections' = connections
      BY <1>1, <1>13, <2>2 DEF SourcelessConnection
    <3>2. QED
      BY <1>1, <1>3, <1>12, <2>2, <3>1, SameResult
  <2>3. QED
    BY <2>1, <2>2
<1>15. QED
  BY <1>9, <1>10, <1>14 DEF IInv

\* With all services behind lnk, the target itself is behind dst.
LEMMA NextTargetStep == ASSUME IInv, TypeOK', NextTarget PROVE IInv'
<1>1. /\ inputs' = inputs /\ connections' = connections /\ dst' = dst + 1
      /\ lnk' = 1 /\ src' = src
  BY DEF NextTarget
<1>2. TypeOK /\ ResultInv /\ dst \in Nat /\ lnk > Len(services)
  BY CounterTypes DEF IInv, NextTarget
<1>3. src = 1 /\ adr = 1 /\ ~matched /\ usedPorts = <<>> /\ ~anySource
  BY <1>2, CounterTypes DEF IInv, FreshInv, InFindSource
<1>4. src' = 1 /\ adr' = 1 /\ (~matched)' /\ (usedPorts = <<>>)' /\ (~anySource)'
  BY <1>3 DEF NextTarget
<1>5. FreshInv' /\ AnySourceInv' /\ MatchedInv'
  BY <1>4, FreshMatched DEF FreshInv, AnySourceInv
<1>6. ASSUME NEW s \in Promise!Sources, NEW d \in DOMAIN workloads, NEW l \in DOMAIN services
      PROVE  Handled(s, d, l)' <=> Handled(s, d, l)
  <2>1. s \in Nat /\ d \in Nat /\ l \in Nat \ {0} /\ l < lnk /\ lnk \in Nat
    BY <1>2, CounterTypes
  <2>2. QED
    BY <1>1, <1>2, <1>3, <2>1 DEF Handled, NoSource
<1>7. ResultInv'
  BY <1>1, <1>2, <1>6, SameResult
<1>8. QED
  BY <1>5, <1>7 DEF IInv

LEMMA Inductive == IInv /\ [Next]_vars => IInv'
<1> SUFFICES ASSUME IInv, [Next]_vars PROVE IInv'
  OBVIOUS
<1>1. TypeOK'
  BY TypeStep DEF IInv
<1>2. CASE UNCHANGED vars
  <2>1. /\ inputs' = inputs /\ connections' = connections /\ dst' = dst /\ lnk' = lnk
        /\ src' = src /\ adr' = adr /\ usedPorts' = usedPorts
        /\ workloads' = workloads /\ services' = services
    BY <1>2, Zenon DEF vars, inputs, loops
  <2>2. (matched' <=> matched) /\ (anySource' <=> anySource)
    BY <1>2, Zenon DEF vars, loops
  <2>3. ResultInv'
    BY <2>1, SameResult DEF IInv, Handled
  <2>4. FreshInv'
    BY <2>1, <2>2 DEF IInv, FreshInv, InFindSource, Matches
  <2>5. MatchedInv'
    BY <2>1, <2>2 DEF IInv, MatchedInv, Promise!Designates
  <2>6. AnySourceInv'
    BY <2>1, <2>2 DEF IInv, AnySourceInv, Promise!Calls, Promise!Designates
  <2>7. QED
    BY <1>1, <2>3, <2>4, <2>5, <2>6 DEF IInv
<1>3. QED
  BY <1>1, <1>2, SkipServiceStep, TestAddressStep, RecordSourceStep,
     FinishServiceStep, NextTargetStep DEF Next, Discover, Returned

LEMMA StartIInv ==
  ASSUME workloads \in Seq(Resource) \ {<<>>}, services \in Seq(Service), Start
  PROVE  IInv
<1>1. TypeOK
  BY StartType
<1>2. Len(workloads) \in Nat \ {0} /\ workloads[1] \in Resource
  BY <1>1, InputTypes
<1>3. Len(workloads[1].networkAddrs) \in Nat
  BY <1>2 DEF Resource
<1>4. FreshInv /\ MatchedInv /\ AnySourceInv
  BY <1>2, <1>3 DEF Start, FreshInv, MatchedInv, AnySourceInv
<1>5. OnlyRequired /\ HandledInv /\ NoRepeats
  BY DEF Start, OnlyRequired, HandledInv, NoRepeats
<1>6. CompleteInv
  BY <1>1, CounterTypes DEF Start, CompleteInv, Handled, NoSource
<1>7. QED
  BY <1>1, <1>4, <1>5, <1>6 DEF IInv, ResultInv

LEMMA InitIInv == Init => IInv
  BY InitStarts, StartIInv

LEMMA Invariant == Spec => []IInv
<1>1. QED
  BY InitIInv, Inductive, PTL DEF Spec

-----------------------------------------------------------------------------
(* The ports of a connection *)

Asks(a, s, l) ==
  LET addr == workloads[s].networkAddrs[a] IN
  addr.port # NoPort /\ Promise!Designates(addr, s, l)

\* The indices in A of the addresses of workload s that name a port of l.
Named(s, l, A) == {a \in A : Asks(a, s, l)}

\* used is what those addresses name: f[u] is the address used[u] stands for.
StandsFor(f, used, s, l, A) ==
  /\ f \in [DOMAIN used -> Named(s, l, A)]
  /\ \A k \in Named(s, l, A) : \E u \in DOMAIN used : f[u] = k
  /\ \A u, v \in DOMAIN used : u < v => f[u] < f[v]
  /\ \A u \in DOMAIN used :
       IsFirstPort(used[u], services[l], workloads[s].networkAddrs[f[u]].port)

PortsNamed(used, s, l, A) == \E f : StandsFor(f, used, s, l, A)

ExactPorts(c) ==
  IF c.source = NoSource
    THEN c.usedPorts = <<>>
    ELSE PortsNamed(c.usedPorts, c.source, c.link, DOMAIN workloads[c.source].networkAddrs)

\* usedPorts stands for the addresses of src before adr.
UsedInv ==
  InFindSource /\ src <= Len(workloads) => PortsNamed(usedPorts, src, lnk, 1..(adr - 1))

PortsInv == UsedInv /\ \A i \in DOMAIN connections : ExactPorts(connections[i])

LEMMA ExactPortsIsExact ==
  (\A i \in DOMAIN connections : ExactPorts(connections[i])) => UsedPortsExact
<1> SUFFICES ASSUME \A i \in DOMAIN connections : ExactPorts(connections[i]),
                    NEW i \in DOMAIN connections
             PROVE  ExactPorts(connections[i]) /\ connections[i].source # NoSource =>
                      \E f : StandsFor(f, connections[i].usedPorts, connections[i].source,
                                      connections[i].link,
                                      DOMAIN workloads[connections[i].source].networkAddrs)
  BY Zenon DEF ExactPorts, StandsFor, Named, Asks, UsedPortsExact
<1>1. QED
  BY DEF ExactPorts, PortsNamed

\* The ports of an empty range of addresses are none.
LEMMA NoneNamed == ASSUME NEW s, NEW l PROVE PortsNamed(<<>>, s, l, 1..0)
<1>1. Named(s, l, 1..0) = {} /\ DOMAIN <<>> = {}
  BY DEF Named
<1>2. StandsFor([u \in {} |-> 0], <<>>, s, l, 1..0)
  BY <1>1 DEF StandsFor
<1>3. QED
  BY <1>2 DEF PortsNamed

LEMMA PortsStable ==
  ASSUME inputs' = inputs
  PROVE  /\ \A used, s, l, A : PortsNamed(used, s, l, A)' <=> PortsNamed(used, s, l, A)
         /\ \A c : ExactPorts(c)' <=> ExactPorts(c)
<1>1. workloads' = workloads /\ services' = services
  BY DEF inputs
<1>2. \A f, used, s, l, A : StandsFor(f, used, s, l, A)' <=> StandsFor(f, used, s, l, A)
  BY <1>1 DEF StandsFor, Named, Asks, Promise!Designates, IsFirstPort
<1>3. \A used, s, l, A : PortsNamed(used, s, l, A)' <=> PortsNamed(used, s, l, A)
  BY <1>2, Zenon DEF PortsNamed
<1>4. QED
  BY <1>1, <1>3, Zenon DEF ExactPorts

\* One more address adds the port it names, if it is an address of the service.
LEMMA OnePortNamed ==
  ASSUME TypeOK, NEW s \in DOMAIN workloads, NEW l \in DOMAIN services,
         NEW a \in DOMAIN workloads[s].networkAddrs,
         NEW used \in Seq(SvcNetworkAttr), PortsNamed(used, s, l, 1..(a - 1))
  PROVE  PortsNamed(AddUsedPort(used, workloads[s].networkAddrs[a], services[l], workloads[s]),
                    s, l, 1..a)
<1> DEFINE addr == workloads[s].networkAddrs[a]
           added == AddUsedPort(used, addr, services[l], workloads[s])
           A == 1..(a - 1)
<1>1. addr \in Address /\ addr.port \in Nat /\ a \in Nat
  BY AddressTypes DEF Address
<1>2. services[l] \in Service
  BY InputTypes
<1>3. Asks(a, s, l) <=> AddressMatches(addr, services[l], workloads[s]) /\ addr.port > NoPort
  BY <1>1, MatchesIsDesignates DEF Asks, NoPort
<1>4. PICK f : StandsFor(f, used, s, l, A)
  BY DEF PortsNamed
<1>5. CASE Asks(a, s, l)
  <2> DEFINE port == FirstPortNumbered(services[l], addr.port)
             n == Len(used)
             g == [u \in 1..(n + 1) |-> IF u = n + 1 THEN a ELSE f[u]]
  <2>1. PortsNumbered(services[l], addr.port) # {}
    BY <1>1, <1>3, <1>5 DEF AddressMatches, NoPort
  <2>2. IsFirstPort(port, services[l], addr.port) /\ port \in SvcNetworkAttr
    BY <1>1, <1>2, <2>1, FirstPort DEF IsFirstPort
  <2>3. added = Append(used, port)
    BY <1>3, <1>5 DEF AddUsedPort
  <2> HIDE DEF port, added
  <2>4. /\ n \in Nat /\ DOMAIN used = 1..n /\ DOMAIN added = 1..(n + 1)
        /\ added[n + 1] = port
        /\ \A u \in 1..n : added[u] = used[u]
    BY <2>2, <2>3
  <2> HIDE DEF n
  <2>5. Named(s, l, 1..a) = Named(s, l, A) \union {a}
    <3>1. a \in 1..a /\ 1..a = 1..(a - 1) \union {a}
      BY <1>1, AddressTypes
    <3>2. QED
      BY <1>5, <3>1, Zenon DEF Named
  <2>6. /\ f \in [1..n -> Named(s, l, A)]
        /\ \A k \in Named(s, l, A) : \E u \in 1..n : f[u] = k
        /\ \A u, v \in 1..n : u < v => f[u] < f[v]
        /\ \A u \in 1..n :
             IsFirstPort(used[u], services[l], workloads[s].networkAddrs[f[u]].port)
    BY <1>4, <2>4, Zenon DEF StandsFor
  <2>7. g[n + 1] = a /\ \A u \in 1..n : g[u] = f[u]
    BY <2>4
  <2>8. g \in [1..(n + 1) -> Named(s, l, 1..a)]
    BY <2>4, <2>5, <2>6
  <2> HIDE DEF g
  <2>9. ASSUME NEW k \in Named(s, l, 1..a) PROVE \E u \in 1..(n + 1) : g[u] = k
    BY <2>4, <2>5, <2>6, <2>7
  <2>10. ASSUME NEW u \in 1..(n + 1), NEW v \in 1..(n + 1), u < v PROVE g[u] < g[v]
    <3>1. u \in 1..n /\ g[u] = f[u] /\ f[u] \in 1..(a - 1)
      BY <2>4, <2>6, <2>7, <2>10 DEF Named
    <3>2. CASE v = n + 1
      BY <1>1, <2>7, <3>1, <3>2
    <3>3. CASE v \in 1..n
      BY <2>6, <2>7, <2>10, <3>1, <3>3
    <3>4. QED
      BY <2>4, <3>2, <3>3
  <2>11. ASSUME NEW u \in 1..(n + 1)
         PROVE  IsFirstPort(added[u], services[l], workloads[s].networkAddrs[g[u]].port)
    <3>1. CASE u = n + 1
      BY <2>2, <2>4, <2>7, <3>1
    <3>2. CASE u \in 1..n
      <4>1. added[u] = used[u] /\ g[u] = f[u]
        BY <2>4, <2>7, <3>2
      <4>2. QED
        BY <2>6, <3>2, <4>1
    <3>3. QED
      BY <2>4, <3>1, <3>2
  <2>12. StandsFor(g, added, s, l, 1..a)
    BY <2>4, <2>8, <2>9, <2>10, <2>11, Zenon DEF StandsFor
  <2>13. QED
    BY <2>12 DEF PortsNamed, added
<1>6. CASE ~Asks(a, s, l)
  <2>1. added = used
    BY <1>3, <1>6 DEF AddUsedPort
  <2>2. Named(s, l, 1..a) = Named(s, l, A)
    BY <1>1, <1>6 DEF Named
  <2>3. StandsFor(f, used, s, l, 1..a)
    BY <1>4, <2>2, Zenon DEF StandsFor
  <2>4. QED
    BY <2>1, <2>3 DEF PortsNamed
<1>7. QED
  BY <1>5, <1>6

\* An appended connection with exact ports keeps those of all exact.
LEMMA OneExact ==
  ASSUME TypeOK, PortsInv, inputs' = inputs, NEW c \in Connection, ExactPorts(c),
         connections' = connections \/ connections' = Append(connections, c)
  PROVE  (\A i \in DOMAIN connections : ExactPorts(connections[i]))'
<1>1. connections \in Seq(Connection)
  BY DEF TypeOK
<1>2. \A i \in DOMAIN connections' : connections'[i] = c \/
        (i \in DOMAIN connections /\ connections'[i] = connections[i])
  BY <1>1
<1>3. \A i \in DOMAIN connections' : ExactPorts(connections'[i])
  BY <1>2 DEF PortsInv
<1>4. QED
  BY <1>3, PortsStable

LEMMA PortsStep == IInv /\ IInv' /\ PortsInv /\ [Next]_vars => PortsInv'
<1> SUFFICES ASSUME IInv, IInv', PortsInv, [Next]_vars PROVE PortsInv'
  OBVIOUS
<1>1. ASSUME inputs' = inputs, connections' = connections
      PROVE  (\A i \in DOMAIN connections : ExactPorts(connections[i]))'
  BY <1>1, PortsStable DEF PortsInv
<1>2. ASSUME inputs' = inputs, adr' = 1, usedPorts' = <<>>
      PROVE  UsedInv'
  BY <1>2, NoneNamed, PortsStable DEF UsedInv
<1>3. CASE SkipService \/ NextTarget
  <2>1. inputs' = inputs /\ connections' = connections
        /\ adr' = adr /\ usedPorts' = usedPorts
    BY <1>3 DEF SkipService, NextTarget
  <2>2. ~InFindSource
    BY <1>3 DEF SkipService, NextTarget, InFindSource, IInv, TypeOK
  <2>3. QED
    BY <1>1, <1>2, <2>1, <2>2 DEF IInv, FreshInv, PortsInv
<1>4. CASE TestAddress
  <2>1. inputs' = inputs /\ connections' = connections /\ src' = src /\ lnk' = lnk
        /\ dst' = dst /\ adr' = adr + 1
        /\ usedPorts' = AddUsedPort(usedPorts, workloads[src].networkAddrs[adr],
                                    services[lnk], workloads[src])
    BY <1>4 DEF TestAddress
  <2>2. /\ src \in DOMAIN workloads /\ lnk \in DOMAIN services
        /\ InFindSource /\ src <= Len(workloads)
    BY <1>4, CounterTypes DEF TestAddress, InAddresses, InFindSource, IInv
  <2>3. workloads[src].networkAddrs \in Seq(Address)
    BY <2>2, AddressTypes DEF IInv
  <2>4. adr \in DOMAIN workloads[src].networkAddrs /\ adr \in Nat \ {0}
    BY <1>4, <2>3, CounterTypes DEF TestAddress, InAddresses, IInv
  <2>5. PortsNamed(usedPorts, src, lnk, 1..(adr - 1)) /\ usedPorts \in Seq(SvcNetworkAttr)
    BY <2>2 DEF PortsInv, UsedInv, IInv, TypeOK
  <2>6. PortsNamed(usedPorts', src, lnk, 1..adr)
    BY <2>1, <2>2, <2>4, <2>5, OnePortNamed DEF IInv
  <2>7. 1..adr = 1..(adr' - 1)
    BY <2>1, <2>4
  <2>8. PortsNamed(usedPorts, src, lnk, 1..(adr - 1))'
    BY <2>1, <2>6, <2>7, PortsStable
  <2>9. QED
    BY <1>1, <2>1, <2>8 DEF PortsInv, UsedInv
<1>5. CASE RecordSource
  <2>1. inputs' = inputs /\ adr' = 1 /\ usedPorts' = <<>>
        /\ (connections' = connections \/ connections' = Append(connections, ConnectionHere))
    BY <1>5 DEF RecordSource, ConnectionFrom
  <2>2. /\ src \in DOMAIN workloads /\ src # NoSource
        /\ InFindSource /\ src <= Len(workloads)
    BY <1>5, CounterTypes DEF RecordSource, SourceScanned, InFindSource, IInv, NoSource
  <2>3. ConnectionHere \in Connection
    BY <1>5, CounterTypes
       DEF RecordSource, SourceScanned, InFindSource, IInv, TypeOK, ConnectionHere, Connection
  <2>4. workloads[src].networkAddrs \in Seq(Address)
    BY <2>2, AddressTypes DEF IInv
  <2>5. 1..(adr - 1) = DOMAIN workloads[src].networkAddrs
    BY <1>5, <2>2, <2>4, CounterTypes DEF RecordSource, SourceScanned, IInv, MatchedInv
  <2>6. ExactPorts(ConnectionHere)
    BY <2>2, <2>5 DEF PortsInv, UsedInv, ExactPorts, ConnectionHere
  <2>7. QED
    BY <1>2, <2>1, <2>3, <2>6, OneExact DEF PortsInv, IInv
<1>6. CASE FinishService
  <2>1. /\ inputs' = inputs /\ adr' = adr /\ usedPorts' = usedPorts
        /\ (connections' = connections \/ connections' = Append(connections, SourcelessHere))
    BY <1>6 DEF FinishService, SourcelessConnection
  <2>2. SourcelessHere \in Connection
    BY CounterTypes DEF IInv, TypeOK, SourcelessHere, NoSource, Connection
  <2>3. ExactPorts(SourcelessHere)
    BY DEF ExactPorts, SourcelessHere
  <2>4. adr = 1 /\ usedPorts = <<>>
    BY <1>6, CounterTypes DEF FinishService, SourcesScanned, IInv, MatchedInv
  <2>5. QED
    BY <1>2, <2>1, <2>2, <2>3, <2>4, OneExact DEF PortsInv, IInv
<1>7. CASE UNCHANGED vars
  <2>1. inputs' = inputs /\ connections' = connections /\ loops' = loops
    BY <1>7 DEF vars
  <2>2. /\ src' = src /\ lnk' = lnk /\ dst' = dst /\ adr' = adr /\ usedPorts' = usedPorts
        /\ workloads' = workloads /\ services' = services
    BY <2>1 DEF inputs, loops
  <2>3. UsedInv'
    BY <2>1, <2>2, PortsStable DEF PortsInv, UsedInv, InFindSource
  <2>4. QED
    BY <1>1, <2>1, <2>3 DEF PortsInv
<1>8. QED
  BY <1>3, <1>4, <1>5, <1>6, <1>7 DEF Next, Discover, Returned

LEMMA PortsInvariant == Spec => []PortsInv
<1>1. Init => PortsInv
  BY NoneNamed DEF Init, PortsInv, UsedInv
<1>2. QED
  BY <1>1, PortsStep, Invariant, PTL DEF Spec

\* The ports of a connection are those of its service that the addresses of
\* its source name, for applications of any size.
THEOREM UsedPortsExactHolds == Spec => []UsedPortsExact
<1>1. PortsInv => UsedPortsExact
  BY ExactPortsIsExact DEF PortsInv
<1>2. QED
  BY <1>1, PortsInvariant, PTL

-----------------------------------------------------------------------------
(* What the invariant gives *)

\* Every connection that discoverConnections reports is required by the
\* README's algorithm.
THEOREM OnlyRequiredHolds == Spec => []OnlyRequired
<1>1. IInv => OnlyRequired
  BY DEF IInv, ResultInv
<1>2. QED
  BY <1>1, Invariant, PTL

LEMMA CompleteIsAllRequired == IInv => AllRequired
<1> SUFFICES ASSUME IInv, Done,
                    NEW s \in Promise!Sources, NEW d \in DOMAIN workloads,
                    NEW l \in DOMAIN services, Promise!Required(s, d, l)
             PROVE Found(s, d, l)
  BY DEF AllRequired, Found
<1>1. d < dst
  BY CounterTypes DEF IInv, Done
<1>2. QED
  BY <1>1 DEF IInv, ResultInv, CompleteInv, Handled

\* When discoverConnections returns, it has reported every required
\* connection.
THEOREM AllRequiredHolds == Spec => []AllRequired
<1>1. QED
  BY CompleteIsAllRequired, Invariant, PTL

\* discoverConnections reports each source, target and service once.
THEOREM NoRepeatsHolds == Spec => []NoRepeats
<1>1. IInv => NoRepeats
  BY DEF IInv, ResultInv
<1>2. QED
  BY <1>1, Invariant, PTL

-----------------------------------------------------------------------------
(* The loops implement RequiredConnectivity *)

\* The triples of the connections, the refinement mapping of reported.
Reported ==
  {<<connections[i].source, connections[i].target, connections[i].link>> :
     i \in DOMAIN connections}

LEMMA ReportedIsFound ==
  ASSUME NEW s, NEW d, NEW l
  PROVE  <<s, d, l>> \in Reported <=> Found(s, d, l)
  BY DEF Reported, Found

LEMMA AppendReports ==
  ASSUME TypeOK, NEW c \in Connection, connections' = Append(connections, c)
  PROVE  Reported' = Reported \union {<<c.source, c.target, c.link>>}
<1> DEFINE n == Len(connections)
<1>1. connections \in Seq(Connection)
  BY DEF TypeOK
<1>2. /\ n \in Nat /\ DOMAIN connections = 1..n
      /\ DOMAIN connections' = (1..n) \union {n + 1}
      /\ \A i \in 1..n : connections'[i] = connections[i]
      /\ connections'[n + 1] = c
  BY <1>1
<1> HIDE DEF n
<1>3. QED
  BY <1>2 DEF Reported

\* A step that decides on one triple reports it or changes nothing.
LEMMA DecideRefines ==
  ASSUME IInv, UNCHANGED <<inputs, dst>>, dst <= Len(workloads),
         NEW c \in Connection,
         c.source \in Promise!Sources, c.target \in DOMAIN workloads,
         c.link \in DOMAIN services,
         ~Handled(c.source, c.target, c.link),
         \/ connections' = connections
         \/ /\ connections' = Append(connections, c)
            /\ Promise!Required(c.source, c.target, c.link)
  PROVE  Promise!Report \/ UNCHANGED Promise!vars
<1>1. Done' = Done /\ ~Done
  <2>1. ~Done /\ ~Done'
    BY CounterTypes DEF IInv, Done, inputs
  <2>2. QED
    BY <2>1 DEF Done
<1>2. CASE connections' = connections
  BY <1>1, <1>2 DEF Promise!vars, inputs
<1>3. CASE /\ connections' = Append(connections, c)
           /\ Promise!Required(c.source, c.target, c.link)
  <2>1. ~Found(c.source, c.target, c.link)
    BY Triples DEF IInv, Found
  <2>2. <<c.source, c.target, c.link>> \notin Reported
    BY <2>1, ReportedIsFound
  <2>3. Reported' = Reported \union {<<c.source, c.target, c.link>>}
    BY <1>3, AppendReports DEF IInv
  <2>4. QED
    BY <1>1, <1>3, <2>2, <2>3 DEF Promise!Report, Reported, inputs
<1>4. QED
  BY <1>2, <1>3

LEMMA StepRefines == IInv /\ IInv' /\ [Next]_vars => [Promise!Next]_(Promise!vars)
<1> SUFFICES ASSUME IInv, IInv', [Next]_vars
             PROVE  Promise!Report \/ Promise!Finish \/ UNCHANGED Promise!vars
  BY DEF Promise!Next
<1>1. ASSUME connections' = connections, UNCHANGED <<inputs, dst>>
      PROVE  UNCHANGED Promise!vars
  BY <1>1 DEF Promise!vars, inputs, Done
<1>2. CASE SkipService \/ TestAddress \/ UNCHANGED vars
  BY <1>1, <1>2 DEF SkipService, TestAddress, vars, loops
<1>3. CASE RecordSource
  <2>1. /\ TypeOK /\ src \in DOMAIN workloads /\ dst \in DOMAIN workloads
        /\ lnk \in DOMAIN services /\ dst <= Len(workloads) /\ InFindSource
    BY <1>3, CounterTypes DEF IInv, RecordSource, SourceScanned, InFindSource
  <2>2. PICK c \in Connection : c = ConnectionHere
    BY <2>1, CounterTypes DEF ConnectionHere, Connection, TypeOK
  <2>3. c.source = src /\ c.target = dst /\ c.link = lnk
    BY <2>2 DEF ConnectionHere
  <2>4. c.source \in Promise!Sources /\ ~Handled(c.source, c.target, c.link)
    BY <2>1, <2>3, CounterTypes DEF Promise!Sources, Handled
  <2>5. \/ connections' = connections
        \/ connections' = Append(connections, c)
    BY <1>3, <2>2 DEF RecordSource, ConnectionFrom
  <2>6. connections' = Append(connections, c) => Promise!Required(src, dst, lnk)
    <3>1. SUFFICES ASSUME connections' = Append(connections, c)
                   PROVE Promise!Required(src, dst, lnk)
      OBVIOUS
    <3>2. /\ connections \in Seq(Connection) /\ Len(connections) + 1 \in DOMAIN connections'
          /\ connections'[Len(connections) + 1] = c
      BY <3>1, <2>1 DEF TypeOK
    <3>3. Promise!Required(c.source, c.target, c.link)'
      BY <3>2 DEF IInv, ResultInv, OnlyRequired
    <3>4. inputs' = inputs
      BY <1>3 DEF RecordSource
    <3>5. QED
      BY <3>3, <3>4, <2>3, Stable
  <2>7. UNCHANGED <<inputs, dst>>
    BY <1>3 DEF RecordSource
  <2>8. Promise!Report \/ UNCHANGED Promise!vars
    BY <2>1, <2>3, <2>4, <2>5, <2>6, <2>7, DecideRefines
  <2>9. QED
    BY <2>8
<1>4. CASE FinishService
  <2>1. /\ TypeOK /\ dst \in DOMAIN workloads /\ lnk \in DOMAIN services
        /\ dst <= Len(workloads) /\ InFindSource
    BY <1>4, CounterTypes DEF IInv, FinishService, SourcesScanned, InFindSource
  <2>2. PICK c \in Connection : c = SourcelessHere
    <3>1. <<>> \in Seq(SvcNetworkAttr) /\ dst \in Nat /\ lnk \in Nat
      BY <2>1, CounterTypes
    <3>2. SourcelessHere \in Connection
      BY <3>1 DEF SourcelessHere, Connection, NoSource
    <3>3. QED
      BY <3>2
  <2>3. c.source = NoSource /\ c.target = dst /\ c.link = lnk
    BY <2>2 DEF SourcelessHere
  <2>4. c.source \in Promise!Sources /\ ~Handled(c.source, c.target, c.link)
    BY <2>1, <2>3, CounterTypes DEF Promise!Sources, Promise!NoSource, NoSource, Handled
  <2>5. \/ connections' = connections
        \/ connections' = Append(connections, c)
    BY <1>4, <2>2 DEF FinishService, SourcelessConnection
  <2>6. connections' = Append(connections, c) => Promise!Required(NoSource, dst, lnk)
    <3>1. SUFFICES ASSUME connections' = Append(connections, c)
                   PROVE Promise!Required(NoSource, dst, lnk)
      OBVIOUS
    <3>2. /\ connections \in Seq(Connection) /\ Len(connections) + 1 \in DOMAIN connections'
          /\ connections'[Len(connections) + 1] = c
      BY <3>1, <2>1 DEF TypeOK
    <3>3. Promise!Required(c.source, c.target, c.link)'
      BY <3>2 DEF IInv, ResultInv, OnlyRequired
    <3>4. inputs' = inputs
      BY <1>4 DEF FinishService
    <3>5. QED
      BY <3>3, <3>4, <2>3, Stable
  <2>7. UNCHANGED <<inputs, dst>>
    BY <1>4 DEF FinishService
  <2>8. Promise!Report \/ UNCHANGED Promise!vars
    BY <2>1, <2>3, <2>4, <2>5, <2>6, <2>7, DecideRefines
  <2>9. QED
    BY <2>8
<1>5. CASE NextTarget
  <2>1. inputs' = inputs /\ connections' = connections /\ dst' = dst + 1
    BY <1>5 DEF NextTarget
  <2>2. ~Done /\ dst \in Nat /\ Len(workloads) \in Nat
    BY <1>5, CounterTypes DEF IInv, NextTarget, Done
  <2>3. CASE Done'
    <3>1. dst = Len(workloads)
      BY <2>1, <2>2, <2>3 DEF Done, inputs
    <3>2. ASSUME NEW s \in Promise!Sources, NEW d \in DOMAIN workloads,
                 NEW l \in DOMAIN services, Promise!Required(s, d, l)
          PROVE  <<s, d, l>> \in Reported
      <4>1. d \in Nat /\ d <= dst /\ l < lnk
        BY <1>5, <3>1, CounterTypes DEF IInv, NextTarget
      <4>2. Handled(s, d, l)
        BY <4>1, <2>2 DEF Handled
      <4>3. QED
        BY <3>2, <4>2, ReportedIsFound DEF IInv, ResultInv, CompleteInv
    <3>3. ~Done /\ Done' = TRUE
      BY <2>2, <2>3 DEF Done
    <3>4. Promise!Finish
      BY <2>1, <3>2, <3>3, Zenon DEF Promise!Finish, Reported, inputs
    <3>5. QED
      BY <3>4
  <2>4. CASE ~Done'
    <3>1. Done' = Done
      BY <2>2, <2>4 DEF Done
    <3>2. QED
      BY <2>1, <3>1 DEF Promise!vars, inputs
  <2>5. QED
    BY <2>3, <2>4
<1>6. QED
  BY <1>2, <1>3, <1>4, <1>5 DEF Next, Discover, Returned

\* discoverConnections keeps the promise of RequiredConnectivity: each step
\* reports at most one required connection that is not reported yet, and it
\* returns only with all of them.
THEOREM PromiseKept == Spec => ImplementsPromise
<1>1. Init => Promise!Init
  <2> SUFFICES ASSUME Init PROVE Promise!Init
    OBVIOUS
  <2>1. TypeOK /\ workloads \in Seq(Resource) /\ services \in Seq(Service)
    BY TypeInit, InputTypes
  <2>2. Reported = {}
    BY DEF Init, Reported
  <2>3. Done = FALSE
    BY <2>1, InputTypes DEF Init, Done
  <2>4. QED
    BY <2>1, <2>2, <2>3 DEF Promise!Init, Reported,
       Promise!Resource, Resource, Promise!Service, Service, Promise!Address, Address,
       Promise!Host, Host, Promise!SvcNetworkAttr, SvcNetworkAttr,
       Promise!IntOrString, IntOrString
<1>2. QED
  BY <1>1, Invariant, StepRefines, PTL DEF Spec, ImplementsPromise, Promise!Spec

=============================================================================
