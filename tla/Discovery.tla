------------------------------ MODULE Discovery ------------------------------
(***************************************************************************)
(* discoverConnections of connections.go: for each workload, for each      *)
(* service in front of it, find the workloads that mention an address of   *)
(* the service and append a connection for each. Every iteration of the    *)
(* four nested loops is an action; dst, lnk, src and adr are their         *)
(* counters. findServices and findSource are pure, so their loops are run  *)
(* in place.                                                               *)
(***************************************************************************)
EXTENDS Topology

CONSTANT Inputs  \* pairs <<workloads, services>> the analyzer is run on

\* extractConnections returns early when there are no workloads.
ASSUME InputsAssumption ==
  Inputs \subseteq (Seq(Resource) \ {<<>>}) \X Seq(Service)

VARIABLES
  workloads,    \* the resources slice
  services,     \* the links slice
  dst,          \* index of destRes
  lnk,          \* index of the service examined for destRes
  src,          \* index of the resource that findSource examines
  adr,          \* index of its network address
  matched,      \* findSource: an address of src matched
  usedPorts,    \* findSource: UsedPorts of foundSrc, the copy of src
  anySource,    \* len(srcRes) > 0
  connections   \* the result

inputs == <<workloads, services>>
loops == <<dst, lnk, src, adr, matched, usedPorts, anySource>>
vars == <<inputs, loops, connections>>

NoSource == 0

Connection ==
  [source : Nat, usedPorts : Seq(SvcNetworkAttr), target : Nat, link : Nat]

Init ==
  /\ \E in \in Inputs : workloads = in[1] /\ services = in[2]
  /\ dst = 1 /\ lnk = 1 /\ src = 1 /\ adr = 1
  /\ matched = FALSE
  /\ usedPorts = <<>>
  /\ anySource = FALSE
  /\ connections = <<>>

InFindSource ==
  /\ dst <= Len(workloads)
  /\ lnk <= Len(services)
  /\ Matches(services[lnk], workloads[dst])

InAddresses ==
  /\ InFindSource
  /\ src <= Len(workloads)
  /\ adr <= Len(workloads[src].networkAddrs)

SourceScanned ==
  /\ InFindSource
  /\ src <= Len(workloads)
  /\ adr > Len(workloads[src].networkAddrs)

SourcesScanned == InFindSource /\ src > Len(workloads)

\* Mutant: a rejected service takes the next one with it.
SkipService_SkipsTwo ==
  /\ dst <= Len(workloads)
  /\ lnk <= Len(services)
  /\ ~Matches(services[lnk], workloads[dst])
  /\ lnk' = lnk + 2
  /\ UNCHANGED <<inputs, dst, src, adr, matched, usedPorts, anySource, connections>>

\* Mutant: the loop continues without its increment.
SkipService_Stuck ==
  /\ dst <= Len(workloads)
  /\ lnk <= Len(services)
  /\ ~Matches(services[lnk], workloads[dst])
  /\ UNCHANGED vars

\* findServices passes over a service that is not in front of destRes.
SkipService ==
  /\ dst <= Len(workloads)
  /\ lnk <= Len(services)
  /\ ~Matches(services[lnk], workloads[dst])
  /\ lnk' = lnk + 1
  /\ UNCHANGED <<inputs, dst, src, adr, matched, usedPorts, anySource, connections>>

\* findSource tests the next network address of src.
TestAddress ==
  /\ InAddresses
  /\ LET addr == workloads[src].networkAddrs[adr] IN
       /\ matched' = (matched \/ AddressMatches(addr, services[lnk], workloads[src]))
       /\ usedPorts' = AddUsedPort(usedPorts, addr, services[lnk], workloads[src])
  /\ adr' = adr + 1
  /\ UNCHANGED <<inputs, dst, lnk, src, anySource, connections>>

ConnectionHere == [source |-> src, usedPorts |-> usedPorts, target |-> dst, link |-> lnk]

\* Mutant: a source is the target only if it is the same element of the slice.
ConnectionFrom_ByPosition ==
  IF matched /\ src # dst THEN Append(connections, ConnectionHere) ELSE connections

\* Mutant: workloads of one name are taken for the same one.
ConnectionFrom_ByName ==
  IF matched /\ workloads[src].name # workloads[dst].name
    THEN Append(connections, ConnectionHere)
    ELSE connections

\* A matched source yields a connection, unless it is destRes itself.
ConnectionFrom ==
  IF matched /\ ~SameResource(workloads[src], workloads[dst])
    THEN Append(connections, ConnectionHere)
    ELSE connections

\* Mutant: the used ports of one resource leak into the next.
RecordSource_KeepsPorts ==
  /\ SourceScanned
  /\ connections' = ConnectionFrom
  /\ anySource' = (anySource \/ matched)
  /\ src' = src + 1
  /\ adr' = 1
  /\ matched' = FALSE
  /\ UNCHANGED <<inputs, dst, lnk, usedPorts>>

\* All addresses of src are tested; findSource goes on with a fresh copy of
\* the next resource.
RecordSource ==
  /\ SourceScanned
  /\ connections' = ConnectionFrom
  /\ anySource' = (anySource \/ matched)
  /\ src' = src + 1
  /\ adr' = 1
  /\ matched' = FALSE
  /\ usedPorts' = <<>>
  /\ UNCHANGED <<inputs, dst, lnk>>

SourcelessHere == [source |-> NoSource, usedPorts |-> <<>>, target |-> dst, link |-> lnk]

\* Mutant: two separate conditions in place of one.
SourcelessConnection_Twice ==
  connections
    \o (IF ~anySource THEN <<SourcelessHere>> ELSE <<>>)
    \o (IF HasExposedPorts(services[lnk]) THEN <<SourcelessHere>> ELSE <<>>)

\* No source at all, or some port is exposed: a connection without a source.
SourcelessConnection ==
  IF ~anySource \/ HasExposedPorts(services[lnk])
    THEN Append(connections, SourcelessHere)
    ELSE connections

\* Mutant: the sources of one service count for the next.
FinishService_KeepsSources ==
  /\ SourcesScanned
  /\ connections' = SourcelessConnection
  /\ lnk' = lnk + 1
  /\ src' = 1
  /\ UNCHANGED <<inputs, dst, adr, matched, usedPorts, anySource>>

FinishService ==
  /\ SourcesScanned
  /\ connections' = SourcelessConnection
  /\ lnk' = lnk + 1
  /\ src' = 1
  /\ anySource' = FALSE
  /\ UNCHANGED <<inputs, dst, adr, matched, usedPorts>>

NextTarget ==
  /\ dst <= Len(workloads)
  /\ lnk > Len(services)
  /\ dst' = dst + 1
  /\ lnk' = 1
  /\ UNCHANGED <<inputs, src, adr, matched, usedPorts, anySource, connections>>

Done == dst > Len(workloads)

Discover ==
  \/ SkipService \/ TestAddress \/ RecordSource \/ FinishService \/ NextTarget

\* The caller has the result; nothing more happens.
Returned == Done /\ UNCHANGED vars

Next == Discover \/ Returned

\* A call of discoverConnections runs until it returns.
Spec == Init /\ [][Next]_vars /\ WF_vars(Discover)

-----------------------------------------------------------------------------
\* The addresses findSource goes through; past the last resource there are none.
CurrentAddrs ==
  IF src <= Len(workloads) THEN workloads[src].networkAddrs ELSE <<>>

TypeOK ==
  /\ workloads \in Seq(Resource) \ {<<>>}
  /\ services \in Seq(Service)
  /\ dst \in 1..(Len(workloads) + 1)
  /\ lnk \in 1..(Len(services) + 1)
  /\ src \in 1..(Len(workloads) + 1)
  /\ adr \in 1..(Len(CurrentAddrs) + 1)
  /\ matched \in BOOLEAN
  /\ usedPorts \in Seq(SvcNetworkAttr)
  /\ anySource \in BOOLEAN
  /\ connections \in Seq(Connection)

\* The promise of RequiredConnectivity, kept by this loop.
Promise == INSTANCE RequiredConnectivity WITH
  reported <- {<<connections[i].source, connections[i].target,
                 connections[i].link>> : i \in DOMAIN connections},
  complete <- Done

\* Every connection discoverConnections appends is required by the README's
\* algorithm: the service exposes the target, and the source, another
\* workload, mentions one of its addresses (or nobody does, or it is exposed).
OnlyRequired ==
  \A i \in DOMAIN connections :
    LET c == connections[i] IN
      /\ c.source \in Promise!Sources
      /\ c.target \in DOMAIN workloads
      /\ c.link \in DOMAIN services
      /\ Promise!Required(c.source, c.target, c.link)

\* When discoverConnections returns, no required connection is missing,
\* whatever the order of the workloads, the services and the addresses.
AllRequired ==
  Done =>
    \A s \in Promise!Sources, d \in DOMAIN workloads, l \in DOMAIN services :
      Promise!Required(s, d, l) =>
        \E i \in DOMAIN connections :
          /\ connections[i].source = s
          /\ connections[i].target = d
          /\ connections[i].link = l

\* No connection is appended twice, so the result has one entry for each
\* source, target and service.
NoRepeats ==
  \A i, j \in DOMAIN connections :
    (/\ connections[i].source = connections[j].source
     /\ connections[i].target = connections[j].target
     /\ connections[i].link = connections[j].link) => i = j

\* p is the first port of svc with number n.
IsFirstPort(p, svc, n) ==
  \E i \in DOMAIN svc.network :
    /\ p = svc.network[i]
    /\ p.port = n
    /\ \A j \in 1..(i - 1) : svc.network[j].port # n

\* The used ports of a connection are those that the addresses of its source
\* name, one for each such address and in their order, and of two ports with
\* one number the first: foundSrc is a copy per service, so what is found for
\* one service never shows up in a connection to another. The function a says
\* which address each port stands for.
UsedPortsExact ==
  \A i \in DOMAIN connections :
    LET c == connections[i]
        addrs == workloads[c.source].networkAddrs
        named == {k \in DOMAIN addrs :
                    addrs[k].port # NoPort
                      /\ Promise!Designates(addrs[k], c.source, c.link)}
    IN  IF c.source = NoSource
          THEN c.usedPorts = <<>>
          ELSE \E a \in [DOMAIN c.usedPorts -> named] :
                 /\ \A k \in named : \E u \in DOMAIN c.usedPorts : a[u] = k
                 /\ \A u, v \in DOMAIN c.usedPorts : u < v => a[u] < a[v]
                 /\ \A u \in DOMAIN c.usedPorts :
                      IsFirstPort(c.usedPorts[u], services[c.link], addrs[a[u]].port)

\* The loops of discoverConnections implement the README's promise: each step
\* reports at most one required connection, and it returns with all of them.
ImplementsPromise == Promise!Spec

\* discoverConnections returns.
Termination == <>Done

=============================================================================
