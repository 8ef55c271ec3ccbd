------------------------------- MODULE Exposure -------------------------------
(***************************************************************************)
(* How ports of services come to be exposed to the cluster                 *)
(* (resource_accumulator.go, info_to_resource.go). parseInfo turns a       *)
(* Service into an element of services, with the port that Prometheus      *)
(* scrapes marked, and collects in servicesToExpose what Routes, Ingresses *)
(* and Gateway routes point at. exposeServices, after all manifests are    *)
(* parsed, marks the ports of each service found there. Infos of other     *)
(* kinds have no part in this.                                             *)
(***************************************************************************)
EXTENDS Topology, Lists

CONSTANT InfoLists  \* the sequences of Infos that parseInfos may be given

\* No port: an optional port that is not given.
NilPort == [int |-> 0, str |-> ""]

\* What exposedPrometheusScrapePort looks for in a Service's annotations: a
\* ".../scrape" that is true, and the values of all ".../port".
Annotations == [scrape : BOOLEAN, ports : SUBSET IntOrString]

ServiceInfo ==
  [kind : {"Service"}, name : Names, namespace : Namespaces,
   type : {"", "ClusterIP", "NodePort", "LoadBalancer"},
   selectors : SUBSET Labels, annotations : Annotations,
   network : Seq([name : PortNames, port : Nat, targetPort : IntOrString,
                  protocol : {"", "TCP", "UDP"}, exposeToCluster : {FALSE}])]

\* A backend of an Ingress rule (port has a number and a name), of a Gateway
\* route (a number, and a namespace of its own or NoNamespace) or of a Route
\* (neither: the Route has one port for all).
Backend ==
  [isService : BOOLEAN, svc : Names, namespace : Namespaces, port : IntOrString]

\* An HTTPRoute or a GRPCRoute is a Gateway: the two functions are the same.
PointingKinds == {"Route", "Ingress", "Gateway"}
\* The port of a Gateway backend is a number.
PointingInfo ==
  {i \in [kind : PointingKinds, namespace : Namespaces, port : IntOrString,
          backends : Seq(Backend)] :
     i.kind = "Gateway" => \A b \in DOMAIN i.backends : i.backends[b].port.str = ""}

ASSUME InfoListsAssumption == InfoLists \subseteq Seq(ServiceInfo \union PointingInfo)

VARIABLES
  infos,      \* the Infos of the call
  at,         \* index of the Info that parseInfos is at
  bck,        \* index of its backend
  toExpose,   \* servicesToExpose: for <<namespace, name>> the ports to expose
  services,   \* the services slice
  exposed,    \* number of services that exposeServices is done with
  panicked    \* the nil port of a Route was dereferenced

accVars == <<infos, at, bck, toExpose, services, exposed, panicked>>

AccInit ==
  /\ infos \in InfoLists
  /\ at = 1 /\ bck = 1
  /\ toExpose = <<>>
  /\ services = <<>>
  /\ exposed = 0
  /\ panicked = FALSE

AtInfo(kinds) == ~panicked /\ at <= Len(infos) /\ infos[at].kind \in kinds

\* Mutant: a resource without backends is not passed over.
NextInfo_IfBackends ==
  IF AtInfo(PointingKinds) /\ bck = 1 THEN at ELSE at + 1

NextInfo == at + 1

-----------------------------------------------------------------------------
(* Services *)

\* SvcNetworkAttr.equals: a port is meant by its name or by its number.
PortEquals(p, intOrStr) ==
  \/ p.name # "" /\ p.name = intOrStr.str
  \/ p.port > 0 /\ p.port = intOrStr.int

\* The ports that may come out of exposedPrometheusScrapePort: it ranges over
\* a map, so of several ".../port" annotations any may be the last.
ScrapePorts(annotations) ==
  IF annotations.ports = {} THEN {[int |-> 9090, str |-> ""]} ELSE annotations.ports

\* k8sServiceFromInfo
ServiceFrom(i, scrapePort) ==
  [name |-> i.name, namespace |-> i.namespace, selectors |-> i.selectors,
   exposeExternally |-> i.type \in {"NodePort", "LoadBalancer"},
   network |-> [n \in DOMAIN i.network |->
     [i.network[n] EXCEPT !.exposeToCluster =
        i.annotations.scrape /\ PortEquals(i.network[n], scrapePort)]]]

ParseService ==
  /\ AtInfo({"Service"})
  /\ \E p \in ScrapePorts(infos[at].annotations) :
       services' = Append(services, ServiceFrom(infos[at], p))
  /\ at' = NextInfo
  /\ UNCHANGED <<infos, bck, toExpose, exposed, panicked>>

-----------------------------------------------------------------------------
(* Resources that point at services *)

\* Backends that are no service, and Gateway backends without a port.
Ignored(i, b) ==
  \/ i.kind # "Route" /\ ~b.isService
  \/ i.kind = "Gateway" /\ b.port = NilPort

\* The port asked for; portFromServiceBackendPort takes the name of an Ingress
\* backend only if there is no number.
BackendPort(i, b) ==
  IF i.kind = "Route" THEN i.port
  ELSE IF b.port.int = 0 THEN b.port ELSE [int |-> b.port.int, str |-> ""]

\* Mutant: a Gateway backend is looked for in the namespace of its route.
BackendNamespace_Own(i, b) == i.namespace

BackendNamespace(i, b) ==
  IF i.kind = "Gateway" /\ b.namespace # NoNamespace THEN b.namespace ELSE i.namespace

\* Mutant: the last port replaces those asked for before.
WithPort_Replaces(ste, key, port) ==
  [k \in DOMAIN ste \union {key} |-> IF k = key THEN <<port>> ELSE ste[k]]

\* servicesToExpose.appendPort. (A namespace without an entry and a service
\* without one in it are the same to exposeServices.)
WithPort(ste, key, port) ==
  [k \in DOMAIN ste \union {key} |->
     IF k # key THEN ste[k]
     ELSE IF k \in DOMAIN ste THEN Append(ste[k], port) ELSE <<port>>]

AtPointing ==
  /\ AtInfo(PointingKinds)
  /\ infos[at].kind = "Route" => infos[at].port # NilPort

\* One iteration over the backends: Spec.To and Spec.AlternateBackends of a
\* Route, the default backend and the paths of an Ingress, the BackendRefs.
AppendPort ==
  /\ AtPointing
  /\ bck <= Len(infos[at].backends)
  /\ LET i == infos[at]
         b == i.backends[bck]
     IN  toExpose' =
           IF Ignored(i, b) THEN toExpose
           ELSE WithPort(toExpose, <<BackendNamespace(i, b), b.svc>>, BackendPort(i, b))
  /\ bck' = bck + 1
  /\ UNCHANGED <<infos, at, services, exposed, panicked>>

\* Mutant: the position in one list of backends is kept for the next.
FirstBackend_Keeps == bck

FirstBackend == 1

BackendsDone ==
  /\ AtPointing
  /\ bck > Len(infos[at].backends)
  /\ at' = NextInfo
  /\ bck' = FirstBackend
  /\ UNCHANGED <<infos, toExpose, services, exposed, panicked>>

\* ocRouteFromInfo takes the address of a field of Spec.Port, which may be nil.
RoutePanics ==
  /\ AtInfo({"Route"})
  /\ infos[at].port = NilPort
  /\ panicked' = TRUE
  /\ UNCHANGED <<infos, at, bck, toExpose, services, exposed>>

-----------------------------------------------------------------------------
(* exposeServices *)

PortsToExpose(s) ==
  IF <<s.namespace, s.name>> \in DOMAIN toExpose
    THEN toExpose[<<s.namespace, s.name>>] ELSE <<>>

\* Mutant: a port that nothing points at is closed again.
Expose_Overwrites(p, ports) ==
  [p EXCEPT !.exposeToCluster = \E j \in DOMAIN ports : PortEquals(p, ports[j])]

Expose(p, ports) ==
  [p EXCEPT !.exposeToCluster = @ \/ \E j \in DOMAIN ports : PortEquals(p, ports[j])]

AllParsed == ~panicked /\ at > Len(infos)

\* One iteration over the services.
ExposeService ==
  /\ AllParsed
  /\ exposed < Len(services)
  /\ LET s == services[exposed + 1] IN
       services' = [services EXCEPT ![exposed + 1].network =
                      [n \in DOMAIN s.network |-> Expose(s.network[n], PortsToExpose(s))]]
  /\ exposed' = exposed + 1
  /\ UNCHANGED <<infos, at, bck, toExpose, panicked>>

Accumulate ==
  \/ ParseService \/ AppendPort \/ BackendsDone \/ RoutePanics \/ ExposeService

Accumulated == AllParsed /\ exposed = Len(services)

\* The caller has the services, or the process is gone.
AccEnded == (Accumulated \/ panicked) /\ UNCHANGED accVars

AccSpec == AccInit /\ [][Accumulate \/ AccEnded]_accVars /\ WF_accVars(Accumulate)

-----------------------------------------------------------------------------
AccTypeOK ==
  /\ infos \in InfoLists
  /\ at \in 1..(Len(infos) + 1)
  /\ bck \in Nat \ {0}
  /\ AtInfo(PointingKinds) => bck <= Len(infos[at].backends) + 1
  /\ DOMAIN toExpose \subseteq Namespaces \X Names
  /\ \A k \in DOMAIN toExpose : toExpose[k] \in Seq(IntOrString)
  /\ services \in Seq(Service)
  /\ exposed \in 0..Len(services)
  /\ panicked \in BOOLEAN

-----------------------------------------------------------------------------
(* What exposure should be, whatever the order of the manifests *)

\* Backend b of resource i points at port p of the service of this name.
PointsAt(i, b, name, namespace, p) ==
  /\ b.svc = name
  /\ i.kind # "Route" => b.isService
  /\ CASE i.kind = "Route" ->
            i.namespace = namespace /\ PortEquals(p, i.port)
       [] i.kind = "Ingress" ->
            /\ i.namespace = namespace
            /\ IF b.port.int > 0 THEN p.port = b.port.int
               ELSE p.name # "" /\ p.name = b.port.str
       [] i.kind = "Gateway" ->
            /\ namespace = IF b.namespace = NoNamespace THEN i.namespace ELSE b.namespace
            /\ b.port.int > 0 /\ p.port = b.port.int

\* Some resource among infos does.
Pointed(name, namespace, p) ==
  \E i \in DOMAIN infos :
    /\ infos[i].kind \in PointingKinds
    /\ \E b \in DOMAIN infos[i].backends :
         PointsAt(infos[i], infos[i].backends[b], name, namespace, p)

\* Prometheus may be told to scrape port p of service Info i, or must be.
MayBeScraped(i, p) ==
  i.annotations.scrape /\ \E s \in ScrapePorts(i.annotations) : PortEquals(p, s)
Scraped(i, p) ==
  i.annotations.scrape /\ \A s \in ScrapePorts(i.annotations) : PortEquals(p, s)

ServiceInfos == Those(infos, ServiceInfo)

\* In the end there is one service for each Service manifest, and its ports
\* are exposed exactly if a resource, parsed before or after it, points at
\* them by number or by name, or Prometheus scrapes them.
ExposedExactly ==
  Accumulated =>
    /\ Len(services) = Len(ServiceInfos)
    /\ \A s \in DOMAIN services : \A n \in DOMAIN ServiceInfos[s].network :
         LET i == ServiceInfos[s]
             p == i.network[n]
             q == services[s].network[n]
         IN  /\ q = [p EXCEPT !.exposeToCluster = q.exposeToCluster]
             /\ Pointed(i.name, i.namespace, p) \/ Scraped(i, p) => q.exposeToCluster
             /\ q.exposeToCluster => Pointed(i.name, i.namespace, p) \/ MayBeScraped(i, p)

\* A port once exposed stays so: exposeServices does not close what the
\* annotations of the service have opened.
NeverClosed ==
  [][ \A s \in DOMAIN services : \A n \in DOMAIN services[s].network :
        services[s].network[n].exposeToCluster =>
          services'[s].network[n].exposeToCluster ]_accVars

\* Every Info is parsed and every service looked up, or the process ends.
AccTermination == <>(Accumulated \/ panicked)

-----------------------------------------------------------------------------
(* What the documentation says *)

\* README.md: if the service exposing a workload is pointed by an Ingress or a
\* Route, ingress to it is allowed from any source within the cluster. A number
\* in a Route is a port of the pods, which a service port has as its target.
RoutedPortsExposed ==
  Accumulated =>
    \A i \in DOMAIN infos : infos[i].kind = "Route" =>
      \A b \in DOMAIN infos[i].backends : \A s \in DOMAIN services :
        LET svc == services[s] IN
        svc.namespace = infos[i].namespace /\ svc.name = infos[i].backends[b].svc =>
          \A n \in DOMAIN svc.network :
            infos[i].port.int > 0 /\ svc.network[n].targetPort = infos[i].port =>
              svc.network[n].exposeToCluster

=============================================================================
