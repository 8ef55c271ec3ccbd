------------------------------ MODULE MCExposure ------------------------------
(***************************************************************************)
(* Lists of up to three manifests for Exposure: services of one name in    *)
(* one namespace or in two, scraped or not, and resources of each kind     *)
(* that point at them by number or name, from their own namespace or from  *)
(* another, twice, at something else, or at nothing.                       *)
(***************************************************************************)
EXTENDS Exposure

MCNames == 1..2
MCNamespaces == {"", "a", "b"}
MCKinds == {}
MCLabels == {"x"}
MCPortNames == {"", "http"}

Num(n) == [int |-> n, str |-> ""]
Named(s) == [int |-> 0, str |-> s]

Port(name, n, target) ==
  [name |-> name, port |-> n, targetPort |-> target, protocol |-> "TCP",
   exposeToCluster |-> FALSE]

Svc(n, ns, type, scrape, ports, network) ==
  [kind |-> "Service", name |-> n, namespace |-> ns, type |-> type,
   selectors |-> {"x"}, annotations |-> [scrape |-> scrape, ports |-> ports],
   network |-> network]

To(svc, ns, port) == [isService |-> TRUE, svc |-> svc, namespace |-> ns, port |-> port]
Other == [isService |-> FALSE, svc |-> 1, namespace |-> "", port |-> Num(80)]

Points(kind, ns, port, backends) ==
  [kind |-> kind, namespace |-> ns, port |-> port, backends |-> backends]

TwoPorts == <<Port("http", 80, Num(8080)), Port("", 9090, Named("http"))>>

ServiceSet ==
  {Svc(1, "a", "ClusterIP", FALSE, {Num(80)}, TwoPorts),
   Svc(1, "a", "", TRUE, {}, TwoPorts),
   Svc(1, "b", "NodePort", TRUE, {Named("http"), Num(9090)}, TwoPorts),
   Svc(2, "a", "LoadBalancer", FALSE, {}, <<Port("http", 80, Num(0))>>),
   Svc(1, "", "", TRUE, {Num(81)}, <<>>)}

PointingSet ==
  {Points("Route", "a", Named("http"), <<To(1, "", NilPort), To(2, "", NilPort)>>),
   Points("Route", "a", Num(9090), <<To(1, "", NilPort)>>),
   Points("Route", "b", NilPort, <<To(1, "", NilPort)>>),
   Points("Ingress", "a", NilPort, <<Other, To(1, "", Num(80)), To(1, "", Num(9090))>>),
   Points("Ingress", "", NilPort, <<To(1, "", Named("http")), To(2, "", NilPort)>>),
   Points("Gateway", "a", NilPort, <<To(1, "b", Num(80)), To(2, "", NilPort), Other>>),
   Points("Gateway", "b", NilPort, <<To(2, "a", Num(80)), To(1, "", Num(9090))>>),
   Points("Gateway", "a", NilPort, <<>>)}

MCInfoLists ==
  UNION {[1..n -> ServiceSet \union PointingSet] : n \in 1..3}

-----------------------------------------------------------------------------
\* A service whose port 80 goes to port 8080 of the pods, a Route to a port of
\* its pods, in either order and with any third manifest.
RouteToPods == Points("Route", "a", Num(8080), <<To(1, "", NilPort)>>)

RouteLists ==
  {f \in [1..3 -> ServiceSet \union PointingSet \union {RouteToPods}] :
     \E i \in 1..3 : f[i] = RouteToPods}

=============================================================================
