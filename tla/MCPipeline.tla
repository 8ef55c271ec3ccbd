------------------------------ MODULE MCPipeline ------------------------------
(***************************************************************************)
(* Two or three manifests in any order, and pairs of workloads behind the  *)
(* services: the sources of one another or of nothing, in one namespace or *)
(* in two.                                                                 *)
(***************************************************************************)
EXTENDS Pipeline

MCNames == 0..3
MCNamespaces == {"", "a", "b"}
MCKinds == {"Deployment"}
MCLabels == {"x", "y"}
MCPortNames == {"", "http"}
MCDNSPort == [int |-> 53, str |-> ""]

Num(n) == [int |-> n, str |-> ""]
Named(s) == [int |-> 0, str |-> s]

Port(name, n, target) ==
  [name |-> name, port |-> n, targetPort |-> target, protocol |-> "TCP",
   exposeToCluster |-> FALSE]

Svc(n, ns, sel, type, scrape, network) ==
  [kind |-> "Service", name |-> n, namespace |-> ns, type |-> type,
   selectors |-> sel, annotations |-> [scrape |-> scrape, ports |-> {}],
   network |-> network]

To(svc, ns, port) == [isService |-> TRUE, svc |-> svc, namespace |-> ns, port |-> port]

Points(kind, ns, port, backends) ==
  [kind |-> kind, namespace |-> ns, port |-> port, backends |-> backends]

TwoPorts == <<Port("http", 80, Num(8080)), Port("", 9090, Num(0))>>

MCInfos ==
  {Svc(1, "a", {"x"}, "ClusterIP", FALSE, TwoPorts),
   Svc(2, "a", {"y"}, "ClusterIP", TRUE, TwoPorts),
   Svc(2, "a", {"y"}, "LoadBalancer", FALSE, <<Port("http", 81, Num(0))>>),
   Svc(1, "b", {"x"}, "ClusterIP", FALSE, TwoPorts),
   Points("Route", "a", Named("http"), <<To(1, "", Num(0)), To(2, "", Num(0))>>),
   Points("Route", "b", Num(0), <<To(1, "", Num(0))>>),
   Points("Ingress", "a", Num(0), <<To(2, "", Num(80)), To(1, "", Num(9090))>>),
   Points("Gateway", "a", Num(0), <<To(1, "b", Num(80)), To(2, "", Num(0))>>)}

MCInfoLists == UNION {[1..n -> MCInfos] : n \in 2..3}

Work(name, ns, labels, addrs) ==
  [name |-> name, namespace |-> ns, kind |-> "Deployment", labels |-> labels,
   networkAddrs |-> addrs]

Addr(n, ns, port) ==
  [host |-> [svc |-> n, namespace |-> ns, fqdn |-> FALSE], port |-> port]

Front == Work(1, "a", {"x"}, <<Addr(2, "a", 80)>>)
Back == Work(2, "a", {"y"}, <<>>)
Remote == Work(3, "b", {"x"}, <<Addr(1, "a", 0)>>)
Nameless == Work(0, "a", {"y"}, <<Addr(1, "", 80)>>)

MCInputs ==
  {<<Front, Back>>, <<Back, Remote>>, <<Front, Remote>>, <<Nameless, Front>>}
    \X {<<>>}

=============================================================================
