----------------------------- MODULE MCDiscovery -----------------------------
(***************************************************************************)
(* Small applications for discoverConnections: services with and without   *)
(* selectors, ports, namespaces and exposure, and the forms of address     *)
(* that reach them or almost do. MCSynthesis has the values of the         *)
(* constants, and takes these applications through synthesis too.          *)
(***************************************************************************)
EXTENDS Discovery

Num(n) == [int |-> n, str |-> ""]
Named(s) == [int |-> 0, str |-> s]

Port(name, n, target, proto, exposed) ==
  [name |-> name, port |-> n, targetPort |-> target,
   protocol |-> proto, exposeToCluster |-> exposed]

Svc(name, ns, sel, external, network) ==
  [name |-> name, namespace |-> ns, selectors |-> sel,
   exposeExternally |-> external, network |-> network]

Addr(n, ns, fqdn, port) ==
  [host |-> [svc |-> n, namespace |-> ns, fqdn |-> fqdn], port |-> port]

Work(name, ns, kind, labels, addrs) ==
  [name |-> name, namespace |-> ns, kind |-> kind, labels |-> labels,
   networkAddrs |-> addrs]

\* Two ports with one number (DNS over TCP and UDP), a plain and an exposed one.
TcpAndUdp == <<Port("", 80, Num(0), "TCP", FALSE), Port("http", 80, Num(0), "UDP", FALSE)>>
Plain == <<Port("", 80, Num(0), "", FALSE)>>
Exposed == <<Port("", 80, Num(0), "", FALSE), Port("http", 81, Num(0), "", TRUE)>>

\* Family 1: any two of many workloads, one service.
AddrLists ==
  {<<>>,
   <<Addr(1, "", FALSE, 0)>>,
   <<Addr(1, "a", FALSE, 80)>>,
   <<Addr(1, "", FALSE, 80), Addr(1, "a", TRUE, 0), Addr(1, "a", FALSE, 80)>>,
   <<Addr(2, "", FALSE, 80), Addr(1, "a", TRUE, 81), Addr(1, "a", FALSE, 80)>>}

ManyWorkloads ==
  {Work(n, ns, "Deployment", ls, as) :
     n \in 1..2, ns \in {"", "a"}, ls \in {{}, {"x"}}, as \in AddrLists}

OneService ==
  {<<Svc(1, "a", {"x"}, FALSE, TcpAndUdp)>>,
   <<Svc(1, "", {"x"}, FALSE, Plain)>>,
   <<Svc(1, "a", {}, FALSE, Exposed)>>,
   <<Svc(1, "a", {"x"}, TRUE, <<>>)>>}

\* Family 2: three workloads, possibly duplicates or of one name, two services.
FewWorkloads ==
  {Work(1, "a", "Deployment", {"x"}, <<Addr(1, "", FALSE, 80)>>),
   Work(1, "a", "Pod", {"x", "y"}, <<Addr(2, "a", FALSE, 81), Addr(1, "", FALSE, 0)>>),
   Work(2, "a", "Deployment", {"y"}, <<Addr(1, "a", TRUE, 80), Addr(2, "", FALSE, 80)>>),
   Work(2, "a", "Pod", {"x", "y"}, <<Addr(2, "", FALSE, 0)>>),
   Work(2, "", "Deployment", {"x"}, <<Addr(2, "a", FALSE, 80)>>)}

TwoServices ==
  {Svc(1, "a", {"x"}, FALSE, Plain),
   Svc(2, "a", {"y"}, FALSE, Exposed),
   Svc(2, "a", {}, TRUE, TcpAndUdp)}

DiscoveryInputs ==
  ([1..2 -> ManyWorkloads] \X OneService)
  \union
  ([1..3 -> FewWorkloads] \X [1..2 -> TwoServices])

=============================================================================
