------------------------ MODULE RequiredConnectivity ------------------------
(***************************************************************************)
(* What connection discovery promises, without its loops: the README's     *)
(* algorithm says which connections an application requires, and a run     *)
(* reports each of them, nothing else, and only stops when none is left.   *)
(*                                                                         *)
(* A connection is a triple <<source, target, service>> of indices; source *)
(* NoSource stands for a service with no source of its own.                *)
(***************************************************************************)
EXTENDS Topology

VARIABLES
  workloads,   \* the workloads of the application, in manifest order
  services,    \* its services, in manifest order
  reported,    \* the connections reported so far
  complete     \* the report is complete

vars == <<workloads, services, reported, complete>>

NoSource == 0

\* An address of workload s designates service l, as README.md words it:
\* <svc>(.<ns>(.svc.cluster.local)?)?(:<portNum>)?
Designates(addr, s, l) ==
  LET svc == services[l]  host == addr.host  IN
  /\ host.svc = svc.name
  /\ \/ host.namespace = NoNamespace /\ ~host.fqdn
        /\ workloads[s].namespace = svc.namespace
     \/ host.namespace # NoNamespace /\ host.namespace = svc.namespace
  /\ addr.port # NoPort =>
       \E i \in DOMAIN svc.network : svc.network[i].port = addr.port

\* Some configuration value of s is an address of l.
Calls(s, l) ==
  \E a \in DOMAIN workloads[s].networkAddrs :
    Designates(workloads[s].networkAddrs[a], s, l)

\* l exposes d: same namespace, selector among d's labels.
Exposes(l, d) ==
  /\ services[l].namespace = workloads[d].namespace
  /\ services[l].selectors \subseteq workloads[d].labels

\* The connections an application requires. A source-less one stands for an
\* exposed service, or for a service that no workload calls.
Required(s, d, l) ==
  /\ Exposes(l, d)
  /\ \/ /\ s # NoSource
        /\ Calls(s, l)
        /\ ~SameResource(workloads[s], workloads[d])
     \/ /\ s = NoSource
        /\ \/ HasExposedPorts(services[l])
           \/ \A w \in DOMAIN workloads : ~Calls(w, l)

Sources == {NoSource} \union DOMAIN workloads

-----------------------------------------------------------------------------
Init ==
  /\ workloads \in Seq(Resource)
  /\ services \in Seq(Service)
  /\ reported = {}
  /\ complete = FALSE

Report ==
  /\ ~complete
  /\ \E s \in Sources, d \in DOMAIN workloads, l \in DOMAIN services :
       /\ Required(s, d, l)
       /\ <<s, d, l>> \notin reported
       /\ reported' = reported \union {<<s, d, l>>}
  /\ UNCHANGED <<workloads, services, complete>>

Finish ==
  /\ ~complete
  /\ \A s \in Sources, d \in DOMAIN workloads, l \in DOMAIN services :
       Required(s, d, l) => <<s, d, l>> \in reported
  /\ complete' = TRUE
  /\ UNCHANGED <<workloads, services, reported>>

Next == Report \/ Finish

Spec == Init /\ [][Next]_vars

=============================================================================
