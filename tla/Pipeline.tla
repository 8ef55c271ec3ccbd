------------------------------- MODULE Pipeline -------------------------------
(***************************************************************************)
(* From manifests to policies: extractConnections and synthNetpols on the  *)
(* services that a resourceAccumulator makes of its Infos. Exposure and    *)
(* Synthesis share the services slice: Exposure fills it, and discovery    *)
(* starts when exposeServices has gone through it. The workloads are those *)
(* of Inputs, parsed among the Infos, which Exposure passes over.          *)
(***************************************************************************)
EXTENDS Synthesis

CONSTANT InfoLists

VARIABLES infos, at, bck, toExpose, exposed

Acc == INSTANCE Exposure

ASSUME PipelineAssumption ==
  InfoLists \subseteq Seq(Acc!ServiceInfo \union Acc!PointingInfo)

accumulator == <<infos, at, bck, toExpose, exposed>>
pipeVars == <<allVars, accumulator>>

\* What discovery and synthesis keep, and Exposure does not write.
downstream == <<workloads, loops, connections, cur, deploys, res, netpols>>

PipeInit == SynthInit /\ Acc!AccInit

Accumulate == Acc!Accumulate /\ UNCHANGED downstream

Analyze ==
  /\ Acc!Accumulated
  /\ (Extract \/ Synthesize)
  /\ UNCHANGED accumulator

AllDone == Acc!Accumulated /\ Finished

PipeEnded == (AllDone \/ panicked) /\ UNCHANGED pipeVars

PipeSpec ==
  /\ PipeInit
  /\ [][Accumulate \/ Analyze \/ PipeEnded]_pipeVars
  /\ WF_pipeVars(Accumulate) /\ WF_pipeVars(Analyze)

-----------------------------------------------------------------------------
\* Service manifest i is in front of workload d.
InFront(i, d) ==
  /\ i.namespace = workloads[d].namespace
  /\ i.selectors \subseteq workloads[d].labels

\* A port of a Service manifest that an Ingress, a Route, a Gateway route or
\* Prometheus needs, wherever in the manifests it is said, is open to the
\* cluster (or to everybody) at each workload behind the service.
PointedIsOpen ==
  AllDone /\ NamesIdentify =>
    \A s \in DOMAIN Acc!ServiceInfos, d \in DOMAIN workloads :
      LET i == Acc!ServiceInfos[s] IN
      InFront(i, d) => \A n \in DOMAIN i.network :
        Acc!Pointed(i.name, i.namespace, i.network[n]) \/ Acc!Scraped(i, i.network[n]) =>
          \/ OpenTo(d, ToNetpolPort(i.network[n]), {ClusterPeer})
          \/ OpenTo(d, ToNetpolPort(i.network[n]), {})

\* No other port is open to the cluster, and only ports of NodePort and
\* LoadBalancer services are open to everybody: exposure does not spread to
\* another port, service, namespace or workload on its way to the policies.
OpenOnlyIfPointed ==
  AllDone /\ AllNamed /\ NamesIdentify /\ LabelsIdentify =>
    \A d \in DOMAIN workloads, p \in SomePorts :
      /\ OpenTo(d, p, {ClusterPeer}) =>
           \E s \in DOMAIN Acc!ServiceInfos :
             LET i == Acc!ServiceInfos[s] IN
             /\ InFront(i, d)
             /\ \E n \in DOMAIN i.network :
                  /\ p = ToNetpolPort(i.network[n])
                  /\ \/ Acc!Pointed(i.name, i.namespace, i.network[n])
                     \/ Acc!MayBeScraped(i, i.network[n])
      /\ OpenTo(d, p, {}) =>
           \E s \in DOMAIN Acc!ServiceInfos :
             LET i == Acc!ServiceInfos[s] IN
             /\ InFront(i, d)
             /\ i.type \in {"NodePort", "LoadBalancer"}
             /\ \E n \in DOMAIN i.network : p = ToNetpolPort(i.network[n])

\* The whole run ends with policies, unless a workload has no name or a Route
\* no port.
PipeTermination ==
  /\ <>(AllDone \/ panicked)
  /\ AllNamed /\ (\A i \in DOMAIN infos :
                    infos[i].kind = "Route" => infos[i].port # Acc!NilPort)
       => <>AllDone

=============================================================================
