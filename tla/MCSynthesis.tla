----------------------------- MODULE MCSynthesis -----------------------------
(***************************************************************************)
(* Small applications for Synthesis, beside those of MCDiscovery:          *)
(* workloads of two namespaces and the missing one, that share a name, a   *)
(* name and labels, or have none; services that are internal, exposed to   *)
(* the cluster, external, without ports, with a named or renumbered target *)
(* port.                                                                   *)
(***************************************************************************)
EXTENDS Synthesis, MCDiscovery, FiniteSets

MCNames == 0..3
MCNamespaces == {"", "a", "b"}
MCKinds == {"Deployment", "Pod", "Job"}
MCLabels == {"x", "y", "z"}
MCPortNames == {"", "http"}
MCDNSPort == [int |-> 53, str |-> ""]

Front == Work(1, "a", "Deployment", {"x"}, <<Addr(2, "a", FALSE, 80)>>)
FrontPod == Work(1, "a", "Pod", {"x"}, <<Addr(2, "a", FALSE, 0)>>)
Back == Work(2, "a", "Deployment", {"y"}, <<Addr(1, "a", FALSE, 81)>>)
Remote == Work(3, "b", "Deployment", {"z"},
               <<Addr(2, "a", FALSE, 0), Addr(1, "a", FALSE, 80)>>)
Local == Work(3, "", "Deployment", {"z"}, <<Addr(1, "a", FALSE, 0)>>)
Homonym == Work(2, "b", "Deployment", {"z"}, <<Addr(1, "a", FALSE, 80)>>)
Nameless == Work(0, "a", "Deployment", {"z"}, <<Addr(2, "", FALSE, 80)>>)
NamelessBack == Work(0, "a", "Deployment", {"y"}, <<>>)
Unlabelled == Work(3, "a", "Job", {}, <<Addr(1, "a", FALSE, 0)>>)
Bystander == Work(3, "a", "Deployment", {"x", "z"}, <<>>)

TwoWorkloads ==
  {Front, FrontPod, Back, Remote, Local, Homonym, Nameless, NamelessBack,
   Unlabelled, Bystander}
ThreeWorkloads == {Front, Back, Remote, Homonym}

MCServices ==
  {Svc(1, "a", {"x"}, FALSE, <<Port("", 80, Num(8080), "TCP", FALSE),
                               Port("", 81, Named("http"), "", TRUE)>>),
   Svc(1, "a", {"x"}, TRUE, <<Port("", 80, Num(8080), "UDP", FALSE),
                              Port("", 81, Num(0), "", TRUE)>>),
   Svc(2, "a", {"y"}, FALSE, <<Port("", 80, Num(0), "", FALSE)>>),
   Svc(2, "a", {}, TRUE, <<Port("", 80, Num(8080), "TCP", FALSE)>>),
   Svc(2, "a", {"y"}, FALSE, <<>>),
   Svc(2, "b", {"z"}, FALSE, <<Port("", 80, Num(0), "", TRUE)>>)}

SynthesisInputs ==
  ([1..2 -> TwoWorkloads] \X ([1..1 -> MCServices] \union [1..2 -> MCServices]))
  \union
  ([1..3 -> ThreeWorkloads] \X [1..2 -> MCServices])

MCInputs == DiscoveryInputs \union SynthesisInputs

-----------------------------------------------------------------------------
(* Applications outside the conditions of the properties above *)

Orders(ws) ==
  LET n == Cardinality(ws)
  IN  {f \in [1..n -> ws] : \A i, j \in 1..n : f[i] = f[j] => i = j}

\* Two Deployments named 2, one in each namespace.
SameNameInputs == Orders({Front, Back, Homonym}) \X [1..2 -> MCServices]

\* One workload whose pods have no labels, and one whose name is generated,
\* each connecting to a workload of its own.
OddInputs ==
  Orders({Front, Back, Unlabelled, Nameless})
    \X Orders({Svc(1, "a", {"x"}, FALSE, <<Port("", 80, Num(8080), "TCP", FALSE)>>),
               Svc(2, "a", {"y"}, FALSE, <<Port("", 80, Num(0), "", FALSE)>>)})

=============================================================================
