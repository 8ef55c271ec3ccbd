------------------------------ MODULE MCWorkloads ------------------------------
(***************************************************************************)
(* A workload with every way to refer to a string, and another beside it;  *)
(* ConfigMaps of two names in two namespaces, some twice, before and after  *)
(* the workloads.                                                          *)
(***************************************************************************)
EXTENDS Workloads

MCNames == {"", "cm1", "cm2"}
MCNamespaces == {"ns1", "ns2"}
MCKeys == {"k1", "k2"}
MCValues == {"", "svcA", "http://svcA", "svcB", "text"}
MCAddressIn ==
  [v \in MCValues |-> CASE v \in {"svcA", "http://svcA"} -> "svcA" [] v = "svcB" -> "svcB" [] OTHER -> ""]

NoVar == [value |-> "text", name |-> NoName, key |-> NoKey]
Var(v) == [NoVar EXCEPT !.value = v]
\* A variable with a value keeps no reference; one of the references is not complete.
MCVars ==
  {Var("http://svcA"), [value |-> "", name |-> "cm1", key |-> "k1"],
   [value |-> "", name |-> "cm1", key |-> NoKey], [value |-> "svcB", name |-> "cm2", key |-> "k2"]}

MCContainers ==
  [env : {<<v, Var("text")>> : v \in MCVars}, envFrom : {<<>>, <<NoConfigMap, "cm1">>, <<"">>},
   args : {<<"text", "svcA">>}, command : {<<>>}]
Sidecar ==
  [env |-> <<>>, envFrom |-> <<>>, args |-> <<>>, command |-> <<"svcB">>]

MCWorkloadInfos ==
  {[kind |-> "workload", namespace |-> "ns1", labels |-> {"app", "pod-template-hash"},
    containers |-> <<Sidecar, c>>, volumes |-> v] : c \in MCContainers, v \in {<<>>, <<NoConfigMap, "cm2">>}}
Other ==
  [kind |-> "workload", namespace |-> "ns2", labels |-> {}, volumes |-> <<>>,
   containers |-> <<[Sidecar EXCEPT !.env = <<[value |-> "", name |-> "cm1", key |-> "k2"]>>]>>]

MCConfigMaps ==
  {[kind |-> "configmap", fullName |-> <<ns, n>>, data |-> d] :
     ns \in MCNamespaces, n \in MCNames \ {""},
     d \in {[k \in {"k1"} |-> "text"], [k \in MCKeys |-> IF k = "k1" THEN "svcB" ELSE "svcA"]}}

MCInfoLists ==
  UNION {{<<c1, w, c2, Other>>, <<w, c1, Other>>, <<Other, w, c1, c2>>}
           : w \in MCWorkloadInfos, c1 \in MCConfigMaps, c2 \in MCConfigMaps}

=============================================================================
