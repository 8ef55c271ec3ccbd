------------------------------- MODULE Workloads -------------------------------
(***************************************************************************)
(* Where the network addresses of a workload come from. parseInfo makes    *)
(* workloads and ConfigMaps of Infos (info_to_resource.go); afterwards     *)
(* inlineConfigMapRefsAsEnvs (resource_accumulator.go) looks up what the   *)
(* workloads refer to. Infos that cannot be parsed are in                  *)
(* PoliciesSynthesizer; what is done with the addresses is in Discovery.   *)
(***************************************************************************)
EXTENDS Naturals, FiniteSets, Functions, Lists

CONSTANTS
  Names,        \* the names of ConfigMaps, also the empty one that an invalid manifest gives
  NoConfigMap,  \* a source of variables or a volume that is no ConfigMap
  Namespaces, Keys,
  Values,       \* the strings of manifests, the empty string "" among them
  AddressIn,    \* networkAddressFromStr: see NetworkAddress
  InfoLists     \* the sequences of Infos that parseInfos may be given

\* networkAddressFromStr finds no address.
NoAddress == ""
\* Empty fields of a reference to a key.
NoName == ""
NoKey == ""

\* A variable has a value, or refers to a key of a ConfigMap.
EnvVar == [value : Values, name : Names \union {NoName}, key : Keys \union {NoKey}]
Container ==
  [env : Seq(EnvVar), envFrom : Seq(Names \union {NoConfigMap}),
   args : Seq(Values), command : Seq(Values)]
WorkloadInfo ==
  [kind : {"workload"}, namespace : Namespaces, labels : SUBSET {"app", "pod-template-hash"},
   containers : Seq(Container), volumes : Seq(Names \union {NoConfigMap})]
ConfigMap ==
  [kind : {"configmap"}, fullName : Namespaces \X Names,
   data : UNION {[K -> Values] : K \in {K \in SUBSET Keys : IsFiniteSet(K)}}]

ASSUME WorkloadsAssumption ==
  /\ NoConfigMap \notin Names
  /\ AddressIn \in [Values -> Values] /\ AddressIn[""] = NoAddress
  /\ InfoLists \subseteq Seq(WorkloadInfo \union ConfigMap)

KeyRef == [name : Names, key : Keys]
Resource ==
  [namespace : Namespaces, labels : SUBSET {"app"}, networkAddrs : Seq(Values \ {NoAddress}),
   configMapRefs : Seq(Names), configMapKeyRefs : Seq(KeyRef)]

VARIABLES
  infos,        \* the Infos of the call
  at,           \* number of Infos that are parsed
  workloads, configmaps,   \* the slices of the resourceAccumulator
  wl, ref,      \* workload at which inlining is, and how many of its references are done
  errors        \* what inlineConfigMapRefsAsEnvs did not find, each thing once

wlVars == <<infos, at, workloads, configmaps, wl, ref, errors>>

Init ==
  /\ infos \in InfoLists
  /\ at = 0 /\ wl = 1 /\ ref = 0
  /\ workloads = <<>> /\ configmaps = <<>> /\ errors = {}

-----------------------------------------------------------------------------
(* Parsing *)

\* Mutant: a value that is no address is taken for one.
AddressesIn_All(values) == [i \in DOMAIN values |-> AddressIn[values[i]]]

\* appendNetworkAddresses, and what is done with the value of a variable.
AddressesIn(values) ==
  Those([i \in DOMAIN values |-> AddressIn[values[i]]], Values \ {NoAddress})

EnvValues(c) == [i \in DOMAIN c.env |-> c.env[i].value]

\* A reference counts only if there is no value, and if it is complete.
KeyRefsOf(c) ==
  LET refs == Those(c.env, {e \in EnvVar : e.value = "" /\ e.name # NoName /\ e.key # NoKey})
  IN  [i \in DOMAIN refs |-> [name |-> refs[i].name, key |-> refs[i].key]]

\* A ConfigMap counts whatever name the manifest gives, the empty one too.
Given(names) == Those(names, Names)

\* One container's values, in the order in which the code looks at them.
ContainerAddresses(c) ==
  (AddressesIn(EnvValues(c)) \o AddressesIn(c.args)) \o AddressesIn(c.command)

\* k8sWorkloadObjectFromInfo and parseDeployResource
ResourceFrom(i) ==
  LET cs == i.containers IN
  [namespace |-> i.namespace,
   labels |-> i.labels \ {"pod-template-hash"},
   networkAddrs |-> Concat([c \in DOMAIN cs |-> ContainerAddresses(cs[c])]),
   configMapRefs |-> Concat([c \in DOMAIN cs |-> Given(cs[c].envFrom)]) \o Given(i.volumes),
   configMapKeyRefs |-> Concat([c \in DOMAIN cs |-> KeyRefsOf(cs[c])])]

\* parseInfo
Parse ==
  /\ at < Len(infos)
  /\ LET i == infos[at + 1] IN
     IF i.kind = "workload"
       THEN workloads' = Append(workloads, ResourceFrom(i)) /\ UNCHANGED configmaps
       ELSE configmaps' = Append(configmaps, i) /\ UNCHANGED workloads
  /\ at' = at + 1
  /\ UNCHANGED <<infos, wl, ref, errors>>

-----------------------------------------------------------------------------
(* Inlining *)

Having(cms, fullName) == {i \in DOMAIN cms : cms[i].fullName = fullName}
LastNamed(cms, fullName) ==
  {cms[i] : i \in {i \in Having(cms, fullName) : \A j \in Having(cms, fullName) : j <= i}}

\* Mutant: the first ConfigMap of a name is used.
Named_First(fullName) ==
  LET found == Having(configmaps, fullName)
  IN  {configmaps[i] : i \in {i \in found : \A j \in found : i <= j}}

\* cfgMapsByName: the last ConfigMap of a name, if there is one.
Named(fullName) == LastNamed(configmaps, fullName)

\* The addresses in a ConfigMap's data, which is a map: in any order.
InlinedData(data) ==
  {AddressesIn([k \in DOMAIN order |-> data[order[k]]]) :
     order \in Bijection(1..Cardinality(DOMAIN data), DOMAIN data)}

Inlining == at = Len(infos) /\ wl <= Len(workloads)
Refs == workloads[wl].configMapRefs
KeyRefs == workloads[wl].configMapKeyRefs

AddAddresses(addrs) ==
  workloads' = [workloads EXCEPT ![wl].networkAddrs = @ \o addrs]

\* Mutant: the loop stays at a reference that is not found.
NextRef_Stuck(found) == IF found THEN ref + 1 ELSE ref

NextRef(found) == ref + 1

\* One reference to a whole ConfigMap, of a container or a volume.
InlineRef ==
  /\ Inlining /\ ref < Len(Refs)
  /\ LET fullName == <<workloads[wl].namespace, Refs[ref + 1]>> IN
     /\ \/ \E cm \in Named(fullName) : \E addrs \in InlinedData(cm.data) :
             AddAddresses(addrs) /\ UNCHANGED errors
        \/ /\ Named(fullName) = {}
           /\ errors' = errors \union {[type |-> "ConfigMapNotFound", wl |-> wl, name |-> fullName[2]]}
           /\ UNCHANGED workloads
     /\ ref' = NextRef(Named(fullName) # {})
  /\ UNCHANGED <<infos, at, configmaps, wl>>

\* Mutant: a key that a ConfigMap does not have is passed over.
KeyErrors_Silent(r, found) ==
  IF found = {} THEN {[type |-> "ConfigMapNotFound", wl |-> wl, name |-> r.name]} ELSE {}

KeyErrors(r, found) ==
  IF found = {} THEN {[type |-> "ConfigMapNotFound", wl |-> wl, name |-> r.name]}
  ELSE IF \A cm \in found : r.key \notin DOMAIN cm.data
    THEN {[type |-> "ConfigMapKeyNotFound", wl |-> wl, name |-> r.name]} ELSE {}

\* One reference to a key.
InlineKeyRef ==
  /\ Inlining /\ ref \in Len(Refs)..(Len(Refs) + Len(KeyRefs) - 1)
  /\ LET r == KeyRefs[ref - Len(Refs) + 1]
         found == Named(<<workloads[wl].namespace, r.name>>)
     IN  /\ errors' = errors \union KeyErrors(r, found)
         /\ \/ \E cm \in found :
                 r.key \in DOMAIN cm.data /\ AddAddresses(AddressesIn(<<cm.data[r.key]>>))
            \/ (\A cm \in found : r.key \notin DOMAIN cm.data) /\ UNCHANGED workloads
  /\ ref' = ref + 1
  /\ UNCHANGED <<infos, at, configmaps, wl>>

NextWorkload ==
  /\ Inlining /\ ref = Len(Refs) + Len(KeyRefs)
  /\ wl' = wl + 1 /\ ref' = 0
  /\ UNCHANGED <<infos, at, workloads, configmaps, errors>>

Next == Parse \/ InlineRef \/ InlineKeyRef \/ NextWorkload

Inlined == at = Len(infos) /\ wl > Len(workloads)

\* extractConnections goes on with the workloads.
Done == Inlined /\ UNCHANGED wlVars

Spec == Init /\ [][Next \/ Done]_wlVars /\ WF_wlVars(Next)

-----------------------------------------------------------------------------
TypeOK ==
  /\ infos \in Seq(WorkloadInfo \union ConfigMap)
  /\ at \in 0..Len(infos)
  /\ workloads \in Seq(Resource) /\ configmaps \in Seq(ConfigMap)
  /\ wl \in 1..(Len(workloads) + 1)
  /\ ref \in 0..(IF wl \in DOMAIN workloads THEN Len(Refs) + Len(KeyRefs) ELSE 0)
  /\ errors \subseteq [type : {"ConfigMapNotFound", "ConfigMapKeyNotFound"},
                      wl : DOMAIN workloads, name : Names]

-----------------------------------------------------------------------------
(* What the manifests say, in whatever order they come *)

Manifests(Kind) == Those(infos, Kind)

\* The ConfigMap that name means in a namespace: of several the last one.
Meant(namespace, name) == LastNamed(Manifests(ConfigMap), <<namespace, name>>)

\* Workload manifest i refers to the whole ConfigMap, or to a key of it.
RefersTo(i, name) ==
  \/ \E v \in DOMAIN i.volumes : i.volumes[v] = name
  \/ \E c \in DOMAIN i.containers :
       \E e \in DOMAIN i.containers[c].envFrom : i.containers[c].envFrom[e] = name
RefersToKey(i, name, key) ==
  /\ name # NoName /\ key # NoKey
  /\ \E c \in DOMAIN i.containers : \E e \in DOMAIN i.containers[c].env :
       i.containers[c].env[e] = [value |-> "", name |-> name, key |-> key]

\* The strings that workload manifest i holds, and those that it refers to.
OwnValues(i) ==
  LET Held(c) == Range(EnvValues(c)) \union Range(c.args) \union Range(c.command)
  IN  UNION {Held(i.containers[c]) : c \in DOMAIN i.containers}
ReferredValues(i) ==
  {v \in Values : \E n \in Names : \E cm \in Meant(i.namespace, n) : \E k \in DOMAIN cm.data :
     v = cm.data[k] /\ (RefersTo(i, n) \/ RefersToKey(i, n, k))}

AddressesOf(values) == {AddressIn[v] : v \in values} \ {NoAddress}

\* A workload has the network addresses in all the strings that its manifest
\* holds or refers to, and no others: whether a ConfigMap comes before or
\* after the workload, in its own namespace, and whatever else was missing.
AddressesExact ==
  Inlined =>
    /\ Len(workloads) = Len(Manifests(WorkloadInfo))
    /\ \A w \in DOMAIN workloads :
         LET i == Manifests(WorkloadInfo)[w] IN
         Range(workloads[w].networkAddrs) = AddressesOf(OwnValues(i) \union ReferredValues(i))

\* A reference is reported if and only if nothing answers it, so that no
\* connection is missed in silence.
DanglingReported ==
  Inlined => \A w \in DOMAIN workloads, n \in Names :
    LET i == Manifests(WorkloadInfo)[w]
        Reported(type) == [type |-> type, wl |-> w, name |-> n] \in errors
    IN  /\ Reported("ConfigMapNotFound") <=>
             /\ Meant(i.namespace, n) = {}
             /\ RefersTo(i, n) \/ \E k \in Keys : RefersToKey(i, n, k)
        /\ Reported("ConfigMapKeyNotFound") <=>
             \E k \in Keys, cm \in Meant(i.namespace, n) :
               RefersToKey(i, n, k) /\ k \notin DOMAIN cm.data

\* Inlining ends, whatever is missing.
InliningEnds == <>Inlined

=============================================================================
