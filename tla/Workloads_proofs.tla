---------------------------- MODULE Workloads_proofs ----------------------------
(***************************************************************************)
(* Proofs about Workloads, for all lists of manifests: a workload gets the *)
(* addresses in all strings that its manifest holds or refers to, and each *)
(* reference that nothing answers is reported.                             *)
(*                                                                         *)
(* The inductive invariant WorkloadsInv says what the slices are made of   *)
(* while parsing, and what the references that have been looked up so far  *)
(* have added to the addresses and to the errors.                          *)
(***************************************************************************)
EXTENDS Workloads, Iteration, FiniteSetTheorems

-----------------------------------------------------------------------------
(* What parsing makes of one manifest *)

\* The addresses in values, in order.
LEMMA AddressesInExact ==
  ASSUME NEW values \in Seq(Values)
  PROVE  /\ AddressesIn(values) \in Seq(Values \ {NoAddress})
         /\ Range(AddressesIn(values)) = AddressesOf(Range(values))
<1> DEFINE s == [i \in DOMAIN values |-> AddressIn[values[i]]]
           Found == Values \ {NoAddress}
<1>1. \A i \in DOMAIN values : AddressIn[values[i]] \in Values
  <2>1. \A i \in DOMAIN values : values[i] \in Values
    OBVIOUS
  <2>2. AddressIn \in [Values -> Values]
    BY WorkloadsAssumption
  <2>3. QED
    BY <2>1, <2>2
<1>2. s \in Seq(Values)
  BY <1>1
<1>3. Range(s) = {AddressIn[v] : v \in Range(values)}
  BY Zenon DEF Range
<1>4. Range(s) \subseteq Values
  BY <1>1 DEF Range
<1> HIDE DEF s, Found
<1>5. Those(s, Found) \in Seq(Found) /\ Range(Those(s, Found)) = Range(s) \cap Found
  BY <1>2, ThoseIn, ThoseElements
<1>6. Range(s) \cap Found = AddressesOf(Range(values))
  BY <1>3, <1>4 DEF AddressesOf, Found
<1>7. AddressesIn(values) = Those(s, Found)
  BY Zenon DEF AddressesIn, s, Found
<1>8. QED
  BY <1>5, <1>6, <1>7, Zenon DEF Found

\* The values of a container's variables.
LEMMA EnvValuesType ==
  ASSUME NEW c \in Container
  PROVE  EnvValues(c) \in Seq(Values)
<1>1. c.env \in Seq(EnvVar)
  BY DEF Container
<1>2. \A i \in DOMAIN c.env : c.env[i].value \in Values
  <2>1. \A i \in DOMAIN c.env : c.env[i] \in EnvVar
    BY <1>1
  <2>2. \A e \in EnvVar : e.value \in Values
    BY DEF EnvVar
  <2>3. QED
    BY <2>1, <2>2
<1>3. QED
  BY <1>1, <1>2 DEF EnvValues

\* The strings that a container holds.
Held(c) == Range(EnvValues(c)) \union Range(c.args) \union Range(c.command)

LEMMA ContainerExact ==
  ASSUME NEW c \in Container
  PROVE  /\ ContainerAddresses(c) \in Seq(Values \ {NoAddress})
         /\ Range(ContainerAddresses(c)) = AddressesOf(Held(c))
<1> DEFINE A == AddressesIn(EnvValues(c))
           B == AddressesIn(c.args)
           C == AddressesIn(c.command)
           T == Values \ {NoAddress}
<1>1. c.args \in Seq(Values) /\ c.command \in Seq(Values) /\ EnvValues(c) \in Seq(Values)
  BY EnvValuesType DEF Container
<1>2. /\ A \in Seq(T) /\ Range(A) = AddressesOf(Range(EnvValues(c)))
      /\ B \in Seq(T) /\ Range(B) = AddressesOf(Range(c.args))
      /\ C \in Seq(T) /\ Range(C) = AddressesOf(Range(c.command))
  BY <1>1, AddressesInExact
<1> HIDE DEF A, B, C, T
<1>3. A \o B \in Seq(T) /\ (A \o B) \o C \in Seq(T)
  BY <1>2
<1>4. Range((A \o B) \o C) = Range(A) \union Range(B) \union Range(C)
  <2>1. \A s, t \in Seq(T) : Range(s \o t) = Range(s) \union Range(t)
    BY RangeConcatenation
  <2>2. Range(A \o B) = Range(A) \union Range(B)
    BY <1>2, <2>1, Zenon
  <2>3. Range((A \o B) \o C) = Range(A \o B) \union Range(C)
    BY <1>2, <1>3, <2>1, Zenon
  <2>4. QED
    BY <2>2, <2>3, Zenon
<1>5. AddressesOf(Held(c)) =
        AddressesOf(Range(EnvValues(c))) \union AddressesOf(Range(c.args))
          \union AddressesOf(Range(c.command))
  BY Zenon DEF AddressesOf, Held
<1>6. ContainerAddresses(c) = (A \o B) \o C
  BY Zenon DEF ContainerAddresses, A, B, C
<1>7. QED
  BY <1>2, <1>3, <1>4, <1>5, <1>6, Zenon DEF T

\* The ConfigMaps that are given.
LEMMA GivenExact ==
  ASSUME NEW names \in Seq(Names \union {NoConfigMap})
  PROVE  Given(names) \in Seq(Names) /\ Range(Given(names)) = Range(names) \cap Names
BY ThoseIn, ThoseElements DEF Given

\* The references of a container to keys.
KeyRefersIn(c, r) ==
  /\ r.name # NoName /\ r.key # NoKey
  /\ \E e \in DOMAIN c.env : c.env[e] = [value |-> "", name |-> r.name, key |-> r.key]

LEMMA KeyRefsExact ==
  ASSUME NEW c \in Container
  PROVE  /\ KeyRefsOf(c) \in Seq(KeyRef)
         /\ \A r \in KeyRef : r \in Range(KeyRefsOf(c)) <=> KeyRefersIn(c, r)
<1> DEFINE S == {e \in EnvVar : e.value = "" /\ e.name # NoName /\ e.key # NoKey}
           refs == Those(c.env, S)
           Ref(e) == [name |-> e.name, key |-> e.key]
<1>1. c.env \in Seq(EnvVar)
  BY DEF Container
<1> HIDE DEF S
<1>2. refs \in Seq(S) /\ Range(refs) = Range(c.env) \cap S
  BY <1>1, ThoseIn, ThoseElements
<1>3. KeyRefsOf(c) = [i \in DOMAIN refs |-> Ref(refs[i])]
  BY Zenon DEF KeyRefsOf, S
<1>4. ASSUME NEW e \in S PROVE Ref(e) \in KeyRef
  BY DEF S, EnvVar, KeyRef
<1> HIDE DEF refs, Ref
<1>5. \A i \in DOMAIN refs : Ref(refs[i]) \in KeyRef
  BY <1>2, <1>4
<1>6. KeyRefsOf(c) \in Seq(KeyRef)
  BY <1>2, <1>3, <1>5
<1>7. ASSUME NEW r \in KeyRef
      PROVE  r \in Range(KeyRefsOf(c)) <=> KeyRefersIn(c, r)
  <2>1. r \in Range(KeyRefsOf(c)) <=> \E i \in DOMAIN refs : Ref(refs[i]) = r
    BY <1>3 DEF Range
  <2>2. (\E i \in DOMAIN refs : Ref(refs[i]) = r) <=> \E e \in Range(refs) : Ref(e) = r
    BY DEF Range
  <2>3. (\E e \in Range(refs) : Ref(e) = r)
           <=> \E e \in DOMAIN c.env : c.env[e] \in S /\ Ref(c.env[e]) = r
    BY <1>2 DEF Range
  <2>4. ASSUME NEW e \in DOMAIN c.env
        PROVE  c.env[e] \in S /\ Ref(c.env[e]) = r
                 <=> /\ r.name # NoName /\ r.key # NoKey
                     /\ c.env[e] = [value |-> "", name |-> r.name, key |-> r.key]
    <3>1. PICK x \in EnvVar : x = c.env[e]
      BY <1>1
    <3>2. x = [value |-> x.value, name |-> x.name, key |-> x.key]
      BY DEF EnvVar
    <3>3. r = [name |-> r.name, key |-> r.key]
      BY DEF KeyRef
    <3>4. Ref(x) = r <=> x.name = r.name /\ x.key = r.key
      BY <3>3 DEF Ref
    <3>5. x \in S <=> x.value = "" /\ x.name # NoName /\ x.key # NoKey
      BY DEF S
    <3>6. x = [value |-> "", name |-> r.name, key |-> r.key]
            <=> x.value = "" /\ x.name = r.name /\ x.key = r.key
      <4> DEFINE y == [value |-> "", name |-> r.name, key |-> r.key]
      <4>1. y.value = "" /\ y.name = r.name /\ y.key = r.key
        OBVIOUS
      <4>2. x.value = "" /\ x.name = r.name /\ x.key = r.key => x = y
        BY <3>2, Zenon
      <4> HIDE DEF y
      <4>3. x = y <=> x.value = "" /\ x.name = r.name /\ x.key = r.key
        BY <4>1, <4>2, Zenon
      <4>4. QED
        BY <4>3, Zenon DEF y
    <3>7. QED
      BY <3>1, <3>4, <3>5, <3>6
  <2>5. QED
    BY <2>1, <2>2, <2>3, <2>4, Zenon DEF KeyRefersIn
<1>8. QED
  BY <1>6, <1>7

\* What the containers of a workload give, one after the other.
LEMMA PerContainer ==
  ASSUME NEW n \in Nat, NEW T, NEW f \in [1..n -> Seq(T)]
  PROVE  Concat(f) \in Seq(T) /\ Range(Concat(f)) = UNION {Range(f[c]) : c \in 1..n}
<1>1. f \in Seq(Seq(T)) /\ DOMAIN f = 1..n
  OBVIOUS
<1>2. QED
  BY <1>1, ConcatType, ConcatElements

\* parseDeployResource: the addresses that a manifest holds, and all of its
\* references that are complete.
LEMMA ResourceExact ==
  ASSUME NEW i \in WorkloadInfo
  PROVE  LET r == ResourceFrom(i) IN
         /\ r \in Resource
         /\ r.namespace = i.namespace
         /\ Range(r.networkAddrs) = AddressesOf(OwnValues(i))
         /\ \A n \in Names : n \in Range(r.configMapRefs) <=> RefersTo(i, n)
         /\ \A q \in KeyRef : q \in Range(r.configMapKeyRefs) <=> RefersToKey(i, q.name, q.key)
<1> DEFINE cs == i.containers
           n == Len(cs)
           T == Values \ {NoAddress}
           addrs == [c \in DOMAIN cs |-> ContainerAddresses(cs[c])]
           given == [c \in DOMAIN cs |-> Given(cs[c].envFrom)]
           keys == [c \in DOMAIN cs |-> KeyRefsOf(cs[c])]
           vols == Given(i.volumes)
<1>1. cs \in Seq(Container) /\ i.volumes \in Seq(Names \union {NoConfigMap})
  BY DEF WorkloadInfo
<1> HIDE DEF cs
<1>2. n \in Nat /\ DOMAIN cs = 1..n /\ \A c \in 1..n : cs[c] \in Container
  BY <1>1
<1> HIDE DEF n
<1>3. addrs \in [1..n -> Seq(T)] /\ \A c \in 1..n : Range(addrs[c]) = AddressesOf(Held(cs[c]))
  BY <1>2, ContainerExact
<1>4. /\ given \in [1..n -> Seq(Names)]
      /\ \A c \in 1..n : Range(given[c]) = Range(cs[c].envFrom) \cap Names
  <2>1. \A c \in Container : c.envFrom \in Seq(Names \union {NoConfigMap})
    BY DEF Container
  <2>2. \A c \in 1..n : cs[c].envFrom \in Seq(Names \union {NoConfigMap})
    BY <1>2, <2>1
  <2>3. QED
    BY <1>2, <2>2, GivenExact
<1>5. keys \in [1..n -> Seq(KeyRef)]
  BY <1>2, KeyRefsExact
<1>6. \A c \in 1..n : \A q \in KeyRef : q \in Range(keys[c]) <=> KeyRefersIn(cs[c], q)
  BY <1>2, KeyRefsExact
<1>7. vols \in Seq(Names) /\ Range(vols) = Range(i.volumes) \cap Names
  BY <1>1, GivenExact
<1> HIDE DEF addrs, given, keys, vols
<1>8. /\ Concat(addrs) \in Seq(T) /\ Range(Concat(addrs)) = UNION {Range(addrs[c]) : c \in 1..n}
      /\ Concat(given) \in Seq(Names) /\ Range(Concat(given)) = UNION {Range(given[c]) : c \in 1..n}
      /\ Concat(keys) \in Seq(KeyRef) /\ Range(Concat(keys)) = UNION {Range(keys[c]) : c \in 1..n}
  <2> HIDE DEF T
  <2>1. QED
    BY <1>2, <1>3, <1>4, <1>5, PerContainer
<1> DEFINE r == [namespace |-> i.namespace, labels |-> i.labels \ {"pod-template-hash"},
                 networkAddrs |-> Concat(addrs), configMapRefs |-> Concat(given) \o vols,
                 configMapKeyRefs |-> Concat(keys)]
<1>9. ResourceFrom(i) = r
  BY Zenon DEF ResourceFrom, addrs, given, keys, vols, cs
<1>10. r \in Resource
  <2>1. i.namespace \in Namespaces /\ i.labels \ {"pod-template-hash"} \in SUBSET {"app"}
    BY DEF WorkloadInfo
  <2>2. Concat(given) \o vols \in Seq(Names)
    BY <1>7, <1>8
  <2>3. QED
    BY <1>8, <2>1, <2>2, Zenon DEF Resource
<1>11. Range(Concat(addrs)) = AddressesOf(OwnValues(i))
  <2>1. UNION {Range(addrs[c]) : c \in 1..n} = UNION {AddressesOf(Held(cs[c])) : c \in 1..n}
    BY <1>3
  <2>2. OwnValues(i) = UNION {Held(cs[c]) : c \in 1..n}
    BY <1>2, Zenon DEF OwnValues, Held, cs
  <2>3. UNION {AddressesOf(Held(cs[c])) : c \in 1..n} = AddressesOf(UNION {Held(cs[c]) : c \in 1..n})
    BY DEF AddressesOf
  <2>4. QED
    BY <1>8, <2>1, <2>2, <2>3, Zenon
<1>12. ASSUME NEW m \in Names PROVE m \in Range(Concat(given) \o vols) <=> RefersTo(i, m)
  <2>1. \A s, t \in Seq(Names) : Range(s \o t) = Range(s) \union Range(t)
    BY RangeConcatenation
  <2>2. Range(Concat(given) \o vols) = Range(Concat(given)) \union Range(vols)
    BY <1>7, <1>8, <2>1, Zenon
  <2>3. m \in Range(vols) <=> \E v \in DOMAIN i.volumes : i.volumes[v] = m
    BY <1>7, Zenon DEF Range
  <2>4. m \in Range(Concat(given))
          <=> \E c \in 1..n : \E e \in DOMAIN cs[c].envFrom : cs[c].envFrom[e] = m
    <3>1. m \in Range(Concat(given)) <=> \E c \in 1..n : m \in Range(cs[c].envFrom) \cap Names
      BY <1>4, <1>8
    <3>2. QED
      BY <3>1, Zenon DEF Range
  <2>5. QED
    BY <1>2, <2>2, <2>3, <2>4, Zenon DEF RefersTo, cs
<1>13. ASSUME NEW q \in KeyRef
       PROVE  q \in Range(Concat(keys)) <=> RefersToKey(i, q.name, q.key)
  <2>1. q \in Range(Concat(keys)) <=> \E c \in 1..n : KeyRefersIn(cs[c], q)
    BY <1>6, <1>8
  <2>2. QED
    BY <1>2, <2>1, Zenon DEF RefersToKey, KeyRefersIn, cs
<1>14. QED
  <2>1. /\ r.namespace = i.namespace /\ r.networkAddrs = Concat(addrs)
        /\ r.configMapRefs = Concat(given) \o vols /\ r.configMapKeyRefs = Concat(keys)
    OBVIOUS
  <2> HIDE DEF r
  <2>2. QED
    BY <1>9, <1>10, <1>11, <1>12, <1>13, <2>1, Zenon

-----------------------------------------------------------------------------
(* The inductive invariant *)

\* The manifests of a kind that are parsed.
Parsed(Kind) == Those(SubSeq(infos, 1, at), Kind)

\* Resources with the same references: inlining only adds addresses.
Alike(r, s) ==
  /\ r.namespace = s.namespace
  /\ r.configMapRefs = s.configMapRefs
  /\ r.configMapKeyRefs = s.configMapKeyRefs

\* The slices hold what the manifests say, in their order, and no reference
\* is looked up before all is parsed.
ParseInv ==
  /\ configmaps = Parsed(ConfigMap)
  /\ Len(workloads) = Len(Parsed(WorkloadInfo))
  /\ \A w \in DOMAIN workloads : Alike(workloads[w], ResourceFrom(Parsed(WorkloadInfo)[w]))
  /\ at < Len(infos) => wl = 1 /\ ref = 0

\* Reference n of resource r: those to whole ConfigMaps come first.
References(r) == 1..(Len(r.configMapRefs) + Len(r.configMapKeyRefs))
IsWhole(r, n) == n <= Len(r.configMapRefs)
Key(r, n) == r.configMapKeyRefs[n - Len(r.configMapRefs)]
NameIn(r, n) == IF IsWhole(r, n) THEN r.configMapRefs[n] ELSE Key(r, n).name

\* The ConfigMap of cms that it names, and the values that it gives.
Found(cms, r, n) == LastNamed(cms, <<r.namespace, NameIn(r, n)>>)
Answer(cms, r, n) ==
  {v \in Values : \E cm \in Found(cms, r, n) : \E k \in DOMAIN cm.data :
     v = cm.data[k] /\ (~IsWhole(r, n) => k = Key(r, n).key)}

\* What is to be reported of it, for workload w.
Faults(cms, r, n) ==
  {t \in {"ConfigMapNotFound", "ConfigMapKeyNotFound"} :
     IF t = "ConfigMapNotFound" THEN Found(cms, r, n) = {}
     ELSE /\ ~IsWhole(r, n) /\ Found(cms, r, n) # {}
          /\ \A cm \in Found(cms, r, n) : Key(r, n).key \notin DOMAIN cm.data}
Reports(cms, r, n, w) == {[type |-> t, wl |-> w, name |-> NameIn(r, n)] : t \in Faults(cms, r, n)}

\* The references of workload w that have been looked up.
LookedUp(w) == {n \in References(workloads[w]) : w < wl \/ (w = wl /\ n <= ref)}

Answers(w) == UNION {Answer(configmaps, workloads[w], n) : n \in LookedUp(w)}
ReportsFor(w) == UNION {Reports(configmaps, workloads[w], n, w) : n \in LookedUp(w)}

\* A workload has the addresses of its own strings, and those of the
\* references that have been looked up;
AddressInv ==
  \A w \in DOMAIN workloads :
    Range(workloads[w].networkAddrs) =
      AddressesOf(OwnValues(Parsed(WorkloadInfo)[w]) \union Answers(w))

\* what they did not find is reported, and nothing else.
ReportInv == errors = UNION {ReportsFor(w) : w \in DOMAIN workloads}

WorkloadsInv == TypeOK /\ ParseInv /\ AddressInv /\ ReportInv

\* A ConfigMap that is found has the name, and is the only one.
LEMMA LastNamedOne ==
  ASSUME NEW cms \in Seq(ConfigMap), NEW name
  PROVE  \A a, b \in LastNamed(cms, name) : a = b /\ a \in ConfigMap /\ a.fullName = name
<1> SUFFICES ASSUME NEW a \in LastNamed(cms, name), NEW b \in LastNamed(cms, name)
             PROVE  a = b /\ a \in ConfigMap /\ a.fullName = name
  OBVIOUS
<1>1. PICK i \in Having(cms, name) : a = cms[i] /\ \A j \in Having(cms, name) : j <= i
  BY DEF LastNamed
<1>2. PICK j \in Having(cms, name) : b = cms[j] /\ \A k \in Having(cms, name) : k <= j
  BY DEF LastNamed
<1>3. i \in 1..Len(cms) /\ j \in 1..Len(cms)
  BY DEF Having
<1>4. i = j
  BY <1>1, <1>2, <1>3
<1>5. QED
  BY <1>1, <1>2, <1>3, <1>4 DEF Having

\* The data of a ConfigMap.
LEMMA DataType ==
  ASSUME NEW cm \in ConfigMap
  PROVE  IsFiniteSet(DOMAIN cm.data) /\ \A k \in DOMAIN cm.data : cm.data[k] \in Values
<1>1. PICK K \in SUBSET Keys : IsFiniteSet(K) /\ cm.data \in [K -> Values]
  BY DEF ConfigMap
<1>2. QED
  BY <1>1

\* The addresses of a ConfigMap's data are the same in any order.
LEMMA InlinedExact ==
  ASSUME NEW cm \in ConfigMap, NEW addrs \in InlinedData(cm.data)
  PROVE  addrs \in Seq(Values \ {NoAddress}) /\ Range(addrs) = AddressesOf(Range(cm.data))
<1> DEFINE D == DOMAIN cm.data
           n == Cardinality(D)
<1>1. PICK order \in Bijection(1..n, D) :
             addrs = AddressesIn([k \in DOMAIN order |-> cm.data[order[k]]])
  BY Zenon DEF InlinedData
<1>2. n \in Nat
  BY DataType, FS_CardinalityType
<1> HIDE DEF n
<1>3. order \in [1..n -> D] /\ \A k \in D : \E j \in 1..n : order[j] = k
  BY <1>1, Zenon DEF Bijection, Injection, Surjection
<1> DEFINE values == [k \in DOMAIN order |-> cm.data[order[k]]]
<1>4. values \in Seq(Values)
  <2>1. \A k \in 1..n : cm.data[order[k]] \in Values
    BY <1>3, DataType
  <2>2. values \in [1..n -> Values]
    BY <1>3, <2>1
  <2>3. QED
    BY <1>2, <2>2
<1>5. Range(values) = Range(cm.data)
  BY <1>3 DEF Range
<1> HIDE DEF values
<1>6. QED
  BY <1>1, <1>4, <1>5, AddressesInExact, Zenon DEF values

-----------------------------------------------------------------------------
(* Types *)

\* Adding addresses to the workload at hand changes nothing else.
LEMMA AddExact ==
  ASSUME TypeOK, wl \in DOMAIN workloads, NEW addrs \in Seq(Values \ {NoAddress}),
         AddAddresses(addrs)
  PROVE  /\ workloads' \in Seq(Resource) /\ Len(workloads') = Len(workloads)
         /\ \A w \in DOMAIN workloads : w # wl => workloads'[w] = workloads[w]
         /\ Alike(workloads'[wl], workloads[wl])
         /\ workloads'[wl].networkAddrs = workloads[wl].networkAddrs \o addrs
<1> DEFINE r == workloads[wl]
           s == [r EXCEPT !.networkAddrs = r.networkAddrs \o addrs]
<1>1. workloads \in Seq(Resource) /\ r \in Resource
  BY DEF TypeOK
<1>2. workloads' = [workloads EXCEPT ![wl] = s]
  BY Zenon DEF AddAddresses
<1>3. /\ s \in Resource /\ s.networkAddrs = r.networkAddrs \o addrs
      /\ s.namespace = r.namespace /\ s.configMapRefs = r.configMapRefs
      /\ s.configMapKeyRefs = r.configMapKeyRefs
  <2> HIDE DEF r
  <2>1. r.networkAddrs \in Seq(Values \ {NoAddress})
    BY <1>1 DEF Resource
  <2>2. r.networkAddrs \o addrs \in Seq(Values \ {NoAddress})
    BY <2>1
  <2>3. QED
    BY <1>1, <2>2 DEF Resource
<1> HIDE DEF s
<1>4. workloads' \in Seq(Resource) /\ Len(workloads') = Len(workloads) /\ workloads'[wl] = s
  BY <1>1, <1>2, <1>3
<1>5. \A w \in DOMAIN workloads : w # wl => workloads'[w] = workloads[w]
  BY <1>1, <1>2
<1>6. QED
  BY <1>3, <1>4, <1>5, Zenon DEF Alike

\* What is looked up of a workload: the counters, and one reference.
LEMMA ReferenceAt ==
  ASSUME TypeOK, wl \in DOMAIN workloads, NEW n \in References(workloads[wl])
  PROVE  LET r == workloads[wl] IN
         /\ r \in Resource /\ NameIn(r, n) \in Names
         /\ IsWhole(r, n) => n \in DOMAIN r.configMapRefs
         /\ ~IsWhole(r, n) =>
              /\ n - Len(r.configMapRefs) \in DOMAIN r.configMapKeyRefs
              /\ Key(r, n) \in KeyRef
<1> DEFINE r == workloads[wl]
<1>1. r \in Resource
  BY DEF TypeOK
<1> HIDE DEF r
<1>2. r.configMapRefs \in Seq(Names) /\ r.configMapKeyRefs \in Seq(KeyRef)
  BY <1>1 DEF Resource
<1>3. n \in 1..(Len(r.configMapRefs) + Len(r.configMapKeyRefs))
  BY DEF r, References
<1>4. IsWhole(r, n) => n \in DOMAIN r.configMapRefs /\ r.configMapRefs[n] \in Names
  BY <1>2, <1>3 DEF IsWhole
<1>5. ~IsWhole(r, n) =>
        /\ n - Len(r.configMapRefs) \in DOMAIN r.configMapKeyRefs
        /\ Key(r, n) \in KeyRef
  <2>1. Len(r.configMapRefs) \in Nat /\ Len(r.configMapKeyRefs) \in Nat
    BY <1>2
  <2>2. ~IsWhole(r, n) => n - Len(r.configMapRefs) \in 1..Len(r.configMapKeyRefs)
    <3> DEFINE a == Len(r.configMapRefs)
               b == Len(r.configMapKeyRefs)
    <3>1. n \in 1..(a + b) /\ a \in Nat /\ b \in Nat
      BY <1>3, <2>1
    <3> HIDE DEF a, b
    <3>2. ~(n <= a) => n - a \in 1..b
      BY <3>1
    <3>3. QED
      BY <3>2, Zenon DEF a, b, IsWhole
  <2>3. \A k \in 1..Len(r.configMapKeyRefs) :
          k \in DOMAIN r.configMapKeyRefs /\ r.configMapKeyRefs[k] \in KeyRef
    BY <1>2
  <2>4. QED
    BY <2>2, <2>3, Zenon DEF Key
<1>6. \A q \in KeyRef : q.name \in Names
  BY DEF KeyRef
<1>7. NameIn(r, n) \in Names
  BY <1>4, <1>5, <1>6 DEF NameIn
<1>8. QED
  BY <1>1, <1>4, <1>5, <1>7, Zenon DEF r

\* One reference of the workload at hand is looked up: what it gives is
\* added, what it does not find is reported.
LooksUp ==
  LET r == workloads[wl]
      n == ref + 1
  IN  /\ wl \in DOMAIN workloads /\ n \in References(r) /\ at = Len(infos)
      /\ workloads' \in Seq(Resource) /\ Len(workloads') = Len(workloads)
      /\ \A w \in DOMAIN workloads : w # wl => workloads'[w] = workloads[w]
      /\ Alike(workloads'[wl], r)
      /\ Range(workloads'[wl].networkAddrs) = Range(r.networkAddrs) \union AddressesOf(Answer(configmaps, r, n))
      /\ errors' = errors \union Reports(configmaps, r, n, wl)
      /\ ref' = ref + 1
      /\ UNCHANGED <<infos, at, configmaps, wl>>

\* What the addresses of an answer, or their lack, do to a workload.
LEMMA AnswerAdded ==
  ASSUME TypeOK, wl \in DOMAIN workloads, NEW V \in SUBSET Values,
         \/ UNCHANGED workloads /\ V = {}
         \/ \E addrs \in Seq(Values \ {NoAddress}) :
              AddAddresses(addrs) /\ Range(addrs) = AddressesOf(V)
  PROVE  /\ workloads' \in Seq(Resource) /\ Len(workloads') = Len(workloads)
         /\ \A w \in DOMAIN workloads : w # wl => workloads'[w] = workloads[w]
         /\ Alike(workloads'[wl], workloads[wl])
         /\ Range(workloads'[wl].networkAddrs) = Range(workloads[wl].networkAddrs) \union AddressesOf(V)
<1>1. CASE UNCHANGED workloads /\ V = {}
  BY <1>1 DEF TypeOK, Alike, AddressesOf
<1>2. ASSUME NEW addrs \in Seq(Values \ {NoAddress}),
             AddAddresses(addrs), Range(addrs) = AddressesOf(V)
      PROVE  /\ workloads' \in Seq(Resource) /\ Len(workloads') = Len(workloads)
             /\ \A w \in DOMAIN workloads : w # wl => workloads'[w] = workloads[w]
             /\ Alike(workloads'[wl], workloads[wl])
             /\ Range(workloads'[wl].networkAddrs) = Range(workloads[wl].networkAddrs) \union AddressesOf(V)
  <2>1. /\ workloads' \in Seq(Resource) /\ Len(workloads') = Len(workloads)
        /\ \A w \in DOMAIN workloads : w # wl => workloads'[w] = workloads[w]
        /\ Alike(workloads'[wl], workloads[wl])
        /\ workloads'[wl].networkAddrs = workloads[wl].networkAddrs \o addrs
    BY <1>2, AddExact
  <2>2. workloads[wl].networkAddrs \in Seq(Values \ {NoAddress})
    <3>1. workloads[wl] \in Resource
      BY DEF TypeOK
    <3>2. QED
      BY <3>1 DEF Resource
  <2> DEFINE T == Values \ {NoAddress}
  <2> HIDE DEF T
  <2>3. \A s, t \in Seq(T) : Range(s \o t) = Range(s) \union Range(t)
    BY RangeConcatenation
  <2>4. QED
    BY <1>2, <2>1, <2>2, <2>3, Zenon DEF T
<1>3. QED
  BY <1>1, <1>2

\* The ConfigMap that is found, if there is one.
LEMMA FoundOne ==
  ASSUME TypeOK, NEW r, NEW n
  PROVE  \A a, b \in Found(configmaps, r, n) : a = b /\ a \in ConfigMap
<1>1. configmaps \in Seq(ConfigMap)
  BY DEF TypeOK
<1>2. \A a, b \in LastNamed(configmaps, <<r.namespace, NameIn(r, n)>>) : a = b /\ a \in ConfigMap
  BY <1>1, LastNamedOne
<1>3. QED
  BY <1>2, Zenon DEF Found

\* A reference to a whole ConfigMap.
LEMMA InlineRefLooksUp == TypeOK /\ InlineRef => LooksUp
<1> SUFFICES ASSUME TypeOK, InlineRef PROVE LooksUp
  OBVIOUS
<1> DEFINE r == workloads[wl]
           n == ref + 1
<1>1. /\ at = Len(infos) /\ wl \in DOMAIN workloads
      /\ r \in Resource /\ n \in 1..Len(r.configMapRefs) /\ ref \in Nat
  <2>1. wl \in 1..Len(workloads)
    BY DEF TypeOK, InlineRef, Inlining
  <2>2. wl \in DOMAIN workloads /\ r \in Resource
    BY <2>1 DEF TypeOK
  <2>3. r.configMapRefs \in Seq(Names)
    BY <2>2 DEF Resource
  <2>4. ref \in Nat
    BY <2>2 DEF TypeOK
  <2>5. ref < Len(r.configMapRefs) /\ at = Len(infos)
    BY DEF InlineRef, Inlining, Refs
  <2>6. QED
    BY <2>2, <2>3, <2>4, <2>5
<1>2. n \in References(r) /\ IsWhole(r, n)
  <2>1. r.configMapRefs \in Seq(Names) /\ r.configMapKeyRefs \in Seq(KeyRef)
    BY <1>1 DEF Resource
  <2> DEFINE a == Len(r.configMapRefs)
             b == Len(r.configMapKeyRefs)
  <2>2. a \in Nat /\ b \in Nat /\ n \in 1..a
    BY <1>1, <2>1
  <2> HIDE DEF a, b
  <2>3. n \in 1..(a + b) /\ n <= a
    BY <2>2
  <2>4. QED
    BY <2>3, Zenon DEF a, b, References, IsWhole
<1>3. /\ Found(configmaps, r, n) = Named(<<r.namespace, r.configMapRefs[n]>>)
      /\ NameIn(r, n) = r.configMapRefs[n]
  BY <1>2, Zenon DEF Found, NameIn, Named
<1>4. Answer(configmaps, r, n) \in SUBSET Values
  BY DEF Answer
<1>5. /\ errors' = errors \union Reports(configmaps, r, n, wl)
      /\ \/ UNCHANGED workloads /\ Answer(configmaps, r, n) = {}
         \/ \E addrs \in Seq(Values \ {NoAddress}) :
              AddAddresses(addrs) /\ Range(addrs) = AddressesOf(Answer(configmaps, r, n))
  <2>1. CASE \E cm \in Found(configmaps, r, n) : \E addrs \in InlinedData(cm.data) :
               AddAddresses(addrs) /\ UNCHANGED errors
    <3>1. PICK cm \in Found(configmaps, r, n), addrs \in Seq(Values \ {NoAddress}) :
            AddAddresses(addrs) /\ UNCHANGED errors /\ Range(addrs) = AddressesOf(Range(cm.data))
      BY <2>1, FoundOne, InlinedExact
    <3>2. Answer(configmaps, r, n) = Range(cm.data)
      <4>1. Range(cm.data) \subseteq Values
        BY FoundOne, DataType DEF Range
      <4>2. ASSUME NEW v \in Values
            PROVE  v \in Answer(configmaps, r, n) <=> v \in Range(cm.data)
        <5>1. \A a \in Found(configmaps, r, n) : a = cm
          BY FoundOne
        <5>2. v \in Answer(configmaps, r, n) <=> \E k \in DOMAIN cm.data : v = cm.data[k]
          BY <1>2, <5>1, Zenon DEF Answer
        <5>3. QED
          BY <5>2, Zenon DEF Range
      <4>3. QED
        BY <1>4, <4>1, <4>2
    <3>3. Reports(configmaps, r, n, wl) = {}
      BY <1>2, Zenon DEF Reports, Faults
    <3>4. QED
      BY <3>1, <3>2, <3>3
  <2>2. CASE /\ Found(configmaps, r, n) = {} /\ UNCHANGED workloads
             /\ errors' = errors \union
                  {[type |-> "ConfigMapNotFound", wl |-> wl, name |-> NameIn(r, n)]}
    <3>1. Answer(configmaps, r, n) = {}
      BY <2>2 DEF Answer
    <3>2. Faults(configmaps, r, n) = {"ConfigMapNotFound"}
      BY <1>2, <2>2 DEF Faults
    <3>3. QED
      BY <2>2, <3>1, <3>2, Zenon DEF Reports
  <2>3. QED
    BY <1>3, <2>1, <2>2, Zenon DEF InlineRef, Refs
<1>6. UNCHANGED <<infos, at, configmaps, wl>> /\ ref' = ref + 1
  BY DEF InlineRef, NextRef
<1> HIDE DEF r, n
<1>7. /\ workloads' \in Seq(Resource) /\ Len(workloads') = Len(workloads)
      /\ \A w \in DOMAIN workloads : w # wl => workloads'[w] = workloads[w]
      /\ Alike(workloads'[wl], workloads[wl])
      /\ Range(workloads'[wl].networkAddrs)
           = Range(workloads[wl].networkAddrs) \union AddressesOf(Answer(configmaps, r, n))
  BY <1>1, <1>4, <1>5, AnswerAdded
<1>8. QED
  BY <1>1, <1>2, <1>5, <1>6, <1>7, Zenon DEF LooksUp, r, n

\* A reference to a key.
LEMMA InlineKeyRefLooksUp == TypeOK /\ InlineKeyRef => LooksUp
<1> SUFFICES ASSUME TypeOK, InlineKeyRef PROVE LooksUp
  OBVIOUS
<1> DEFINE r == workloads[wl]
           n == ref + 1
           q == Key(r, n)
<1>1. /\ at = Len(infos) /\ wl \in DOMAIN workloads /\ r \in Resource /\ ref \in Nat
      /\ n \in References(r) /\ ~IsWhole(r, n)
      /\ KeyRefs[ref - Len(Refs) + 1] = q
  <2>1. wl \in 1..Len(workloads)
    BY DEF TypeOK, InlineKeyRef, Inlining
  <2>2. wl \in DOMAIN workloads /\ r \in Resource
    BY <2>1 DEF TypeOK
  <2> DEFINE a == Len(r.configMapRefs)
             b == Len(r.configMapKeyRefs)
  <2>3. a \in Nat /\ b \in Nat
    BY <2>2 DEF Resource
  <2>4. ref \in Nat
    BY <2>2 DEF TypeOK
  <2>5. ref \in a..(a + b - 1) /\ at = Len(infos)
    BY DEF InlineKeyRef, Inlining, Refs, KeyRefs
  <2>6. KeyRefs = r.configMapKeyRefs /\ Refs = r.configMapRefs
    BY DEF KeyRefs, Refs
  <2> HIDE DEF a, b, r
  <2>7. n \in 1..(a + b) /\ ~(n <= a) /\ n - a = (ref - a) + 1
    BY <2>3, <2>4, <2>5
  <2>8. QED
    BY <2>2, <2>4, <2>5, <2>6, <2>7, Zenon DEF a, b, r, References, IsWhole, Key
<1>2. NameIn(r, n) = q.name /\ Found(configmaps, r, n) = Named(<<r.namespace, q.name>>)
  BY <1>1, Zenon DEF NameIn, Found, Named
<1>3. Answer(configmaps, r, n) \in SUBSET Values
  BY DEF Answer
<1>4. errors' = errors \union Reports(configmaps, r, n, wl)
  <2>1. errors' = errors \union KeyErrors(q, Found(configmaps, r, n))
    BY <1>1, <1>2, Zenon DEF InlineKeyRef
  <2>2. KeyErrors(q, Found(configmaps, r, n)) = Reports(configmaps, r, n, wl)
    <3>1. CASE Found(configmaps, r, n) = {}
      <4>1. Faults(configmaps, r, n) = {"ConfigMapNotFound"}
        BY <1>1, <3>1 DEF Faults
      <4>2. QED
        BY <1>2, <3>1, <4>1, Zenon DEF Reports, KeyErrors
    <3>2. CASE Found(configmaps, r, n) # {} /\ \A cm \in Found(configmaps, r, n) : q.key \notin DOMAIN cm.data
      <4>1. Faults(configmaps, r, n) = {"ConfigMapKeyNotFound"}
        BY <1>1, <3>2 DEF Faults
      <4>2. KeyErrors(q, Found(configmaps, r, n)) = {[type |-> "ConfigMapKeyNotFound", wl |-> wl, name |-> q.name]}
        BY <3>2, Zenon DEF KeyErrors
      <4>3. QED
        BY <1>2, <4>1, <4>2, Zenon DEF Reports
    <3>3. CASE Found(configmaps, r, n) # {} /\ ~\A cm \in Found(configmaps, r, n) : q.key \notin DOMAIN cm.data
      <4>1. Faults(configmaps, r, n) = {}
        BY <1>1, <3>3 DEF Faults
      <4>2. KeyErrors(q, Found(configmaps, r, n)) = {}
        BY <3>3, Zenon DEF KeyErrors
      <4>3. QED
        BY <4>1, <4>2, Zenon DEF Reports
    <3>4. QED
      BY <3>1, <3>2, <3>3, Zenon
  <2>3. QED
    BY <2>1, <2>2, Zenon
<1>5. \/ UNCHANGED workloads /\ Answer(configmaps, r, n) = {}
      \/ \E addrs \in Seq(Values \ {NoAddress}) :
           AddAddresses(addrs) /\ Range(addrs) = AddressesOf(Answer(configmaps, r, n))
  <2>1. \/ \E cm \in Found(configmaps, r, n) :
             q.key \in DOMAIN cm.data /\ AddAddresses(AddressesIn(<<cm.data[q.key]>>))
        \/ (\A cm \in Found(configmaps, r, n) : q.key \notin DOMAIN cm.data) /\ UNCHANGED workloads
    BY <1>1, <1>2, Zenon DEF InlineKeyRef
  <2>2. CASE (\A cm \in Found(configmaps, r, n) : q.key \notin DOMAIN cm.data) /\ UNCHANGED workloads
    <3>1. Answer(configmaps, r, n) = {}
      BY <1>1, <2>2, Zenon DEF Answer
    <3>2. QED
      BY <2>2, <3>1
  <2>3. ASSUME NEW cm \in Found(configmaps, r, n), q.key \in DOMAIN cm.data,
               AddAddresses(AddressesIn(<<cm.data[q.key]>>))
        PROVE  \E addrs \in Seq(Values \ {NoAddress}) :
                 AddAddresses(addrs) /\ Range(addrs) = AddressesOf(Answer(configmaps, r, n))
    <3> DEFINE v == cm.data[q.key]
    <3>1. v \in Values
      BY <2>3, FoundOne, DataType
    <3>2. Answer(configmaps, r, n) = {v}
      <4>1. \A c \in Found(configmaps, r, n) : c = cm
        BY FoundOne
      <4>2. \A u \in Values : u \in Answer(configmaps, r, n) <=> u = v
        BY <1>1, <2>3, <4>1, Zenon DEF Answer
      <4> HIDE DEF v, q
      <4>3. QED
        BY <1>3, <3>1, <4>2
    <3> HIDE DEF v
    <3>3. <<v>> \in Seq(Values) /\ Range(<<v>>) = {v}
      BY <3>1 DEF Range
    <3>4. /\ AddressesIn(<<v>>) \in Seq(Values \ {NoAddress})
          /\ Range(AddressesIn(<<v>>)) = AddressesOf({v})
      BY <3>3, AddressesInExact
    <3>5. QED
      BY <2>3, <3>2, <3>4, Zenon DEF v
  <2>4. QED
    BY <2>1, <2>2, <2>3, Zenon
<1>6. UNCHANGED <<infos, at, configmaps, wl>> /\ ref' = ref + 1
  BY DEF InlineKeyRef
<1> HIDE DEF r, n
<1>7. /\ workloads' \in Seq(Resource) /\ Len(workloads') = Len(workloads)
      /\ \A w \in DOMAIN workloads : w # wl => workloads'[w] = workloads[w]
      /\ Alike(workloads'[wl], workloads[wl])
      /\ Range(workloads'[wl].networkAddrs)
           = Range(workloads[wl].networkAddrs) \union AddressesOf(Answer(configmaps, r, n))
  BY <1>1, <1>3, <1>5, AnswerAdded
<1>8. QED
  BY <1>1, <1>4, <1>6, <1>7, Zenon DEF LooksUp, r, n

-----------------------------------------------------------------------------
(* Types *)

LEMMA TypeInit == Init => TypeOK
<1> SUFFICES ASSUME Init PROVE TypeOK
  OBVIOUS
<1>1. infos \in Seq(WorkloadInfo \union ConfigMap)
  BY WorkloadsAssumption DEF Init
<1>2. Len(infos) \in Nat
  BY <1>1
<1>3. QED
  BY <1>1, <1>2 DEF Init, TypeOK

\* What Parse reads, and what it makes of it.
LEMMA ParseExact ==
  ASSUME TypeOK, Parse
  PROVE  LET i == infos[at + 1] IN
         /\ at + 1 \in 1..Len(infos) /\ at' = at + 1
         /\ \/ /\ i \in WorkloadInfo /\ i \notin ConfigMap
               /\ workloads' = Append(workloads, ResourceFrom(i)) /\ UNCHANGED configmaps
            \/ /\ i \in ConfigMap /\ i \notin WorkloadInfo
               /\ configmaps' = Append(configmaps, i) /\ UNCHANGED workloads
<1> DEFINE i == infos[at + 1]
<1>1. infos \in Seq(WorkloadInfo \union ConfigMap) /\ at \in 0..Len(infos)
  BY DEF TypeOK
<1>2. at + 1 \in 1..Len(infos) /\ at' = at + 1
  BY <1>1 DEF Parse
<1>3. i \in WorkloadInfo \union ConfigMap
  BY <1>1, <1>2
<1>4. /\ i \in WorkloadInfo => i.kind = "workload"
      /\ i \in ConfigMap => i.kind = "configmap"
  BY DEF WorkloadInfo, ConfigMap
<1>5. CASE i.kind = "workload"
  <2>1. i \in WorkloadInfo /\ i \notin ConfigMap
    BY <1>3, <1>4, <1>5
  <2>2. workloads' = Append(workloads, ResourceFrom(i)) /\ UNCHANGED configmaps
    BY <1>5 DEF Parse
  <2>3. QED
    BY <1>2, <2>1, <2>2
<1>6. CASE i.kind # "workload"
  <2>1. i \in ConfigMap /\ i \notin WorkloadInfo
    BY <1>3, <1>4, <1>6
  <2>2. configmaps' = Append(configmaps, i) /\ UNCHANGED workloads
    BY <1>6 DEF Parse
  <2>3. QED
    BY <1>2, <2>1, <2>2
<1>7. QED
  BY <1>5, <1>6

\* How many references the workload at hand has.
LEMMA RefsAt ==
  ASSUME TypeOK
  PROVE  /\ wl \in 1..(Len(workloads) + 1) /\ Len(workloads) \in Nat /\ ref \in Nat
         /\ wl \in DOMAIN workloads =>
              /\ workloads[wl] \in Resource
              /\ Len(workloads[wl].configMapRefs) \in Nat
              /\ Len(workloads[wl].configMapKeyRefs) \in Nat
              /\ ref <= Len(workloads[wl].configMapRefs) + Len(workloads[wl].configMapKeyRefs)
         /\ wl \notin DOMAIN workloads => ref = 0
<1>1. workloads \in Seq(Resource) /\ wl \in 1..(Len(workloads) + 1)
  BY DEF TypeOK
<1>2. CASE wl \in DOMAIN workloads
  <2>1. workloads[wl] \in Resource
    BY <1>1, <1>2
  <2>2. workloads[wl].configMapRefs \in Seq(Names) /\ workloads[wl].configMapKeyRefs \in Seq(KeyRef)
    BY <2>1 DEF Resource
  <2> DEFINE a == Len(workloads[wl].configMapRefs)
             b == Len(workloads[wl].configMapKeyRefs)
  <2>3. ref \in 0..(a + b)
    BY <1>2 DEF TypeOK, Refs, KeyRefs
  <2>4. a \in Nat /\ b \in Nat
    BY <2>2
  <2> HIDE DEF a, b
  <2>5. ref \in Nat /\ ref <= a + b
    BY <2>3, <2>4
  <2>6. Len(workloads) \in Nat
    BY <1>1
  <2>7. QED
    BY <1>1, <1>2, <2>1, <2>4, <2>5, <2>6, Zenon DEF a, b
<1>3. CASE wl \notin DOMAIN workloads
  <2>1. ref \in 0..0
    BY <1>3, Zenon DEF TypeOK
  <2>2. ref = 0 /\ ref \in Nat /\ Len(workloads) \in Nat
    BY <1>1, <2>1
  <2>3. QED
    BY <1>1, <1>3, <2>2, Zenon
<1>4. QED
  BY <1>2, <1>3

LEMMA TypeParse == TypeOK /\ Parse => TypeOK'
<1> SUFFICES ASSUME TypeOK, Parse PROVE TypeOK'
  OBVIOUS
<1> DEFINE i == infos[at + 1]
<1>1. at + 1 \in 1..Len(infos) /\ at' = at + 1 /\ UNCHANGED <<infos, wl, ref, errors>>
  BY ParseExact DEF Parse
<1>2. at' \in 0..Len(infos')
  BY <1>1
<1>3. /\ workloads' \in Seq(Resource) /\ configmaps' \in Seq(ConfigMap)
      /\ Len(workloads') \in {Len(workloads), Len(workloads) + 1}
      /\ \A w \in DOMAIN workloads : workloads'[w] = workloads[w]
  <2>1. workloads \in Seq(Resource) /\ configmaps \in Seq(ConfigMap)
    BY DEF TypeOK
  <2>2. ASSUME NEW r \in Resource, workloads' = Append(workloads, r)
        PROVE  /\ workloads' \in Seq(Resource) /\ Len(workloads') = Len(workloads) + 1
               /\ \A w \in DOMAIN workloads : workloads'[w] = workloads[w]
    BY <2>1, <2>2
  <2>3. CASE /\ i \in WorkloadInfo
             /\ workloads' = Append(workloads, ResourceFrom(i)) /\ UNCHANGED configmaps
    BY <2>1, <2>2, <2>3, ResourceExact
  <2>4. CASE /\ i \in ConfigMap
             /\ configmaps' = Append(configmaps, i) /\ UNCHANGED workloads
    BY <2>1, <2>4
  <2>5. QED
    BY <2>3, <2>4, ParseExact
<1>4. DOMAIN workloads \subseteq DOMAIN workloads' /\ wl' \in 1..(Len(workloads') + 1)
  BY <1>1, <1>3, RefsAt DEF TypeOK
<1>5. ref' \in 0..(IF wl' \in DOMAIN workloads' THEN Len(Refs') + Len(KeyRefs') ELSE 0)
  <2>1. CASE wl \in DOMAIN workloads
    <3>1. /\ wl' \in DOMAIN workloads' /\ Refs' = workloads[wl].configMapRefs
          /\ KeyRefs' = workloads[wl].configMapKeyRefs
      BY <1>1, <1>3, <1>4, <2>1 DEF Refs, KeyRefs
    <3> DEFINE a == Len(workloads[wl].configMapRefs)
               b == Len(workloads[wl].configMapKeyRefs)
    <3>2. a \in Nat /\ b \in Nat /\ ref \in Nat /\ ref <= a + b
      BY <2>1, RefsAt
    <3> HIDE DEF a, b
    <3>3. ref' \in 0..(a + b)
      BY <1>1, <3>2
    <3>4. QED
      BY <3>1, <3>3, Zenon DEF a, b
  <2>2. CASE wl \notin DOMAIN workloads
    <3>1. ref' = 0
      BY <1>1, <2>2, RefsAt
    <3>2. wl' \in DOMAIN workloads' => Len(Refs') \in Nat /\ Len(KeyRefs') \in Nat
      <4>1. wl' \in DOMAIN workloads' => workloads'[wl'] \in Resource
        BY <1>3
      <4>2. \A r \in Resource : Len(r.configMapRefs) \in Nat /\ Len(r.configMapKeyRefs) \in Nat
        BY DEF Resource
      <4>3. QED
        BY <4>1, <4>2 DEF Refs, KeyRefs
    <3>3. QED
      BY <3>1, <3>2
  <2>3. QED
    BY <2>1, <2>2
<1>6. errors' \subseteq [type : {"ConfigMapNotFound", "ConfigMapKeyNotFound"},
                         wl : DOMAIN workloads', name : Names]
  BY <1>1, <1>4 DEF TypeOK
<1>7. infos' \in Seq(WorkloadInfo \union ConfigMap)
  BY <1>1 DEF TypeOK
<1>8. QED
  BY <1>2, <1>3, <1>4, <1>5, <1>6, <1>7 DEF TypeOK

LEMMA TypeLooksUp == TypeOK /\ LooksUp => TypeOK'
<1> SUFFICES ASSUME TypeOK, LooksUp PROVE TypeOK'
  OBVIOUS
<1> DEFINE r == workloads[wl]
           n == ref + 1
<1>1. /\ wl \in DOMAIN workloads /\ n \in References(r) /\ workloads' \in Seq(Resource)
      /\ Len(workloads') = Len(workloads) /\ Alike(workloads'[wl], r)
      /\ errors' = errors \union Reports(configmaps, r, n, wl)
      /\ ref' = ref + 1 /\ UNCHANGED <<infos, at, configmaps, wl>>
  BY DEF LooksUp
<1>2. DOMAIN workloads' = DOMAIN workloads
  BY <1>1 DEF TypeOK
<1>3. ref' \in 0..(IF wl' \in DOMAIN workloads' THEN Len(Refs') + Len(KeyRefs') ELSE 0)
  <2>1. Refs' = r.configMapRefs /\ KeyRefs' = r.configMapKeyRefs /\ wl' \in DOMAIN workloads'
    BY <1>1, <1>2 DEF Refs, KeyRefs, Alike
  <2> DEFINE a == Len(r.configMapRefs)
             b == Len(r.configMapKeyRefs)
  <2>2. ref' \in 1..(a + b)
    BY <1>1, Zenon DEF References
  <2>3. a \in Nat /\ b \in Nat
    BY <1>1, RefsAt
  <2> HIDE DEF a, b
  <2>4. ref' \in 0..(a + b)
    BY <2>2, <2>3
  <2>5. QED
    BY <2>1, <2>4, Zenon DEF a, b
<1>4. errors' \subseteq [type : {"ConfigMapNotFound", "ConfigMapKeyNotFound"},
                         wl : DOMAIN workloads', name : Names]
  <2>1. NameIn(r, n) \in Names
    BY <1>1, ReferenceAt
  <2> HIDE DEF r, n
  <2>2. Reports(configmaps, r, n, wl)
          \subseteq [type : {"ConfigMapNotFound", "ConfigMapKeyNotFound"}, wl : DOMAIN workloads, name : Names]
    BY <1>1, <2>1 DEF Reports, Faults
  <2>3. QED
    BY <1>1, <1>2, <2>2 DEF TypeOK
<1>5. wl' \in 1..(Len(workloads') + 1) /\ at' \in 0..Len(infos')
  BY <1>1 DEF TypeOK
<1>6. infos' \in Seq(WorkloadInfo \union ConfigMap) /\ configmaps' \in Seq(ConfigMap)
  BY <1>1 DEF TypeOK
<1>7. QED
  BY <1>1, <1>3, <1>4, <1>5, <1>6 DEF TypeOK

LEMMA TypeNextWorkload == TypeOK /\ NextWorkload => TypeOK'
<1> SUFFICES ASSUME TypeOK, NextWorkload PROVE TypeOK'
  OBVIOUS
<1>1. /\ wl <= Len(workloads) /\ wl' = wl + 1 /\ ref' = 0
      /\ UNCHANGED <<infos, at, workloads, configmaps, errors>>
  BY DEF NextWorkload, Inlining
<1>2. wl' \in 1..(Len(workloads') + 1)
  BY <1>1, RefsAt
<1>3. ref' \in 0..(IF wl' \in DOMAIN workloads' THEN Len(Refs') + Len(KeyRefs') ELSE 0)
  <2>1. wl' \in DOMAIN workloads' => workloads'[wl'] \in Resource
    BY <1>1 DEF TypeOK
  <2>2. \A r \in Resource : Len(r.configMapRefs) \in Nat /\ Len(r.configMapKeyRefs) \in Nat
    BY DEF Resource
  <2>3. wl' \in DOMAIN workloads' => Len(Refs') \in Nat /\ Len(KeyRefs') \in Nat
    BY <2>1, <2>2 DEF Refs, KeyRefs
  <2>4. QED
    BY <1>1, <2>3
<1>4. QED
  BY <1>1, <1>2, <1>3 DEF TypeOK

\* The types of parsing and inlining hold: no index runs past its slice, and
\* each workload's addresses are addresses and its references complete.
THEOREM TypeCorrect == Spec => []TypeOK
<1>1. TypeOK /\ [Next \/ Done]_wlVars => TypeOK'
  <2> SUFFICES ASSUME TypeOK, [Next \/ Done]_wlVars PROVE TypeOK'
    OBVIOUS
  <2>1. CASE Parse
    BY <2>1, TypeParse
  <2>2. CASE InlineRef
    BY <2>2, InlineRefLooksUp, TypeLooksUp
  <2>3. CASE InlineKeyRef
    BY <2>3, InlineKeyRefLooksUp, TypeLooksUp
  <2>4. CASE NextWorkload
    BY <2>4, TypeNextWorkload
  <2>5. CASE UNCHANGED wlVars
    BY <2>5 DEF wlVars, TypeOK, Refs, KeyRefs
  <2>6. QED
    BY <2>1, <2>2, <2>3, <2>4, <2>5 DEF Next, Done
<1>2. QED
  BY <1>1, TypeInit, PTL DEF Spec

-----------------------------------------------------------------------------
(* The slices hold what the manifests say *)

\* One manifest more is parsed.
LEMMA ParsedNext ==
  ASSUME TypeOK, at + 1 \in 1..Len(infos), at' = at + 1, UNCHANGED infos, NEW S
  PROVE  Parsed(S)' = Keep(Parsed(S), infos[at + 1], S)
<1>1. infos \in Seq(WorkloadInfo \union ConfigMap) /\ (at + 1) - 1 = at
  BY DEF TypeOK
<1> DEFINE T == WorkloadInfo \union ConfigMap
           n == at + 1
<1> HIDE DEF T
<1>2. infos \in Seq(T) /\ n \in 1..Len(infos)
  BY <1>1 DEF T
<1> HIDE DEF n
<1>3. Those(SubSeq(infos, 1, n), S) = Keep(Those(SubSeq(infos, 1, n - 1), S), infos[n], S)
  BY <1>2, ThoseNext
<1>4. QED
  BY <1>1, <1>3, Zenon DEF Parsed, n

\* What is parsed are manifests of the kind.
LEMMA ParsedType ==
  ASSUME TypeOK, NEW S
  PROVE  Parsed(S) \in Seq(S)
<1> DEFINE T == WorkloadInfo \union ConfigMap
           s == SubSeq(infos, 1, at)
<1>1. infos \in Seq(T) /\ at \in 0..Len(infos)
  BY DEF TypeOK
<1> HIDE DEF T
<1>2. s \in Seq(T)
  <2>1. \A i \in 1..at : infos[i] \in T
    BY <1>1
  <2>2. QED
    BY <1>1, <2>1, SubSeqProperties
<1> HIDE DEF s
<1>3. Those(s, S) \in Seq(S)
  BY <1>2, ThoseIn
<1>4. QED
  BY <1>3, Zenon DEF Parsed, s

LEMMA ParseInvInit == Init => ParseInv
<1> SUFFICES ASSUME Init PROVE ParseInv
  OBVIOUS
<1>1. infos \in Seq(WorkloadInfo \union ConfigMap) /\ at = 0
  BY WorkloadsAssumption DEF Init
<1>2. \A S : Parsed(S) = <<>>
  BY <1>1, FirstNoneAll, ThoseEmpty DEF Parsed
<1>3. QED
  BY <1>2 DEF Init, ParseInv

\* Alike is an equivalence.
LEMMA AlikeTransitive ==
  ASSUME NEW r, NEW s, NEW t, Alike(r, s), Alike(s, t)
  PROVE  Alike(r, t)
BY DEF Alike

LEMMA ParseInvParse == TypeOK /\ ParseInv /\ Parse => ParseInv'
<1> SUFFICES ASSUME TypeOK, ParseInv, Parse PROVE ParseInv'
  OBVIOUS
<1> DEFINE i == infos[at + 1]
           ms == Parsed(WorkloadInfo)
           ms2 == Parsed(WorkloadInfo)'
<1>1. at + 1 \in 1..Len(infos) /\ at' = at + 1 /\ UNCHANGED <<infos, wl, ref, errors>>
  BY ParseExact DEF Parse
<1>2. /\ ms2 = Keep(ms, i, WorkloadInfo)
      /\ Parsed(ConfigMap)' = Keep(Parsed(ConfigMap), i, ConfigMap)
  BY <1>1, ParsedNext
<1>3. ms \in Seq(WorkloadInfo) /\ workloads \in Seq(Resource)
  BY ParsedType DEF TypeOK
<1>4. /\ configmaps = Parsed(ConfigMap) /\ Len(workloads) = Len(ms)
      /\ \A w \in DOMAIN workloads : Alike(workloads[w], ResourceFrom(ms[w]))
      /\ wl = 1 /\ ref = 0
  <2>1. at < Len(infos)
    BY DEF Parse
  <2>2. QED
    BY <2>1 DEF ParseInv
<1> HIDE DEF ms, ms2
<1>5. /\ configmaps' = Parsed(ConfigMap)' /\ Len(workloads') = Len(ms2)
      /\ \A w \in DOMAIN workloads' : Alike(workloads'[w], ResourceFrom(ms2[w]))
  <2>1. CASE /\ i \in WorkloadInfo /\ i \notin ConfigMap
             /\ workloads' = Append(workloads, ResourceFrom(i)) /\ UNCHANGED configmaps
    <3> DEFINE r == ResourceFrom(i)
    <3>1. r \in Resource
      BY <2>1, ResourceExact
    <3> HIDE DEF r, i
    <3>2. ms2 = Append(ms, i) /\ workloads' = Append(workloads, r)
      BY <1>2, <2>1, Zenon DEF Keep, r
    <3>3. configmaps' = Parsed(ConfigMap)'
      BY <1>2, <1>4, <2>1, Zenon DEF Keep
    <3>4. Len(workloads') = Len(ms2)
      BY <1>3, <1>4, <2>1, <3>1, <3>2
    <3>5. ASSUME NEW w \in DOMAIN workloads'
          PROVE  Alike(workloads'[w], ResourceFrom(ms2[w]))
      <4>1. CASE w \in DOMAIN workloads
        <5>1. workloads'[w] = workloads[w] /\ ms2[w] = ms[w]
          BY <1>3, <1>4, <2>1, <3>1, <3>2, <4>1
        <5>2. QED
          BY <1>4, <4>1, <5>1
      <4>2. CASE w \notin DOMAIN workloads
        <5>1. workloads'[w] = r /\ ms2[w] = i
          BY <1>3, <1>4, <2>1, <3>1, <3>2, <4>2
        <5>2. QED
          BY <5>1, Zenon DEF r, Alike
      <4>3. QED
        BY <4>1, <4>2
    <3>6. QED
      BY <3>3, <3>4, <3>5
  <2>2. CASE /\ i \in ConfigMap /\ i \notin WorkloadInfo
             /\ configmaps' = Append(configmaps, i) /\ UNCHANGED workloads
    <3> HIDE DEF i
    <3>1. ms2 = ms /\ configmaps' = Parsed(ConfigMap)'
      BY <1>2, <1>4, <2>2, Zenon DEF Keep
    <3>2. QED
      BY <1>4, <2>2, <3>1
  <2>3. QED
    BY <2>1, <2>2, ParseExact
<1>6. wl' = 1 /\ ref' = 0
  BY <1>1, <1>4
<1>7. QED
  BY <1>5, <1>6, Zenon DEF ParseInv, ms2

\* When all is parsed, Parsed does not change any more.
LEMMA ParseInvLater ==
  ASSUME TypeOK, ParseInv, at = Len(infos), UNCHANGED <<infos, at, configmaps>>,
         Len(workloads') = Len(workloads), workloads' \in Seq(Resource),
         \A w \in DOMAIN workloads : Alike(workloads'[w], workloads[w])
  PROVE  ParseInv'
<1>1. Parsed(WorkloadInfo)' = Parsed(WorkloadInfo) /\ Parsed(ConfigMap)' = Parsed(ConfigMap)
  BY Zenon DEF Parsed
<1> DEFINE ms == Parsed(WorkloadInfo)
<1>2. DOMAIN workloads' = DOMAIN workloads
  BY DEF TypeOK
<1>3. \A w \in DOMAIN workloads : Alike(workloads'[w], ResourceFrom(ms[w]))
  BY AlikeTransitive, Zenon DEF ParseInv
<1>4. ~(at' < Len(infos'))
  BY DEF TypeOK
<1> HIDE DEF ms
<1>5. configmaps' = Parsed(ConfigMap)' /\ Len(workloads') = Len(Parsed(WorkloadInfo)')
  BY <1>1 DEF ParseInv
<1>6. \A w \in DOMAIN workloads' : Alike(workloads'[w], ResourceFrom(Parsed(WorkloadInfo)'[w]))
  BY <1>1, <1>2, <1>3, Zenon DEF ms
<1>7. QED
  BY <1>4, <1>5, <1>6, Zenon DEF ParseInv

LEMMA ParseInvLooksUp == TypeOK /\ ParseInv /\ LooksUp => ParseInv'
<1> SUFFICES ASSUME TypeOK, ParseInv, LooksUp PROVE ParseInv'
  OBVIOUS
<1>1. /\ at = Len(infos) /\ UNCHANGED <<infos, at, configmaps>>
      /\ Len(workloads') = Len(workloads) /\ workloads' \in Seq(Resource)
  BY DEF LooksUp
<1>2. \A w \in DOMAIN workloads : Alike(workloads'[w], workloads[w])
  BY DEF LooksUp, Alike
<1>3. QED
  BY <1>1, <1>2, ParseInvLater

LEMMA ParseInvNextWorkload == TypeOK /\ ParseInv /\ NextWorkload => ParseInv'
<1> SUFFICES ASSUME TypeOK, ParseInv, NextWorkload PROVE ParseInv'
  OBVIOUS
<1>1. at = Len(infos) /\ UNCHANGED <<infos, at, configmaps, workloads>>
  BY DEF NextWorkload, Inlining
<1>2. Len(workloads') = Len(workloads) /\ workloads' \in Seq(Resource)
  BY <1>1 DEF TypeOK
<1>3. \A w \in DOMAIN workloads : Alike(workloads'[w], workloads[w])
  BY <1>1 DEF Alike
<1>4. QED
  BY <1>1, <1>2, <1>3, ParseInvLater

-----------------------------------------------------------------------------
(* What has been looked up *)

\* Addresses make no difference to what references mean.
LEMMA AlikeSame ==
  ASSUME NEW r, NEW s, Alike(r, s)
  PROVE  /\ References(r) = References(s)
         /\ \A cms, n : Answer(cms, r, n) = Answer(cms, s, n)
         /\ \A cms, n, w : Reports(cms, r, n, w) = Reports(cms, s, n, w)
<1>1. /\ References(r) = References(s)
      /\ \A n : IsWhole(r, n) = IsWhole(s, n) /\ Key(r, n) = Key(s, n)
  BY DEF Alike, References, IsWhole, Key
<1>2. \A n : NameIn(r, n) = NameIn(s, n)
  BY <1>1, Zenon DEF Alike, NameIn
<1>3. \A cms, n : Found(cms, r, n) = Found(cms, s, n)
  BY <1>2, Zenon DEF Alike, Found
<1>4. \A cms, n : Answer(cms, r, n) = Answer(cms, s, n)
  <2> SUFFICES ASSUME NEW cms, NEW n PROVE Answer(cms, r, n) = Answer(cms, s, n)
    OBVIOUS
  <2>1. /\ Found(cms, r, n) = Found(cms, s, n)
        /\ IsWhole(r, n) = IsWhole(s, n) /\ Key(r, n) = Key(s, n)
    BY <1>1, <1>3
  <2>2. QED
    BY <2>1 DEF Answer
<1>5. \A cms, n : Faults(cms, r, n) = Faults(cms, s, n)
  <2> SUFFICES ASSUME NEW cms, NEW n PROVE Faults(cms, r, n) = Faults(cms, s, n)
    OBVIOUS
  <2>1. /\ Found(cms, r, n) = Found(cms, s, n)
        /\ IsWhole(r, n) = IsWhole(s, n) /\ Key(r, n) = Key(s, n)
    BY <1>1, <1>3
  <2>2. QED
    BY <2>1 DEF Faults
<1>6. \A cms, n, w : Reports(cms, r, n, w) = Reports(cms, s, n, w)
  BY <1>2, <1>5 DEF Reports
<1>7. QED
  BY <1>1, <1>4, <1>6

\* Before inlining nothing is looked up.
NoneLookedUp == \A w \in Nat : w >= 1 => Answers(w) = {} /\ ReportsFor(w) = {}

LEMMA NothingLookedUp == wl = 1 /\ ref = 0 => NoneLookedUp
<1> SUFFICES ASSUME wl = 1, ref = 0, NEW w \in Nat, w >= 1
             PROVE  Answers(w) = {} /\ ReportsFor(w) = {}
  BY DEF NoneLookedUp
<1>1. \A n \in References(workloads[w]) : n >= 1 /\ n \in Int
  BY DEF References
<1>2. LookedUp(w) = {}
  BY <1>1 DEF LookedUp
<1>3. QED
  BY <1>2 DEF Answers, ReportsFor

LEMMA NothingLookedUpYet == (wl = 1 /\ ref = 0)' => NoneLookedUp'
BY NothingLookedUp, PTL

\* One step looks up one reference,
LEMMA LookedUpOne ==
  ASSUME TypeOK, LooksUp, NEW w \in DOMAIN workloads
  PROVE  LookedUp(w)' = IF w = wl THEN LookedUp(w) \union {ref + 1} ELSE LookedUp(w)
<1>1. /\ wl' = wl /\ ref' = ref + 1 /\ ref \in Nat
      /\ ref + 1 \in References(workloads[wl])
  BY RefsAt DEF LooksUp
<1>2. References(workloads'[w]) = References(workloads[w])
  BY AlikeSame DEF LooksUp, Alike
<1>3. w \in Nat /\ wl \in Nat
  BY RefsAt DEF TypeOK
<1>4. CASE w = wl
  <2>1. LookedUp(w) = {n \in References(workloads[w]) : n <= ref}
    BY <1>3, <1>4 DEF LookedUp
  <2>2. LookedUp(w)' = {n \in References(workloads[w]) : n <= ref + 1}
    BY <1>1, <1>2, <1>3, <1>4 DEF LookedUp
  <2>3. \A n \in References(workloads[w]) : n <= ref + 1 <=> n <= ref \/ n = ref + 1
    BY <1>1 DEF References
  <2> DEFINE R == References(workloads[w])
  <2>4. ref + 1 \in R
    BY <1>1, <1>4
  <2> HIDE DEF R
  <2>5. {n \in R : n <= ref + 1} = {n \in R : n <= ref} \union {ref + 1}
    BY <2>3, <2>4, Zenon DEF R
  <2>6. QED
    BY <1>4, <2>1, <2>2, <2>5, Zenon DEF R
<1>5. CASE w # wl
  <2>1. LookedUp(w)' = LookedUp(w)
    BY <1>1, <1>2, <1>3, <1>5 DEF LookedUp
  <2>2. QED
    BY <1>5, <2>1
<1>6. QED
  BY <1>4, <1>5

\* and between two workloads none is.
LEMMA LookedUpNone ==
  ASSUME TypeOK, NextWorkload, NEW w \in DOMAIN workloads
  PROVE  LookedUp(w)' = LookedUp(w)
<1> DEFINE R == References(workloads[w])
<1>1. /\ wl' = wl + 1 /\ ref' = 0 /\ UNCHANGED workloads /\ wl \in DOMAIN workloads
      /\ ref = Len(Refs) + Len(KeyRefs) /\ wl \in Nat /\ w \in Nat
  BY RefsAt DEF NextWorkload, Inlining, TypeOK
<1>2. \A n \in R : n >= 1 /\ n \in Int
  BY DEF References
<1>3. w = wl => \A n \in R : n <= ref
  <2> DEFINE a == Len(workloads[w].configMapRefs)
             b == Len(workloads[w].configMapKeyRefs)
  <2>1. SUFFICES ASSUME w = wl, NEW n \in R PROVE n <= ref
    OBVIOUS
  <2>2. n \in 1..(a + b)
    BY Zenon DEF References
  <2>3. ref = a + b
    BY <1>1, <2>1 DEF Refs, KeyRefs
  <2>4. a \in Nat /\ b \in Nat
    BY <1>1, <2>1, RefsAt
  <2> HIDE DEF a, b
  <2>5. QED
    BY <2>2, <2>3, <2>4
<1>4. LookedUp(w)' = {n \in R : w < wl + 1 \/ (w = wl + 1 /\ n <= 0)}
  BY <1>1 DEF LookedUp
<1> HIDE DEF R
<1>5. ASSUME NEW n \in R
      PROVE  (w < wl + 1 \/ (w = wl + 1 /\ n <= 0)) <=> (w < wl \/ (w = wl /\ n <= ref))
  BY <1>1, <1>2, <1>3
<1>6. LookedUp(w) = {n \in R : w < wl \/ (w = wl /\ n <= ref)}
  BY Zenon DEF LookedUp, R
<1>7. QED
  BY <1>4, <1>5, <1>6, Zenon

-----------------------------------------------------------------------------
(* Addresses and reports *)

\* What a step that looks up one reference adds to answers and reports.
LEMMA AnswersOne ==
  ASSUME TypeOK, LooksUp, NEW w \in DOMAIN workloads
  PROVE  LET n == ref + 1 IN
         /\ w = wl => /\ Answers(w)' = Answers(w) \union Answer(configmaps, workloads[w], n)
                      /\ ReportsFor(w)' = ReportsFor(w) \union Reports(configmaps, workloads[w], n, w)
         /\ w # wl => Answers(w)' = Answers(w) /\ ReportsFor(w)' = ReportsFor(w)
<1> DEFINE n == ref + 1
           r == workloads[w]
<1>1. Alike(workloads'[w], r) /\ configmaps' = configmaps
  BY DEF LooksUp, Alike
<1>2. /\ \A m : Answer(configmaps', workloads'[w], m) = Answer(configmaps, r, m)
      /\ \A m : Reports(configmaps', workloads'[w], m, w) = Reports(configmaps, r, m, w)
  BY <1>1, AlikeSame
<1>3. /\ Answers(w)' = UNION {Answer(configmaps, r, m) : m \in LookedUp(w)'}
      /\ ReportsFor(w)' = UNION {Reports(configmaps, r, m, w) : m \in LookedUp(w)'}
  BY <1>2, Zenon DEF Answers, ReportsFor
<1>4. /\ Answers(w) = UNION {Answer(configmaps, r, m) : m \in LookedUp(w)}
      /\ ReportsFor(w) = UNION {Reports(configmaps, r, m, w) : m \in LookedUp(w)}
  BY Zenon DEF Answers, ReportsFor
<1>5. LookedUp(w)' = IF w = wl THEN LookedUp(w) \union {n} ELSE LookedUp(w)
  BY LookedUpOne
<1> HIDE DEF n, r
<1>6. CASE w = wl
  <2>1. LookedUp(w)' = LookedUp(w) \union {n}
    BY <1>5, <1>6
  <2>2. Answers(w)' = Answers(w) \union Answer(configmaps, r, n)
    BY <1>3, <1>4, <2>1
  <2>3. ReportsFor(w)' = ReportsFor(w) \union Reports(configmaps, r, n, w)
    BY <1>3, <1>4, <2>1
  <2>4. QED
    BY <1>6, <2>2, <2>3 DEF n, r
<1>7. CASE w # wl
  BY <1>3, <1>4, <1>5, <1>7
<1>8. QED
  BY <1>6, <1>7

LEMMA InvLooksUp ==
  TypeOK /\ ParseInv /\ AddressInv /\ ReportInv /\ LooksUp => AddressInv' /\ ReportInv'
<1> SUFFICES ASSUME TypeOK, ParseInv, AddressInv, ReportInv, LooksUp
             PROVE  AddressInv' /\ ReportInv'
  OBVIOUS
<1> DEFINE n == ref + 1
           ms == Parsed(WorkloadInfo)
           A == Answer(configmaps, workloads[wl], n)
           B == Reports(configmaps, workloads[wl], n, wl)
<1>1. DOMAIN workloads' = DOMAIN workloads /\ wl \in DOMAIN workloads
  BY DEF LooksUp, TypeOK
<1>2. Parsed(WorkloadInfo)' = ms
  BY DEF LooksUp, Parsed
<1>3. /\ Range(workloads'[wl].networkAddrs) = Range(workloads[wl].networkAddrs) \union AddressesOf(A)
      /\ \A w \in DOMAIN workloads : w # wl => workloads'[w] = workloads[w]
      /\ errors' = errors \union B
  BY DEF LooksUp
<1>4. /\ \A w \in DOMAIN workloads : w # wl => Answers(w)' = Answers(w) /\ ReportsFor(w)' = ReportsFor(w)
      /\ \A w \in DOMAIN workloads : w = wl =>
           Answers(w)' = Answers(w) \union A /\ ReportsFor(w)' = ReportsFor(w) \union B
  <2>1. \A w \in DOMAIN workloads :
          /\ w = wl => /\ Answers(w)' = Answers(w) \union Answer(configmaps, workloads[w], n)
                       /\ ReportsFor(w)' = ReportsFor(w) \union Reports(configmaps, workloads[w], n, w)
          /\ w # wl => Answers(w)' = Answers(w) /\ ReportsFor(w)' = ReportsFor(w)
    BY AnswersOne
  <2>2. QED
    BY <2>1
<1> HIDE DEF A, B, n, ms
<1>5. AddressInv'
  <2>1. \A U, V : AddressesOf(U \union V) = AddressesOf(U) \union AddressesOf(V)
    BY Zenon DEF AddressesOf
  <2> SUFFICES ASSUME NEW w \in DOMAIN workloads
               PROVE  Range(workloads'[w].networkAddrs) = AddressesOf(OwnValues(ms[w]) \union Answers(w)')
    BY <1>1, <1>2, Zenon DEF AddressInv
  <2>2. Range(workloads[w].networkAddrs) = AddressesOf(OwnValues(ms[w]) \union Answers(w))
    BY Zenon DEF AddressInv, ms
  <2>3. CASE w = wl
    <3>1. Answers(w)' = Answers(w) \union A
      BY <1>4, <2>3
    <3>2. Range(workloads'[w].networkAddrs) = Range(workloads[w].networkAddrs) \union AddressesOf(A)
      BY <1>3, <2>3
    <3>3. AddressesOf(OwnValues(ms[w]) \union (Answers(w) \union A))
            = AddressesOf(OwnValues(ms[w]) \union Answers(w)) \union AddressesOf(A)
      BY Zenon DEF AddressesOf
    <3>4. QED
      BY <2>2, <3>1, <3>2, <3>3, Zenon
  <2>4. CASE w # wl
    BY <1>3, <1>4, <2>2, <2>4
  <2>5. QED
    BY <2>3, <2>4
<1>6. ReportInv'
  <2>1. errors = UNION {ReportsFor(w) : w \in DOMAIN workloads}
    BY DEF ReportInv
  <2>2. errors \union B = UNION {ReportsFor(w)' : w \in DOMAIN workloads}
    <3> DEFINE W == DOMAIN workloads
    <3> HIDE DEF W
    <3>1. \A w \in W : ReportsFor(w)' = IF w = wl THEN ReportsFor(w) \union B ELSE ReportsFor(w)
      BY <1>4 DEF W
    <3>2. wl \in W /\ errors = UNION {ReportsFor(w) : w \in W}
      BY <1>1, <2>1 DEF W
    <3>3. QED
      BY <3>1, <3>2 DEF W
  <2>3. QED
    BY <1>1, <1>3, <2>2, Zenon DEF ReportInv
<1>7. QED
  BY <1>5, <1>6

LEMMA InvNextWorkload ==
  TypeOK /\ ParseInv /\ AddressInv /\ ReportInv /\ NextWorkload => AddressInv' /\ ReportInv'
<1> SUFFICES ASSUME TypeOK, ParseInv, AddressInv, ReportInv, NextWorkload
             PROVE  AddressInv' /\ ReportInv'
  OBVIOUS
<1>1. UNCHANGED <<infos, at, workloads, configmaps, errors>>
  BY DEF NextWorkload
<1>2. \A w \in DOMAIN workloads : Answers(w)' = Answers(w) /\ ReportsFor(w)' = ReportsFor(w)
  BY <1>1, LookedUpNone DEF Answers, ReportsFor
<1>3. Parsed(WorkloadInfo)' = Parsed(WorkloadInfo)
  BY <1>1 DEF Parsed
<1>4. AddressInv'
  BY <1>1, <1>2, <1>3 DEF AddressInv
<1>5. ReportInv'
  BY <1>1, <1>2 DEF ReportInv
<1>6. QED
  BY <1>4, <1>5

LEMMA InvParse ==
  TypeOK /\ ParseInv /\ AddressInv /\ ReportInv /\ Parse => AddressInv' /\ ReportInv'
<1> SUFFICES ASSUME TypeOK, ParseInv, AddressInv, ReportInv, Parse
             PROVE  AddressInv' /\ ReportInv'
  OBVIOUS
<1> DEFINE i == infos[at + 1]
           ms == Parsed(WorkloadInfo)
           ms2 == Parsed(WorkloadInfo)'
<1>1. at + 1 \in 1..Len(infos) /\ at' = at + 1 /\ UNCHANGED <<infos, wl, ref, errors>>
  BY ParseExact DEF Parse
<1>2. wl = 1 /\ ref = 0
  <2>1. at < Len(infos)
    BY DEF Parse
  <2>2. QED
    BY <2>1 DEF ParseInv
<1>3. NoneLookedUp /\ NoneLookedUp'
  BY <1>1, <1>2, NothingLookedUp, NothingLookedUpYet
<1>4. workloads \in Seq(Resource) /\ workloads' \in Seq(Resource) /\ ms \in Seq(WorkloadInfo)
  <2>1. TypeOK'
    BY TypeParse
  <2>2. QED
    BY <2>1, ParsedType DEF TypeOK
<1>5. \A w \in DOMAIN workloads : Answers(w) = {} /\ ReportsFor(w) = {}
  BY <1>3, <1>4 DEF NoneLookedUp
<1>6. \A w \in DOMAIN workloads' : Answers(w)' = {} /\ ReportsFor(w)' = {}
  BY <1>3, <1>4 DEF NoneLookedUp
<1>7. ReportInv'
  BY <1>1, <1>5, <1>6 DEF ReportInv
<1>8. \A w \in DOMAIN workloads : Range(workloads[w].networkAddrs) = AddressesOf(OwnValues(ms[w]))
  BY <1>5 DEF AddressInv
<1>9. \A w \in DOMAIN workloads' : Range(workloads'[w].networkAddrs) = AddressesOf(OwnValues(ms2[w]))
  <2>1. ms2 = Keep(ms, i, WorkloadInfo) /\ Len(workloads) = Len(ms)
    BY <1>1, ParsedNext DEF ParseInv
  <2> HIDE DEF ms, ms2
  <2>2. CASE /\ i \in WorkloadInfo /\ i \notin ConfigMap
             /\ workloads' = Append(workloads, ResourceFrom(i)) /\ UNCHANGED configmaps
    <3> DEFINE r == ResourceFrom(i)
    <3>1. r \in Resource /\ Range(r.networkAddrs) = AddressesOf(OwnValues(i))
      BY <2>2, ResourceExact
    <3> HIDE DEF r, i
    <3>2. ms2 = Append(ms, i) /\ workloads' = Append(workloads, r)
      BY <2>1, <2>2, Zenon DEF Keep, r
    <3>3. ASSUME NEW w \in DOMAIN workloads'
          PROVE  Range(workloads'[w].networkAddrs) = AddressesOf(OwnValues(ms2[w]))
      <4>1. CASE w \in DOMAIN workloads
        <5>1. workloads'[w] = workloads[w] /\ ms2[w] = ms[w]
          BY <1>4, <2>1, <2>2, <3>1, <3>2, <4>1
        <5>2. QED
          BY <1>8, <4>1, <5>1
      <4>2. CASE w \notin DOMAIN workloads
        <5>1. workloads'[w] = r /\ ms2[w] = i
          BY <1>4, <2>1, <2>2, <3>1, <3>2, <4>2
        <5>2. QED
          BY <3>1, <5>1
      <4>3. QED
        BY <4>1, <4>2
    <3>4. QED
      BY <3>3
  <2>3. CASE /\ i \in ConfigMap /\ i \notin WorkloadInfo
             /\ configmaps' = Append(configmaps, i) /\ UNCHANGED workloads
    <3> HIDE DEF i
    <3>1. ms2 = ms
      BY <2>1, <2>3, Zenon DEF Keep
    <3>2. QED
      BY <1>8, <2>3, <3>1
  <2>4. QED
    BY <2>2, <2>3, ParseExact
<1>10. AddressInv'
  BY <1>6, <1>9 DEF AddressInv
<1>11. QED
  BY <1>7, <1>10

LEMMA WorkloadsInvInit == Init => WorkloadsInv
<1> SUFFICES ASSUME Init PROVE WorkloadsInv
  OBVIOUS
<1>1. TypeOK /\ ParseInv
  BY TypeInit, ParseInvInit
<1>2. workloads = <<>> /\ errors = {}
  BY DEF Init
<1>3. DOMAIN workloads = {}
  BY <1>2
<1>4. QED
  BY <1>1, <1>2, <1>3 DEF WorkloadsInv, AddressInv, ReportInv

LEMMA WorkloadsInvStep == WorkloadsInv /\ [Next \/ Done]_wlVars => WorkloadsInv'
<1> SUFFICES ASSUME WorkloadsInv, [Next \/ Done]_wlVars PROVE WorkloadsInv'
  OBVIOUS
<1>1. TypeOK /\ ParseInv /\ AddressInv /\ ReportInv
  BY DEF WorkloadsInv
<1>2. CASE Parse
  BY <1>1, <1>2, TypeParse, ParseInvParse, InvParse DEF WorkloadsInv
<1>3. CASE LooksUp
  BY <1>1, <1>3, TypeLooksUp, ParseInvLooksUp, InvLooksUp DEF WorkloadsInv
<1>4. CASE NextWorkload
  BY <1>1, <1>4, TypeNextWorkload, ParseInvNextWorkload, InvNextWorkload DEF WorkloadsInv
<1>5. CASE UNCHANGED wlVars
  <2>1. UNCHANGED <<infos, at, workloads, configmaps, wl, ref, errors>>
    BY <1>5 DEF wlVars
  <2>2. TypeOK'
    BY <1>1, <2>1 DEF TypeOK, Refs, KeyRefs
  <2>3. ParseInv'
    BY <1>1, <2>1 DEF ParseInv, Parsed
  <2>4. /\ Parsed(WorkloadInfo)' = Parsed(WorkloadInfo)
        /\ \A w : Answers(w)' = Answers(w) /\ ReportsFor(w)' = ReportsFor(w)
    BY <2>1 DEF Parsed, Answers, ReportsFor, LookedUp
  <2>5. AddressInv'
    BY <1>1, <2>1, <2>4 DEF AddressInv
  <2>6. ReportInv'
    BY <1>1, <2>1, <2>4 DEF ReportInv
  <2>7. QED
    BY <2>2, <2>3, <2>5, <2>6 DEF WorkloadsInv
<1>6. QED
  BY <1>1, <1>2, <1>3, <1>4, <1>5, InlineRefLooksUp, InlineKeyRefLooksUp DEF Next, Done

LEMMA WorkloadsInvariant == Spec => []WorkloadsInv
BY WorkloadsInvInit, WorkloadsInvStep, PTL DEF Spec

-----------------------------------------------------------------------------
(* When all is inlined *)

\* References by number are those of the two slices.
LEMMA ReferencesExact ==
  ASSUME NEW r \in Resource
  PROVE  /\ \A n \in References(r) : IsWhole(r, n) => NameIn(r, n) \in Range(r.configMapRefs)
         /\ \A n \in References(r) : ~IsWhole(r, n) =>
              Key(r, n) \in Range(r.configMapKeyRefs) /\ NameIn(r, n) = Key(r, n).name
         /\ \A m \in Range(r.configMapRefs) :
              \E n \in References(r) : IsWhole(r, n) /\ NameIn(r, n) = m
         /\ \A q \in Range(r.configMapKeyRefs) :
              \E n \in References(r) : ~IsWhole(r, n) /\ Key(r, n) = q
<1> DEFINE a == Len(r.configMapRefs)
           b == Len(r.configMapKeyRefs)
<1>1. /\ a \in Nat /\ DOMAIN r.configMapRefs = 1..a
      /\ b \in Nat /\ DOMAIN r.configMapKeyRefs = 1..b
  BY DEF Resource
<1>2. /\ References(r) = 1..(a + b) /\ \A n : IsWhole(r, n) <=> n <= a
      /\ \A n : Key(r, n) = r.configMapKeyRefs[n - a]
  BY Zenon DEF References, IsWhole, Key
<1> HIDE DEF a, b
<1>3. ASSUME NEW n \in References(r), IsWhole(r, n)
      PROVE  NameIn(r, n) \in Range(r.configMapRefs)
  <2>1. n \in 1..a
    BY <1>1, <1>2, <1>3
  <2>2. NameIn(r, n) = r.configMapRefs[n]
    BY <1>3, Zenon DEF NameIn
  <2>3. QED
    BY <1>1, <2>1, <2>2, Zenon DEF Range
<1>4. ASSUME NEW n \in References(r), ~IsWhole(r, n)
      PROVE  Key(r, n) \in Range(r.configMapKeyRefs) /\ NameIn(r, n) = Key(r, n).name
  <2>1. n - a \in 1..b
    BY <1>1, <1>2, <1>4
  <2>2. NameIn(r, n) = Key(r, n).name
    BY <1>4, Zenon DEF NameIn
  <2>3. QED
    BY <1>1, <1>2, <2>1, <2>2, Zenon DEF Range
<1>5. ASSUME NEW m \in Range(r.configMapRefs)
      PROVE  \E n \in References(r) : IsWhole(r, n) /\ NameIn(r, n) = m
  <2>1. PICK n \in 1..a : r.configMapRefs[n] = m
    BY <1>1, Zenon DEF Range
  <2>2. n \in References(r) /\ IsWhole(r, n)
    BY <1>1, <1>2
  <2>3. QED
    BY <2>1, <2>2, Zenon DEF NameIn
<1>6. ASSUME NEW q \in Range(r.configMapKeyRefs)
      PROVE  \E n \in References(r) : ~IsWhole(r, n) /\ Key(r, n) = q
  <2>1. PICK k \in 1..b : r.configMapKeyRefs[k] = q
    BY <1>1, Zenon DEF Range
  <2>2. a + k \in 1..(a + b) /\ ~(a + k <= a) /\ (a + k) - a = k
    BY <1>1
  <2>3. QED
    BY <1>2, <2>1, <2>2, Zenon
<1>7. QED
  BY <1>3, <1>4, <1>5, <1>6

\* What is known of workload w at the end, in terms of its manifest.
LEMMA AtTheEnd ==
  ASSUME WorkloadsInv, Inlined, NEW w \in DOMAIN workloads
  PROVE  LET i == Manifests(WorkloadInfo)[w]
             r == workloads[w]
         IN  /\ i \in WorkloadInfo /\ r \in Resource /\ r.namespace = i.namespace
             /\ LookedUp(w) = References(r)
             /\ \A n : Found(configmaps, r, n) = Meant(i.namespace, NameIn(r, n))
             /\ \A m \in Names : m \in Range(r.configMapRefs) <=> RefersTo(i, m)
             /\ \A q \in KeyRef : q \in Range(r.configMapKeyRefs) <=> RefersToKey(i, q.name, q.key)
             /\ Range(r.networkAddrs) = AddressesOf(OwnValues(i) \union Answers(w))
<1> DEFINE ms == Manifests(WorkloadInfo)
           i == ms[w]
           r == workloads[w]
<1>1. TypeOK /\ ParseInv /\ AddressInv
  BY DEF WorkloadsInv
<1>2. \A S : Parsed(S) = Manifests(S)
  <2>1. SubSeq(infos, 1, at) = infos
    BY <1>1, FirstNoneAll DEF TypeOK, Inlined
  <2>2. QED
    BY <2>1, Zenon DEF Parsed, Manifests
<1>3. configmaps = Manifests(ConfigMap) /\ Len(workloads) = Len(ms) /\ Alike(r, ResourceFrom(i))
  BY <1>1, <1>2, Zenon DEF ParseInv
<1>4. ms \in Seq(WorkloadInfo) /\ workloads \in Seq(Resource)
  BY <1>1, <1>2, ParsedType DEF TypeOK
<1> HIDE DEF ms
<1>5. i \in WorkloadInfo /\ r \in Resource
  BY <1>3, <1>4
<1>6. Range(r.networkAddrs) = AddressesOf(OwnValues(i) \union Answers(w))
  BY <1>1, <1>2, Zenon DEF AddressInv, ms
<1>7. LookedUp(w) = References(r)
  <2>1. w < wl
    BY <1>1, <1>4, RefsAt DEF Inlined
  <2>2. QED
    BY <2>1 DEF LookedUp
<1> HIDE DEF i, r
<1> DEFINE s == ResourceFrom(i)
<1>8. /\ s.namespace = i.namespace
      /\ \A m \in Names : m \in Range(s.configMapRefs) <=> RefersTo(i, m)
      /\ \A q \in KeyRef : q \in Range(s.configMapKeyRefs) <=> RefersToKey(i, q.name, q.key)
  BY <1>5, ResourceExact
<1> HIDE DEF s
<1>9. /\ r.namespace = s.namespace /\ r.configMapRefs = s.configMapRefs
      /\ r.configMapKeyRefs = s.configMapKeyRefs
  BY <1>3, Zenon DEF Alike, s
<1>10. \A n : Found(configmaps, r, n) = Meant(i.namespace, NameIn(r, n))
  BY <1>3, <1>8, <1>9, Zenon DEF Found, Meant
<1>11. QED
  BY <1>5, <1>6, <1>7, <1>8, <1>9, <1>10, Zenon DEF i, r, ms

\* A ConfigMap that is meant, and its keys.
LEMMA MeantOne ==
  ASSUME TypeOK, NEW namespace, NEW name
  PROVE  /\ \A a, b \in Meant(namespace, name) : a = b
         /\ \A a \in Meant(namespace, name) :
              \A k \in DOMAIN a.data : k \in Keys /\ a.data[k] \in Values
<1> DEFINE cms == Manifests(ConfigMap)
<1>1. cms \in Seq(ConfigMap)
  <2> DEFINE T == WorkloadInfo \union ConfigMap
  <2>1. infos \in Seq(T)
    BY DEF TypeOK
  <2> HIDE DEF T
  <2>2. Those(infos, ConfigMap) \in Seq(ConfigMap)
    BY <2>1, ThoseIn
  <2>3. QED
    BY <2>2 DEF Manifests
<1> HIDE DEF cms
<1>2. \A a, b \in LastNamed(cms, <<namespace, name>>) : a = b /\ a \in ConfigMap
  BY <1>1, LastNamedOne
<1>3. \A a \in ConfigMap : \A k \in DOMAIN a.data : k \in Keys /\ a.data[k] \in Values
  <2> SUFFICES ASSUME NEW a \in ConfigMap, NEW k \in DOMAIN a.data
               PROVE  k \in Keys /\ a.data[k] \in Values
    OBVIOUS
  <2>1. PICK K \in SUBSET Keys : a.data \in [K -> Values]
    BY DEF ConfigMap
  <2>2. QED
    BY <2>1
<1>4. \A a \in Meant(namespace, name) : a \in ConfigMap
  BY <1>2, Zenon DEF Meant, cms
<1>5. QED
  BY <1>2, <1>3, <1>4, Zenon DEF Meant, cms

\* A key and a name are a reference.
LEMMA RefOf ==
  ASSUME NEW m \in Names, NEW k \in Keys
  PROVE  /\ [name |-> m, key |-> k] \in KeyRef
         /\ [name |-> m, key |-> k].name = m /\ [name |-> m, key |-> k].key = k
BY DEF KeyRef

\* Each workload has exactly the addresses in the strings that its manifest
\* holds or refers to, when inlining is done.
THEOREM AddressesExactHolds == Spec => []AddressesExact
<1> SUFFICES WorkloadsInv => AddressesExact
  BY WorkloadsInvariant, PTL
<1> SUFFICES ASSUME WorkloadsInv, Inlined PROVE AddressesExact!2
  BY DEF AddressesExact
<1>1. TypeOK /\ ParseInv
  BY DEF WorkloadsInv
<1>2. Len(workloads) = Len(Manifests(WorkloadInfo))
  <2>1. SubSeq(infos, 1, at) = infos
    BY <1>1, FirstNoneAll DEF TypeOK, Inlined
  <2>2. QED
    BY <1>1, <2>1, Zenon DEF ParseInv, Parsed, Manifests
<1>3. ASSUME NEW w \in DOMAIN workloads
      PROVE  Answers(w) = ReferredValues(Manifests(WorkloadInfo)[w])
  <2> DEFINE i == Manifests(WorkloadInfo)[w]
             r == workloads[w]
  <2>1. /\ i \in WorkloadInfo /\ r \in Resource
        /\ LookedUp(w) = References(r)
        /\ \A n : Found(configmaps, r, n) = Meant(i.namespace, NameIn(r, n))
        /\ \A m \in Names : m \in Range(r.configMapRefs) <=> RefersTo(i, m)
        /\ \A q \in KeyRef : q \in Range(r.configMapKeyRefs) <=> RefersToKey(i, q.name, q.key)
    BY AtTheEnd
  <2>2. Answers(w) = UNION {Answer(configmaps, r, n) : n \in References(r)}
    BY <2>1, Zenon DEF Answers
  <2>3. Range(r.configMapRefs) \subseteq Names /\ Range(r.configMapKeyRefs) \subseteq KeyRef
    BY <2>1, RangeOfSeq DEF Resource
  <2> HIDE DEF i, r
  <2>4. ASSUME NEW n \in References(r), NEW v \in Answer(configmaps, r, n)
        PROVE  v \in ReferredValues(i)
    <3>1. PICK cm \in Meant(i.namespace, NameIn(r, n)) : \E k \in DOMAIN cm.data :
            v = cm.data[k] /\ (~IsWhole(r, n) => k = Key(r, n).key)
      BY <2>1, <2>4, Zenon DEF Answer
    <3>2. PICK k \in DOMAIN cm.data : v = cm.data[k] /\ (~IsWhole(r, n) => k = Key(r, n).key)
      BY <3>1
    <3>3. NameIn(r, n) \in Names /\ (RefersTo(i, NameIn(r, n)) \/ RefersToKey(i, NameIn(r, n), k))
      <4>1. CASE IsWhole(r, n)
        BY <2>1, <2>3, <4>1, ReferencesExact
      <4>2. CASE ~IsWhole(r, n)
        <5>1. Key(r, n) \in Range(r.configMapKeyRefs) /\ NameIn(r, n) = Key(r, n).name
          BY <2>1, <4>2, ReferencesExact
        <5>2. Key(r, n) \in KeyRef /\ Key(r, n).name \in Names
          BY <2>3, <5>1 DEF KeyRef
        <5>3. QED
          BY <2>1, <3>2, <4>2, <5>1, <5>2, Zenon
      <4>3. QED
        BY <4>1, <4>2
    <3>4. v \in Values
      BY <2>4 DEF Answer
    <3>5. QED
      BY <3>1, <3>2, <3>3, <3>4, Zenon DEF ReferredValues
  <2>5. ASSUME NEW v \in ReferredValues(i)
        PROVE  \E n \in References(r) : v \in Answer(configmaps, r, n)
    <3>1. v \in Values
      BY DEF ReferredValues
    <3>2. PICK m \in Names : \E cm \in Meant(i.namespace, m) : \E k \in DOMAIN cm.data :
            v = cm.data[k] /\ (RefersTo(i, m) \/ RefersToKey(i, m, k))
      BY DEF ReferredValues
    <3>3. PICK cm \in Meant(i.namespace, m) : \E k \in DOMAIN cm.data :
            v = cm.data[k] /\ (RefersTo(i, m) \/ RefersToKey(i, m, k))
      BY <3>2
    <3>4. PICK k \in DOMAIN cm.data : v = cm.data[k] /\ (RefersTo(i, m) \/ RefersToKey(i, m, k))
      BY <3>3
    <3>5. CASE RefersTo(i, m)
      <4>1. m \in Range(r.configMapRefs)
        BY <2>1, <3>5
      <4>2. PICK n \in References(r) : IsWhole(r, n) /\ NameIn(r, n) = m
        BY <2>1, <4>1, ReferencesExact
      <4>3. v \in Answer(configmaps, r, n)
        BY <2>1, <3>1, <3>3, <3>4, <4>2, Zenon DEF Answer
      <4>4. QED
        BY <4>3
    <3>6. CASE RefersToKey(i, m, k)
      <4>1. k \in Keys
        BY <1>1, MeantOne
      <4> DEFINE q == [name |-> m, key |-> k]
      <4>2. q \in KeyRef /\ q.name = m /\ q.key = k
        BY <4>1, RefOf
      <4> HIDE DEF q
      <4>3. q \in Range(r.configMapKeyRefs)
        BY <2>1, <3>6, <4>2, Zenon
      <4>4. PICK n \in References(r) : ~IsWhole(r, n) /\ Key(r, n) = q /\ NameIn(r, n) = m
        BY <2>1, <4>2, <4>3, ReferencesExact
      <4>5. v \in Answer(configmaps, r, n)
        BY <2>1, <3>1, <3>3, <3>4, <4>2, <4>4, Zenon DEF Answer
      <4>6. QED
        BY <4>5
    <3>7. QED
      BY <3>4, <3>5, <3>6
  <2>6. UNION {Answer(configmaps, r, n) : n \in References(r)} = ReferredValues(i)
    BY <2>4, <2>5
  <2>7. QED
    BY <2>2, <2>6, Zenon DEF i, r
<1>4. ASSUME NEW w \in DOMAIN workloads
      PROVE  LET i == Manifests(WorkloadInfo)[w] IN
             Range(workloads[w].networkAddrs) = AddressesOf(OwnValues(i) \union ReferredValues(i))
  BY <1>3, AtTheEnd
<1>5. QED
  BY <1>2, <1>4, Zenon

\* Which references of a workload are reported.
LEMMA ReportedExact ==
  ASSUME WorkloadsInv, Inlined, NEW w \in DOMAIN workloads, NEW t, NEW m
  PROVE  [type |-> t, wl |-> w, name |-> m] \in errors
           <=> \E n \in References(workloads[w]) :
                 NameIn(workloads[w], n) = m /\ t \in Faults(configmaps, workloads[w], n)
<1> DEFINE e == [type |-> t, wl |-> w, name |-> m]
           r == workloads[w]
<1>1. errors = UNION {ReportsFor(x) : x \in DOMAIN workloads}
  BY DEF WorkloadsInv, ReportInv
<1>2. e \in errors <=> \E x \in DOMAIN workloads : \E n \in LookedUp(x) :
                         e \in Reports(configmaps, workloads[x], n, x)
  BY <1>1 DEF ReportsFor
<1>3. ASSUME NEW x, NEW n
      PROVE  e \in Reports(configmaps, workloads[x], n, x)
               <=> x = w /\ NameIn(workloads[x], n) = m /\ t \in Faults(configmaps, workloads[x], n)
  <2>1. \A u, y, z : e = [type |-> u, wl |-> y, name |-> z] <=> u = t /\ y = w /\ z = m
    <3>1. SUFFICES ASSUME NEW u, NEW y, NEW z, e = [type |-> u, wl |-> y, name |-> z]
                   PROVE  u = t /\ y = w /\ z = m
      OBVIOUS
    <3> DEFINE d == [type |-> u, wl |-> y, name |-> z]
    <3>2. d.type = u /\ d.wl = y /\ d.name = z /\ e.type = t /\ e.wl = w /\ e.name = m
      OBVIOUS
    <3>3. QED
      BY <3>1, <3>2
  <2> HIDE DEF e
  <2> DEFINE F == Faults(configmaps, workloads[x], n)
  <2>2. e \in Reports(configmaps, workloads[x], n, x)
          <=> \E u \in F : e = [type |-> u, wl |-> x, name |-> NameIn(workloads[x], n)]
    BY Zenon DEF Reports
  <2> HIDE DEF F
  <2>3. e \in Reports(configmaps, workloads[x], n, x)
          <=> \E u \in F : u = t /\ x = w /\ NameIn(workloads[x], n) = m
    BY <2>1, <2>2, Zenon
  <2>4. QED
    BY <2>3, Zenon DEF F
<1>4. LookedUp(w) = References(r)
  BY AtTheEnd
<1> HIDE DEF e, r
<1>5. e \in errors <=> \E n \in References(r) : e \in Reports(configmaps, workloads[w], n, w)
  <2>1. ASSUME NEW x \in DOMAIN workloads, NEW n \in LookedUp(x),
               e \in Reports(configmaps, workloads[x], n, x)
        PROVE  n \in References(r) /\ e \in Reports(configmaps, workloads[w], n, w)
    <3>1. x = w
      BY <1>3, <2>1, Zenon
    <3>2. QED
      BY <1>4, <2>1, <3>1
  <2>2. QED
    BY <1>2, <1>4, <2>1, Zenon
<1>6. QED
  BY <1>3, <1>5, Zenon DEF e, r

\* A reference is reported exactly if nothing answers it, when inlining is
\* done: the ConfigMap is missing, or it does not have the key.
THEOREM DanglingReportedHolds == Spec => []DanglingReported
<1> SUFFICES WorkloadsInv => DanglingReported
  BY WorkloadsInvariant, PTL
<1> SUFFICES ASSUME WorkloadsInv, Inlined, NEW w \in DOMAIN workloads, NEW m \in Names
             PROVE  LET i == Manifests(WorkloadInfo)[w] IN
                    /\ [type |-> "ConfigMapNotFound", wl |-> w, name |-> m] \in errors <=>
                         /\ Meant(i.namespace, m) = {}
                         /\ RefersTo(i, m) \/ \E k \in Keys : RefersToKey(i, m, k)
                    /\ [type |-> "ConfigMapKeyNotFound", wl |-> w, name |-> m] \in errors <=>
                         \E k \in Keys, cm \in Meant(i.namespace, m) :
                           RefersToKey(i, m, k) /\ k \notin DOMAIN cm.data
  BY DEF DanglingReported
<1> DEFINE i == Manifests(WorkloadInfo)[w]
           r == workloads[w]
           cms == Meant(i.namespace, m)
<1>1. TypeOK
  BY DEF WorkloadsInv
<1>2. /\ r \in Resource
      /\ \A n : Found(configmaps, r, n) = Meant(i.namespace, NameIn(r, n))
      /\ m \in Range(r.configMapRefs) <=> RefersTo(i, m)
      /\ \A q \in KeyRef : q \in Range(r.configMapKeyRefs) <=> RefersToKey(i, q.name, q.key)
  BY AtTheEnd
<1>3. \A t : [type |-> t, wl |-> w, name |-> m] \in errors
               <=> \E n \in References(r) : NameIn(r, n) = m /\ t \in Faults(configmaps, r, n)
  BY ReportedExact
<1>4. Range(r.configMapKeyRefs) \subseteq KeyRef
  BY <1>2, RangeOfSeq DEF Resource
<1>5. \A a, b \in cms : a = b
  BY <1>1, MeantOne
<1> HIDE DEF i, r, cms
\* A reference to a key of m.
<1>6. ASSUME NEW k \in Keys
      PROVE  RefersToKey(i, m, k)
               <=> \E n \in References(r) : ~IsWhole(r, n) /\ NameIn(r, n) = m /\ Key(r, n).key = k
  <2> DEFINE q == [name |-> m, key |-> k]
  <2>1. q \in KeyRef /\ q.name = m /\ q.key = k
    BY RefOf
  <2>2. \A x \in KeyRef : x = q <=> x.name = m /\ x.key = k
    BY DEF KeyRef
  <2> HIDE DEF q
  <2>3. RefersToKey(i, m, k) <=> q \in Range(r.configMapKeyRefs)
    BY <1>2, <2>1, Zenon
  <2>4. q \in Range(r.configMapKeyRefs)
          <=> \E n \in References(r) : ~IsWhole(r, n) /\ Key(r, n) = q
    BY <1>2, ReferencesExact
  <2>5. \A n \in References(r) : ~IsWhole(r, n) =>
          (Key(r, n) = q <=> NameIn(r, n) = m /\ Key(r, n).key = k)
    BY <1>2, <1>4, <2>2, ReferencesExact
  <2>6. QED
    BY <2>3, <2>4, <2>5, Zenon
<1>7. \A n \in References(r) : ~IsWhole(r, n) => Key(r, n).key \in Keys
  BY <1>2, <1>4, ReferencesExact DEF KeyRef
<1>8. RefersTo(i, m) <=> \E n \in References(r) : IsWhole(r, n) /\ NameIn(r, n) = m
  BY <1>2, ReferencesExact
<1>9. [type |-> "ConfigMapNotFound", wl |-> w, name |-> m] \in errors
        <=> cms = {} /\ (RefersTo(i, m) \/ \E k \in Keys : RefersToKey(i, m, k))
  <2>1. \A n \in References(r) : NameIn(r, n) = m =>
          ("ConfigMapNotFound" \in Faults(configmaps, r, n) <=> cms = {})
    BY <1>2 DEF Faults, cms
  <2>2. (\E n \in References(r) : NameIn(r, n) = m)
          <=> RefersTo(i, m) \/ \E k \in Keys : RefersToKey(i, m, k)
    BY <1>6, <1>7, <1>8, Zenon
  <2>3. QED
    BY <1>3, <2>1, <2>2, Zenon
<1>10. [type |-> "ConfigMapKeyNotFound", wl |-> w, name |-> m] \in errors
         <=> \E k \in Keys, cm \in cms : RefersToKey(i, m, k) /\ k \notin DOMAIN cm.data
  <2>1. ASSUME NEW n \in References(r), NameIn(r, n) = m
        PROVE  "ConfigMapKeyNotFound" \in Faults(configmaps, r, n)
                 <=> ~IsWhole(r, n) /\ \E cm \in cms : Key(r, n).key \notin DOMAIN cm.data
    <3>1. "ConfigMapKeyNotFound" \in Faults(configmaps, r, n)
            <=> ~IsWhole(r, n) /\ cms # {} /\ \A cm \in cms : Key(r, n).key \notin DOMAIN cm.data
      BY <1>2, <2>1 DEF Faults, cms
    <3>2. QED
      BY <1>5, <3>1
  <2>2. [type |-> "ConfigMapKeyNotFound", wl |-> w, name |-> m] \in errors
          <=> \E n \in References(r) : /\ NameIn(r, n) = m /\ ~IsWhole(r, n)
                                       /\ \E cm \in cms : Key(r, n).key \notin DOMAIN cm.data
    BY <1>3, <2>1, Zenon
  <2>3. ASSUME NEW n \in References(r), NameIn(r, n) = m, ~IsWhole(r, n)
        PROVE  Key(r, n).key \in Keys /\ RefersToKey(i, m, Key(r, n).key)
    BY <1>6, <1>7, <2>3
  <2>4. ASSUME NEW k \in Keys, RefersToKey(i, m, k)
        PROVE  \E n \in References(r) : ~IsWhole(r, n) /\ NameIn(r, n) = m /\ Key(r, n).key = k
    BY <1>6, <2>4
  <2>5. QED
    BY <2>2, <2>3, <2>4, Zenon
<1>11. QED
  BY <1>9, <1>10, Zenon DEF i, cms

================================================================================
