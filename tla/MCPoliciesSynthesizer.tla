------------------------ MODULE MCPoliciesSynthesizer ------------------------
(***************************************************************************)
(* Calls for PoliciesSynthesizer: on one or two directories with readable  *)
(* and broken files, resources and subdirectories, and on slices of Infos. *)
(***************************************************************************)
EXTENDS PoliciesSynthesizer

InfoOf(kind) ==
  [kind |-> kind, name |-> 0, keys |-> {}, refs |-> <<>>]
Key(n, k) == [config |-> n, key |-> k]
All(n) == Key(n, WholeMap)
Workload(refs) == [InfoOf("workload") EXCEPT !.name = 1, !.refs = refs]
ConfigMap(n, keys) == [InfoOf("configmap") EXCEPT !.name = n, !.keys = keys]

FileOf(readErrors, infos) == [readErrors |-> readErrors, infos |-> infos]

EmptyFile == FileOf(0, <<>>)
Apps ==
  FileOf(0, <<Workload(<<All(1), All(2)>>), ConfigMap(1, {1, 2}), InfoOf("service")>>)
MoreApps ==
  FileOf(0, <<ConfigMap(1, {1}), InfoOf("exposing"),
              Workload(<<All(2), Key(1, 2), Key(2, 1), Key(1, 1)>>)>>)
PartlyRead == FileOf(2, <<InfoOf("unknown"), Workload(<<>>)>>)
PartlyBad == FileOf(0, <<InfoOf("badResource"), ConfigMap(2, {1})>>)
Crashing == FileOf(0, <<InfoOf("badWorkload")>>)

Yaml(f) == [type |-> "yaml", file |-> f]
Other == [type |-> "other", file |-> EmptyFile]
RootError == [type |-> "rootError", file |-> EmptyFile]
SubdirError == [type |-> "subdirError", file |-> EmptyFile]

SomeDirs ==
  {<<>>, <<Other>>, <<RootError>>, <<Other, RootError>>,
   <<SubdirError, Yaml(Apps)>>, <<Yaml(MoreApps), SubdirError, SubdirError>>,
   <<Yaml(Apps), Other, Yaml(PartlyBad)>>, <<Yaml(PartlyRead), Yaml(MoreApps)>>,
   <<Yaml(PartlyBad)>>, <<Yaml(EmptyFile), Yaml(PartlyRead)>>}

CrashingDir == <<Yaml(PartlyBad), Yaml(Crashing), Yaml(Apps)>>

OnDirs(ds, ret) == [returns |-> ret, fromInfos |-> FALSE, infos |-> <<>>, dirs |-> ds]
OnInfos(is, ret) == [returns |-> ret, fromInfos |-> TRUE, infos |-> is, dirs |-> <<>>]

SomeInfos ==
  {<<>>, Apps.infos, <<InfoOf("nilObject"), Workload(<<All(1)>>), InfoOf("badResource")>>,
   <<InfoOf("nilObject")>>, <<Workload(<<>>), InfoOf("nilInfo")>>}

Results == {"policies", "connections"}

MCCalls ==
  {OnDirs(ds, r) : ds \in ([1..1 -> SomeDirs] \union [1..2 -> SomeDirs]
                             \union {<<>>, <<CrashingDir>>}),
                   r \in Results}
  \union {OnInfos(is, r) : is \in SomeInfos, r \in Results}

\* A workload that does not convert; a nil Info, and a Route without a port,
\* among good ones. Each of the three is enough to end the process.
CrashingCalls ==
  {OnInfos(<<InfoOf("badWorkload")>>, "policies"),
   OnInfos(<<Workload(<<>>), InfoOf("nilInfo"), InfoOf("service")>>, "policies"),
   OnInfos(<<InfoOf("service"), Workload(<<>>), InfoOf("portlessRoute")>>, "policies")}

\* Any three directories with a manifest or without.
EmptyDirCalls == {OnDirs(ds, "policies") : ds \in [1..3 -> {<<Yaml(Apps)>>, <<Other>>}]}

=============================================================================
