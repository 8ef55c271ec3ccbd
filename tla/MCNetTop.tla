-------------------------------- MODULE MCNetTop --------------------------------
(***************************************************************************)
(* Command lines for NetTop: every combination of flags on directories     *)
(* with readable and broken contents.                                      *)
(***************************************************************************)
EXTENDS NetTop, MCPoliciesSynthesizer

\* A file with nothing to complain about.
Sound ==
  FileOf(0, <<ConfigMap(1, {1, 2}), Workload(<<All(1), Key(1, 2)>>), InfoOf("service")>>)

MCDirs ==
  {<<>>, <<CrashingDir>>, <<<<Other>>>>} \union
  [1..1 -> {<<Yaml(Apps), Other, Yaml(PartlyBad)>>, <<Yaml(PartlyRead), Yaml(MoreApps)>>,
            <<SubdirError, Yaml(Apps)>>, <<Other, RootError>>,
            <<Yaml(Sound), Other>>}] \union
  [1..2 -> {<<Yaml(MoreApps), SubdirError>>, <<Yaml(Apps), Yaml(EmptyFile)>>, <<RootError>>}]

MCCommandLines ==
  [flags : {"ok"}, dirs : MCDirs, netpols : BOOLEAN, quiet : BOOLEAN, verbose : BOOLEAN,
   format : {"json"}, outputFile : BOOLEAN]
  \union
  [flags : {"ok", "bad", "help"}, dirs : {<<>>, <<<<Other>>>>}, netpols : {FALSE},
   quiet : BOOLEAN, verbose : BOOLEAN, format : {"yaml", "other"}, outputFile : {TRUE}]

MCNetCalls == {CallOf(a) : a \in MCCommandLines}

=============================================================================
