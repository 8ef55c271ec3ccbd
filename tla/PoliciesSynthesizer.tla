------------------------- MODULE PoliciesSynthesizer -------------------------
(***************************************************************************)
(* One PoliciesSynthesizer and the API calls made on it, one after the     *)
(* other (policies_synthesizer.go). A call scans directories for manifests *)
(* (manifest_finder.go), parses their resources (resource_accumulator.go), *)
(* inlines ConfigMaps and hands the result to discovery and synthesis,     *)
(* under the error policy of utils.go and error_types.go.                  *)
(*                                                                         *)
(* What a file or a resource contains is abstracted to what this control   *)
(* flow tells apart. Discovery and Synthesis say what becomes of it.       *)
(***************************************************************************)
EXTENDS Naturals, Sequences, FiniteSets, Lists

CONSTANTS
  Calls,     \* the calls a client may make
  MaxCalls   \* bound on their number, for model checking

(***************************************************************************)
(* A call names its result (policies or connections) and its input. dirs   *)
(* is a sequence of directories, each the sequence of entries that walkFn  *)
(* visits in it; a file is the errors GetResourceInfosFromDirPath finds in *)
(* it and its Infos. A call on a slice of Infos has no dirs.               *)
(***************************************************************************)
InfoKinds ==
  {"nilInfo", "nilObject", "unknown", "workload", "badWorkload", "service",
   "configmap", "exposing", "portlessRoute", "badResource"}
\* A workload refers to whole ConfigMaps (envFrom, volumes), then to keys of some;
\* name is namespace and name of a ConfigMap, keys are those of its data.
WholeMap == 0
Ref == [config : Nat, key : Nat]
Info == [kind : InfoKinds, name : Nat, keys : SUBSET Nat, refs : Seq(Ref)]
File == [readErrors : Nat, infos : Seq(Info)]
Entry == [type : {"yaml", "other", "rootError", "subdirError"}, file : File]
Call ==
  [returns : {"policies", "connections"}, fromInfos : BOOLEAN,
   infos : Seq(Info), dirs : Seq(Seq(Entry))]

\* call before the first call
NoCall == [returns |-> "policies", fromInfos |-> TRUE, infos |-> <<>>, dirs |-> <<>>]

ASSUME CallsAssumption ==
  /\ Calls \subseteq Call
  /\ \A c \in Calls : c.fromInfos => c.dirs = <<>>
  /\ MaxCalls \in Nat

-----------------------------------------------------------------------------
(* error_types.go: the constructors and what they set *)

ErrorTypes ==
  {"NoYamlsFound", "NoK8sResourcesFound", "ConfigMapNotFound", "ConfigMapKeyNotFound",
   "FailedScanningResource", "FailedReadingFile", "FailedAccessingRoot",
   "FailedAccessingSubdir"}

IsFatal(e) == e \in {"NoK8sResourcesFound", "FailedAccessingRoot"}
\* Mutant: failedReadingFile does not set severe.
IsSevere_NotReading(e) ==
  e \in {"NoK8sResourcesFound", "FailedAccessingRoot", "FailedAccessingSubdir"}

IsSevere(e) ==
  e \in {"NoK8sResourcesFound", "FailedReadingFile", "FailedAccessingRoot",
         "FailedAccessingSubdir"}

HasFatal(errs) == \E i \in DOMAIN errs : IsFatal(errs[i])
HasSevere(errs) == \E i \in DOMAIN errs : IsSevere(errs[i])

-----------------------------------------------------------------------------
VARIABLES
  stopOnError,   \* the synthesizer was made WithStopOnError
  errors,        \* ps.errors, what Errors() returns
  returned,      \* what the last call returned
  calls,         \* number of calls made
  pc,            \* where the current call is
  call,          \* the current call, or NoCall
  dir, entry,    \* position of the directory scan
  yamls,         \* manifests found in the current directory
  manifests,     \* manifestFiles
  file, info,    \* position of the parser; info 0 before the file is read
  errs,          \* errors of the current directory, or of the current file
  fileErrors,    \* errors the call has gathered
  workloads, services, configmaps,   \* the resourceAccumulator
  inlined        \* number of references to ConfigMaps that are followed

api == <<stopOnError, errors, returned, calls>>
scan == <<dir, entry, yamls, manifests>>
acc == <<workloads, services, configmaps>>
vars == <<api, pc, call, scan, file, info, errs, fileErrors, acc, inlined>>

Idle == [value |-> "none", error |-> FALSE]

Init ==
  /\ stopOnError \in BOOLEAN
  /\ errors = <<>> /\ returned = Idle /\ calls = 0
  /\ pc = "idle" /\ call = NoCall
  /\ dir = 1 /\ entry = 1 /\ yamls = <<>> /\ manifests = <<>>
  /\ file = 1 /\ info = 0
  /\ errs = <<>> /\ fileErrors = <<>>
  /\ workloads = <<>> /\ services = <<>> /\ configmaps = <<>>
  /\ inlined = 0

\* stopProcessing
Stop(es) == HasFatal(es) \/ (stopOnError /\ HasSevere(es))

\* A call gets a new resourceAccumulator. On Infos it parses them at once,
\* like the contents of one file that was read without errors.
Invoke ==
  /\ pc = "idle"
  /\ calls < MaxCalls
  /\ calls' = calls + 1
  /\ call' \in Calls
  /\ pc' = IF call'.fromInfos THEN "parse" ELSE "scan"
  /\ manifests' = IF call'.fromInfos
                    THEN <<[readErrors |-> 0, infos |-> call'.infos]>>
                    ELSE <<>>
  /\ dir' = 1 /\ entry' = 1 /\ yamls' = <<>>
  /\ file' = 1 /\ info' = 0
  /\ errs' = <<>> /\ fileErrors' = <<>>
  /\ workloads' = <<>> /\ services' = <<>> /\ configmaps' = <<>>
  /\ inlined' = 0
  /\ returned' = Idle
  /\ UNCHANGED <<stopOnError, errors>>

-----------------------------------------------------------------------------
(* manifest_finder.go *)

Scanning == pc = "scan" /\ dir <= Len(call.dirs)
Entries == call.dirs[dir]

\* Mutant: the position moves on with the manifests.
NextEntry_IfYaml == IF Entries[entry].type = "yaml" THEN entry + 1 ELSE entry

NextEntry == entry + 1

\* The walk function is called on an entry without an error.
VisitEntry ==
  /\ Scanning /\ entry <= Len(Entries)
  /\ Entries[entry].type \in {"yaml", "other"}
  /\ yamls' = IF Entries[entry].type = "yaml"
                THEN Append(yamls, Entries[entry].file) ELSE yamls
  /\ entry' = NextEntry
  /\ UNCHANGED <<api, pc, call, dir, manifests, file, info, errs, fileErrors, acc, inlined>>

AccessError(e) ==
  IF e.type = "rootError" THEN "FailedAccessingRoot" ELSE "FailedAccessingSubdir"

\* It is called with an error: the walk ends, or skips the directory.
VisitError ==
  /\ Scanning /\ entry <= Len(Entries)
  /\ Entries[entry].type \in {"rootError", "subdirError"}
  /\ errs' = Append(errs, AccessError(Entries[entry]))
  /\ entry' = IF Stop(errs') THEN Len(Entries) + 1 ELSE entry + 1
  /\ UNCHANGED <<api, pc, call, dir, yamls, manifests, file, info, fileErrors, acc, inlined>>

\* searchForManifestsInDirs asks whether ANY file was found so far.
NoYamls(ms) == IF ms = <<>> THEN <<"NoYamlsFound">> ELSE <<>>

\* Mutant: the position in one directory is kept for the next.
FirstEntry_Keeps == entry

FirstEntry == 1

\* Mutant: the files of a directory replace those of the directories before.
AddFiles_Overwrites(ms, ys) == ys

AddFiles(ms, ys) == ms \o ys

\* searchForManifestsInDirs takes the results of a directory. If it has to
\* stop it returns no files, those of earlier directories included.
FinishDir ==
  /\ Scanning /\ entry > Len(Entries)
  /\ IF Stop(errs)
       THEN /\ manifests' = <<>>
            /\ fileErrors' = fileErrors \o errs
            /\ dir' = Len(call.dirs) + 1
       ELSE /\ manifests' = AddFiles(manifests, yamls)
            /\ fileErrors' = fileErrors \o errs \o NoYamls(manifests')
            /\ dir' = dir + 1
  /\ entry' = FirstEntry /\ yamls' = <<>> /\ errs' = <<>>
  /\ UNCHANGED <<api, pc, call, file, info, acc, inlined>>

FinishScan ==
  /\ pc = "scan" /\ dir > Len(call.dirs)
  /\ pc' = IF Stop(fileErrors) THEN "return" ELSE "parse"
  /\ UNCHANGED <<api, call, scan, file, info, errs, fileErrors, acc, inlined>>

-----------------------------------------------------------------------------
(* resource_accumulator.go *)

Parsing == pc = "parse" /\ file <= Len(manifests)
Infos == manifests[file].infos

\* parseK8sYaml reads a file; WithStopOnError its first error skips the rest.
ReadFile ==
  /\ Parsing /\ info = 0
  /\ LET n == manifests[file].readErrors IN
     IF stopOnError /\ n > 0
       THEN errs' = <<"FailedReadingFile">> /\ info' = Len(Infos) + 1
       ELSE errs' = [i \in 1..n |-> "FailedReadingFile"] /\ info' = 1
  /\ UNCHANGED <<api, pc, call, scan, file, fileErrors, acc, inlined>>

AtInfo(kinds) ==
  Parsing /\ info \in DOMAIN Infos /\ Infos[info].kind \in kinds

\* parseInfo puts the resource in its slice, or passes over it. (Routes and
\* Ingresses go to servicesToExpose, which has no part in the control flow.)
AcceptInfo ==
  /\ AtInfo({"workload", "service", "configmap", "exposing", "unknown"})
  /\ LET i == Infos[info]
         AppendIf(slice, kind) == IF i.kind = kind THEN Append(slice, i) ELSE slice
     IN  /\ workloads' = AppendIf(workloads, "workload")
         /\ services' = AppendIf(services, "service")
         /\ configmaps' = AppendIf(configmaps, "configmap")
  /\ info' = info + 1
  /\ UNCHANGED <<api, pc, call, scan, file, errs, fileErrors, inlined>>

\* parseInfo fails. The error is not severe: parseInfos always goes on.
RejectInfo ==
  /\ AtInfo({"nilObject", "badResource"})
  /\ errs' = Append(errs, "FailedScanningResource")
  /\ info' = info + 1
  /\ UNCHANGED <<api, pc, call, scan, file, fileErrors, acc, inlined>>

\* A nil pointer is dereferenced: k8sWorkloadObjectFromInfo does not check the
\* result of parseResourceFromInfo, nor the template of a
\* ReplicationController (both are badWorkload here), ocRouteFromInfo not the
\* optional port of a Route, and parseInfos reads the Source of a nil Info.
PanicOnInfo ==
  /\ AtInfo({"nilInfo", "badWorkload", "portlessRoute"})
  /\ pc' = "panicked"
  /\ UNCHANGED <<api, call, scan, file, info, errs, fileErrors, acc, inlined>>

\* Mutant: the errors of a file do not stop the loop.
NextFile_GoesOn(es) == file + 1

NextFile(es) == IF Stop(es) THEN Len(manifests) + 1 ELSE file + 1

\* parseK8sYamls takes the errors of a file, and stops or goes on.
FinishFile ==
  /\ Parsing /\ info > Len(Infos)
  /\ fileErrors' = fileErrors \o errs
  /\ file' = NextFile(fileErrors')
  /\ info' = 0 /\ errs' = <<>>
  /\ UNCHANGED <<api, pc, call, scan, acc, inlined>>

\* Mutant: the call does not return when it has to stop.
AfterParse_Hangs == IF Stop(fileErrors) THEN "parse" ELSE "extract"

AfterParse == IF Stop(fileErrors) THEN "return" ELSE "extract"

FinishParse ==
  /\ pc = "parse" /\ file > Len(manifests)
  /\ pc' = AfterParse
  /\ UNCHANGED <<api, call, scan, file, info, errs, fileErrors, acc, inlined>>

-----------------------------------------------------------------------------
(* extractConnections *)

NoWorkloads ==
  /\ pc = "extract" /\ workloads = <<>>
  /\ fileErrors' = Append(fileErrors, "NoK8sResourcesFound")
  /\ pc' = "return"
  /\ UNCHANGED <<api, call, scan, file, info, errs, acc, inlined>>

\* cfgMapsByName: the last ConfigMap of a name, if there is one.
Named(n) ==
  {configmaps[i] : i \in {i \in DOMAIN configmaps :
     /\ configmaps[i].name = n
     /\ \A j \in DOMAIN configmaps : configmaps[j].name = n => j <= i}}

\* The references of the workloads, in the order in which they are followed.
RefsOf(wls) == Concat([w \in DOMAIN wls |-> wls[w].refs])

\* What one reference adds to the errors.
RefErrors(r) ==
  IF Named(r.config) = {} THEN <<"ConfigMapNotFound">>
  ELSE IF r.key # WholeMap /\ \A cm \in Named(r.config) : r.key \notin cm.keys
    THEN <<"ConfigMapKeyNotFound">>
  ELSE <<>>

\* inlineConfigMapRefsAsEnvs for one reference. (See Workloads for the values.)
Inline ==
  /\ pc = "extract" /\ inlined < Len(RefsOf(workloads))
  /\ fileErrors' = fileErrors \o RefErrors(RefsOf(workloads)[inlined + 1])
  /\ inlined' = inlined + 1
  /\ UNCHANGED <<api, pc, call, scan, file, info, errs, acc>>

\* exposeServices and discoverConnections: see Discovery.
Discover ==
  /\ pc = "extract" /\ workloads # <<>> /\ inlined = Len(RefsOf(workloads))
  /\ pc' = "return"
  /\ UNCHANGED <<api, call, scan, file, info, errs, fileErrors, acc, inlined>>

-----------------------------------------------------------------------------
(* policies_synthesizer.go *)

\* The value of a call whose errors are not fatal. The connections are nil if
\* extraction has stopped, the policies an empty slice.
Value ==
  IF ~Stop(fileErrors) THEN "full"
  ELSE IF call.returns = "policies" THEN "empty" ELSE "nil"

\* Mutants: ps.errors grows from call to call; it is set after the return on a
\* fatal error.
ErrorsAfter_Appends == errors \o fileErrors
ErrorsAfter_Late == IF HasFatal(fileErrors) THEN errors ELSE fileErrors

ErrorsAfter == fileErrors

\* ps.errors is overwritten; a fatal error is returned, with no value.
Return ==
  /\ pc = "return"
  /\ errors' = ErrorsAfter
  /\ returned' = [value |-> IF HasFatal(fileErrors) THEN "nil" ELSE Value,
                  error |-> HasFatal(fileErrors)]
  /\ pc' = "idle"
  /\ UNCHANGED <<stopOnError, calls, call, scan, file, info, errs, fileErrors, acc, inlined>>

Work ==
  \/ VisitEntry \/ VisitError \/ FinishDir \/ FinishScan
  \/ ReadFile \/ AcceptInfo \/ RejectInfo \/ PanicOnInfo \/ FinishFile \/ FinishParse
  \/ NoWorkloads \/ Inline \/ Discover \/ Return

Next == Invoke \/ Work

\* A call that was made runs on; the client need not make one.
Spec == Init /\ [][Next]_vars /\ WF_vars(Work)

-----------------------------------------------------------------------------
TypeOK ==
  /\ stopOnError \in BOOLEAN
  /\ errors \in Seq(ErrorTypes)
  /\ returned \in [value : {"none", "nil", "empty", "full"}, error : BOOLEAN]
  /\ calls \in 0..MaxCalls
  /\ pc \in {"idle", "scan", "parse", "extract", "return", "panicked"}
  /\ call \in Calls \union {NoCall}
  /\ dir \in 1..(Len(call.dirs) + 1)
  /\ pc = "scan" /\ dir \in DOMAIN call.dirs => entry \in 1..(Len(Entries) + 1)
  /\ file \in 1..(Len(manifests) + 1)
  /\ pc = "parse" /\ file \in DOMAIN manifests => info \in 0..(Len(Infos) + 1)
  /\ yamls \in Seq(File) /\ manifests \in Seq(File)
  /\ errs \in Seq(ErrorTypes) /\ fileErrors \in Seq(ErrorTypes)
  /\ workloads \in Seq(Info) /\ services \in Seq(Info) /\ configmaps \in Seq(Info)
  /\ inlined \in 0..Len(RefsOf(workloads))

-----------------------------------------------------------------------------
(* What a call was given *)

YamlFiles(d) ==
  LET yaml == Those(d, {e \in Entry : e.type = "yaml"})
  IN  [i \in DOMAIN yaml |-> yaml[i].file]

\* The files of a call in the order of its directories, and their Infos.
FilesOf(c) ==
  IF c.fromInfos THEN <<[readErrors |-> 0, infos |-> c.infos]>>
  ELSE Concat([d \in DOMAIN c.dirs |-> YamlFiles(c.dirs[d])])

AllInfos(files) == Concat([f \in DOMAIN files |-> files[f].infos])
InfosOf(c) == AllInfos(FilesOf(c))

OfKind(infos, kind) == Those(infos, {i \in Info : i.kind = kind})

Count(es, type) == Len(Those(es, {type}))

ReadErrors(files) ==
  Len(Concat([f \in DOMAIN files |-> [i \in 1..files[f].readErrors |-> 0]]))

\* The references that no ConfigMap answers, and those to a key that the last
\* ConfigMap of the name does not have.
NotFound(refs, maps) ==
  Those(refs, {r \in Ref : \A i \in DOMAIN maps : maps[i].name # r.config})
KeyNotFound(refs, maps) ==
  LET IsLast(i) == \A j \in (i + 1)..Len(maps) : maps[j].name # maps[i].name
  IN  Those(refs, {r \in Ref : r.key # WholeMap /\ \E i \in DOMAIN maps :
                     maps[i].name = r.config /\ IsLast(i) /\ r.key \notin maps[i].keys})

\* The entries that the walk reports with an error.
BadSubdirs(dirs) ==
  Concat([d \in DOMAIN dirs |-> Those(dirs[d], {e \in Entry : e.type = "subdirError"})])

\* The directories without a manifest.
WithoutYaml(dirs) == {d \in DOMAIN dirs : YamlFiles(dirs[d]) = <<>>}

HasReturned == pc = "idle" /\ returned # Idle

-----------------------------------------------------------------------------
\* A call that returns without an error and was not made to stop early has
\* analysed every resource of every directory, in order and once: the scan,
\* parse and inline loops lose nothing, whatever failed beside it.
EverythingAnalysed ==
  HasReturned /\ returned.value = "full" =>
    /\ ~returned.error
    /\ workloads = OfKind(InfosOf(call), "workload")
    /\ services = OfKind(InfosOf(call), "service")
    /\ configmaps = OfKind(InfosOf(call), "configmap")
    /\ inlined = Len(RefsOf(workloads))

\* Errors() after a call that was not cut short names each thing that went
\* wrong in this call as often as it did, and nothing of an earlier call. Of
\* directories without a manifest it says only what either reading of
\* error_types.go demands: none is made up, and if there is no other directory
\* this is told. (See EmptyDirsReported.)
ErrorsAccounted ==
  HasReturned /\ ~stopOnError /\ Count(errors, "FailedAccessingRoot") = 0 =>
    /\ Count(errors, "FailedReadingFile") = ReadErrors(FilesOf(call))
    /\ Count(errors, "FailedScanningResource") =
         Len(OfKind(InfosOf(call), "badResource")) + Len(OfKind(InfosOf(call), "nilObject"))
    /\ Count(errors, "FailedAccessingSubdir") = Len(BadSubdirs(call.dirs))
    /\ Count(errors, "NoYamlsFound") <= Cardinality(WithoutYaml(call.dirs))
    /\ call.dirs # <<>> /\ WithoutYaml(call.dirs) = DOMAIN call.dirs =>
         Count(errors, "NoYamlsFound") > 0
    /\ LET refs == RefsOf(OfKind(InfosOf(call), "workload"))
           maps == OfKind(InfosOf(call), "configmap")
       IN  /\ Count(errors, "ConfigMapNotFound") = Len(NotFound(refs, maps))
           /\ Count(errors, "ConfigMapKeyNotFound") = Len(KeyNotFound(refs, maps))
    /\ Count(errors, "NoK8sResourcesFound") = IF returned.error THEN 1 ELSE 0

\* A missing result is always explained: without all the policies or the
\* connections, Errors() has a severe error, and a fatal one if and only if
\* the call itself returns an error.
NoSilentLoss ==
  HasReturned =>
    /\ returned.value # "full" => HasSevere(errors)
    /\ returned.error <=> HasFatal(errors)
    /\ returned.error => returned.value = "nil"

\* WithStopOnError, a severe error is the last one of the call, and after it
\* no file and no resource is taken in.
StopsAtSevere ==
  [][ stopOnError /\ pc # "idle" /\ HasSevere(fileErrors \o errs) =>
        /\ Len(fileErrors') + Len(errs') = Len(fileErrors) + Len(errs)
        /\ UNCHANGED acc
        /\ Len(manifests') <= Len(manifests) ]_vars

\* Every call returns, or ends the process.
CallsReturn == pc # "idle" ~> pc \in {"idle", "panicked"}

-----------------------------------------------------------------------------
(* What the documentation says *)

\* error_types.go: FailedScanningResource is emitted when a known resource
\* cannot be properly deciphered; resource_accumulator.go: a bad Info object,
\* nil or with a nil Object, is an error. Either way the call goes on, as it
\* does with resources that nothing is wrong with.
BadResourcesReported == pc # "panicked"

\* error_types.go: NoYamlsFound is emitted when directory scanning finds no
\* YAML files. Either each directory without any is told, or the scan as a
\* whole is, once, if none of its directories has any.
EmptyDirsReported ==
  HasReturned /\ Count(errors, "FailedAccessingRoot") = 0 =>
    \/ Count(errors, "NoYamlsFound") = Cardinality(WithoutYaml(call.dirs))
    \/ Count(errors, "NoYamlsFound") =
         IF WithoutYaml(call.dirs) = DOMAIN call.dirs THEN 1 ELSE 0

=============================================================================
