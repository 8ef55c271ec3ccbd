# A TLA+ model of cluster-topology-analyzer

The analyzer reads the manifests of a Kubernetes application, finds the
connections its workloads require, and writes NetworkPolicies that allow those
connections and nothing else. It is a sequential program that keeps nothing
between runs. What is hard about it is not concurrency. It is that one result is
put together by many loops, over inputs in any order, with duplicates, missing
fields and partial failures, and that a mistake in one step shows only in the
meaning of policies written several steps later.

## 1. Inventory

| Component | Source (`src/...`) | State | Operations |
|---|---|---|---|
| Manifest finder | `pkg/analyzer/manifest_finder.go` | files and errors so far | walk each directory, collect YAML files, skip or stop on errors |
| Resource accumulator | `pkg/analyzer/resource_accumulator.go` | workloads, services, ConfigMaps, services to expose | read a file, parse its Infos, inline ConfigMaps, expose services |
| Conversion of Infos | `pkg/analyzer/info_to_resource.go:30-295,381-393` | none | one function per kind of resource; a failure is an error or a panic |
| Address extraction | `pkg/analyzer/info_to_resource.go:297-379` | none | find a network address in a configuration value |
| Connection discovery | `pkg/analyzer/connections.go`, `types.go` | loop counters, the connections | for each workload, service and possible source: is this a connection |
| Policy synthesis | `pkg/analyzer/synth_netpols.go` | map from workload names to rules, the policies | add rules, build policies, deny by default |
| Synthesizer API | `pkg/analyzer/policies_synthesizer.go`, `utils.go`, `error_types.go` | `stopOnError`, `errors` | six calls on directories or Infos, `Errors()` |
| Command line | `cmd/nettop/` | the output file | check arguments, one API call, write the result, exit |
| Logger | `pkg/analyzer/logger.go` | verbosity | show a warning or an error |

The components call each other in one order. An API call makes a manifest finder
and gets a list of files; makes a resource accumulator and has it parse the
files, then inline ConfigMaps into the workloads, then mark ports of services as
exposed; hands workloads and services to discovery; and hands the connections to
synthesis. Errors travel back as slices; `stopProcessing` decides after each stage,
and inside the loops of the first two, whether to go on. The
walk function and the logger are supplied by the client. Only `ps.errors` survives
a call.

What makes each part correct:

* finder and accumulator: nothing is dropped because something else failed,
  nothing is taken in after a stop, every failure is reported once;
* discovery: exactly the connections of the README's algorithm, whatever the
  order of the manifests, with the ports their source names;
* synthesis: both halves of each connection are open, exposed ports are open to
  whom they should be, all else is closed;
* exposure: a port is exposed if and only if some manifest asks for it, wherever
  it stands among the manifests; on its way to the policies nothing of that is lost
  or spread to other ports, services, namespaces or workloads;
* address extraction: an address is found wherever the README says one may stand,
  and nothing else is taken for one; a workload has the addresses of all the
  strings it holds or refers to;
* API: the result, the returned error and `Errors()` agree, call after call;
* command: the exit status, the output and the log tell what became of the analysis.

`PROJECT.json` lists the hazards of the code line by line, with the properties
that cover them.

## 2. Modules

| Module | What it is |
|---|---|
| `Topology` | the data types of `types.go` and the pure tests of `connections.go` |
| `RequiredConnectivity` | abstract: what discovery promises, after the algorithm in the repository's README |
| `Discovery` | `discoverConnections`, an action per loop iteration; implements `RequiredConnectivity` |
| `x_proofs` | theorems about module `x`: `Discovery`, `Exposure`, `Pipeline` (which has those about `Synthesis` too), `NetworkAddress`, `Workloads`, `PoliciesSynthesizer`, `NetTop` |
| `Synthesis` | `synthNetpols` on what `Discovery` finds (extends it, so a behaviour is a whole run from workloads and services to policies) |
| `Exposure` | how Services, Routes, Ingresses and Gateway routes become the services slice and its exposed ports |
| `Pipeline` | `Exposure` and `Synthesis` composed over the services slice: from manifests to policies |
| `NetworkAddress` | `networkAddressFromStr`: which values hold an address |
| `Workloads` | where the addresses of a workload come from: its pod spec and the ConfigMaps it refers to |
| `PoliciesSynthesizer` | the API calls, the directory scan, parsing and ConfigMap lookup, under the error policy |
| `NetTop` | the command (extends `PoliciesSynthesizer`): arguments, log, output file, exit status |
| `Lists` | the elements of a sequence that are kept, and sequences joined to one, as recursive functions |
| `Iteration` | induction over numbers and iterated functions, and lemmas about `Lists`, for the proofs |
| `MCx` | the inputs for TLC of module `x`; those of `MCDiscovery` are taken through synthesis too, by `MCSynthesis` |

How they fit together:

```
NetTop --- PoliciesSynthesizer          the control: calls, files, errors
                  |
   Workloads (NetworkAddress)   Exposure        parsing and what follows it
                  \               /
                   \     Pipeline
                    \       |
                     Synthesis -> Discovery => RequiredConnectivity
```

Definitions keep the names of the source where they can; the comment before
each says which function it stands for, and `PROJECT.json` ("map") which lines.
Operators named `X_Y` are deliberate mistakes in `X` (a dropped condition, a
missing reset, ...) used to see that a property can fail. They are not part of
any specification.

### Discovery

`workloads` and `services` are the two slices; `dst`, `lnk`, `src` and `adr`
count the four nested loops (workload, service in front of it, possible source,
network address of the source). `matched` and `usedPorts` are the locals of
`findSource` (`usedPorts` is `UsedPorts` of the copy `foundSrc`), `anySource` is
`len(srcRes) > 0`. The code runs `findSource` to its end and then goes through
`srcRes` to compare each source with the target. The model makes the two decisions
on a source together, in `RecordSource`, because nothing between them reads or
writes what they use; the order of the result is the same.

A name is a number, its rank in Go's string order, since synthesis sorts by name;
0 is the empty name. A label or selector is an atom for `key:value`. An address is a
record of service name, namespace, "ends in .svc.cluster.local" and port. That is
one-to-one with the string, since names and namespaces of Kubernetes services
hold no dots and no colons. An address with a named port (`svc:http`) matches no
service in the code, as an address of any other host does not; it is one of the
addresses with a host that no service has.

### Synthesis

`deploys` is the map `deploysConnectivity`, with the index of the workload that
made the entry. `cur` is the loop over connections, `BuildNetpol` takes entries
in the order of names, `res` is the loop of `getNsDefaultDenyPolicies`. `Panic` is
the nil dereference that a workload without a name leads to. A namespaceSelector
is a namespace, `"*"` (the empty selector) or none. `reflect.DeepEqual` tells a nil
map of labels from an empty one; the model does not. In a cluster both select
every pod; the code could only keep two equal rules in place of one.

`Selects`, `Covers`, `Opens`, `EgressAllowed`, `IngressAllowed` say what a
cluster makes of the policies. The properties are stated with these, and not in terms
of the rules the code writes.

### PoliciesSynthesizer

A file is its read errors and its Infos; an Info is its kind and, for ConfigMaps
and workloads, the references between them. `Entry` is what the walk function is
called with; the walk itself (`filepath.WalkDir`, or the client's) and
`fsscanner.GetResourceInfosFromDirPath` are libraries, and what they may
produce is the input. `pc` follows the stages of a call. The slices of errors
that the code passes around are `errs` (of the directory or the file at hand) and
`fileErrors` (of the call). A call on a slice of Infos is a call on one file read
without errors: `parseInfos` is the same loop, and the tests between the stages
are the same.

What the model leaves out here is in other modules: which addresses a ConfigMap
value holds (`Workloads`, `NetworkAddress`), `exposeServices` (`Exposure`). The text
and the location of errors are left out.

### Exposure

An Info is a Service, or one of the resources that point at services, with the
backends in the order in which the code visits them. `toExpose` is
`servicesToExpose`, a function from namespace and name to the ports asked for;
the map of maps of the code makes no difference, since an entry without ports exposes
none. `Annotations` says whether a `.../scrape` annotation is true and
which values the `.../port` annotations have. The code ranges over the annotations, a
Go map, so that of several port annotations any may be the last: `ParseService`
chooses one. A number in an `IntOrString` is 0 if the field is a name, as in the
Kubernetes types.

`ExposedExactly` compares the slice at the end with `Pointed`, `Scraped` and
`MayBeScraped`, which say for each kind of resource what it asks for, in terms of the
manifests, without an order.

### Pipeline

`Exposure` is an instance on the `services` and `panicked` variables of `Synthesis`.
`Accumulate` fills the slice, `Analyze` goes on from there, as
`extractConnections` does. `Inputs` gives the workloads only. `PointedIsOpen` and
`OpenOnlyIfPointed` relate the manifests to the meaning of the policies in a
cluster, across all stages: exposure under the service's port, synthesis under the
port of the pods.

### NetworkAddress

A value is a sequence of tokens, for what the code tells apart in a string: labels of
letters, short and too long for a port name, numbers within the range of ports and
outside, separators, slashes, dots, dashes, a percent sign that `url.Parse` refuses.
`Chars` gives each kind of token a length, three characters for a short label, since the
validators accept no port name of more than 15 characters and no host of more than 253.
`HostFromURL`, `AddressFromSuffix`, `SuffixStarts` and
`NetworkAddress` are the four functions of the source. `url.Parse` and the
validators of `k8s.io/apimachinery` are modelled from their use, for values of these
tokens; values with capital letters, fragments, queries or user names are not.
`AsTested` ties this to the program: the table of
`TestNetworkAddressValue` in `info_to_resource_test.go`, but for a label of 1500
letters, which no validator accepts, and the fragment of one value.

### Workloads

`infos` holds workloads and ConfigMaps; `AddressIn` stands for `NetworkAddress`, which
values have which address. `Parse` is `parseInfo` with the whole of
`parseDeployResource` (`ResourceFrom`), `InlineRef` and `InlineKeyRef` are one
reference each of `inlineConfigMapRefsAsEnvs`. The data of a ConfigMap is a Go map:
its addresses are appended in any order. `errors` is a set here, with the workload and
the name; how often each is reported is in `PoliciesSynthesizer`. The name of a ConfigMap may
be empty, as an invalid manifest gives it: envFrom and volumes are taken as they come, and only
references to keys need a name. `NoConfigMap` is a source or a volume of another kind. Init
containers are not looked at by the code.

### NetTop

`args` is what `flagset.Parse` makes of a command line, `step` is where `_main` is, `os`
chooses what fails when the result is stored: creating, writing or closing the file.
`Analyse` is a step of the call in `PoliciesSynthesizer`, with what the logger shows
of it. A file that is created is empty, one whose write fails is empty or holds a part,
one whose `Close` fails may lose what it holds. A panic ends the process with status 2.
The conversion to JSON or YAML is left out, since it cannot fail on these types; so
is a failing `fmt.Println`, whose result is not looked at.

## 3. Runs

Each run takes less than a minute or two on two workers.

| Run | Shows | Bounds |
|---|---|---|
| `synthesis` | of discovery: types; exactly the required connections, each once, with the right ports; refinement of `RequiredConnectivity`; termination. Of synthesis: types; both halves of each connection; detected and exposed traffic open, other traffic closed; default deny once per namespace; termination | 14029 applications. `DiscoveryInputs`: all pairs out of 40 workloads with 4 services, all triples out of 5 workloads with pairs of 3 services. `SynthesisInputs`: pairs of 10 workloads with one or two of 6 services, triples of 4 workloads with two |
| `exposure` | types; a port is exposed exactly if a manifest asks for it; exposing never closes; termination | all 2379 lists of one to three out of 5 Services and 8 resources that point at them |
| `pipeline` | what manifests ask for is open to the cluster, nothing else is; the whole run ends | lists of two or three out of 8 manifests, with 4 pairs of workloads |
| `network_address` | the test table; the documented pattern is found, alone and behind a key; what is found is an address | 212903 values: 8 seeds and the values of the test, each grown by up to 4 tokens |
| `workloads` | types; each workload has exactly the addresses it holds or refers to; dangling references are reported; inlining ends | 24 workload manifests with a second one, one or two of 8 ConfigMaps, in three orders |
| `policies_synthesizer` | types; nothing lost in silence; errors counted; stop at a severe error; calls return | two calls on one synthesizer, up to two directories of up to three entries, files with up to three Infos |
| `net_top` | the log is the errors of the call; exit status 0 means that the result is stored; without an error in the log no workload is left out, with an empty log and without `-q` nothing is; the file is touched last; the command exits | all combinations of flags, 17 sets of directories, three kinds of failures of the file |
| `same_name`, `nothing_more`, `empty_dir`, `bad_workload`, `route_port` | that the code does not do what its documentation says | see section 5 |

Why small inputs are enough: discovery treats each triple (source, target,
service) without regard to the others, except for `anySource`, which needs two
workloads and one service to be wrong, and for what leaks from one service or
source to the next, which needs two services or three workloads. (The proofs of
section 4 remove the bounds, of this module and of the others.) A wrong policy needs at most one bystander beside the
two ends of a connection. A port is exposed or not by one resource and one service; a
third manifest shows what one resource does to another, or to a service of the same name
in another namespace. A value grows by more tokens than the longest address has
behind its seed, so that each token meets each other one around each separator.
Two calls are enough to see what one leaves behind, two
directories to see what one does to the other.

The inputs hold the cases that matter: names shared across kinds and namespaces,
duplicates of one workload, no namespace, no name, no labels, services without
selectors or ports, with two ports of one number, external or exposed ports,
addresses in each form, with wrong ports and of other services; broken
roots, subdirectories, files and resources, empty files, a nil Info, ConfigMaps
that are missing, defined twice, or without the key; Routes, Ingresses and Gateway
routes before and after their service, in its namespace and in others, by number, by
name and without a port, annotations with none or several ports; workloads before,
between and after their ConfigMaps.

Conditions in the properties of `Synthesis`: `DetectedAllowed` and
`ExposedIsOpen` assume `NamesIdentify` (two workloads of one name agree in
namespace and labels), `OnlyDetectedAllowed` also `LabelsIdentify` (no workload's
labels are among those of a different one) and `AllNamed`. Without them they are
false: `same_name` breaks the first, and `nothing_more` the two others. Many inputs of
`synthesis` satisfy the conditions, so they are not vacuous. `Pipeline` has the same
conditions for the same reasons. `ExitTellsResult` exempts a failing `Close`
(section 5). `ErrorsAccounted` says little of directories without manifests, since the
comment at `error_types.go:25` can be read in two ways and the code follows neither
(`empty_dir`): one of them is reported if all are such, and no more than there are.
`SilenceMeansComplete` has two parts. What keeps a workload, a file or a directory out of the result
is an error, which is logged with `-q` too. Another resource that does not convert, and a missing
ConfigMap or key, are warnings, which `-q` hides; so it is only for commands without `-q` that an empty
log means that nothing at all was left out. `SuffixFound` allows that an earlier part of the value is itself an
address: the code takes the first.

Fairness: weak fairness of the steps of a call, or of the command. The program is
sequential, and a call it has entered runs until it returns or panics; nothing
waits. There is no fairness on `Invoke`: a client need not call. `Pipeline` has
one condition for each of its two stages, of which only one is enabled at a time.
Deadlock is checked in all modules where the end of a call stutters;
`policies_synthesizer` (with `empty_dir` and `bad_workload`) turns it off since a client may stop calling, and a panic ends
the process, `network_address` since values stop growing at the bound.

## 4. Proofs

Each theorem of this section is about the specification of its module, for all values
of the constants that the named assumptions allow: any number of manifests, workloads,
services, addresses, directories, files and calls. A property that holds of a program at
its end or between its steps is seldom inductive. Each module of proofs defines an
invariant that says what the loops have behind them, shows that it holds at first and
that each action keeps it, and concludes the properties from it. The invariants named below
also hold in TLC, in place of those of the run's `.cfg` and with the `MC` module
extending the proofs: that is how they were found. `NetworkAddress`, whose steps only make
values, is the exception: its theorems are about what an operator says of a value.

Assumptions, each in the module that declares the constants: names are numbers
(`NamesAssumption`) and a port may have no name (`PortNamesAssumption`); the inputs are
sequences of workloads and services with at least one workload, since `extractConnections`
returns before discovery if there is none (`InputsAssumption`); manifests are lists of the
kinds of Infos described above (`InfoListsAssumption`, `PipelineAssumption`,
`WorkloadsAssumption`, which also says that the empty string holds no address); the DNS port is a
number or a name (`DNSPortAssumption`); a call has directories or Infos, not both
(`CallsAssumption`); the command makes one call, on the directories of its arguments
(`CommandLinesAssumption`); the values that `NetworkAddress` starts from are sequences of its
tokens (`ValuesAssumption`).

### Discovery

`TypeCorrect`; `OnlyRequiredHolds`, `AllRequiredHolds`, `NoRepeatsHolds` and
`UsedPortsExactHolds`, the four properties of the result; and `PromiseKept`:
`Spec => ImplementsPromise`, the loops implement `RequiredConnectivity` (its safety; the
abstract specification has no fairness).

`TypeOK` is inductive by itself; it says of the inputs what they are, not that they are among
`Inputs`, so that `Pipeline`, which makes its own, can use the same lemmas. What it needs is
that `FirstPortNumbered` chooses a port, by well-foundedness of the naturals. `IInv` adds
what the counters have behind them: `MatchedInv` (`matched` holds iff one of the addresses before
`adr` designates the service), `AnySourceInv` (`anySource` iff one of the resources before
`src` calls it), `FreshInv` (outside `findSource` all is as at its start), `CompleteInv`
(each required triple behind the counters is reported) and `HandledInv` (nothing ahead
of the counters is). `Handled` orders the triples the way the loops do, with the
sourceless connection after all sources. Two lemmas, `SameResult` and `OneAdded`, say what
a step that appends nothing or one connection has to show; each action then gets a lemma
that computes which triple it puts behind the counters. `CompleteInv` with the counters at
the end is `AllRequired`; `HandledInv` is why no triple is appended twice, and so why each
step is a step of the abstract specification. `PortsInv` adds that `usedPorts` stands for the
addresses of `src` before `adr` (`UsedInv`), and so for all of them when the connection is
recorded: one port for each address that names one, in their order (`StandsFor`).

### Synthesis

(In `Pipeline_proofs`, since `Pipeline` extends `Synthesis`.) `SynthTypeCorrect`, `HalvesPairedHolds`, `DetectedAllowedHolds`, `ExposedIsOpenHolds`,
`OnlyDetectedAllowedHolds`, `DeniedByDefaultHolds`: with discovery in front, everything
that the run `synthesis` checks but termination.

`SynthInv` joins `IInv` and `PortsInv`, which hold on since synthesis does not write what they
speak of, with `Progress`. At its heart is `RulesInv`: each connection behind `cur` that has ports
has its entries and rules in `deploys` (`Opened`), and each rule there is that of such a connection
(`Justified`). Half of a connection without the other is excluded by the first;
that nothing else is open, by the second. `NetpolsInv` carries this over to the policies: each
is that of an entry or a default deny of a workload's namespace, no two share name and namespace, and
the namespaces of the workloads behind `res` are denied. The entry of a name keeps the first workload of that name:
this is where `NamesIdentify` is used, and the proofs use it and `LabelsIdentify` nowhere else than in
the properties that state them.

### Exposure

`AccTypeCorrect`, `ExposedExactlyHolds` and `NeverClosedHolds`, an action property. `AccTypeOK` is not inductive
alone: parsing a Service does not touch `bck`, so that `AccIInv` adds `BackendInv`, between
resources `bck` is at its start. `ExactInv` says that what the backends behind
the parser ask for is in `toExpose` (`RecordedInv`) and nothing else is (`AskedInv`), that
the services are made of the Service manifests parsed so far, in their order, and
those before `exposed` are done with (`ServicesInv`), and that exposing comes after parsing
(`ExposingInv`), so that it sees all that was asked for.

### Pipeline

`PointedIsOpenHolds` and `OpenOnlyIfPointedHolds`: from what a manifest asks for to what the
policies open in a cluster, through all stages, both ways. `GuaranteesKept`: on services made of
manifests, discovery and synthesis promise what they promise on others.

`PipeInv` is the invariants of the two halves, `AccIInv` and `ExactInv` of an instance of
`Exposure_proofs` and `SynthInv`, and that the second half is at its start as long as the first is not
done. Nothing is claimed after a nil dereference, which ends the process. What is left to
prove is that a service and its manifest agree, the port of the one under that of the other, and this is
where the lemmas of both sides meet.

### NetworkAddress

`PatternFoundHolds`, `SuffixFoundHolds`, `CleanAddressHolds`: everything that the run
`network_address` checks but the table of the test. They hold of every sequence of tokens, so that
the invariant is only `ValueType`, that the value is one. `OneAddress`: a value yields at most one
address, and the empty value none, which is what `WorkloadsAssumption` asks of `AddressIn`.

The proofs go up the four functions. `FirstOfIs`, `SuffixIs` and `BeforeIs` say where a search stops
and what a cut returns. `ValidTokens` turns the tests of `networkAddressFromSuffix` around: an
accepted host has a host's characters before its first colon and a port's behind it. From this
`SelfHost` follows: an address that begins with a letter is its own host, although `url.Parse` may take
what stands before its colon for a scheme; and an address of the documented form is the host
of the URL that a protocol makes of it (`ProtocolHost`), and so is found
(`ExpectedIsFound`). `HostPiece` follows the cuts of `getHostFromURL` back into the value. `FirstGood`
says what trying the suffixes in turn comes to: the address of the least start in `Good`, or none. The
lengths in `Chars` play no part: the theorems hold for whatever lengths the validators count.

### Workloads

`TypeCorrect`, `AddressesExactHolds`, `DanglingReportedHolds`. `WorkloadsInv` has, beside
the types, `ParseInv` (the slices hold what the manifests parsed so far say, and no reference is
looked up before all are), `AddressInv` (a workload has the addresses of its own strings
and of the answers to the references that have been looked up) and `ReportInv` (the errors are the
faults of those). A ConfigMap is answered by the last of its name, and its values come in any order: the
invariant speaks of the set of addresses, so that the order makes no difference.

### PoliciesSynthesizer

* `TypeCorrect`, with `TypeInv`: the types, those of what the loops go over (`LoopTypes`), and what
  each stage leaves empty (`StageInv`).
* `NoSilentLossHolds`. The property is inductive: only `Return` makes the synthesizer
  idle (`OnlyReturnEnds`), and what `Return` sets explains itself, since a fatal error is severe
  and `Value` is short only if `Stop` holds.
* `StopsAtSevereHolds`, an action property. The invariant says where a severe error can be,
  `WithStopOnError`: in `fileErrors` only when the loop over directories or files is over, in
  `errs` only at the end of a directory or a file (`StopInv`). There each step only leaves the
  loop (`StoppedStep`).
* `EverythingAnalysedHolds`. `CompleteInv` says of each stage that the call has to stop or has
  taken in all it has gone past: the files of the directories (`ScanInv`), the resources of the
  Infos (`ParseInv`), the references (`EndInv`).
* `ErrorsAccountedHolds`. As long as nothing makes the call stop (`GoesOn`), `CountInv` counts the errors
  of each type, in `fileErrors` and `errs` together, against what the loops have behind them. Of empty
  directories it counts those before the first manifest, as the code does (`UntilFirstYaml`, a notion of
  the proof only), which `UntilFirstBounds` compares with what the property says.

### NetTop

`ExitTellsResultHolds`, `TruncatedLastHolds` (an action property), `LogIsErrorsHolds` and
`SilenceMeansCompleteHolds`. `NetInv` has three parts: `AnalyseInv`
(without `WithStopOnError` a call that returns no error has returned everything, which is what makes
the file safe to touch), `FileInv` (what the file holds at each step, and with which
status) and `PrintInv`. The invariants of `PoliciesSynthesizer_proofs` are those of the
command's call too, since the command makes the steps of a synthesizer or leaves it alone
(`CallInvariant`); `RootInv` and `FullInv` add what a call that goes on has not met, and that a full
result has workloads. `LogInv` says that the log is the errors found so far, or the severe ones of
them with `-q`. A log without errors then is a count of zero of each severe type, and an empty one without
`-q` a count of zero of every type; `ErrorsAccounted` says what that means for the input.

### How induction over data is done

The induction theorems of the prover's library take an operator as a parameter,
which its backends cannot instantiate. `Iteration` states induction in terms of sets of numbers, which
follows from `WFMin`, and shows what a function defined by iteration returns. The models
use recursive functions (`Lists`, `ToNetpolPorts`) where `SelectSeq` or a fold would do, so
that this applies: `ThoseElements`, `ConcatElements` and the like are then lemmas with one proof.

### Only model-checked

* Liveness (`Termination`, `CallsReturn` and their like): out of the prover's reach.
* `AsTested` of `NetworkAddress`: a table of values of the repository's test, each to be
  evaluated.

No module uses a `RECURSIVE` operator.

## 5. Where the code and its documentation disagree

With a run that ends in a counterexample:

* `same_name`: the map of `findOrAddDeploymentConn` is keyed by name. Of two
  workloads of one name in two namespaces the second gets no policy, and its
  connections have no rules.
* `nothing_more`: a Pod, Job or CronJob whose pods have no labels gets a policy with
  an empty podSelector, which opens its connections to all pods of the namespace. And a workload without a
  name (one with `generateName`) is taken for no source (`synth_netpols.go:139`), so that what it
  connects to is opened to the whole cluster, and it gets no egress rule. The inputs have one of each, and
  the last state shows both; either is enough. (As a target the nameless workload ends the process: `Panic`
  in `Synthesis`.)
* `empty_dir`: `manifest_finder.go:36` looks at the files of all directories so far, so that
  a directory without YAML files is reported if it comes before the first manifest. That is neither one
  error for each such directory nor one for a scan that finds nothing (`error_types.go:25`).
* `bad_workload`: a workload that cannot be converted is a nil dereference and not
  a `FailedScanningResource` error. So is a nil Info, whose `Source` is read for that error
  (`resource_accumulator.go:101`), and a Route without its optional port (`info_to_resource.go:155`): the
  run has a call with each, and the counterexample is the shortest.
* `route_port`: a number in a Route is a port of the pods, but it is compared with the
  port numbers of the service, so that a Route to port 8080 behind a service that
  maps 80 to 8080 exposes nothing.

Without a run of their own, because the models show them directly (the properties say
what the code does):

* `synth_netpols.go:99`: workloads without a connection have the default deny policy
  only, while the repository's README promises a policy for each workload.
* `info_to_resource.go:354`: the test `i > 1` on byte offsets passes over a letter
  right after a separator that is the first character (`SuffixStarts` begins at 3, and so
  does `SuffixFound`), against the comment at line 348.
* `info_to_resource.go:325`: in a value `key:val` whose `val` is a possible port name,
  the whole is taken for host and port, and `val` is not tried, against the comment at
  line 302. `SuffixFound` says when this happens.
* `cmd/nettop/main.go:30`: the error of `Close` is ignored, so that status 0 does not
  mean that the output file is complete.

## 6. Plan

Done: all modules of section 2, all runs of section 3, and the proofs of section 4: every
safety property of a run is a theorem, but for `AsTested`. Nothing of the plan is left.

## 7. Not modelled

* Libraries, from which the models take what they may return: the directory walk
  (`filepath.WalkDir` or the client's), `fsscanner`, the Kubernetes converters,
  `flag`, and `url.Parse` and the validators beyond the tokens of `NetworkAddress`.
* The conversion of results to JSON and YAML and what is printed: no property is about
  their layout, and they cannot fail on these types.
* Texts, document numbers and locations of errors; informative and debug messages.
* Fields that are copied and never read again: service account, images, file paths.
* The switch over the kinds of workloads in `k8sWorkloadObjectFromInfo`: each case finds
  the pod template of its kind. Which kinds may turn out nil is in `PoliciesSynthesizer`.
* `WithLogger`, `WithWalkFn`, `WithDNSPort` and `WithDNSNamedPort`, which choose a constant
  or a library, and `ErrorPtrs`, which returns what `Errors` does.
