--------------------------------- MODULE NetTop ---------------------------------
(***************************************************************************)
(* The command net-top (cmd/nettop): it parses its arguments, makes one    *)
(* call on a PoliciesSynthesizer, writes what it returns and exits. Its    *)
(* logger shows the call's errors. What is written in which format, and    *)
(* the usage and informative messages are left out.                        *)
(***************************************************************************)
EXTENDS PoliciesSynthesizer

CONSTANT CommandLines

\* What flagset.Parse makes of a command line. dirs are the contents of the
\* directories; outputFile tells whether a file is named.
CommandLine ==
  [flags : {"ok", "bad", "help"}, dirs : Seq(Seq(Entry)), netpols : BOOLEAN,
   quiet : BOOLEAN, verbose : BOOLEAN, format : {"json", "yaml", "other"},
   outputFile : BOOLEAN]

CallOf(a) ==
  [returns |-> IF a.netpols THEN "policies" ELSE "connections",
   fromInfos |-> FALSE, infos |-> <<>>, dirs |-> a.dirs]

ASSUME CommandLinesAssumption ==
  /\ CommandLines \subseteq CommandLine
  /\ {CallOf(a) : a \in CommandLines} \subseteq Calls
  /\ MaxCalls = 1

\* The status of a process that has not exited.
Running == 3

VARIABLES
  args,     \* the command line
  os,       \* what fails when results are stored, if anything
  step,     \* where the command is
  log,      \* the warnings and errors that the logger has shown
  outFile,  \* contents of the output file; "old" is what it was before
  stdout,   \* the result that was printed
  status    \* exit status

command == <<args, os, step, log, outFile, stdout, status>>
netVars == <<vars, command>>

NetInit ==
  /\ Init /\ stopOnError = FALSE
  /\ args \in CommandLines
  /\ os \in {"ok", "createFails", "writeFails", "closeFails"}
  /\ step = "args" /\ log = <<>>
  /\ outFile = "old" /\ stdout = "none" /\ status = Running

At(s) == status = Running /\ step = s

-----------------------------------------------------------------------------
(* parse_args.go *)

\* parseInArgs returns an error other than flag.ErrHelp.
Rejected(a) ==
  /\ a.flags # "help"
  /\ \/ a.flags = "bad"
     \/ a.dirs = <<>>
     \/ a.quiet /\ a.verbose
     \/ a.format = "other"

\* _main returns before the analysis.
ExitOnArgs ==
  /\ At("args")
  /\ args.flags = "help" \/ Rejected(args)
  /\ status' = IF Rejected(args) THEN 1 ELSE 0
  /\ UNCHANGED <<vars, args, os, step, log, outFile, stdout>>

-----------------------------------------------------------------------------
(* logger.go *)

Verbosity == IF args.quiet THEN "Low" ELSE IF args.verbose THEN "High" ELSE "Medium"

\* Mutant: only fatal errors are logged as errors.
LoggedAsError_Fatal(e) == IsFatal(e)

\* logError: as an error or as a warning.
LoggedAsError(e) == IsSevere(e) \/ IsFatal(e)

\* Warnf and Errorf of the DefaultLogger
Shown(es) ==
  Those(es, {e \in ErrorTypes : LoggedAsError(e) \/ Verbosity \in {"Medium", "High"}})

-----------------------------------------------------------------------------
(* detectTopology *)

StartAnalysis ==
  /\ At("args")
  /\ args.flags = "ok" /\ ~Rejected(args)
  /\ Invoke /\ call' = CallOf(args)
  /\ step' = "analyse"
  /\ UNCHANGED <<args, os, log, outFile, stdout, status>>

\* The errors of the call, in the order of appendAndLogNewError.
Found == fileErrors \o errs

\* searchForManifestsInDir logs that the walk has ended early.
WalkError == IF Scanning /\ entry > Len(Entries) /\ Stop(errs) THEN <<"Walking">> ELSE <<>>

Analyse ==
  /\ At("analyse")
  /\ Work
  /\ log' = log \o WalkError \o Shown(SubSeq(Found', Len(Found) + 1, Len(Found')))
  /\ UNCHANGED <<args, os, step, outFile, stdout, status>>

Returned == At("analyse") /\ pc = "idle"

\* Mutant: the error of the connections is assigned to a variable of its own.
CallFailed_Shadowed == returned.error /\ args.netpols

CallFailed == returned.error

\* detectTopology logs an error and returns it.
Fail == log' = Append(log, "Failed") /\ status' = 1

AnalysisFails ==
  /\ Returned /\ CallFailed
  /\ Fail
  /\ UNCHANGED <<vars, args, os, step, outFile, stdout>>

\* writeContent without a file: fmt.Println.
PrintResult ==
  /\ Returned /\ ~CallFailed /\ ~args.outputFile
  /\ stdout' = returned.value
  /\ status' = 0
  /\ UNCHANGED <<vars, args, os, step, log, outFile>>

\* os.Create truncates the file.
CreateFile ==
  /\ Returned /\ ~CallFailed /\ args.outputFile
  /\ IF os = "createFails" THEN Fail /\ UNCHANGED <<step, outFile>>
     ELSE step' = "write" /\ outFile' = "empty" /\ UNCHANGED <<log, status>>
  /\ UNCHANGED <<vars, args, os, stdout>>

\* Mutant: the result of the write is not looked at.
WriteFails_Unseen == FALSE

WriteFails == os = "writeFails"

WriteFile ==
  /\ At("write")
  /\ outFile' \in IF os = "writeFails" THEN {"empty", "partial"} ELSE {returned.value}
  /\ IF WriteFails THEN Fail /\ UNCHANGED step ELSE step' = "close" /\ UNCHANGED <<log, status>>
  /\ UNCHANGED <<vars, args, os, stdout>>

\* The result of Close is ignored; if it fails, what was written may be lost.
CloseFile ==
  /\ At("close")
  /\ outFile' \in IF os = "closeFails" THEN {outFile, "empty", "partial"} ELSE {outFile}
  /\ status' = 0
  /\ UNCHANGED <<vars, args, os, step, log, stdout>>

\* The process ends with a stack trace.
Crash ==
  /\ At("analyse") /\ pc = "panicked"
  /\ status' = 2
  /\ UNCHANGED <<vars, args, os, step, log, outFile, stdout>>

NetNext ==
  \/ ExitOnArgs \/ StartAnalysis \/ Analyse \/ AnalysisFails \/ Crash
  \/ PrintResult \/ CreateFile \/ WriteFile \/ CloseFile

Exited == status # Running /\ UNCHANGED netVars

\* A process runs until it exits.
NetSpec == NetInit /\ [][NetNext \/ Exited]_netVars /\ WF_netVars(NetNext)

-----------------------------------------------------------------------------
IsError(e) == LoggedAsError(e) \/ e \in {"Walking", "Failed"}

\* The log is the errors that Errors() returns, in their order, with -q the
\* severe ones only, whatever the level at which each was logged on the way.
LogIsErrors ==
  status \in {0, 1} /\ calls = 1 =>
    Those(log, ErrorTypes) =
      IF args.quiet THEN Those(errors, {e \in ErrorTypes : IsSevere(e)}) ELSE errors

\* The result is delivered, to the file or else to stdout, exactly if the exit
\* status is 0, but for a failing Close; with another status nothing is
\* delivered, and the file is as it was unless writing to it has failed.
ExitTellsResult ==
  /\ status = 0 /\ calls = 1 /\ os # "closeFails" =>
       IF args.outputFile THEN outFile = "full" /\ stdout = "none"
       ELSE outFile = "old" /\ stdout = "full"
  /\ status \in {1, 2} =>
       /\ stdout = "none"
       /\ outFile = "old" \/ (os = "writeFails" /\ outFile \in {"empty", "partial"})

\* A result without an error in the log, with -q too, is that of every
\* workload in every directory. Other resources that cannot be deciphered and
\* missing ConfigMaps are warnings, which -q hides: only without -q, and with
\* nothing in the log at all, is no resource and no value left out.
SilenceMeansComplete ==
  status = 0 /\ calls = 1 =>
    LET infos == InfosOf(CallOf(args))
        refs == RefsOf(OfKind(infos, "workload"))
        maps == OfKind(infos, "configmap")
    IN  /\ (\A i \in DOMAIN log : ~IsError(log[i])) =>
             /\ workloads # <<>> /\ workloads = OfKind(infos, "workload")
             /\ ReadErrors(FilesOf(call)) = 0
             /\ \A d \in DOMAIN args.dirs : \A e \in DOMAIN args.dirs[d] :
                  args.dirs[d][e].type \in {"yaml", "other"}
        /\ log = <<>> /\ ~args.quiet =>
             /\ services = OfKind(infos, "service") /\ configmaps = maps
             /\ \A i \in DOMAIN infos : infos[i].kind \notin {"badResource", "nilObject"}
             /\ NotFound(refs, maps) = <<>> /\ KeyNotFound(refs, maps) = <<>>

\* An output file is overwritten only when the whole result is there.
TruncatedLast == [][outFile = "old" /\ outFile' # "old" => returned.value = "full"]_netVars

\* The command exits.
NetTermination == <>(status # Running)

=============================================================================
