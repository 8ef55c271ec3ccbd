----------------------------- MODULE NetTop_proofs -----------------------------
(***************************************************************************)
(* Proofs about NetTop, for all command lines and directories: what the    *)
(* exit status and the log say of the output, and when the output file is  *)
(* touched.                                                                *)
(*                                                                         *)
(* NetInv says what is known at each step of the command: that the call    *)
(* has its whole result before the file is created, and what the file      *)
(* holds from then on. LogInv says that the log is made of the errors that *)
(* the call has found so far. CallInv carries the invariants of the        *)
(* synthesizer over to the command, with RootInv and FullInv: without      *)
(* errors, nothing of the directories has been passed over.                *)
(***************************************************************************)
EXTENDS NetTop, PoliciesSynthesizer_proofs

\* Without WithStopOnError, a call that returns no error returns everything.
AnalyseInv ==
  /\ ~stopOnError
  /\ step = "args" => pc = "idle" /\ calls = 0
  /\ step = "analyse" /\ pc = "idle" => returned.error \/ returned.value = "full"
  /\ step \in {"write", "close"} => returned.value = "full"

\* What the file holds.
FileInv ==
  /\ step \in {"args", "analyse"} => outFile = "old"
  /\ step = "write" =>
       \/ status = Running /\ outFile = "empty"
       \/ status = 1 /\ os = "writeFails" /\ outFile \in {"empty", "partial"}
  /\ step = "close" =>
       /\ os # "writeFails"
       /\ \/ status = Running /\ outFile = "full"
          \/ status = 0 /\ (outFile = "full" \/ os = "closeFails")
  /\ step \in {"write", "close"} => args.outputFile

\* What was printed.
PrintInv ==
  \/ stdout = "none" /\ (step = "analyse" => status # 0)
  \/ stdout = "full" /\ step = "analyse" /\ status = 0 /\ ~args.outputFile

NetInv ==
  /\ step \in {"args", "analyse", "write", "close"}
  /\ AnalyseInv /\ FileInv /\ PrintInv

-----------------------------------------------------------------------------
LEMMA NetInvInit == NetInit => NetInv
<1>1. QED
  BY DEF NetInit, Init, NetInv, AnalyseInv, FileInv, PrintInv, Running

\* A step of the call leaves the command where it is.
LEMMA AnalyseKeeps == NetInv /\ Analyse => NetInv'
<1> SUFFICES ASSUME NetInv, Analyse PROVE NetInv'
  OBVIOUS
<1>1. step = "analyse" /\ status = Running /\ Work
  BY DEF Analyse, At
<1>2. UNCHANGED <<args, os, step, outFile, stdout, status>>
  BY DEF Analyse
<1>3. ~stopOnError'
  <2>1. CASE Return
    BY <2>1 DEF Return, NetInv, AnalyseInv
  <2>2. CASE ~Return
    BY <1>1, <2>2, OnlyReturnEnds DEF api, NetInv, AnalyseInv
  <2>3. QED
    BY <2>1, <2>2
<1>4. pc' = "idle" => returned'.error \/ returned'.value = "full"
  <2>1. CASE Return
    <3>1. returned' = [value |-> IF HasFatal(fileErrors) THEN "nil" ELSE Value,
                       error |-> HasFatal(fileErrors)]
      BY <2>1 DEF Return
    <3>2. ~HasFatal(fileErrors) => Value = "full"
      BY DEF Value, Stop, NetInv, AnalyseInv
    <3>3. QED
      BY <3>1, <3>2, Zenon
  <2>2. CASE ~Return
    BY <1>1, <2>2, OnlyReturnEnds
  <2>3. QED
    BY <2>1, <2>2
<1>5. AnalyseInv'
  BY <1>1, <1>2, <1>3, <1>4 DEF AnalyseInv
<1>6. QED
  BY <1>1, <1>2, <1>5 DEF NetInv, FileInv, PrintInv

LEMMA NetInvStep == NetInv /\ [NetNext \/ Exited]_netVars => NetInv'
<1> SUFFICES ASSUME NetInv, [NetNext \/ Exited]_netVars PROVE NetInv'
  OBVIOUS
<1> USE DEF At, Running
<1>1. CASE ExitOnArgs
  BY <1>1 DEF ExitOnArgs, NetInv, AnalyseInv, FileInv, PrintInv, vars, api
<1>2. CASE StartAnalysis
  <2>1. step = "args" /\ step' = "analyse" /\ status' = status /\ status = Running
    BY <1>2 DEF StartAnalysis
  <2>2. pc' # "idle" /\ ~stopOnError'
    BY <1>2 DEF StartAnalysis, Invoke, NetInv, AnalyseInv
  <2>3. UNCHANGED <<outFile, stdout, args, os>>
    BY <1>2 DEF StartAnalysis
  <2>4. QED
    BY <2>1, <2>2, <2>3 DEF NetInv, AnalyseInv, FileInv, PrintInv
<1>3. CASE Analyse
  BY <1>3, AnalyseKeeps
<1>4. CASE AnalysisFails
  BY <1>4 DEF AnalysisFails, Returned, Fail, NetInv, AnalyseInv, FileInv, PrintInv, vars, api
<1>5. CASE PrintResult
  BY <1>5 DEF PrintResult, Returned, CallFailed, NetInv, AnalyseInv, FileInv, PrintInv, vars, api
<1>6. CASE CreateFile
  BY <1>6 DEF CreateFile, Returned, CallFailed, Fail, NetInv, AnalyseInv, FileInv, PrintInv, vars, api
<1>7. CASE WriteFile
  BY <1>7 DEF WriteFile, WriteFails, Fail, NetInv, AnalyseInv, FileInv, PrintInv, vars, api
<1>8. CASE CloseFile
  BY <1>8 DEF CloseFile, NetInv, AnalyseInv, FileInv, PrintInv, vars, api
<1>9. CASE Crash
  BY <1>9 DEF Crash, NetInv, AnalyseInv, FileInv, PrintInv, vars, api
<1>10. CASE UNCHANGED netVars
  BY <1>10 DEF netVars, command, NetInv, AnalyseInv, FileInv, PrintInv, vars, api
<1>11. QED
  BY <1>1, <1>2, <1>3, <1>4, <1>5, <1>6, <1>7, <1>8, <1>9, <1>10 DEF NetNext, Exited

LEMMA NetInvariant == NetSpec => []NetInv
<1>1. QED
  BY NetInvInit, NetInvStep, PTL DEF NetSpec

-----------------------------------------------------------------------------
\* With exit status 0 the result is where it was asked for, unless closing the
\* file failed; with another one nothing is delivered, and the file is only
\* changed if writing to it failed.
THEOREM ExitTellsResultHolds == NetSpec => []ExitTellsResult
<1>1. NetInv => ExitTellsResult
  BY DEF NetInv, AnalyseInv, FileInv, PrintInv, ExitTellsResult, Running
<1>2. QED
  BY <1>1, NetInvariant, PTL

\* The output file is first changed by a step that has the whole result: an
\* analysis that fails or crashes leaves an earlier result alone.
THEOREM TruncatedLastHolds == NetSpec => TruncatedLast
<1> DEFINE Late == outFile = "old" /\ outFile' # "old" => returned.value = "full"
<1>1. NetInv /\ [NetNext \/ Exited]_netVars => [Late]_netVars
  <2> SUFFICES ASSUME NetInv, NetNext, outFile' # outFile PROVE returned.value = "full"
    BY DEF Exited, netVars, command
  <2>1. CASE CreateFile
    BY <2>1 DEF CreateFile, Returned, At, CallFailed, NetInv, AnalyseInv
  <2>2. CASE WriteFile \/ CloseFile
    BY <2>2 DEF WriteFile, CloseFile, At, NetInv, AnalyseInv
  <2>3. QED
    BY <2>1, <2>2 DEF NetNext, ExitOnArgs, StartAnalysis, Analyse, AnalysisFails, Crash,
       PrintResult
<1>2. QED
  BY <1>1, NetInvariant, PTL DEF NetSpec, TruncatedLast

-----------------------------------------------------------------------------
(* What the errors of a call become *)

LEMMA GrowsBy ==
  ASSUME LoopTypes, NEW es \in Seq(ErrorTypes),
         \/ errs' = errs \o es /\ fileErrors' = fileErrors
         \/ errs = <<>> /\ errs' = errs /\ fileErrors' = fileErrors \o es
         \/ errs' = <<>> /\ fileErrors' = (fileErrors \o errs) \o es
  PROVE  Found' = Found \o es /\ Found \in Seq(ErrorTypes)
<1>1. errs \in Seq(ErrorTypes) /\ fileErrors \in Seq(ErrorTypes)
  BY DEF LoopTypes
<1>2. Found \in Seq(ErrorTypes) /\ Found' = fileErrors' \o errs'
  BY <1>1, ConcatProperties DEF Found
<1>3. CASE errs' = errs \o es /\ fileErrors' = fileErrors
  <2>1. (fileErrors \o errs) \o es = fileErrors \o (errs \o es)
    <3>1. \A r, s, t \in Seq(ErrorTypes) : (r \o s) \o t = r \o (s \o t)
      BY ConcatAssociative
    <3>2. QED
      BY <1>1, <3>1, Zenon
  <2>2. QED
    BY <1>2, <1>3, <2>1, Zenon DEF Found
<1>4. CASE errs = <<>> /\ errs' = errs /\ fileErrors' = fileErrors \o es
  <2>1. fileErrors \o es \in Seq(ErrorTypes)
    BY <1>1, ConcatProperties
  <2>2. (fileErrors \o es) \o <<>> = fileErrors \o es /\ fileErrors \o <<>> = fileErrors
    BY <1>1, <2>1, ConcatEmptySeq
  <2>3. QED
    BY <1>2, <1>4, <2>2, Zenon DEF Found
<1>5. CASE errs' = <<>> /\ fileErrors' = (fileErrors \o errs) \o es
  <2>1. (fileErrors \o errs) \o es \in Seq(ErrorTypes)
    BY <1>2, ConcatProperties DEF Found
  <2>2. ((fileErrors \o errs) \o es) \o <<>> = (fileErrors \o errs) \o es
    BY <2>1, ConcatEmptySeq
  <2>3. QED
    BY <1>2, <1>5, <2>2, Zenon DEF Found
<1>6. QED
  BY <1>2, <1>3, <1>4, <1>5

\* Until a call returns, errors are only added to those found, at the end.
LEMMA FoundGrows ==
  ASSUME TypeInv, CountInv, Work, ~Return
  PROVE  Found \in Seq(ErrorTypes) /\ \E es \in Seq(ErrorTypes) : Found' = Found \o es
<1>1. errs \in Seq(ErrorTypes) /\ fileErrors \in Seq(ErrorTypes) /\ LoopTypes
  BY DEF TypeInv, LoopTypes
<1>2. \A e \in ErrorTypes : <<e>> \in Seq(ErrorTypes)
  BY CountOne
<1>3. \A e \in ErrorTypes, s \in Seq(ErrorTypes) : Append(s, e) = s \o <<e>>
  BY AppendIsConcat
<1>4. \A s \in Seq(ErrorTypes) : s \o <<>> = s /\ <<>> \o s = s /\ <<>> \in Seq(ErrorTypes)
  BY ConcatEmptySeq
<1>5. CASE VisitEntry \/ FinishScan \/ AcceptInfo \/ PanicOnInfo \/ FinishParse \/ Discover
  <2>1. errs' = errs /\ fileErrors' = fileErrors
    BY <1>5, Zenon DEF VisitEntry, FinishScan, AcceptInfo, PanicOnInfo, FinishParse, Discover
  <2>2. errs' = errs \o <<>>
    BY <1>1, <1>4, <2>1
  <2>3. QED
    BY <1>1, <1>4, <2>1, <2>2, GrowsBy
<1>6. CASE VisitError \/ RejectInfo
  <2>1. PICK e \in ErrorTypes : errs' = Append(errs, e) /\ fileErrors' = fileErrors
    <3>1. CASE VisitError
      <4>1. AccessError(Entries[entry]) \in ErrorTypes
        BY DEF AccessError, ErrorTypes
      <4>2. QED
        BY <3>1, <4>1, Zenon DEF VisitError
    <3>2. CASE RejectInfo
      <4>1. "FailedScanningResource" \in ErrorTypes
        BY DEF ErrorTypes
      <4>2. QED
        BY <3>2, <4>1, Zenon DEF RejectInfo
    <3>3. QED
      BY <1>6, <3>1, <3>2
  <2>2. errs' = errs \o <<e>> /\ <<e>> \in Seq(ErrorTypes)
    BY <1>1, <1>2, <1>3, <2>1
  <2>3. QED
    BY <1>1, <2>1, <2>2, GrowsBy
<1>7. CASE ReadFile
  <2>1. fileErrors' = fileErrors /\ errs = <<>>
    BY <1>7 DEF ReadFile, Parsing, TypeInv, StageInv
  <2>2. errs' \in Seq(ErrorTypes)
    BY LoopTypesStep DEF TypeInv, LoopTypes, Next
  <2>3. errs' = errs \o errs'
    BY <1>4, <2>1, <2>2
  <2>4. QED
    BY <1>1, <2>1, <2>2, <2>3, GrowsBy
<1>8. CASE FinishDir
  <2>1. errs' = <<>> /\ fileErrors \o errs \in Seq(ErrorTypes)
    BY <1>1, <1>8, ConcatProperties DEF FinishDir
  <2>2. \E es \in Seq(ErrorTypes) : fileErrors' = (fileErrors \o errs) \o es
    <3>1. CASE Stop(errs)
      <4>1. PICK none \in Seq(ErrorTypes) : none = <<>>
        <5>1. <<>> \in Seq(ErrorTypes)
          OBVIOUS
        <5>2. QED
          BY <5>1
      <4>2. fileErrors' = (fileErrors \o errs) \o none
        BY <1>4, <1>8, <2>1, <3>1, <4>1 DEF FinishDir
      <4>3. QED
        BY <4>2
    <3>2. CASE ~Stop(errs)
      <4>1. NoYamls(manifests') \in Seq(ErrorTypes)
        <5>1. <<"NoYamlsFound">> \in Seq(ErrorTypes) /\ <<>> \in Seq(ErrorTypes)
          BY DEF ErrorTypes
        <5>2. QED
          BY <5>1, Zenon DEF NoYamls
      <4>2. fileErrors' = (fileErrors \o errs) \o NoYamls(manifests')
        BY <1>8, <3>2, Zenon DEF FinishDir
      <4>3. QED
        BY <4>1, <4>2, Zenon
    <3>3. QED
      BY <3>1, <3>2
  <2>3. QED
    BY <1>1, <2>1, <2>2, GrowsBy
<1>9. CASE FinishFile
  <2>1. errs' = <<>> /\ fileErrors' = fileErrors \o errs /\ fileErrors \o errs \in Seq(ErrorTypes)
    BY <1>1, <1>9, ConcatProperties DEF FinishFile
  <2>2. fileErrors' = (fileErrors \o errs) \o <<>>
    BY <1>4, <2>1
  <2>3. QED
    BY <1>1, <1>4, <2>1, <2>2, GrowsBy
<1>10. CASE NoWorkloads
  <2>1. errs = <<>> /\ errs' = errs /\ fileErrors' = Append(fileErrors, "NoK8sResourcesFound")
    BY <1>10 DEF NoWorkloads, CountInv
  <2>2. "NoK8sResourcesFound" \in ErrorTypes
    BY DEF ErrorTypes
  <2>3. QED
    BY <1>1, <1>2, <1>3, <2>1, <2>2, GrowsBy
<1>11. CASE Inline
  <2>1. errs = <<>> /\ errs' = errs
    BY <1>11 DEF Inline, CountInv
  <2>2. \E es \in Seq(ErrorTypes) : fileErrors' = fileErrors \o es
    <3> DEFINE refs == RefsOf(workloads)
    <3>1. refs \in Seq(Ref) /\ Len(refs) \in Nat /\ inlined \in 0..Len(refs) /\ configmaps \in Seq(Info)
      BY RefsType DEF TypeInv, TypeOK
    <3>2. inlined < Len(refs) /\ fileErrors' = fileErrors \o RefErrors(refs[inlined + 1])
      BY <1>11 DEF Inline
    <3> HIDE DEF refs
    <3>3. refs[inlined + 1] \in Ref
      BY <3>1, <3>2
    <3>4. RefErrors(refs[inlined + 1]) \in Seq(ErrorTypes)
      BY <3>1, <3>3, RefNext
    <3>5. QED
      BY <3>2, <3>4
  <2>3. QED
    BY <1>1, <2>1, <2>2, GrowsBy
<1>12. QED
  BY <1>5, <1>6, <1>7, <1>8, <1>9, <1>10, <1>11 DEF Work

\* A call that goes on went on before, and has not found a reason to stop.
LEMMA WentOn ==
  ASSUME TypeInv, CountInv, Work, ~Return, GoesOn'
  PROVE  GoesOn
<1>1. PICK es \in Seq(ErrorTypes) : Found' = Found \o es
  BY FoundGrows
<1>2. Found \in Seq(ErrorTypes)
  BY FoundGrows
<1>3. LoopTypes' /\ LoopTypes
  BY LoopTypesStep DEF TypeInv, Next
<1>4. errs \in Seq(ErrorTypes) /\ fileErrors \in Seq(ErrorTypes)
  BY <1>3 DEF LoopTypes
<1>5. errs' \in Seq(ErrorTypes) /\ fileErrors' \in Seq(ErrorTypes)
  BY <1>3 DEF LoopTypes
<1>6. /\ Counted("FailedAccessingRoot") = Count(Found, "FailedAccessingRoot")
      /\ Counted("FailedAccessingRoot")' = Count(Found', "FailedAccessingRoot")
  BY <1>4, <1>5, CountConcat DEF Counted, Found
<1>7. Count(Found', "FailedAccessingRoot") =
        Count(Found, "FailedAccessingRoot") + Count(es, "FailedAccessingRoot")
  BY <1>1, <1>2, CountConcat
<1>8. Count(Found, "FailedAccessingRoot") \in Nat /\ Count(es, "FailedAccessingRoot") \in Nat
  BY <1>2, CountType
<1>9. stopOnError' = stopOnError
  BY OnlyReturnEnds DEF api
<1>10. QED
  BY <1>6, <1>7, <1>8, <1>9 DEF GoesOn

LEMMA NoReasonToStop ==
  TypeInv /\ CountInv /\ pc \in {"scan", "parse"} /\ GoesOn => ~Stop(fileErrors) /\ ~Stop(errs)
<1> SUFFICES ASSUME TypeInv, CountInv, pc \in {"scan", "parse"}, GoesOn
             PROVE  ~Stop(fileErrors) /\ ~Stop(errs)
  OBVIOUS
<1>1. inlined = 0 /\ InlineCounts
  BY DEF TypeInv, StageInv, CountInv
<1>2. NoneInlined
  BY <1>1, EarlyInline
<1>3. QED
  BY <1>2, GoesOnNoStop DEF TypeInv, NoneInlined

-----------------------------------------------------------------------------
(* What a call is silent about *)

NoRootError(d) == \A e \in DOMAIN d : d[e].type # "rootError"
WholeScan == \A d \in DOMAIN call.dirs : NoRootError(call.dirs[d])

\* A call that goes on has not met the end of a walk, and one that returns its
\* full result has workloads.
RootInv ==
  /\ pc = "scan" /\ GoesOn =>
       /\ \A d \in DOMAIN call.dirs : d < dir => NoRootError(call.dirs[d])
       /\ Scanning => \A e \in DOMAIN Entries : e < entry => Entries[e].type # "rootError"
  /\ pc \in {"parse", "extract", "return"} /\ GoesOn => WholeScan
  /\ HasReturned /\ ~stopOnError /\ Count(errors, "FailedAccessingRoot") = 0 => WholeScan
FullInv ==
  /\ pc = "return" /\ ~Stop(fileErrors) => workloads # <<>>
  /\ HasReturned /\ returned.value = "full" => workloads # <<>>

LEMMA EntriesType == TypeInv /\ Scanning => Entries \in Seq(Entry)
<1>1. QED
  BY EntryTypes DEF TypeInv

LEMMA RootInvStep == TypeInv /\ TypeInv' /\ CountInv /\ CountInv' /\ RootInv /\ [Next]_vars => RootInv'
<1> SUFFICES ASSUME TypeInv, TypeInv', CountInv, CountInv', RootInv, [Next]_vars PROVE RootInv'
  OBVIOUS
<1>1. Work /\ ~Return /\ GoesOn' => GoesOn
  BY WentOn
<1>2. Work /\ ~Return => ~HasReturned'
  BY OnlyReturnEnds DEF HasReturned
<1>3. CASE Invoke
  <2>1. /\ call' \in Calls /\ pc' = (IF call'.fromInfos THEN "parse" ELSE "scan")
        /\ dir' = 1 /\ entry' = 1
    BY <1>3 DEF Invoke
  <2>2. call'.dirs \in Seq(Seq(Entry))
    BY CallTypes DEF TypeInv, LoopTypes
  <2>3. pc' = "parse" => WholeScan'
    BY <2>1, CallsAssumption DEF WholeScan
  <2>4. pc' = "scan" => \A d \in DOMAIN call'.dirs : ~(d < dir')
    BY <2>1, <2>2
  <2>5. pc' = "scan" /\ Scanning' => \A e \in DOMAIN Entries' : ~(e < entry')
    <3>1. (TypeInv /\ Scanning => Entries \in Seq(Entry))'
      BY EntriesType, PTL
    <3>2. QED
      BY <2>1, <3>1
  <2>6. pc' \in {"scan", "parse"}
    BY <2>1
  <2>7. QED
    BY <2>3, <2>4, <2>5, <2>6 DEF RootInv, HasReturned
<1>4. CASE VisitEntry \/ VisitError
  <2>1. Scanning /\ entry <= Len(Entries) /\ UNCHANGED <<pc, call, dir>> /\ pc = "scan"
    BY <1>4 DEF VisitEntry, VisitError, Scanning
  <2>2. Entries' = Entries /\ Scanning' /\ ~Return
    BY <2>1 DEF Entries, Scanning, Return
  <2>3. Entries \in Seq(Entry) /\ entry \in Nat \ {0}
    BY <2>1, EntryTypes DEF TypeInv, LoopTypes
  <2>4. ASSUME GoesOn'
        PROVE  entry' = entry + 1 /\ Entries[entry].type # "rootError"
    <3>1. CASE VisitEntry
      BY <3>1 DEF VisitEntry, NextEntry
    <3>2. CASE VisitError
      <4>1. (TypeInv /\ CountInv /\ pc \in {"scan", "parse"} /\ GoesOn => ~Stop(fileErrors) /\ ~Stop(errs))'
        BY NoReasonToStop, PTL
      <4>2. ~Stop(errs)'
        BY <2>1, <2>4, <4>1
      <4>3. entry' = entry + 1
        BY <3>2, <4>2 DEF VisitError, api, Stop
      <4>4. AccessError(Entries[entry]) \in ErrorTypes /\ errs \in Seq(ErrorTypes) /\ fileErrors \in Seq(ErrorTypes)
        BY DEF AccessError, ErrorTypes, TypeInv, LoopTypes
      <4>5. errs' = Append(errs, AccessError(Entries[entry])) /\ fileErrors' = fileErrors
        BY <3>2 DEF VisitError
      <4>6. Count(errs', "FailedAccessingRoot") = Count(errs, "FailedAccessingRoot")
              + IF "FailedAccessingRoot" = AccessError(Entries[entry]) THEN 1 ELSE 0
        BY <4>4, <4>5, CountAppend
      <4>7. Count(fileErrors', "FailedAccessingRoot") + Count(errs', "FailedAccessingRoot") = 0
        BY <2>4 DEF GoesOn, Counted
      <4>8. /\ Count(errs, "FailedAccessingRoot") \in Nat
            /\ Count(fileErrors', "FailedAccessingRoot") \in Nat
        BY <4>4, <4>5, CountType
      <4>9. AccessError(Entries[entry]) # "FailedAccessingRoot"
        BY <4>6, <4>7, <4>8
      <4>10. QED
        BY <4>3, <4>9 DEF AccessError
    <3>3. QED
      BY <1>4, <3>1, <3>2
  <2>5. ASSUME GoesOn'
        PROVE  \A e \in DOMAIN Entries : e < entry' => Entries[e].type # "rootError"
    <3>1. GoesOn
      BY <1>1, <1>4, <2>2, <2>5 DEF Work
    <3>2. \A e \in DOMAIN Entries : e < entry => Entries[e].type # "rootError"
      BY <2>1, <3>1 DEF RootInv
    <3>3. \A e \in DOMAIN Entries : e < entry + 1 => e < entry \/ e = entry
      BY <2>3
    <3>4. QED
      BY <2>4, <2>5, <3>2, <3>3
  <2>6. GoesOn' => \A d \in DOMAIN call.dirs : d < dir => NoRootError(call.dirs[d])
    BY <1>1, <1>4, <2>1, <2>2 DEF RootInv, Work
  <2>7. QED
    BY <2>1, <2>2, <2>5, <2>6 DEF RootInv, HasReturned
<1>5. CASE FinishDir
  <2>1. /\ Scanning /\ entry > Len(Entries) /\ entry' = 1 /\ UNCHANGED <<pc, call>> /\ pc = "scan"
        /\ ~Stop(errs) => dir' = dir + 1
    BY <1>5 DEF FinishDir, FirstEntry, Scanning
  <2>2. ~Return
    BY <2>1 DEF Return
  <2>3. /\ call.dirs \in Seq(Seq(Entry)) /\ dir \in DOMAIN call.dirs /\ dir \in Nat
        /\ Entries = call.dirs[dir] /\ Entries \in Seq(Entry) /\ entry \in Nat
    BY <2>1, ScanAt, EntryTypes DEF TypeInv, LoopTypes
  <2>4. ASSUME GoesOn'
        PROVE  \A d \in DOMAIN call.dirs : d < dir' => NoRootError(call.dirs[d])
    <3>1. GoesOn
      BY <1>1, <1>5, <2>2, <2>4 DEF Work
    <3>2. dir' = dir + 1
      BY <2>1, <3>1, NoReasonToStop
    <3>3. \A e \in DOMAIN Entries : e < entry
      BY <2>1, <2>3
    <3>4. NoRootError(call.dirs[dir])
      BY <2>1, <2>3, <3>1, <3>3 DEF RootInv, NoRootError
    <3>5. \A d \in DOMAIN call.dirs : d < dir + 1 => d < dir \/ d = dir
      BY <2>3
    <3>6. QED
      BY <2>1, <3>1, <3>2, <3>4, <3>5 DEF RootInv
  <2>5. Scanning' => \A e \in DOMAIN Entries' : ~(e < entry')
    <3>1. (TypeInv /\ Scanning => Entries \in Seq(Entry))'
      BY EntriesType, PTL
    <3>2. QED
      BY <2>1, <3>1
  <2>6. QED
    BY <2>1, <2>4, <2>5 DEF RootInv, HasReturned
<1>6. CASE FinishScan
  <2>1. pc = "scan" /\ dir > Len(call.dirs) /\ pc' \in {"return", "parse"} /\ UNCHANGED <<call, dir>>
    BY <1>6 DEF FinishScan, scan
  <2>2. \A d \in DOMAIN call.dirs : d < dir
    <3>1. call.dirs \in Seq(Seq(Entry)) /\ dir \in Nat
      BY CallTypes DEF TypeInv, LoopTypes
    <3>2. QED
      BY <2>1, <3>1
  <2>3. GoesOn' => WholeScan
    BY <1>1, <1>6, <2>1, <2>2 DEF RootInv, WholeScan, Work, Return
  <2>4. QED
    BY <2>1, <2>3 DEF RootInv, HasReturned, WholeScan
<1>7. CASE /\ Work /\ ~Return
           /\ ~VisitEntry /\ ~VisitError /\ ~FinishDir /\ ~FinishScan
  <2>1. /\ pc \in {"parse", "extract"} /\ pc' # "scan" /\ call' = call
    <3>1. CASE ReadFile \/ AcceptInfo \/ RejectInfo \/ PanicOnInfo \/ FinishFile
      BY <3>1 DEF ReadFile, AcceptInfo, RejectInfo, PanicOnInfo, FinishFile, AtInfo, Parsing
    <3>2. CASE FinishParse
      BY <3>2, Zenon DEF FinishParse, AfterParse
    <3>3. CASE NoWorkloads \/ Inline \/ Discover
      BY <3>3 DEF NoWorkloads, Inline, Discover
    <3>4. QED
      BY <1>7, <3>1, <3>2, <3>3 DEF Work
  <2>2. GoesOn' => WholeScan
    BY <1>1, <1>7, <2>1 DEF RootInv
  <2>3. QED
    BY <1>2, <1>7, <2>1, <2>2 DEF RootInv, WholeScan
<1>8. CASE Return
  <2>1. /\ pc = "return" /\ pc' = "idle" /\ errors' = fileErrors
        /\ UNCHANGED <<stopOnError, call>>
    BY <1>8 DEF Return, ErrorsAfter
  <2>2. errs = <<>> /\ fileErrors \in Seq(ErrorTypes)
    BY <2>1 DEF CountInv, TypeInv, LoopTypes
  <2>3. Count(errors', "FailedAccessingRoot") = Counted("FailedAccessingRoot")
    <3>1. Count(fileErrors, "FailedAccessingRoot") \in Nat /\ Count(<<>>, "FailedAccessingRoot") = 0
      BY <2>2, CountType, CountEmpty
    <3>2. QED
      BY <2>1, <2>2, <3>1 DEF Counted
  <2>4. QED
    BY <2>1, <2>3 DEF RootInv, GoesOn, WholeScan
<1>9. CASE UNCHANGED vars
  <2>1. UNCHANGED <<stopOnError, pc, call, dir, entry, errs, fileErrors, errors, returned>>
    BY <1>9 DEF vars, api, scan
  <2>2. /\ (GoesOn' <=> GoesOn) /\ Entries' = Entries /\ (Scanning' <=> Scanning)
        /\ (HasReturned' <=> HasReturned) /\ (WholeScan' <=> WholeScan)
    BY <2>1 DEF GoesOn, Counted, Entries, Scanning, HasReturned, WholeScan
  <2>3. QED
    BY <2>1, <2>2 DEF RootInv
<1>10. QED
  BY <1>3, <1>4, <1>5, <1>6, <1>7, <1>8, <1>9 DEF Next

LEMMA FullInvStep == TypeInv /\ FullInv /\ [Next]_vars => FullInv'
<1> SUFFICES ASSUME TypeInv, FullInv, [Next]_vars PROVE FullInv'
  OBVIOUS
<1>1. CASE Invoke
  BY <1>1 DEF Invoke, FullInv, HasReturned
<1>2. CASE FinishScan
  BY <1>2 DEF FinishScan, FullInv, HasReturned, Stop, api
<1>3. CASE FinishParse
  BY <1>3, Zenon DEF FinishParse, AfterParse, FullInv, HasReturned, Stop, api
<1>4. CASE NoWorkloads
  <2>1. fileErrors' = Append(fileErrors, "NoK8sResourcesFound") /\ pc' = "return"
    BY <1>4 DEF NoWorkloads
  <2>2. fileErrors \in Seq(ErrorTypes)
    BY DEF TypeInv, LoopTypes
  <2>3. Len(fileErrors) + 1 \in DOMAIN fileErrors' /\ fileErrors'[Len(fileErrors) + 1] = "NoK8sResourcesFound"
    BY <2>1, <2>2
  <2>4. Stop(fileErrors)'
    BY <2>3 DEF Stop, HasFatal, IsFatal
  <2>5. QED
    BY <2>1, <2>4 DEF FullInv, HasReturned
<1>5. CASE Discover
  BY <1>5 DEF Discover, FullInv, HasReturned, acc
<1>6. CASE Return
  <2>1. /\ pc = "return" /\ UNCHANGED acc /\ pc' = "idle"
        /\ returned' = [value |-> IF HasFatal(fileErrors) THEN "nil" ELSE Value,
                        error |-> HasFatal(fileErrors)]
    BY <1>6 DEF Return
  <2>2. returned'.value = "full" => ~Stop(fileErrors)
    BY <2>1, Zenon DEF Value
  <2>3. QED
    BY <2>1, <2>2 DEF FullInv, acc
<1>7. CASE VisitEntry \/ VisitError \/ FinishDir \/ ReadFile \/ AcceptInfo \/ RejectInfo
             \/ PanicOnInfo \/ FinishFile \/ Inline
  <2>1. pc' \notin {"idle", "return"}
    BY <1>7 DEF VisitEntry, VisitError, FinishDir, Scanning, ReadFile, AcceptInfo, RejectInfo,
                PanicOnInfo, FinishFile, AtInfo, Parsing, Inline
  <2>2. QED
    BY <2>1 DEF FullInv, HasReturned
<1>8. CASE UNCHANGED vars
  BY <1>8 DEF vars, api, acc, FullInv, HasReturned, Stop
<1>9. QED
  BY <1>1, <1>2, <1>3, <1>4, <1>5, <1>6, <1>7, <1>8 DEF Next, Work

-----------------------------------------------------------------------------
(* What is known of the call in every state of the command *)

CallInv ==
  TypeInv /\ CompleteInv /\ CountInv /\ ErrorsAccounted /\ RootInv /\ FullInv

\* The command makes the steps of a synthesizer, or leaves it alone.
LEMMA CallInvariant == NetSpec => []CallInv
<1>1. NetInit => CallInv
  <2>1. NetInit => Init
    BY DEF NetInit
  <2>2. Init => CompleteInv /\ CountInv /\ ErrorsAccounted /\ RootInv /\ FullInv
    BY DEF Init, CompleteInv, ScanInv, ParseInv, EndInv, CountInv, ErrorsAccounted, RootInv, FullInv,
       HasReturned
  <2>3. QED
    BY <2>1, <2>2, TypeInvInit DEF CallInv
<1>2. [NetNext \/ Exited]_netVars => [Next]_vars
  BY DEF NetNext, Exited, netVars, Next, ExitOnArgs, StartAnalysis, Analyse, AnalysisFails, Crash,
         PrintResult, CreateFile, WriteFile, CloseFile
<1>3. TypeInv /\ CompleteInv /\ [Next]_vars => TypeInv' /\ CompleteInv'
  BY TypeInvStep, ScanInvStep, ParseInvStep, EndInvStep DEF CompleteInv
<1>4. TypeInv /\ TypeInv' /\ CompleteInv /\ CompleteInv' /\ CountInv /\ ErrorsAccounted /\ [Next]_vars
        => CountInv' /\ ErrorsAccounted'
  BY CountInvStep, ErrorsAccountedStep
<1>5. CallInv /\ [NetNext \/ Exited]_netVars => CallInv'
  BY <1>2, <1>3, <1>4, RootInvStep, FullInvStep DEF CallInv
<1>6. QED
  BY <1>1, <1>5, PTL DEF NetSpec

-----------------------------------------------------------------------------
(* What the log holds *)

Severe == {e \in ErrorTypes : IsSevere(e)}
Logged(es) == IF args.quiet THEN Those(es, Severe) ELSE es
Messages == ErrorTypes \union {"Walking", "Failed"}

LogInv ==
  /\ log \in Seq(Messages)
  /\ step = "args" => log = <<>>
  /\ step # "args" =>
       /\ call = CallOf(args)
       /\ Those(log, ErrorTypes) = Logged(IF pc = "idle" THEN errors ELSE Found)
  /\ step \in {"write", "close"} => pc = "idle"
  /\ status \in {0, 1} /\ step # "args" => pc = "idle"
  /\ status = 0 /\ step # "args" => returned.value = "full"

\* Errors that are added.
LEMMA LoggedConcat ==
  ASSUME NEW a \in Seq(ErrorTypes), NEW b \in Seq(ErrorTypes)
  PROVE  Logged(a \o b) = Logged(a) \o Logged(b)
<1>1. QED
  BY ThoseConcat DEF Logged

\* What the logger shows of errors is what is expected of it.
LEMMA ShownAsLogged ==
  ASSUME NEW es \in Seq(ErrorTypes)
  PROVE  Shown(es) = Logged(es) /\ Shown(es) \in Seq(ErrorTypes) /\ Those(Shown(es), ErrorTypes) = Shown(es)
<1> DEFINE S == {e \in ErrorTypes : LoggedAsError(e) \/ Verbosity \in {"Medium", "High"}}
<1>1. Shown(es) = Those(es, S)
  BY DEF Shown
<1>2. CASE args.quiet
  <2>1. S = Severe
    BY <1>2 DEF Verbosity, LoggedAsError, Severe, IsSevere, IsFatal
  <2> HIDE DEF S
  <2>2. Shown(es) = Logged(es)
    BY <1>1, <1>2, <2>1 DEF Logged
  <2>3. Shown(es) \in Seq(ErrorTypes)
    BY <1>1, ThoseType
  <2>4. Those(Shown(es), ErrorTypes) = Shown(es)
    <3>1. \A s \in Seq(ErrorTypes) : \A i \in DOMAIN s : s[i] \in ErrorTypes
      BY ElementOfSeq
    <3>2. QED
      BY <2>3, <3>1, ThoseAll
  <2>5. QED
    BY <2>2, <2>3, <2>4
<1>3. CASE ~args.quiet
  <2>1. \A i \in DOMAIN es : es[i] \in S /\ es[i] \in ErrorTypes
    <3>1. \A i \in DOMAIN es : es[i] \in ErrorTypes
      BY ElementOfSeq
    <3>2. Verbosity \in {"Medium", "High"}
      BY <1>3 DEF Verbosity
    <3>3. QED
      BY <3>1, <3>2
  <2> HIDE DEF S
  <2>2. Those(es, S) = es /\ Those(es, ErrorTypes) = es
    BY <2>1, ThoseAll
  <2>3. QED
    BY <1>1, <1>3, <2>2 DEF Logged
<1>4. QED
  BY <1>2, <1>3

\* A message that is no error of the call.
LEMMA OtherMessage ==
  ASSUME NEW l \in Seq(Messages), NEW m \in {<<>>, <<"Walking">>, <<"Failed">>}
  PROVE  l \o m \in Seq(Messages) /\ Those(l \o m, ErrorTypes) = Those(l, ErrorTypes)
<1>1. m \in Seq(Messages) /\ \A i \in DOMAIN m : m[i] \notin ErrorTypes
  <2>1. \A s \in {"Walking", "Failed"} : s \in Messages /\ s \notin ErrorTypes
    BY DEF Messages, ErrorTypes
  <2>2. CASE m = <<>>
    BY <2>2
  <2>3. CASE m = <<"Walking">>
    BY <2>1, <2>3
  <2>4. CASE m = <<"Failed">>
    BY <2>1, <2>4
  <2>5. QED
    BY <2>2, <2>3, <2>4
<1>2. l \o m \in Seq(Messages)
  BY <1>1, ConcatProperties
<1>3. Those(m, ErrorTypes) = <<>>
  BY <1>1, ThoseNone
<1>4. Those(l, ErrorTypes) \in Seq(Messages)
  BY ThoseType
<1>5. Those(l \o m, ErrorTypes) = Those(l, ErrorTypes) \o Those(m, ErrorTypes)
  BY <1>1, ThoseConcat
<1>6. Those(l, ErrorTypes) \o <<>> = Those(l, ErrorTypes)
  BY <1>4, ConcatEmptySeq
<1>7. QED
  BY <1>2, <1>3, <1>5, <1>6

\* The end of a sequence behind its beginning.
LEMMA NewErrors ==
  ASSUME NEW a \in Seq(ErrorTypes), NEW b \in Seq(ErrorTypes)
  PROVE  SubSeq(a \o b, Len(a) + 1, Len(a \o b)) = b
<1> DEFINE s == a \o b
<1>1. /\ s \in Seq(ErrorTypes) /\ Len(s) = Len(a) + Len(b) /\ Len(a) \in Nat /\ Len(b) \in Nat
      /\ \A i \in 1..Len(b) : s[Len(a) + i] = b[i]
  BY ConcatProperties
<1> HIDE DEF s
<1> DEFINE c == SubSeq(s, Len(a) + 1, Len(s))
<1>2. c = [i \in 1..Len(b) |-> s[Len(a) + i]]
  BY <1>1
<1> HIDE DEF c
<1>3. c \in Seq(ErrorTypes) /\ Len(c) = Len(b) /\ \A i \in 1..Len(b) : c[i] = b[i]
  BY <1>1, <1>2
<1>4. c = b
  BY <1>3, SeqEqual
<1>5. QED
  BY <1>4 DEF c, s

LEMMA AnalyseLogs == CallInv /\ NetInv /\ LogInv /\ Analyse => LogInv'
<1> SUFFICES ASSUME CallInv, NetInv, LogInv, Analyse PROVE LogInv'
  OBVIOUS
<1>1. /\ step = "analyse" /\ status = Running /\ Work
      /\ UNCHANGED <<args, step, status>>
      /\ log' = log \o WalkError \o Shown(SubSeq(Found', Len(Found) + 1, Len(Found')))
  BY DEF Analyse, At
<1>2. log \in Seq(Messages) /\ call = CallOf(args)
  BY <1>1 DEF LogInv
<1>3. pc # "idle" /\ call' = call
  <2>1. CASE Return
    BY <2>1 DEF Return
  <2>2. CASE ~Return
    <3>1. pc # "idle"
      BY <1>1, <2>2, OnlyReturnEnds
    <3>2. call' = call
      BY <1>1, <2>2, Zenon DEF Work, VisitEntry, VisitError, FinishDir, FinishScan, ReadFile,
         AcceptInfo, RejectInfo, PanicOnInfo, FinishFile, FinishParse, NoWorkloads, Inline, Discover
    <3>3. QED
      BY <3>1, <3>2
  <2>3. QED
    BY <2>1, <2>2
<1>4. Those(log, ErrorTypes) = Logged(Found)
  BY <1>1, <1>3 DEF LogInv
<1>5. ASSUME NEW es \in Seq(ErrorTypes), Found \in Seq(ErrorTypes), Found' = Found \o es
      PROVE  log' \in Seq(Messages) /\ Those(log', ErrorTypes) = Logged(Found')
  <2>1. log' = (log \o WalkError) \o Shown(es)
    BY <1>1, <1>5, NewErrors, Zenon
  <2>2. WalkError \in {<<>>, <<"Walking">>, <<"Failed">>}
    BY Zenon DEF WalkError
  <2> DEFINE before == log \o WalkError
  <2>3. before \in Seq(Messages) /\ Those(before, ErrorTypes) = Logged(Found)
    BY <1>2, <1>4, <2>2, OtherMessage
  <2> HIDE DEF before
  <2>4. /\ Shown(es) = Logged(es) /\ Shown(es) \in Seq(ErrorTypes)
        /\ Those(Shown(es), ErrorTypes) = Shown(es)
    BY ShownAsLogged
  <2>5. Shown(es) \in Seq(Messages)
    <3>1. ErrorTypes \subseteq Messages
      BY DEF Messages
    <3>2. QED
      BY <2>4, <3>1
  <2>6. before \o Shown(es) \in Seq(Messages)
    BY <2>3, <2>5, ConcatProperties
  <2>7. Those(before \o Shown(es), ErrorTypes) = Those(before, ErrorTypes) \o Those(Shown(es), ErrorTypes)
    <3>1. \A a, b \in Seq(Messages) : Those(a \o b, ErrorTypes) = Those(a, ErrorTypes) \o Those(b, ErrorTypes)
      BY ThoseConcat
    <3>2. QED
      BY <2>3, <2>5, <3>1, Zenon
  <2>8. Logged(Found \o es) = Logged(Found) \o Logged(es)
    BY <1>5, LoggedConcat
  <2>9. Logged(Found \o es) = Those(before \o Shown(es), ErrorTypes)
    BY <2>3, <2>4, <2>7, <2>8
  <2>10. QED
    BY <1>5, <2>1, <2>6, <2>9 DEF before
<1>6. (Logged(Found))' = Logged(Found') /\ (Logged(errors))' = Logged(errors')
  BY <1>1 DEF Logged
<1>7. CASE Return
  <2>1. /\ pc = "return" /\ pc' = "idle" /\ errors' = fileErrors
        /\ UNCHANGED <<errs, fileErrors>>
    BY <1>7 DEF Return, ErrorsAfter
  <2>2. errs = <<>> /\ fileErrors \in Seq(ErrorTypes)
    BY <2>1 DEF CallInv, CountInv, TypeInv, LoopTypes
  <2>3. fileErrors \o <<>> = fileErrors
    BY <2>2, ConcatEmptySeq
  <2>4. Found = fileErrors /\ Found' = fileErrors
    BY <2>1, <2>2, <2>3 DEF Found
  <2>5. PICK none \in Seq(ErrorTypes) : none = <<>>
    <3>1. <<>> \in Seq(ErrorTypes)
      OBVIOUS
    <3>2. QED
      BY <3>1
  <2>6. Found' = Found \o none
    BY <2>3, <2>4, <2>5
  <2>7. log' \in Seq(Messages) /\ Those(log', ErrorTypes) = Logged(Found')
    BY <1>5, <2>2, <2>4, <2>6
  <2>8. Logged(errors') = Logged(Found')
    BY <2>1, <2>4
  <2>9. QED
    BY <1>1, <1>2, <1>3, <1>6, <2>1, <2>7, <2>8 DEF LogInv, Running
<1>8. CASE ~Return
  <2>1. pc' # "idle"
    BY <1>1, <1>8, OnlyReturnEnds
  <2>2. Found \in Seq(ErrorTypes) /\ \E es \in Seq(ErrorTypes) : Found' = Found \o es
    BY <1>1, <1>8, FoundGrows DEF CallInv
  <2>3. log' \in Seq(Messages) /\ Those(log', ErrorTypes) = Logged(Found')
    BY <1>5, <2>2
  <2>4. QED
    BY <1>1, <1>2, <1>3, <1>6, <2>1, <2>3 DEF LogInv, Running
<1>9. QED
  BY <1>7, <1>8

LEMMA LogInvStep == CallInv /\ NetInv /\ LogInv /\ [NetNext \/ Exited]_netVars => LogInv'
<1> SUFFICES ASSUME CallInv, NetInv, LogInv, [NetNext \/ Exited]_netVars PROVE LogInv'
  OBVIOUS
<1> USE DEF At, Running
<1>1. ASSUME UNCHANGED <<vars, args>>
      PROVE  /\ UNCHANGED <<call, pc, errors, returned>>
             /\ \A es : Logged(es)' = Logged(es')
             /\ (IF pc = "idle" THEN errors ELSE Found)' = IF pc = "idle" THEN errors ELSE Found
             /\ (Logged(IF pc = "idle" THEN errors ELSE Found))' = Logged(IF pc = "idle" THEN errors ELSE Found)
  <2>1. UNCHANGED <<call, pc, errors, returned, fileErrors, errs>>
    BY <1>1 DEF vars, api
  <2>2. QED
    BY <1>1, <2>1 DEF Logged, Found
<1>2. Append(log, "Failed") \in Seq(Messages) /\ Those(Append(log, "Failed"), ErrorTypes) = Those(log, ErrorTypes)
  <2>1. log \in Seq(Messages) /\ "Failed" \in Messages
    BY DEF LogInv, Messages
  <2>2. Append(log, "Failed") = log \o <<"Failed">>
    BY <2>1, AppendIsConcat
  <2>3. QED
    BY <2>1, <2>2, OtherMessage
<1>3. CASE ExitOnArgs
  BY <1>1, <1>3 DEF ExitOnArgs, LogInv
<1>4. CASE StartAnalysis
  <2>1. /\ step = "args" /\ step' = "analyse" /\ UNCHANGED <<args, log, status>> /\ status = Running
        /\ call' = CallOf(args) /\ pc' # "idle" /\ errs' = <<>> /\ fileErrors' = <<>>
    BY <1>4 DEF StartAnalysis, Invoke
  <2>2. log = <<>> /\ <<>> \o <<>> = <<>>
    BY <2>1 DEF LogInv
  <2>3. Found' = <<>>
    BY <2>1, <2>2 DEF Found
  <2>4. Those(<<>>, ErrorTypes) = <<>> /\ Those(<<>>, Severe) = <<>>
    BY ThoseEmpty
  <2>5. (Logged(IF pc = "idle" THEN errors ELSE Found))' = <<>>
    BY <2>1, <2>3, <2>4, Zenon DEF Logged
  <2>6. (CallOf(args))' = CallOf(args)
    BY <2>1 DEF CallOf
  <2>7. QED
    BY <2>1, <2>2, <2>4, <2>5, <2>6 DEF LogInv
<1>5. CASE Analyse
  BY <1>5, AnalyseLogs
<1>6. CASE AnalysisFails \/ CreateFile
  <2>1. /\ step = "analyse" /\ status = Running /\ pc = "idle" /\ UNCHANGED <<vars, args>>
        /\ step' \in {"analyse", "write"} /\ status' \in {Running, 1}
        /\ log' = log \/ log' = Append(log, "Failed")
    BY <1>6 DEF AnalysisFails, CreateFile, Returned, Fail
  <2>2. log' \in Seq(Messages) /\ Those(log', ErrorTypes) = Those(log, ErrorTypes)
    BY <1>2, <2>1 DEF LogInv
  <2>3. (CallOf(args))' = CallOf(args)
    BY <2>1 DEF CallOf
  <2>4. QED
    BY <1>1, <2>1, <2>2, <2>3 DEF LogInv
<1>7. CASE PrintResult
  <2>1. /\ step = "analyse" /\ pc = "idle" /\ UNCHANGED <<vars, args, step, log>> /\ ~returned.error
    BY <1>7 DEF PrintResult, Returned, CallFailed
  <2>2. returned.value = "full"
    BY <2>1 DEF NetInv, AnalyseInv
  <2>3. (CallOf(args))' = CallOf(args)
    BY <2>1 DEF CallOf
  <2>4. QED
    BY <1>1, <2>1, <2>2, <2>3 DEF LogInv
<1>8. CASE WriteFile \/ CloseFile
  <2>1. /\ step \in {"write", "close"} /\ step' \in {"write", "close"} /\ UNCHANGED <<vars, args>>
        /\ status = Running
        /\ log' = log \/ log' = Append(log, "Failed")
    BY <1>8 DEF WriteFile, CloseFile, Fail
  <2>2. log' \in Seq(Messages) /\ Those(log', ErrorTypes) = Those(log, ErrorTypes)
    BY <1>2, <2>1 DEF LogInv
  <2>3. (CallOf(args))' = CallOf(args)
    BY <2>1 DEF CallOf
  <2>4. pc = "idle" /\ returned.value = "full"
    BY <2>1 DEF LogInv, NetInv, AnalyseInv
  <2>5. QED
    BY <1>1, <2>1, <2>2, <2>3, <2>4 DEF LogInv
<1>9. CASE Crash \/ UNCHANGED netVars
  <2>1. UNCHANGED <<vars, args, step, log>> /\ (status' = status \/ status' = 2)
    BY <1>9 DEF Crash, netVars, command
  <2>2. (CallOf(args))' = CallOf(args)
    BY <2>1 DEF CallOf
  <2>3. QED
    BY <1>1, <2>1, <2>2 DEF LogInv
<1>10. QED
  BY <1>3, <1>4, <1>5, <1>6, <1>7, <1>8, <1>9 DEF NetNext, Exited

LEMMA LogInvariant == NetSpec => [](CallInv /\ NetInv /\ LogInv)
<1>1. NetInit => LogInv
  BY DEF NetInit, LogInv, Running
<1>2. QED
  BY <1>1, LogInvStep, CallInvariant, NetInvariant, PTL DEF NetSpec

\* What the command has logged when it exits is what Errors() returns, in the
\* same order, and of that the severe errors with -q: whatever is added to the
\* log on the way, for every command line and everything in the directories.
THEOREM LogIsErrorsHolds == NetSpec => []LogIsErrors
<1>1. NetInv /\ LogInv => LogIsErrors
  <2> SUFFICES ASSUME NetInv, LogInv, status \in {0, 1}, calls = 1
               PROVE  Those(log, ErrorTypes) = Logged(errors)
    BY DEF LogIsErrors, Logged, Severe
  <2>1. step # "args"
    BY DEF NetInv, AnalyseInv
  <2>2. QED
    BY <2>1 DEF LogInv
<1>2. QED
  BY <1>1, LogInvariant, PTL

\* No error in the log means no severe error in Errors().
LEMMA SilentLog ==
  ASSUME TypeInv, LogInv, Those(log, ErrorTypes) = Logged(errors),
         \A i \in DOMAIN log : ~IsError(log[i])
  PROVE  \A type \in Severe : Count(errors, type) = 0
<1> DEFINE Harmless == {m \in Messages : ~IsError(m)}
<1>1. errors \in Seq(ErrorTypes)
  BY DEF TypeInv, TypeOK
<1>2. \A m \in Severe : m \notin Harmless
  BY DEF Severe, IsError, LoggedAsError
<1>3. log \in Seq(Harmless)
  <2>1. log \in Seq(Messages)
    BY DEF LogInv
  <2>2. \A i \in DOMAIN log : log[i] \in Harmless
    BY <2>1, ElementOfSeq
  <2> HIDE DEF Harmless
  <2>3. QED
    BY <2>1, <2>2
<1> HIDE DEF Harmless
<1>4. Logged(errors) \in Seq(Harmless)
  BY <1>3, ThoseType
<1>5. \A i \in DOMAIN errors : errors[i] \notin Severe
  <2>1. CASE ~args.quiet
    <3>1. errors \in Seq(Harmless)
      BY <1>4, <2>1 DEF Logged
    <3>2. \A i \in DOMAIN errors : errors[i] \in Harmless
      BY <3>1, ElementOfSeq
    <3>3. QED
      BY <1>2, <3>2
  <2>2. CASE args.quiet
    <3> DEFINE kept == Those(errors, Severe)
    <3>1. kept \in Seq(Harmless) /\ kept \in Seq(Severe)
      BY <1>1, <1>4, <2>2, ThoseIn DEF Logged
    <3> HIDE DEF kept
    <3>2. \A i \in DOMAIN kept : kept[i] \in Harmless /\ kept[i] \in Severe
      BY <3>1, ElementOfSeq
    <3>3. DOMAIN kept = {}
      BY <1>2, <3>2
    <3>4. kept = <<>>
      BY <3>1, <3>3
    <3>5. QED
      BY <1>1, <3>4, ThoseNone DEF kept
  <2>3. QED
    BY <2>1, <2>2
<1>6. QED
  BY <1>1, <1>5, CountNone

\* Without bad entries counted, there is none in any directory.
LEMMA NoBadSubdirs ==
  ASSUME NEW dirs \in Seq(Seq(Entry)), Len(BadSubdirs(dirs)) = 0
  PROVE  \A d \in DOMAIN dirs : \A e \in DOMAIN dirs[d] :
           dirs[d][e] \in Entry /\ dirs[d][e].type # "subdirError"
<1> DEFINE Bad == {x \in Entry : x.type = "subdirError"}
<1>1. /\ DirBad(dirs) \in Seq(Seq(Entry)) /\ DOMAIN DirBad(dirs) = DOMAIN dirs
      /\ \A d \in DOMAIN dirs : DirBad(dirs)[d] = Those(dirs[d], Bad)
  BY DirBadType DEF DirBad
<1>2. Concat(DirBad(dirs)) = <<>>
  <2>1. Concat(DirBad(dirs)) \in Seq(Entry)
    BY <1>1, ConcatType
  <2>2. Len(Concat(DirBad(dirs))) = 0
    BY DEF BadSubdirs, DirBad
  <2>3. QED
    BY <2>1, <2>2, EmptySeq
<1>3. \A d \in DOMAIN dirs : DirBad(dirs)[d] = <<>>
  BY <1>1, <1>2, ConcatNothing
<1> SUFFICES ASSUME NEW d \in DOMAIN dirs, NEW e \in DOMAIN dirs[d]
             PROVE  dirs[d][e] \in Entry /\ dirs[d][e].type # "subdirError"
  OBVIOUS
<1>4. dirs[d] \in Seq(Entry)
  BY ElementOfSeq
<1>5. dirs[d][e] \in Entry
  BY <1>4, ElementOfSeq
<1>6. Those(dirs[d], Bad) = <<>>
  BY <1>1, <1>3
<1>7. dirs[d][e] \notin Bad
  <2> HIDE DEF Bad
  <2>1. QED
    BY <1>4, <1>6, ThoseNone
<1>8. QED
  BY <1>5, <1>7

\* The Infos of a call.
LEMMA InfosType ==
  ASSUME NEW c \in Calls \union {NoCall}
  PROVE  InfosOf(c) \in Seq(Info)
<1>1. c.dirs \in Seq(Seq(Entry)) /\ [readErrors |-> 0, infos |-> c.infos] \in File
  BY CallTypes
<1>2. DirFiles(c) \in Seq(Seq(File))
  BY <1>1, DirFilesType
<1>3. Concat(DirFiles(c)) \in Seq(File)
  BY <1>2, ConcatType
<1>4. <<[readErrors |-> 0, infos |-> c.infos]>> \in Seq(File)
  BY <1>1
<1>5. PICK files \in Seq(File) : files = FilesOf(c)
  BY <1>3, <1>4 DEF FilesOf, DirFiles
<1>6. FileInfos(files) \in Seq(Seq(Info))
  BY FileInfosType
<1>7. Concat(FileInfos(files)) \in Seq(Info)
  BY <1>6, ConcatType
<1>8. QED
  BY <1>5, <1>7 DEF InfosOf, AllInfos, FileInfos

\* Without bad Infos counted, there is none.
LEMMA NoBadInfos ==
  ASSUME NEW infos \in Seq(Info), BadInfos(infos) = 0
  PROVE  \A i \in DOMAIN infos : infos[i].kind \notin {"badResource", "nilObject"}
<1>1. ASSUME NEW kind, Len(OfKind(infos, kind)) = 0
      PROVE  \A i \in DOMAIN infos : infos[i].kind # kind
  <2> DEFINE S == {x \in Info : x.kind = kind}
  <2>1. Those(infos, S) \in Seq(Info) /\ Len(Those(infos, S)) = 0
    BY <1>1, ThoseType DEF OfKind
  <2>2. Those(infos, S) = <<>>
    BY <2>1, EmptySeq
  <2>3. \A i \in DOMAIN infos : infos[i] \in Info
    BY ElementOfSeq
  <2>4. \A i \in DOMAIN infos : infos[i] \notin S
    <3> HIDE DEF S
    <3>1. QED
      BY <2>2, ThoseNone
  <2>5. QED
    BY <2>3, <2>4
<1>2. \A kind : Len(OfKind(infos, kind)) \in Nat
  <2>1. \A kind : OfKind(infos, kind) \in Seq(Info)
    BY ThoseType DEF OfKind
  <2>2. QED
    BY <2>1
<1>3. Len(OfKind(infos, "badResource")) = 0 /\ Len(OfKind(infos, "nilObject")) = 0
  BY <1>2 DEF BadInfos
<1>4. QED
  BY <1>1, <1>3

\* Without a warning counted, no reference is dangling.
LEMMA NoDangling ==
  ASSUME NEW infos \in Seq(Info), NEW maps,
         Len(NotFound(RefsOf(OfKind(infos, "workload")), maps)) = 0,
         Len(KeyNotFound(RefsOf(OfKind(infos, "workload")), maps)) = 0
  PROVE  /\ NotFound(RefsOf(OfKind(infos, "workload")), maps) = <<>>
         /\ KeyNotFound(RefsOf(OfKind(infos, "workload")), maps) = <<>>
<1> DEFINE refs == RefsOf(OfKind(infos, "workload"))
<1>1. OfKind(infos, "workload") \in Seq(Info)
  BY ThoseType DEF OfKind
<1>2. refs \in Seq(Ref)
  BY <1>1, RefsType
<1> HIDE DEF refs
<1>3. NotFound(refs, maps) \in Seq(Ref) /\ KeyNotFound(refs, maps) \in Seq(Ref)
  BY <1>2, ThoseType DEF NotFound, KeyNotFound
<1>4. QED
  BY <1>3, EmptySeq DEF refs

\* A result without an error in the log has every workload: every directory was
\* walked to its end and every file read. If there is no warning either, and
\* none is hidden, nothing at all is left out.
THEOREM SilenceMeansCompleteHolds == NetSpec => []SilenceMeansComplete
<1>1. CallInv /\ NetInv /\ LogInv => SilenceMeansComplete
  <2> DEFINE infos == InfosOf(CallOf(args))
             refs == RefsOf(OfKind(infos, "workload"))
             maps == OfKind(infos, "configmap")
             Silent == \A i \in DOMAIN log : ~IsError(log[i])
             WorkloadsDone ==
               /\ workloads # <<>> /\ workloads = OfKind(infos, "workload")
               /\ ReadErrors(FilesOf(call)) = 0
               /\ \A d \in DOMAIN args.dirs : \A e \in DOMAIN args.dirs[d] :
                    args.dirs[d][e].type \in {"yaml", "other"}
             AllDone ==
               /\ services = OfKind(infos, "service") /\ configmaps = maps
               /\ \A i \in DOMAIN infos : infos[i].kind \notin {"badResource", "nilObject"}
               /\ NotFound(refs, maps) = <<>> /\ KeyNotFound(refs, maps) = <<>>
  <2> SUFFICES ASSUME CallInv, NetInv, LogInv, status = 0, calls = 1
               PROVE  (Silent => WorkloadsDone) /\ (log = <<>> /\ ~args.quiet => AllDone)
    BY Zenon DEF SilenceMeansComplete
  <2>1. step # "args" /\ ~stopOnError
    BY DEF NetInv, AnalyseInv
  <2>2. /\ pc = "idle" /\ returned.value = "full" /\ call = CallOf(args)
        /\ Those(log, ErrorTypes) = Logged(errors)
    BY <2>1 DEF LogInv
  <2>3. HasReturned
    BY <2>2 DEF HasReturned, Idle
  <2>4. workloads # <<>> /\ Taken(InfosOf(call))
    BY <2>2, <2>3 DEF CallInv, FullInv, CompleteInv, EndInv
  <2>5. ASSUME Silent PROVE WorkloadsDone
    <3>1. \A type \in Severe : Count(errors, type) = 0
      BY <2>2, <2>5, SilentLog DEF CallInv
    <3>2. /\ Count(errors, "FailedAccessingRoot") = 0
          /\ Count(errors, "FailedAccessingSubdir") = 0
          /\ Count(errors, "FailedReadingFile") = 0
      BY <3>1 DEF Severe, IsSevere, ErrorTypes
    <3>3. ReadErrors(FilesOf(call)) = 0 /\ Len(BadSubdirs(call.dirs)) = 0
      BY <2>1, <2>3, <3>2 DEF CallInv, ErrorsAccounted
    <3>4. WholeScan
      BY <2>1, <2>3, <3>2 DEF CallInv, RootInv
    <3>5. call.dirs \in Seq(Seq(Entry)) /\ call.dirs = args.dirs
      BY <2>2, CallTypes DEF CallInv, TypeInv, LoopTypes, CallOf
    <3>6. \A d \in DOMAIN call.dirs : \A e \in DOMAIN call.dirs[d] :
            /\ call.dirs[d][e] \in Entry
            /\ call.dirs[d][e].type # "subdirError" /\ call.dirs[d][e].type # "rootError"
      BY <3>3, <3>4, <3>5, NoBadSubdirs DEF WholeScan, NoRootError
    <3>7. \A x \in Entry :
            x.type # "subdirError" /\ x.type # "rootError" => x.type \in {"yaml", "other"}
      BY DEF Entry
    <3>8. workloads = OfKind(infos, "workload")
      BY <2>2, <2>4 DEF Taken
    <3> HIDE DEF infos
    <3>9. QED
      BY <2>4, <3>3, <3>5, <3>6, <3>7, <3>8
  <2>6. ASSUME log = <<>>, ~args.quiet PROVE AllDone
    <3>1. errors = <<>>
      BY <2>2, <2>6, ThoseEmpty DEF Logged
    <3>2. \A type : Count(errors, type) = 0
      BY <3>1, CountEmpty
    <3>3. infos = InfosOf(call) /\ infos \in Seq(Info)
      BY <2>2, InfosType DEF CallInv, TypeInv, LoopTypes
    <3> HIDE DEF infos
    <3>4. services = OfKind(infos, "service") /\ configmaps = maps
      BY <2>4, <3>3, Zenon DEF Taken
    <3>5. BadInfos(infos) = 0
      BY <2>1, <2>3, <3>2, <3>3, Zenon DEF CallInv, ErrorsAccounted, BadInfos
    <3>6. \A i \in DOMAIN infos : infos[i].kind \notin {"badResource", "nilObject"}
      BY <3>3, <3>5, NoBadInfos
    <3>7. Len(NotFound(refs, maps)) = 0 /\ Len(KeyNotFound(refs, maps)) = 0
      BY <2>1, <2>3, <3>2, <3>3, Zenon DEF CallInv, ErrorsAccounted
    <3>8. NotFound(refs, maps) = <<>> /\ KeyNotFound(refs, maps) = <<>>
      BY <3>3, <3>7, NoDangling
    <3>9. QED
      BY <3>4, <3>6, <3>8
  <2>7. QED
    BY <2>5, <2>6, Zenon
<1>2. QED
  BY <1>1, LogInvariant, PTL

================================================================================
