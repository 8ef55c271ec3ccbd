---------------------- MODULE PoliciesSynthesizer_proofs ----------------------
(***************************************************************************)
(* Proofs about PoliciesSynthesizer, for all calls and any number of them: *)
(* a result that is missing is explained by Errors(), WithStopOnError a    *)
(* severe error is the end of a call, and without errors that stop it a    *)
(* call analyses everything and reports each failure once.                 *)
(*                                                                         *)
(* The invariants follow the stages of a call: TypeInv says what each      *)
(* stage has to go over, CompleteInv what the loops have taken in so far,  *)
(* and CountInv which errors they have found so far.                       *)
(***************************************************************************)
EXTENDS PoliciesSynthesizer, Iteration, FiniteSetTheorems

\* Only the return of a call makes the synthesizer idle.
LEMMA OnlyReturnEnds ==
  ASSUME Work, ~Return
  PROVE  /\ pc # "idle" /\ pc' # "idle"
         /\ UNCHANGED api
<1>1. CASE VisitEntry \/ VisitError \/ FinishDir
  BY <1>1, Zenon DEF VisitEntry, VisitError, FinishDir, Scanning
<1>2. CASE FinishScan
  BY <1>2 DEF FinishScan
<1>3. CASE ReadFile \/ FinishFile
  BY <1>3, Zenon DEF ReadFile, FinishFile, Parsing
<1>4. CASE AcceptInfo \/ RejectInfo \/ PanicOnInfo
  BY <1>4 DEF AcceptInfo, RejectInfo, PanicOnInfo, AtInfo, Parsing
<1>5. CASE FinishParse
  BY <1>5 DEF FinishParse, AfterParse
<1>6. CASE NoWorkloads \/ Inline \/ Discover
  BY <1>6 DEF NoWorkloads, Inline, Discover
<1>7. QED
  BY <1>1, <1>2, <1>3, <1>4, <1>5, <1>6 DEF Work

\* A fatal error is severe.
LEMMA FatalIsSevere == \A es : HasFatal(es) => HasSevere(es)
<1>1. QED
  BY DEF HasFatal, HasSevere, IsFatal, IsSevere

\* What a call returns without a fatal error is everything, or the call was
\* stopped by a severe one.
LEMMA ReturnExplains ==
  ASSUME Return
  PROVE  /\ returned'.value # "full" => HasSevere(errors')
         /\ returned'.error <=> HasFatal(errors')
         /\ returned'.error => returned'.value = "nil"
<1>1. errors' = fileErrors
  BY DEF Return, ErrorsAfter
<1>2. returned' = [value |-> IF HasFatal(fileErrors) THEN "nil" ELSE Value,
                   error |-> HasFatal(fileErrors)]
  BY DEF Return
<1>3. HasFatal(fileErrors) => HasSevere(fileErrors)
  BY FatalIsSevere
<1>4. ~HasFatal(fileErrors) /\ Value # "full" => HasSevere(fileErrors)
  BY DEF Value, Stop
<1>5. QED
  BY <1>1, <1>2, <1>3, <1>4, Zenon

LEMMA NoSilentLossStep == NoSilentLoss /\ [Next]_vars => NoSilentLoss'
<1> SUFFICES ASSUME NoSilentLoss, [Next]_vars PROVE NoSilentLoss'
  OBVIOUS
<1>1. CASE Invoke
  BY <1>1 DEF Invoke, NoSilentLoss, HasReturned
<1>2. CASE Return
  BY <1>2, ReturnExplains DEF NoSilentLoss
<1>3. CASE Work /\ ~Return
  BY <1>3, OnlyReturnEnds DEF NoSilentLoss, HasReturned
<1>4. CASE UNCHANGED vars
  BY <1>4 DEF vars, api, NoSilentLoss, HasReturned
<1>5. QED
  BY <1>1, <1>2, <1>3, <1>4 DEF Next

\* A call that has not returned everything has left a severe error in
\* Errors(), and a fatal one if and only if it returns an error itself: on
\* every path through the scan, the parser and the extraction.
THEOREM NoSilentLossHolds == Spec => []NoSilentLoss
<1>1. Init => NoSilentLoss
  BY DEF Init, NoSilentLoss, HasReturned
<1>2. QED
  BY <1>1, NoSilentLossStep, PTL DEF Spec

-----------------------------------------------------------------------------
(* Types of what the loops go over *)

LoopTypes ==
  /\ call \in Calls \union {NoCall}
  /\ dir \in Nat \ {0} /\ entry \in Nat \ {0} /\ file \in Nat \ {0} /\ info \in Nat
  /\ yamls \in Seq(File) /\ manifests \in Seq(File)
  /\ errs \in Seq(ErrorTypes) /\ fileErrors \in Seq(ErrorTypes)

\* The directories of a call, and its Infos as a file.
LEMMA CallTypes ==
  ASSUME NEW c \in Calls \union {NoCall}
  PROVE  /\ c.dirs \in Seq(Seq(Entry))
         /\ [readErrors |-> 0, infos |-> c.infos] \in File
<1>1. CASE c = NoCall
  BY <1>1 DEF NoCall, File
<1>2. CASE c \in Calls
  BY <1>2, CallsAssumption DEF Call, File
<1>3. QED
  BY <1>1, <1>2

\* The entry at hand.
LEMMA EntryTypes ==
  ASSUME LoopTypes, Scanning
  PROVE  /\ Entries \in Seq(Entry) /\ Len(Entries) \in Nat
         /\ \A i \in 1..Len(Entries) : Entries[i] \in Entry
<1>1. call.dirs \in Seq(Seq(Entry))
  BY CallTypes DEF LoopTypes
<1>2. Entries \in Seq(Entry)
  BY <1>1 DEF LoopTypes, Scanning, Entries
<1>3. QED
  BY <1>2, ElementOfSeq

\* The file at hand.
LEMMA FileTypes ==
  ASSUME LoopTypes, Parsing
  PROVE  /\ manifests[file] \in File /\ manifests[file].readErrors \in Nat
         /\ Infos \in Seq(Info) /\ Len(Infos) \in Nat /\ DOMAIN Infos = 1..Len(Infos)
<1>1. manifests[file] \in File
  BY DEF LoopTypes, Parsing
<1>2. manifests[file].readErrors \in Nat /\ Infos \in Seq(Info)
  BY <1>1 DEF File, Infos
<1>3. QED
  BY <1>1, <1>2

LEMMA LoopTypesStep == LoopTypes /\ [Next]_vars => LoopTypes'
<1> SUFFICES ASSUME LoopTypes, [Next]_vars PROVE LoopTypes'
  OBVIOUS
<1>1. CASE Invoke
  <2>1. call' \in Calls \union {NoCall}
    BY <1>1 DEF Invoke
  <2>2. manifests' \in Seq(File)
    <3>1. CASE call'.fromInfos
      <4>1. [readErrors |-> 0, infos |-> call'.infos] \in File
        BY <2>1, CallTypes
      <4>2. manifests' = <<[readErrors |-> 0, infos |-> call'.infos]>>
        BY <1>1, <3>1 DEF Invoke
      <4>3. QED
        BY <4>1, <4>2
    <3>2. CASE ~call'.fromInfos
      BY <1>1, <3>2 DEF Invoke
    <3>3. QED
      BY <3>1, <3>2
  <2>3. QED
    BY <1>1, <2>1, <2>2 DEF Invoke, LoopTypes, scan
<1>2. CASE VisitEntry
  <2>1. Entries[entry].file \in File
    BY <1>2, EntryTypes DEF VisitEntry, LoopTypes, scan, Entry
  <2>2. yamls' \in Seq(File)
    BY <1>2, <2>1 DEF VisitEntry, LoopTypes, scan
  <2>3. QED
    BY <1>2, <2>2 DEF VisitEntry, NextEntry, LoopTypes, scan
<1>3. CASE VisitError
  <2>1. errs' \in Seq(ErrorTypes)
    BY <1>3 DEF VisitError, AccessError, ErrorTypes, LoopTypes, scan
  <2>2. entry' \in Nat \ {0}
    BY <1>3, EntryTypes DEF VisitError, LoopTypes, scan
  <2>3. QED
    BY <1>3, <2>1, <2>2 DEF VisitError, LoopTypes, scan
<1>4. CASE FinishDir
  <2>1. manifests' \in Seq(File)
    <3>1. manifests' = <<>> \/ manifests' = manifests \o yamls
      BY <1>4, Zenon DEF FinishDir, AddFiles
    <3>2. manifests \o yamls \in Seq(File)
      BY DEF LoopTypes
    <3>3. <<>> \in Seq(File)
      OBVIOUS
    <3>4. QED
      BY <3>1, <3>2, <3>3, Zenon
  <2>2. NoYamls(manifests') \in Seq(ErrorTypes)
    <3>1. <<>> \in Seq(ErrorTypes) /\ <<"NoYamlsFound">> \in Seq(ErrorTypes)
      BY DEF ErrorTypes
    <3>2. QED
      BY <3>1, Zenon DEF NoYamls
  <2>3. fileErrors' \in Seq(ErrorTypes)
    <3>1. \/ fileErrors' = fileErrors \o errs
          \/ fileErrors' = fileErrors \o errs \o NoYamls(manifests')
      BY <1>4, Zenon DEF FinishDir
    <3>2. fileErrors \o errs \in Seq(ErrorTypes)
      BY DEF LoopTypes
    <3>3. fileErrors \o errs \o NoYamls(manifests') \in Seq(ErrorTypes)
      BY <2>2, <3>2, SMT
    <3>4. QED
      BY <3>1, <3>2, <3>3
  <2>4. dir' \in Nat \ {0}
    <3>1. Len(call.dirs) \in Nat
      BY CallTypes DEF LoopTypes, scan
    <3>2. QED
      BY <1>4, <3>1 DEF FinishDir, LoopTypes, scan
  <2>5. QED
    BY <1>4, <2>1, <2>3, <2>4 DEF FinishDir, FirstEntry, LoopTypes, scan
<1>5. CASE FinishScan
  BY <1>5 DEF FinishScan, LoopTypes, scan
<1>6. CASE ReadFile
  <2>1. manifests[file].readErrors \in Nat /\ Len(Infos) \in Nat
    BY <1>6, FileTypes DEF ReadFile
  <2>2. errs' \in Seq(ErrorTypes) /\ info' \in Nat
    <3>1. CASE stopOnError /\ manifests[file].readErrors > 0
      <4>1. errs' = <<"FailedReadingFile">> /\ info' = Len(Infos) + 1
        BY <1>6, <3>1 DEF ReadFile
      <4>2. "FailedReadingFile" \in ErrorTypes
        BY DEF ErrorTypes
      <4>3. QED
        BY <2>1, <4>1, <4>2
    <3>2. CASE ~(stopOnError /\ manifests[file].readErrors > 0)
      <4>1. errs' = [i \in 1..manifests[file].readErrors |-> "FailedReadingFile"] /\ info' = 1
        BY <1>6, <3>2 DEF ReadFile
      <4>2. QED
        BY <2>1, <4>1 DEF ErrorTypes
    <3>3. QED
      BY <3>1, <3>2
  <2>3. QED
    BY <1>6, <2>2 DEF ReadFile, LoopTypes, scan
<1>7. CASE AcceptInfo
  BY <1>7 DEF AcceptInfo, LoopTypes, scan
<1>8. CASE RejectInfo
  BY <1>8 DEF RejectInfo, LoopTypes, scan, ErrorTypes
<1>9. CASE PanicOnInfo
  BY <1>9 DEF PanicOnInfo, LoopTypes, scan
<1>10. CASE FinishFile
  BY <1>10 DEF FinishFile, NextFile, LoopTypes, scan
<1>11. CASE FinishParse
  BY <1>11 DEF FinishParse, LoopTypes, scan
<1>12. CASE NoWorkloads
  BY <1>12 DEF NoWorkloads, LoopTypes, scan, ErrorTypes
<1>13. CASE Inline
  <2>1. ASSUME NEW r PROVE RefErrors(r) \in Seq(ErrorTypes)
    <3>1. /\ <<"ConfigMapNotFound">> \in Seq(ErrorTypes)
          /\ <<"ConfigMapKeyNotFound">> \in Seq(ErrorTypes)
          /\ <<>> \in Seq(ErrorTypes)
      BY DEF ErrorTypes
    <3>2. QED
      BY <3>1, Zenon DEF RefErrors
  <2>2. fileErrors' \in Seq(ErrorTypes)
    BY <1>13, <2>1 DEF Inline, LoopTypes, scan
  <2>3. QED
    BY <1>13, <2>2 DEF Inline, LoopTypes, scan
<1>14. CASE Discover \/ Return
  BY <1>14 DEF Discover, Return, LoopTypes, scan
<1>15. CASE UNCHANGED vars
  BY <1>15 DEF vars, scan, LoopTypes
<1>16. QED
  BY <1>1, <1>2, <1>3, <1>4, <1>5, <1>6, <1>7, <1>8, <1>9, <1>10, <1>11, <1>12,
     <1>13, <1>14, <1>15 DEF Next, Work

-----------------------------------------------------------------------------
(* Where a severe error can be, WithStopOnError *)

\* The severe errors of two sequences are those of both.
LEMMA SevereConcat ==
  ASSUME NEW a \in Seq(ErrorTypes), NEW b \in Seq(ErrorTypes)
  PROVE  HasSevere(a \o b) <=> HasSevere(a) \/ HasSevere(b)
<1>1. ASSUME HasSevere(a \o b) PROVE HasSevere(a) \/ HasSevere(b)
  <2>1. PICK i \in DOMAIN (a \o b) : IsSevere((a \o b)[i])
    BY <1>1 DEF HasSevere
  <2>2. CASE i <= Len(a)
    <3>1. i \in DOMAIN a /\ (a \o b)[i] = a[i]
      BY <2>1, <2>2
    <3>2. QED
      BY <2>1, <3>1, Zenon DEF HasSevere
  <2>3. CASE i > Len(a)
    <3>1. i - Len(a) \in DOMAIN b /\ (a \o b)[i] = b[i - Len(a)]
      BY <2>1, <2>3
    <3>2. QED
      BY <2>1, <3>1, Zenon DEF HasSevere
  <2>4. QED
    BY <2>1, <2>2, <2>3
<1>2. ASSUME HasSevere(a) PROVE HasSevere(a \o b)
  <2>1. PICK i \in DOMAIN a : IsSevere(a[i])
    BY <1>2 DEF HasSevere
  <2>2. i \in DOMAIN (a \o b) /\ (a \o b)[i] = a[i]
    BY <2>1
  <2>3. QED
    BY <2>1, <2>2, Zenon DEF HasSevere
<1>3. ASSUME HasSevere(b) PROVE HasSevere(a \o b)
  <2>1. PICK i \in DOMAIN b : IsSevere(b[i])
    BY <1>3 DEF HasSevere
  <2>2. Len(a) + i \in DOMAIN (a \o b) /\ (a \o b)[Len(a) + i] = b[i]
    BY <2>1
  <2>3. QED
    BY <2>1, <2>2, Zenon DEF HasSevere
<1>4. QED
  BY <1>1, <1>2, <1>3

\* An error is added that is not severe.
LEMMA SevereAppend ==
  ASSUME NEW a \in Seq(ErrorTypes), NEW e \in ErrorTypes, ~IsSevere(e), HasSevere(Append(a, e))
  PROVE  HasSevere(a)
<1>1. PICK i \in DOMAIN Append(a, e) : IsSevere(Append(a, e)[i])
  BY DEF HasSevere
<1>2. i # Len(a) + 1
  BY <1>1
<1>3. i \in DOMAIN a /\ Append(a, e)[i] = a[i]
  BY <1>1, <1>2
<1>4. QED
  BY <1>1, <1>3, Zenon DEF HasSevere

LEMMA NoneSevere ==
  /\ ~HasSevere(<<>>)
  /\ \A ms : ~HasSevere(NoYamls(ms)) /\ NoYamls(ms) \in Seq(ErrorTypes)
  /\ \A r : ~HasSevere(RefErrors(r)) /\ RefErrors(r) \in Seq(ErrorTypes)
<1>1. ~HasSevere(<<>>) /\ <<>> \in Seq(ErrorTypes)
  BY DEF HasSevere
<1>2. \A e \in {"NoYamlsFound", "ConfigMapNotFound", "ConfigMapKeyNotFound"} :
        ~HasSevere(<<e>>) /\ <<e>> \in Seq(ErrorTypes)
  BY DEF HasSevere, IsSevere, ErrorTypes
<1>3. ASSUME NEW ms PROVE ~HasSevere(NoYamls(ms)) /\ NoYamls(ms) \in Seq(ErrorTypes)
  BY <1>1, <1>2, Zenon DEF NoYamls
<1>4. ASSUME NEW r PROVE ~HasSevere(RefErrors(r)) /\ RefErrors(r) \in Seq(ErrorTypes)
  BY <1>1, <1>2, Zenon DEF RefErrors
<1>5. QED
  BY <1>1, <1>3, <1>4

\* The loop over directories or files is over, or the one in a directory or
\* a file.
CallStops ==
  \/ pc = "scan" /\ dir > Len(call.dirs)
  \/ pc = "parse" /\ file > Len(manifests)
  \/ pc \in {"return", "idle", "panicked"}
PartStops ==
  \/ Scanning /\ entry > Len(Entries)
  \/ Parsing /\ info > Len(Infos)
  \/ pc \in {"return", "idle", "panicked"}

StopInv ==
  /\ stopOnError /\ HasSevere(fileErrors) => CallStops
  /\ stopOnError /\ HasSevere(errs) => PartStops

LEMMA StopInvStep == LoopTypes /\ StopInv /\ [Next]_vars => StopInv'
<1> SUFFICES ASSUME LoopTypes, StopInv, [Next]_vars PROVE StopInv'
  OBVIOUS
<1>1. CASE Invoke
  BY <1>1, NoneSevere DEF Invoke, StopInv
<1>2. CASE VisitEntry
  <2>1. ~CallStops /\ ~PartStops
    BY <1>2, EntryTypes DEF VisitEntry, Scanning, CallStops, PartStops, Parsing, LoopTypes
  <2>2. UNCHANGED <<stopOnError, fileErrors, errs>>
    BY <1>2 DEF VisitEntry, api
  <2>3. QED
    BY <2>1, <2>2 DEF StopInv
<1>3. CASE VisitError
  <2>1. ~CallStops /\ UNCHANGED <<stopOnError, fileErrors>>
    BY <1>3 DEF VisitError, Scanning, CallStops, LoopTypes, api
  <2>2. ASSUME stopOnError, HasSevere(errs') PROVE PartStops'
    <3>1. entry' = Len(Entries) + 1 /\ UNCHANGED <<pc, call, dir>>
      BY <1>3, <2>2 DEF VisitError, Stop
    <3>2. Len(Entries) \in Nat
      BY <1>3, EntryTypes DEF VisitError
    <3>3. QED
      BY <1>3, <3>1, <3>2 DEF VisitError, PartStops, Scanning, Entries
  <2>3. QED
    BY <2>1, <2>2 DEF StopInv
<1>4. CASE FinishDir
  <2>1. ~CallStops /\ errs' = <<>> /\ UNCHANGED <<pc, stopOnError, call>>
    BY <1>4 DEF FinishDir, Scanning, CallStops, LoopTypes, api
  <2>2. ASSUME stopOnError, HasSevere(fileErrors') PROVE CallStops'
    <3>1. ~HasSevere(fileErrors)
      BY <2>1, <2>2 DEF StopInv
    <3>2. HasSevere(errs)
      <4>1. CASE fileErrors' = fileErrors \o errs
        BY <2>2, <3>1, <4>1, SevereConcat DEF LoopTypes
      <4>2. CASE fileErrors' = fileErrors \o errs \o NoYamls(manifests')
        <5>1. fileErrors \o errs \in Seq(ErrorTypes)
          BY DEF LoopTypes
        <5>2. HasSevere(fileErrors \o errs)
          BY <2>2, <4>2, <5>1, SevereConcat, NoneSevere
        <5>3. QED
          BY <3>1, <5>2, SevereConcat DEF LoopTypes
      <4>3. QED
        BY <1>4, <4>1, <4>2 DEF FinishDir
    <3>3. dir' = Len(call.dirs) + 1
      BY <1>4, <2>2, <3>2, Zenon DEF FinishDir, Stop
    <3>4. Len(call.dirs) \in Nat
      BY CallTypes DEF LoopTypes
    <3>5. QED
      BY <1>4, <2>1, <3>3, <3>4 DEF FinishDir, Scanning, CallStops
  <2>3. QED
    BY <2>1, <2>2, NoneSevere DEF StopInv
<1>5. CASE FinishScan
  <2>1. ~PartStops /\ UNCHANGED <<stopOnError, errs, fileErrors>>
    BY <1>5 DEF FinishScan, PartStops, Scanning, Parsing, LoopTypes, api
  <2>2. ASSUME stopOnError, HasSevere(fileErrors) PROVE CallStops'
    BY <1>5, <2>2 DEF FinishScan, Stop, CallStops
  <2>3. QED
    BY <2>1, <2>2 DEF StopInv
<1>6. CASE ReadFile
  <2>1. ~CallStops /\ UNCHANGED <<stopOnError, fileErrors>>
    BY <1>6 DEF ReadFile, Parsing, CallStops, LoopTypes, api
  <2>2. /\ manifests[file].readErrors \in Nat /\ Len(Infos) \in Nat
        /\ UNCHANGED <<pc, file, manifests>>
    BY <1>6, FileTypes DEF ReadFile, scan
  <2>3. ASSUME stopOnError, HasSevere(errs') PROVE PartStops'
    <3>1. CASE manifests[file].readErrors > 0
      <4>1. Parsing /\ info' = Len(Infos) + 1
        BY <1>6, <2>3, <3>1, Zenon DEF ReadFile
      <4>2. Parsing' /\ Infos' = Infos
        BY <2>2, <4>1, Zenon DEF Parsing, Infos
      <4>3. info' > Len(Infos')
        BY <2>2, <4>1, <4>2
      <4>4. QED
        BY <4>2, <4>3 DEF PartStops
    <3>2. CASE manifests[file].readErrors = 0
      <4>1. errs' = [i \in 1..0 |-> "FailedReadingFile"]
        BY <1>6, <2>2, <3>2 DEF ReadFile
      <4>2. QED
        BY <2>3, <4>1 DEF HasSevere
    <3>3. QED
      BY <2>2, <3>1, <3>2
  <2>4. QED
    BY <2>1, <2>3 DEF StopInv
<1>7. CASE AcceptInfo \/ RejectInfo
  <2>1. ~CallStops /\ ~PartStops /\ UNCHANGED <<stopOnError, fileErrors>>
    BY <1>7, FileTypes DEF AcceptInfo, RejectInfo, AtInfo, Parsing, Scanning, CallStops,
                           PartStops, LoopTypes, api
  <2>2. HasSevere(errs') => HasSevere(errs)
    <3>1. CASE AcceptInfo
      BY <3>1 DEF AcceptInfo
    <3>2. CASE RejectInfo
      BY <3>2, SevereAppend DEF RejectInfo, LoopTypes, ErrorTypes, IsSevere
    <3>3. QED
      BY <1>7, <3>1, <3>2
  <2>3. QED
    BY <2>1, <2>2 DEF StopInv
<1>8. CASE PanicOnInfo \/ Discover \/ Return
  BY <1>8 DEF PanicOnInfo, Discover, Return, StopInv, CallStops, PartStops
<1>9. CASE FinishFile
  <2>1. errs' = <<>> /\ UNCHANGED <<pc, stopOnError, manifests>>
    BY <1>9 DEF FinishFile, api, scan
  <2>2. ASSUME stopOnError, HasSevere(fileErrors') PROVE CallStops'
    <3>1. file' = Len(manifests) + 1 /\ Len(manifests) \in Nat
      BY <1>9, <2>2 DEF FinishFile, NextFile, Stop, LoopTypes
    <3>2. QED
      BY <1>9, <2>1, <3>1 DEF FinishFile, Parsing, CallStops
  <2>3. QED
    BY <2>1, <2>2, NoneSevere DEF StopInv
<1>10. CASE FinishParse
  <2>1. ~PartStops /\ UNCHANGED <<stopOnError, errs, fileErrors>>
    BY <1>10 DEF FinishParse, PartStops, Scanning, Parsing, LoopTypes, api
  <2>2. ASSUME stopOnError, HasSevere(fileErrors) PROVE CallStops'
    BY <1>10, <2>2 DEF FinishParse, AfterParse, Stop, CallStops
  <2>3. QED
    BY <2>1, <2>2 DEF StopInv
<1>11. CASE NoWorkloads
  <2>1. ~PartStops /\ UNCHANGED <<stopOnError, errs>> /\ pc' = "return"
    BY <1>11 DEF NoWorkloads, PartStops, Scanning, Parsing, api
  <2>2. QED
    BY <2>1 DEF StopInv, CallStops
<1>12. CASE Inline
  <2>1. ~CallStops /\ ~PartStops /\ UNCHANGED <<stopOnError, errs>>
    BY <1>12 DEF Inline, CallStops, PartStops, Scanning, Parsing, api
  <2>2. HasSevere(fileErrors') => HasSevere(fileErrors)
    BY <1>12, SevereConcat, NoneSevere DEF Inline, LoopTypes
  <2>3. QED
    BY <2>1, <2>2 DEF StopInv
<1>13. CASE UNCHANGED vars
  BY <1>13 DEF vars, api, scan, StopInv, CallStops, PartStops, Scanning, Parsing, Entries, Infos
<1>14. QED
  BY <1>1, <1>2, <1>3, <1>4, <1>5, <1>6, <1>7, <1>8, <1>9, <1>10, <1>11, <1>12,
     <1>13 DEF Next, Work

-----------------------------------------------------------------------------
\* Where a call has stopped, a step only leaves the loop: it moves errors and
\* takes nothing in.
LEMMA StoppedStep ==
  ASSUME LoopTypes, Next, stopOnError, pc # "idle",
         \/ HasSevere(fileErrors) /\ CallStops
         \/ HasSevere(errs) /\ PartStops
  PROVE  /\ Len(fileErrors') + Len(errs') = Len(fileErrors) + Len(errs)
         /\ UNCHANGED acc
         /\ Len(manifests') <= Len(manifests)
<1>1. /\ Len(fileErrors) \in Nat /\ Len(errs) \in Nat /\ Len(manifests) \in Nat
      /\ Len(fileErrors \o errs) = Len(fileErrors) + Len(errs)
  BY DEF LoopTypes
<1>2. /\ ~Invoke /\ ~VisitEntry /\ ~VisitError /\ ~ReadFile /\ ~AcceptInfo /\ ~RejectInfo
      /\ ~PanicOnInfo /\ ~NoWorkloads /\ ~Inline /\ ~Discover
  <2>1. ~Invoke /\ ~NoWorkloads /\ ~Inline /\ ~Discover
    BY DEF Invoke, NoWorkloads, Inline, Discover, CallStops, PartStops, Scanning, Parsing
  <2>2. ~VisitEntry /\ ~VisitError
    BY EntryTypes DEF VisitEntry, VisitError, CallStops, PartStops, Scanning, Parsing, LoopTypes
  <2>3. ~ReadFile /\ ~AcceptInfo /\ ~RejectInfo /\ ~PanicOnInfo
    BY FileTypes DEF ReadFile, AcceptInfo, RejectInfo, PanicOnInfo, AtInfo, CallStops,
                     PartStops, Scanning, Parsing, LoopTypes
  <2>4. QED
    BY <2>1, <2>2, <2>3
<1>3. CASE FinishScan \/ FinishParse \/ Return
  <2>1. UNCHANGED <<fileErrors, errs, acc, scan>>
    BY <1>3, Zenon DEF FinishScan, FinishParse, Return
  <2>2. manifests' = manifests
    BY <2>1 DEF scan
  <2>3. QED
    BY <1>1, <2>1, <2>2
<1>4. CASE FinishDir
  <2>1. Stop(errs)
    BY <1>4 DEF FinishDir, Stop, CallStops, Scanning, LoopTypes
  <2>2. /\ manifests' = <<>> /\ fileErrors' = fileErrors \o errs /\ errs' = <<>>
        /\ UNCHANGED acc
    BY <1>4, <2>1 DEF FinishDir
  <2>3. QED
    BY <1>1, <2>2
<1>5. CASE FinishFile
  <2>1. /\ fileErrors' = fileErrors \o errs /\ errs' = <<>>
        /\ UNCHANGED acc /\ manifests' = manifests
    BY <1>5 DEF FinishFile, scan
  <2>2. QED
    BY <1>1, <2>1
<1>6. QED
  BY <1>2, <1>3, <1>4, <1>5 DEF Next, Work

LEMMA StopsAtSevereStep ==
  ASSUME LoopTypes, StopInv, [Next]_vars, stopOnError, pc # "idle",
         HasSevere(fileErrors \o errs)
  PROVE  /\ Len(fileErrors') + Len(errs') = Len(fileErrors) + Len(errs)
         /\ UNCHANGED acc
         /\ Len(manifests') <= Len(manifests)
<1>1. HasSevere(fileErrors) \/ HasSevere(errs)
  BY SevereConcat DEF LoopTypes
<1>2. CASE Next
  BY <1>1, <1>2, StoppedStep DEF StopInv
<1>3. CASE UNCHANGED vars
  BY <1>3 DEF vars, scan, LoopTypes
<1>4. QED
  BY <1>2, <1>3

\* WithStopOnError, once an error is severe the call gathers no further error,
\* takes in no manifest and accepts no resource: whatever it is given, and in
\* whichever loop the error arose.
THEOREM StopsAtSevereHolds == Spec => StopsAtSevere
<1>1. Init => LoopTypes /\ StopInv
  BY NoneSevere DEF Init, LoopTypes, StopInv
<1>2. LoopTypes /\ StopInv /\ [Next]_vars => (LoopTypes /\ StopInv)'
  BY LoopTypesStep, StopInvStep
<1>3. LoopTypes /\ StopInv /\ [Next]_vars =>
        [ stopOnError /\ pc # "idle" /\ HasSevere(fileErrors \o errs) =>
            /\ Len(fileErrors') + Len(errs') = Len(fileErrors) + Len(errs)
            /\ UNCHANGED acc
            /\ Len(manifests') <= Len(manifests) ]_vars
  BY StopsAtSevereStep
<1>4. QED
  BY <1>1, <1>2, <1>3, PTL DEF Spec, StopsAtSevere

-----------------------------------------------------------------------------
(* How far a call is *)

\* What the stages that are still to come find.
StageInv ==
  /\ pc = "scan" =>
       /\ ~call.fromInfos /\ file = 1 /\ info = 0
       /\ workloads = <<>> /\ services = <<>> /\ configmaps = <<>>
  /\ pc \in {"scan", "parse"} => inlined = 0
  /\ (pc = "scan" /\ dir > Len(call.dirs)) \/ (pc = "parse" /\ info = 0) => errs = <<>>
  /\ pc = "parse" /\ file > Len(manifests) => info = 0

TypeInv == TypeOK /\ LoopTypes /\ StageInv

LEMMA RefsType ==
  ASSUME NEW wls \in Seq(Info)
  PROVE  RefsOf(wls) \in Seq(Ref) /\ Len(RefsOf(wls)) \in Nat
<1> DEFINE refs == [w \in DOMAIN wls |-> wls[w].refs]
<1>1. \A w \in DOMAIN wls : wls[w].refs \in Seq(Ref)
  <2>1. \A w \in DOMAIN wls : wls[w] \in Info
    BY ElementOfSeq
  <2>2. QED
    BY <2>1 DEF Info
<1>2. refs \in Seq(Seq(Ref))
  BY <1>1
<1> HIDE DEF refs
<1>3. Concat(refs) \in Seq(Ref)
  BY <1>2, ConcatType
<1>4. QED
  BY <1>3 DEF RefsOf, refs

LEMMA RefsEmpty == RefsOf(<<>>) = <<>>
<1>1. [w \in DOMAIN <<>> |-> <<>>[w].refs] = <<>>
  OBVIOUS
<1>2. QED
  BY <1>1, ConcatEmpty DEF RefsOf

\* What TypeOK says of the positions.
Bounds ==
  /\ dir \in 1..(Len(call.dirs) + 1)
  /\ pc = "scan" /\ dir \in DOMAIN call.dirs => entry \in 1..(Len(Entries) + 1)
  /\ file \in 1..(Len(manifests) + 1)
  /\ pc = "parse" /\ file \in DOMAIN manifests => info \in 0..(Len(Infos) + 1)
  /\ inlined \in 0..Len(RefsOf(workloads))

LEMMA BoundsStep == TypeInv /\ [Next]_vars => Bounds'
<1> SUFFICES ASSUME TypeInv, [Next]_vars PROVE Bounds'
  OBVIOUS
<1> USE DEF Bounds
<1>1. Bounds /\ LoopTypes /\ StageInv
  BY DEF TypeInv, TypeOK
<1>2. LoopTypes'
  BY <1>1, LoopTypesStep
<1>3. Len(call.dirs) \in Nat /\ DOMAIN call.dirs = 1..Len(call.dirs)
  BY <1>1, CallTypes DEF LoopTypes
<1>4. Len(RefsOf(<<>>)) = 0
  BY RefsEmpty
<1>5. Len(manifests) \in Nat /\ DOMAIN manifests = 1..Len(manifests)
  BY <1>1 DEF LoopTypes
<1>6. CASE Invoke
  <2>1. Len(call'.dirs) \in Nat /\ DOMAIN call'.dirs = 1..Len(call'.dirs)
    BY <1>2, CallTypes DEF LoopTypes
  <2>2. 1 \in DOMAIN call'.dirs => Len(call'.dirs[1]) \in Nat
    <3>1. call'.dirs \in Seq(Seq(Entry))
      BY <1>2, CallTypes DEF LoopTypes
    <3>2. QED
      BY <3>1
  <2>3. Len(manifests') \in Nat
    BY <1>2 DEF LoopTypes
  <2>4. 1 \in DOMAIN manifests' => Len(manifests'[1].infos) \in Nat
    <3>1. 1 \in DOMAIN manifests' => manifests'[1] \in File
      BY <1>2 DEF LoopTypes
    <3>2. QED
      BY <3>1 DEF File
  <2>5. /\ dir' = 1 /\ entry' = 1 /\ file' = 1 /\ info' = 0
        /\ inlined' = 0 /\ workloads' = <<>>
    BY <1>6 DEF Invoke
  <2>6. (Len(RefsOf(workloads)))' = 0
    BY <1>4, <2>5
  <2>7. QED
    BY <2>1, <2>2, <2>3, <2>4, <2>5, <2>6 DEF Entries, Infos
<1>7. CASE VisitEntry \/ VisitError
  <2>1. Scanning /\ entry <= Len(Entries) /\ Len(Entries) \in Nat
    BY <1>1, <1>7, EntryTypes DEF VisitEntry, VisitError
  <2>2. UNCHANGED <<pc, call, dir, file, info, manifests, acc, inlined>>
    BY <1>7 DEF VisitEntry, VisitError
  <2>3. entry' \in 1..(Len(Entries) + 1)
    <3>1. entry' = entry + 1 \/ entry' = Len(Entries) + 1
      BY <1>7, Zenon DEF VisitEntry, VisitError, NextEntry
    <3>2. entry \in Nat \ {0}
      BY <1>1 DEF LoopTypes
    <3>3. QED
      BY <2>1, <3>1, <3>2
  <2>4. Entries' = Entries /\ Infos' = Infos /\ workloads' = workloads
    BY <2>2 DEF Entries, Infos, acc
  <2>5. (Len(RefsOf(workloads)))' = Len(RefsOf(workloads))
    BY <2>4
  <2>6. QED
    BY <1>1, <2>2, <2>3, <2>4, <2>5
<1>8. CASE FinishDir
  <2>1. Scanning /\ UNCHANGED <<pc, call, file, info, inlined>> /\ workloads' = workloads
    BY <1>8 DEF FinishDir, acc
  <2>2. dir' \in 1..(Len(call.dirs) + 1) /\ entry' = 1
    BY <1>1, <1>3, <1>8, <2>1 DEF FinishDir, FirstEntry, Scanning
  <2>3. dir' \in DOMAIN call.dirs => Len(call.dirs[dir']) \in Nat
    <3>1. call.dirs \in Seq(Seq(Entry))
      BY <1>1, CallTypes DEF LoopTypes
    <3>2. QED
      BY <3>1
  <2>4. Len(manifests') \in Nat /\ file' = 1 /\ pc' = "scan"
    BY <1>1, <1>2, <2>1 DEF LoopTypes, StageInv, Scanning
  <2>5. (Len(RefsOf(workloads)))' = Len(RefsOf(workloads))
    BY <2>1
  <2>6. QED
    BY <1>1, <2>1, <2>2, <2>3, <2>4, <2>5 DEF Entries
<1>9. CASE FinishScan
  <2>1. UNCHANGED <<call, dir, file, info, manifests, inlined>> /\ workloads' = workloads
    BY <1>9 DEF FinishScan, scan, acc
  <2>2. (Len(RefsOf(workloads)))' = Len(RefsOf(workloads))
    BY <2>1
  <2>3. info = 0 /\ pc' # "scan"
    BY <1>1, <1>9 DEF FinishScan, StageInv
  <2>4. file \in DOMAIN manifests => Len(Infos) \in Nat
    <3>1. file \in DOMAIN manifests => manifests[file] \in File
      BY <1>1 DEF LoopTypes
    <3>2. QED
      BY <3>1 DEF File, Infos
  <2>5. Infos' = Infos
    BY <2>1 DEF Infos
  <2>6. QED
    BY <1>1, <2>1, <2>2, <2>3, <2>4, <2>5
<1>10. CASE ReadFile \/ AcceptInfo \/ RejectInfo
  <2>1. Parsing /\ UNCHANGED <<pc, call, dir, file, manifests, inlined>>
    BY <1>10 DEF ReadFile, AcceptInfo, RejectInfo, AtInfo, scan
  <2>2. Len(Infos) \in Nat /\ DOMAIN Infos = 1..Len(Infos)
    BY <1>1, <2>1, FileTypes
  <2>3. info' \in 0..(Len(Infos) + 1)
    <3>1. info' = 1 \/ info' = Len(Infos) + 1 \/ (info \in DOMAIN Infos /\ info' = info + 1)
      <4>1. ReadFile => info' = 1 \/ info' = Len(Infos) + 1
        BY Zenon DEF ReadFile
      <4>2. AcceptInfo \/ RejectInfo => info \in DOMAIN Infos /\ info' = info + 1
        BY Zenon DEF AcceptInfo, RejectInfo, AtInfo
      <4>3. QED
        BY <1>10, <4>1, <4>2
    <3>2. info \in Nat
      BY <1>1 DEF LoopTypes
    <3>3. QED
      BY <2>2, <3>1, <3>2
  <2>4. Infos' = Infos
    BY <2>1 DEF Infos
  <2>5. inlined = 0 /\ (Len(RefsOf(workloads)))' \in Nat
    <3>1. workloads' \in Seq(Info)
      <4>1. CASE ReadFile \/ RejectInfo
        BY <4>1 DEF ReadFile, RejectInfo, acc, TypeInv, TypeOK
      <4>2. CASE AcceptInfo
        <5>1. Infos[info] \in Info
          BY <1>1, <2>1, <4>2, FileTypes DEF AcceptInfo, AtInfo
        <5>2. workloads \in Seq(Info)
          BY DEF TypeInv, TypeOK
        <5>3. QED
          BY <4>2, <5>1, <5>2 DEF AcceptInfo
      <4>3. QED
        BY <1>10, <4>1, <4>2
    <3>2. Len(RefsOf(workloads')) \in Nat
      BY <3>1, RefsType
    <3>3. QED
      BY <1>1, <2>1, <3>2 DEF StageInv, Parsing
  <2>6. pc = "parse"
    BY <2>1 DEF Parsing
  <2>7. QED
    BY <1>1, <2>1, <2>3, <2>4, <2>5, <2>6
<1>11. CASE FinishFile
  <2>1. Parsing /\ info' = 0 /\ UNCHANGED <<pc, call, dir, manifests, inlined>> /\ workloads' = workloads
    BY <1>11 DEF FinishFile, scan, acc
  <2>2. file' \in 1..(Len(manifests) + 1)
    BY <1>1, <1>5, <1>11, <2>1 DEF FinishFile, NextFile, Parsing
  <2>3. file' \in DOMAIN manifests => Len(manifests[file'].infos) \in Nat
    <3>1. file' \in DOMAIN manifests => manifests[file'] \in File
      BY <1>1 DEF LoopTypes
    <3>2. QED
      BY <3>1 DEF File
  <2>4. (Len(RefsOf(workloads)))' = Len(RefsOf(workloads))
    BY <2>1
  <2>5. QED
    BY <1>1, <2>1, <2>2, <2>3, <2>4 DEF Infos, Parsing
<1>12. CASE PanicOnInfo \/ FinishParse \/ NoWorkloads \/ Discover \/ Return
  <2>1. UNCHANGED <<call, dir, file, manifests, inlined>> /\ workloads' = workloads
    BY <1>12 DEF PanicOnInfo, FinishParse, NoWorkloads, Discover, Return, scan, acc
  <2>2. pc' \notin {"scan", "parse"}
    BY <1>12 DEF PanicOnInfo, FinishParse, AfterParse, NoWorkloads, Discover, Return
  <2>3. (Len(RefsOf(workloads)))' = Len(RefsOf(workloads))
    BY <2>1
  <2>4. QED
    BY <1>1, <2>1, <2>2, <2>3
<1>13. CASE Inline
  <2>1. /\ UNCHANGED <<call, dir, file, manifests>> /\ workloads' = workloads
        /\ pc' = "extract" /\ inlined' = inlined + 1 /\ inlined < Len(RefsOf(workloads))
    BY <1>13 DEF Inline, scan, acc
  <2>2. (Len(RefsOf(workloads)))' = Len(RefsOf(workloads))
    BY <2>1
  <2>3. Len(RefsOf(workloads)) \in Nat
    BY RefsType DEF TypeInv, TypeOK
  <2>4. QED
    BY <1>1, <2>1, <2>2, <2>3
<1>14. CASE UNCHANGED vars
  <2>1. UNCHANGED <<pc, call, dir, entry, file, info, manifests, inlined>> /\ workloads' = workloads
    BY <1>14 DEF vars, scan, acc
  <2>2. (Len(RefsOf(workloads)))' = Len(RefsOf(workloads))
    BY <2>1
  <2>3. QED
    BY <1>1, <2>1, <2>2 DEF Entries, Infos
<1>15. QED
  BY <1>6, <1>7, <1>8, <1>9, <1>10, <1>11, <1>12, <1>13, <1>14 DEF Next, Work

LEMMA StageInvStep == TypeInv /\ [Next]_vars => StageInv'
<1> SUFFICES ASSUME TypeInv, [Next]_vars PROVE StageInv'
  OBVIOUS
<1>1. LoopTypes /\ StageInv /\ dir \in 1..(Len(call.dirs) + 1) /\ file \in 1..(Len(manifests) + 1)
  BY DEF TypeInv, TypeOK
<1>2. Len(call.dirs) \in Nat /\ Len(manifests) \in Nat
  BY <1>1, CallTypes DEF LoopTypes
<1>3. CASE Invoke
  BY <1>3 DEF Invoke, StageInv
<1>4. CASE VisitEntry \/ VisitError \/ FinishDir
  BY <1>1, <1>2, <1>4 DEF VisitEntry, VisitError, FinishDir, Scanning, StageInv, acc
<1>5. CASE FinishScan
  BY <1>1, <1>2, <1>5 DEF FinishScan, StageInv, acc, scan
<1>6. CASE ReadFile
  BY <1>1, <1>6, FileTypes DEF ReadFile, Parsing, StageInv, scan, LoopTypes
<1>7. CASE AcceptInfo \/ RejectInfo
  BY <1>1, <1>7, FileTypes DEF AcceptInfo, RejectInfo, AtInfo, Parsing, StageInv, scan, LoopTypes
<1>8. CASE FinishFile
  BY <1>1, <1>8 DEF FinishFile, Parsing, StageInv, scan
<1>9. CASE PanicOnInfo \/ FinishParse \/ NoWorkloads \/ Inline \/ Discover \/ Return
  BY <1>9 DEF PanicOnInfo, FinishParse, AfterParse, NoWorkloads, Inline, Discover, Return, StageInv
<1>10. CASE UNCHANGED vars
  BY <1>1, <1>10 DEF vars, scan, acc, StageInv
<1>11. QED
  BY <1>3, <1>4, <1>5, <1>6, <1>7, <1>8, <1>9, <1>10 DEF Next, Work

\* What TypeOK says of what the loops gather.
Gathered ==
  /\ stopOnError \in BOOLEAN
  /\ errors \in Seq(ErrorTypes)
  /\ returned \in [value : {"none", "nil", "empty", "full"}, error : BOOLEAN]
  /\ calls \in 0..MaxCalls
  /\ pc \in {"idle", "scan", "parse", "extract", "return", "panicked"}
  /\ workloads \in Seq(Info) /\ services \in Seq(Info) /\ configmaps \in Seq(Info)

LEMMA GatheredStep == Gathered /\ LoopTypes /\ [Next]_vars => Gathered'
<1> SUFFICES ASSUME Gathered, LoopTypes, [Next]_vars PROVE Gathered'
  OBVIOUS
<1>1. CASE Invoke
  <2>1. MaxCalls \in Nat
    BY CallsAssumption
  <2>2. returned' \in [value : {"none", "nil", "empty", "full"}, error : BOOLEAN]
    BY <1>1, Zenon DEF Invoke, Idle
  <2>3. calls' \in 0..MaxCalls
    BY <1>1, <2>1 DEF Invoke, Gathered
  <2>4. pc' \in {"scan", "parse"}
    BY <1>1 DEF Invoke
  <2>5. /\ stopOnError' = stopOnError /\ errors' = errors
        /\ workloads' = <<>> /\ services' = <<>> /\ configmaps' = <<>>
    BY <1>1 DEF Invoke
  <2>6. QED
    BY <2>2, <2>3, <2>4, <2>5 DEF Gathered
<1>2. CASE AcceptInfo
  <2>1. Infos[info] \in Info
    BY <1>2, FileTypes DEF AcceptInfo, AtInfo
  <2>2. workloads' \in Seq(Info) /\ services' \in Seq(Info) /\ configmaps' \in Seq(Info)
    BY <1>2, <2>1 DEF AcceptInfo, Gathered
  <2>3. UNCHANGED <<stopOnError, errors, returned, calls, pc>>
    BY <1>2 DEF AcceptInfo, api
  <2>4. QED
    BY <2>2, <2>3 DEF Gathered
<1>3. CASE Return
  <2>1. returned' \in [value : {"none", "nil", "empty", "full"}, error : BOOLEAN]
    <3>1. /\ (IF HasFatal(fileErrors) THEN "nil" ELSE Value) \in {"none", "nil", "empty", "full"}
          /\ HasFatal(fileErrors) \in BOOLEAN
      BY Zenon DEF Value, HasFatal
    <3>2. QED
      BY <1>3, <3>1, Zenon DEF Return
  <2>2. errors' \in Seq(ErrorTypes)
    BY <1>3 DEF Return, ErrorsAfter, LoopTypes
  <2>3. pc' = "idle" /\ UNCHANGED <<stopOnError, calls, acc>>
    BY <1>3 DEF Return
  <2>4. QED
    BY <2>1, <2>2, <2>3 DEF Gathered, acc
<1>4. CASE Work /\ ~AcceptInfo /\ ~Return
  <2>1. UNCHANGED api
    BY <1>4, OnlyReturnEnds
  <2>2. UNCHANGED acc
    BY <1>4, Zenon DEF Work, VisitEntry, VisitError, FinishDir, FinishScan, ReadFile, RejectInfo,
       PanicOnInfo, FinishFile, FinishParse, NoWorkloads, Inline, Discover
  <2>3. pc' \in {"idle", "scan", "parse", "extract", "return", "panicked"}
    <3>1. CASE VisitEntry \/ VisitError \/ FinishDir \/ ReadFile \/ RejectInfo \/ FinishFile \/ Inline
      BY <3>1, Zenon DEF VisitEntry, VisitError, FinishDir, ReadFile, RejectInfo, FinishFile, Inline,
         Gathered
    <3>2. CASE FinishScan \/ PanicOnInfo \/ FinishParse \/ NoWorkloads \/ Discover
      BY <3>2, Zenon DEF FinishScan, PanicOnInfo, FinishParse, AfterParse, NoWorkloads, Discover
    <3>3. QED
      BY <1>4, <3>1, <3>2 DEF Work
  <2>4. QED
    BY <2>1, <2>2, <2>3 DEF Gathered, api, acc
<1>5. CASE UNCHANGED vars
  BY <1>5 DEF vars, api, acc, Gathered
<1>6. QED
  BY <1>1, <1>2, <1>3, <1>4, <1>5 DEF Next

LEMMA TypeInvInit == Init => TypeInv
<1> SUFFICES ASSUME Init PROVE TypeInv
  OBVIOUS
<1>1. LoopTypes
  BY DEF Init, LoopTypes
<1>2. StageInv
  BY DEF Init, StageInv
<1>3. Gathered
  <2>1. 0 \in 0..MaxCalls
    BY CallsAssumption
  <2>2. returned \in [value : {"none", "nil", "empty", "full"}, error : BOOLEAN]
    BY Zenon DEF Init, Idle
  <2>3. QED
    BY <2>1, <2>2 DEF Init, Gathered
<1>4. Bounds
  <2>1. RefsOf(workloads) = <<>>
    BY RefsEmpty DEF Init
  <2>2. QED
    BY <2>1 DEF Init, Bounds, NoCall
<1>5. QED
  BY <1>1, <1>2, <1>3, <1>4 DEF TypeInv, TypeOK, LoopTypes, Gathered, Bounds

LEMMA TypeInvStep == TypeInv /\ [Next]_vars => TypeInv'
<1> SUFFICES ASSUME TypeInv, [Next]_vars PROVE TypeInv'
  OBVIOUS
<1>1. LoopTypes' /\ StageInv' /\ Bounds'
  BY LoopTypesStep, StageInvStep, BoundsStep DEF TypeInv
<1>2. Gathered
  BY DEF TypeInv, TypeOK, Gathered
<1>3. Gathered'
  BY <1>2, GatheredStep DEF TypeInv
<1>4. QED
  BY <1>1, <1>3 DEF TypeInv, TypeOK, LoopTypes, Gathered, Bounds

\* Every position stays within what it goes through, and every slice holds
\* what it is for: in all loops, for all calls and any number of them.
THEOREM TypeCorrect == Spec => []TypeOK
<1>1. TypeInv => TypeOK
  BY DEF TypeInv
<1>2. QED
  BY <1>1, TypeInvInit, TypeInvStep, PTL DEF Spec

-----------------------------------------------------------------------------
(* What a call that goes on has behind it *)

\* A call has to stop for the errors of two sequences if for those of one.
LEMMA StopConcat ==
  ASSUME NEW a \in Seq(ErrorTypes), NEW b \in Seq(ErrorTypes)
  PROVE  Stop(a \o b) <=> Stop(a) \/ Stop(b)
<1>1. HasSevere(a \o b) <=> HasSevere(a) \/ HasSevere(b)
  BY SevereConcat
<1>2. HasFatal(a \o b) <=> HasFatal(a) \/ HasFatal(b)
  <2>1. a \o b \in Seq(ErrorTypes)
    BY ConcatProperties
  <2>2. ASSUME NEW s \in Seq(ErrorTypes)
        PROVE  HasFatal(s) <=> \E e \in Range(s) : IsFatal(e)
    BY DEF HasFatal, Range
  <2>3. Range(a \o b) = Range(a) \union Range(b)
    BY RangeConcatenation
  <2>4. QED
    BY <2>1, <2>2, <2>3
<1>3. QED
  BY <1>1, <1>2 DEF Stop

LEMMA StopNone == ~Stop(<<>>)
<1>1. QED
  BY NoneSevere, FatalIsSevere DEF Stop

\* The files of each directory, and the Infos of each file.
DirFiles(c) == [d \in DOMAIN c.dirs |-> YamlFiles(c.dirs[d])]
FileInfos(files) == [f \in DOMAIN files |-> files[f].infos]

\* The Infos before position i of file f.
ParsedUpto(files, f, i) ==
  Concat(SubSeq(FileInfos(files), 1, f - 1))
    \o (IF f \in DOMAIN files THEN SubSeq(files[f].infos, 1, i - 1) ELSE <<>>)

\* Those that the parser has behind it.
Parsed == ParsedUpto(manifests, file, info)

\* The accumulator holds the resources among infos.
Taken(infos) ==
  /\ workloads = OfKind(infos, "workload")
  /\ services = OfKind(infos, "service")
  /\ configmaps = OfKind(infos, "configmap")

\* A call that does not have to stop has everything behind it.
ScanInv ==
  pc = "scan" /\ ~Stop(fileErrors) /\ ~Stop(errs) =>
    /\ manifests = Concat(SubSeq(DirFiles(call), 1, dir - 1))
    /\ dir \in DOMAIN call.dirs => yamls = YamlFiles(SubSeq(Entries, 1, entry - 1))
ParseInv ==
  pc = "parse" /\ ~Stop(fileErrors) /\ ~Stop(errs) =>
    manifests = FilesOf(call) /\ Taken(Parsed)
EndInv ==
  /\ pc = "extract" => Taken(InfosOf(call))
  /\ pc = "return" /\ ~Stop(fileErrors) =>
       Taken(InfosOf(call)) /\ inlined = Len(RefsOf(workloads))
  /\ HasReturned /\ returned.value = "full" =>
       /\ ~returned.error
       /\ Taken(InfosOf(call)) /\ inlined = Len(RefsOf(workloads))

CompleteInv == ScanInv /\ ParseInv /\ EndInv

-----------------------------------------------------------------------------
(* The parts of a call, one by one *)

LEMMA YamlFilesEmpty == YamlFiles(<<>>) = <<>>
<1> DEFINE yaml == Those(<<>>, {e \in Entry : e.type = "yaml"})
<1>1. yaml = <<>>
  BY ThoseEmpty
<1> HIDE DEF yaml
<1>2. [i \in DOMAIN yaml |-> yaml[i].file] = <<>>
  BY <1>1
<1>3. QED
  BY <1>2 DEF YamlFiles, yaml

\* One entry of a directory more.
LEMMA YamlFilesAppend ==
  ASSUME NEW d \in Seq(Entry), NEW e \in Entry
  PROVE  /\ YamlFiles(d) \in Seq(File)
         /\ YamlFiles(Append(d, e)) =
              IF e.type = "yaml" THEN Append(YamlFiles(d), e.file) ELSE YamlFiles(d)
<1> DEFINE Yaml == {x \in Entry : x.type = "yaml"}
           Files(es) == [i \in DOMAIN es |-> es[i].file]
           ys == Those(d, Yaml)
<1>1. ys \in Seq(Entry) /\ Those(Append(d, e), Yaml) = Keep(ys, e, Yaml)
  BY ThoseType, ThoseAppend
<1>2. YamlFiles(d) = Files(ys) /\ YamlFiles(Append(d, e)) = Files(Keep(ys, e, Yaml))
  BY <1>1 DEF YamlFiles
<1>3. e \in Yaml <=> e.type = "yaml"
  OBVIOUS
<1>4. e.file \in File /\ \A i \in DOMAIN ys : ys[i].file \in File
  <2> HIDE DEF ys
  <2>1. \A i \in DOMAIN ys : ys[i] \in Entry
    BY <1>1, ElementOfSeq
  <2>2. QED
    BY <2>1 DEF Entry
<1> HIDE DEF ys
<1>5. Files(ys) \in Seq(File)
  BY <1>1, <1>4
<1>6. Files(Append(ys, e)) = Append(Files(ys), e.file)
  BY <1>1, <1>4
<1> HIDE DEF Files, Yaml
<1>7. QED
  BY <1>2, <1>3, <1>5, <1>6 DEF Keep

LEMMA YamlFilesType == ASSUME NEW d \in Seq(Entry) PROVE YamlFiles(d) \in Seq(File)
<1> DEFINE yaml == Those(d, {e \in Entry : e.type = "yaml"})
<1>1. yaml \in Seq(Entry)
  BY ThoseType
<1> HIDE DEF yaml
<1>2. \A i \in DOMAIN yaml : yaml[i].file \in File
  <2>1. \A i \in DOMAIN yaml : yaml[i] \in Entry
    BY <1>1, ElementOfSeq
  <2>2. QED
    BY <2>1 DEF Entry
<1>3. [i \in DOMAIN yaml |-> yaml[i].file] \in Seq(File)
  BY <1>1, <1>2
<1>4. QED
  BY <1>3 DEF YamlFiles, yaml

LEMMA DirFilesType ==
  ASSUME NEW c, c.dirs \in Seq(Seq(Entry))
  PROVE  /\ DirFiles(c) \in Seq(Seq(File)) /\ Len(DirFiles(c)) = Len(c.dirs)
         /\ \A d \in DOMAIN c.dirs : DirFiles(c)[d] = YamlFiles(c.dirs[d])
<1>1. \A d \in DOMAIN c.dirs : YamlFiles(c.dirs[d]) \in Seq(File)
  <2>1. \A d \in DOMAIN c.dirs : c.dirs[d] \in Seq(Entry)
    BY ElementOfSeq
  <2>2. QED
    BY <2>1, YamlFilesType
<1>2. PICK dirs \in Seq(Seq(Entry)) : dirs = c.dirs
  OBVIOUS
<1>3. DirFiles(c) = [d \in DOMAIN dirs |-> YamlFiles(dirs[d])]
  BY <1>2 DEF DirFiles
<1>4. \A d \in DOMAIN dirs : YamlFiles(dirs[d]) \in Seq(File)
  BY <1>1, <1>2
<1>5. Len(dirs) \in Nat /\ DOMAIN dirs = 1..Len(dirs)
  OBVIOUS
<1>6. DirFiles(c) \in Seq(Seq(File)) /\ Len(DirFiles(c)) = Len(dirs)
  BY <1>3, <1>4, <1>5
<1>7. \A d \in DOMAIN dirs : DirFiles(c)[d] = YamlFiles(dirs[d])
  BY <1>3
<1>8. QED
  BY <1>2, <1>6, <1>7

LEMMA FileInfosType ==
  ASSUME NEW files \in Seq(File)
  PROVE  /\ FileInfos(files) \in Seq(Seq(Info)) /\ Len(FileInfos(files)) = Len(files)
         /\ \A f \in DOMAIN files : FileInfos(files)[f] = files[f].infos
<1>1. \A f \in DOMAIN files : files[f].infos \in Seq(Info)
  <2>1. \A f \in DOMAIN files : files[f] \in File
    BY ElementOfSeq
  <2>2. QED
    BY <2>1 DEF File
<1>2. QED
  BY <1>1 DEF FileInfos

LEMMA OfKindAppend ==
  ASSUME NEW infos \in Seq(Info), NEW i \in Info, NEW kind
  PROVE  OfKind(Append(infos, i), kind) =
           IF i.kind = kind THEN Append(OfKind(infos, kind), i) ELSE OfKind(infos, kind)
<1> DEFINE S == {x \in Info : x.kind = kind}
<1>1. Those(Append(infos, i), S) = Keep(Those(infos, S), i, S)
  BY ThoseAppend
<1>2. i \in S <=> i.kind = kind
  OBVIOUS
<1> HIDE DEF S
<1>3. QED
  BY <1>1, <1>2 DEF OfKind, Keep, S

LEMMA OfKindEmpty == \A kind : OfKind(<<>>, kind) = <<>>
<1>1. QED
  BY ThoseEmpty DEF OfKind

\* The parser begins with nothing, takes an Info, goes on to the next file,
\* and has all Infos at the end.
LEMMA ParsedStart ==
  ASSUME NEW files \in Seq(File)
  PROVE  ParsedUpto(files, 1, 0) = <<>>
<1>1. SubSeq(FileInfos(files), 1, 1 - 1) = <<>>
  BY SubSeqEmpty
<1>2. SubSeq(files[1].infos, 1, 0 - 1) = <<>>
  BY SubSeqEmpty
<1>3. <<>> \o <<>> = <<>>
  OBVIOUS
<1>4. QED
  BY <1>1, <1>2, <1>3, ConcatEmpty, Zenon DEF ParsedUpto

LEMMA ParsedNext ==
  ASSUME NEW files \in Seq(File), NEW f \in DOMAIN files, NEW i \in DOMAIN files[f].infos
  PROVE  /\ ParsedUpto(files, f, i) \in Seq(Info) /\ files[f].infos[i] \in Info
         /\ ParsedUpto(files, f, i + 1) = Append(ParsedUpto(files, f, i), files[f].infos[i])
<1> DEFINE infos == files[f].infos
           before == Concat(SubSeq(FileInfos(files), 1, f - 1))
           lists == FileInfos(files)
<1>1. lists \in Seq(Seq(Info)) /\ f \in 1..Len(lists) /\ infos = lists[f]
  BY FileInfosType
<1>2. infos \in Seq(Info) /\ before \in Seq(Info)
  <2> HIDE DEF lists
  <2>1. Concat(SubSeq(lists, 1, f - 1)) \in Seq(Info)
    BY <1>1, ConcatNext, Zenon
  <2>2. lists[f] \in Seq(Info)
    BY <1>1, ElementOfSeq, Zenon
  <2>3. QED
    BY <1>1, <2>1, <2>2 DEF lists
<1> HIDE DEF infos, before
<1>3. i \in 1..Len(infos)
  BY <1>2 DEF infos
<1>4. /\ SubSeq(infos, 1, i - 1) \in Seq(Info) /\ infos[i] \in Info
      /\ SubSeq(infos, 1, i) = Append(SubSeq(infos, 1, i - 1), infos[i])
  BY <1>2, <1>3, FirstNext
<1>5. /\ ParsedUpto(files, f, i) = before \o SubSeq(infos, 1, i - 1)
      /\ ParsedUpto(files, f, i + 1) = before \o SubSeq(infos, 1, i)
  <2>1. (i + 1) - 1 = i
    BY <1>3
  <2>2. QED
    BY <2>1, Zenon DEF ParsedUpto, before, infos
<1> DEFINE first == SubSeq(infos, 1, i - 1)
<1> HIDE DEF first
<1>6. before \o Append(first, infos[i]) = Append(before \o first, infos[i]) /\ before \o first \in Seq(Info)
  BY <1>2, <1>4, AppendToConcat DEF first
<1>7. QED
  BY <1>4, <1>5, <1>6, Zenon DEF infos, first

LEMMA ParsedFile ==
  ASSUME NEW files \in Seq(File), NEW f \in DOMAIN files
  PROVE  /\ ParsedUpto(files, f, Len(files[f].infos) + 1) = ParsedUpto(files, f + 1, 0)
         /\ ParsedUpto(files, f, 1) = ParsedUpto(files, f, 0)
<1> DEFINE infos == files[f].infos
           lists == FileInfos(files)
           before == Concat(SubSeq(lists, 1, f - 1))
<1>1. lists \in Seq(Seq(Info)) /\ f \in 1..Len(lists) /\ infos = lists[f]
  BY FileInfosType
<1> HIDE DEF lists
<1>2. /\ infos \in Seq(Info) /\ before \in Seq(Info)
      /\ Concat(SubSeq(lists, 1, f)) = before \o infos
  BY <1>1, ConcatNext, ElementOfSeq, Zenon
<1>3. (f + 1) - 1 = f /\ (Len(infos) + 1) - 1 = Len(infos)
  BY <1>1, <1>2
<1>4. SubSeq(infos, 1, Len(infos)) = infos
  BY <1>2, FirstNoneAll
<1>5. /\ SubSeq(infos, 1, 0 - 1) = <<>> /\ SubSeq(infos, 1, 1 - 1) = <<>>
      /\ SubSeq(files[f + 1].infos, 1, 0 - 1) = <<>>
  BY SubSeqEmpty
<1>6. (before \o infos) \o <<>> = before \o infos
  <2>1. before \o infos \in Seq(Info)
    BY <1>2, ConcatProperties
  <2>2. QED
    BY <2>1, ConcatEmptySeq
<1> HIDE DEF infos
<1>7. ParsedUpto(files, f, Len(infos) + 1) = before \o infos
  BY <1>3, <1>4, Zenon DEF ParsedUpto, lists, infos
<1>8. ParsedUpto(files, f + 1, 0) = before \o infos
  BY <1>2, <1>3, <1>5, <1>6, Zenon DEF ParsedUpto, lists
<1>9. ParsedUpto(files, f, 1) = ParsedUpto(files, f, 0)
  BY <1>5, Zenon DEF ParsedUpto, infos
<1>10. QED
  BY <1>7, <1>8, <1>9 DEF infos

LEMMA ParsedEnd ==
  ASSUME NEW files \in Seq(File)
  PROVE  ParsedUpto(files, Len(files) + 1, 0) = AllInfos(files)
<1> DEFINE lists == FileInfos(files)
           n == Len(files)
<1>1. lists \in Seq(Seq(Info)) /\ Len(lists) = n /\ n \in Nat /\ DOMAIN files = 1..n
  BY FileInfosType
<1> HIDE DEF n, lists
<1>2. (n + 1) - 1 = n /\ n + 1 \notin DOMAIN files
  BY <1>1
<1>3. SubSeq(lists, 1, n) = lists
  BY <1>1, FirstNoneAll
<1>4. Concat(lists) \in Seq(Info)
  BY <1>1, ConcatType
<1>5. ParsedUpto(files, n + 1, 0) = Concat(lists) \o <<>>
  BY <1>2, <1>3 DEF ParsedUpto, lists
<1>6. Concat(lists) \o <<>> = Concat(lists)
  BY <1>4, ConcatEmptySeq
<1>7. QED
  BY <1>5, <1>6 DEF lists, n, AllInfos, FileInfos

-----------------------------------------------------------------------------
(* The scan finds all manifests *)

\* The next entry of the directory at hand.
LEMMA EntryNext ==
  ASSUME TypeInv, Scanning, entry <= Len(Entries)
  PROVE  /\ Entries[entry] \in Entry
         /\ YamlFiles(SubSeq(Entries, 1, entry)) =
              IF Entries[entry].type = "yaml"
                THEN Append(YamlFiles(SubSeq(Entries, 1, entry - 1)), Entries[entry].file)
                ELSE YamlFiles(SubSeq(Entries, 1, entry - 1))
<1>1. Entries \in Seq(Entry) /\ entry \in 1..Len(Entries)
  BY EntryTypes DEF TypeInv, LoopTypes
<1>2. /\ SubSeq(Entries, 1, entry - 1) \in Seq(Entry) /\ Entries[entry] \in Entry
      /\ SubSeq(Entries, 1, entry) = Append(SubSeq(Entries, 1, entry - 1), Entries[entry])
  BY <1>1, FirstNext
<1>3. QED
  BY <1>2, YamlFilesAppend

\* The directory at hand and those before it.
LEMMA DirNext ==
  ASSUME TypeInv, Scanning
  PROVE  /\ Concat(SubSeq(DirFiles(call), 1, dir)) =
              Concat(SubSeq(DirFiles(call), 1, dir - 1)) \o YamlFiles(Entries)
         /\ dir \in DOMAIN call.dirs
<1>1. call.dirs \in Seq(Seq(Entry)) /\ dir \in 1..Len(call.dirs)
  <2>1. call.dirs \in Seq(Seq(Entry))
    BY CallTypes DEF TypeInv, LoopTypes
  <2>2. Len(call.dirs) \in Nat /\ dir \in Nat \ {0} /\ dir <= Len(call.dirs)
    BY <2>1 DEF TypeInv, LoopTypes, Scanning
  <2>3. QED
    BY <2>1, <2>2
<1>2. DirFiles(call) \in Seq(Seq(File)) /\ dir \in 1..Len(DirFiles(call))
  BY <1>1, DirFilesType
<1>3. Concat(SubSeq(DirFiles(call), 1, dir)) =
        Concat(SubSeq(DirFiles(call), 1, dir - 1)) \o DirFiles(call)[dir]
  BY <1>2, ConcatNext
<1>4. dir \in DOMAIN call.dirs /\ DirFiles(call)[dir] = YamlFiles(Entries)
  BY <1>1, DirFilesType DEF Entries
<1>5. QED
  BY <1>3, <1>4

\* A scan that need not stop ends with the files of the call.
LEMMA ScanEnd ==
  ASSUME TypeInv, pc = "scan", dir > Len(call.dirs)
  PROVE  Concat(SubSeq(DirFiles(call), 1, dir - 1)) = FilesOf(call)
<1>1. call.dirs \in Seq(Seq(Entry)) /\ dir - 1 = Len(call.dirs)
  <2>1. call.dirs \in Seq(Seq(Entry))
    BY CallTypes DEF TypeInv, LoopTypes
  <2>2. Len(call.dirs) \in Nat /\ dir \in 1..(Len(call.dirs) + 1)
    BY <2>1 DEF TypeInv, TypeOK
  <2>3. QED
    BY <2>1, <2>2
<1>2. DirFiles(call) \in Seq(Seq(File)) /\ dir - 1 = Len(DirFiles(call))
  BY <1>1, DirFilesType
<1>3. SubSeq(DirFiles(call), 1, dir - 1) = DirFiles(call)
  BY <1>2, FirstNoneAll
<1>4. QED
  BY <1>3 DEF FilesOf, DirFiles, TypeInv, StageInv

LEMMA ScanInvStep == TypeInv /\ ScanInv /\ [Next]_vars => ScanInv'
<1> SUFFICES ASSUME TypeInv, ScanInv, [Next]_vars PROVE ScanInv'
  OBVIOUS
<1>1. /\ errs \in Seq(ErrorTypes) /\ fileErrors \in Seq(ErrorTypes) /\ entry \in Nat \ {0}
      /\ yamls \in Seq(File) /\ manifests \in Seq(File) /\ dir \in Nat \ {0}
  BY DEF TypeInv, LoopTypes
<1>2. \A d : YamlFiles(SubSeq(d, 1, 1 - 1)) = <<>>
  <2>1. \A d : SubSeq(d, 1, 1 - 1) = <<>>
    BY SubSeqEmpty
  <2>2. QED
    BY <2>1, YamlFilesEmpty, Zenon
<1>3. CASE Invoke
  <2>1. /\ pc' = "scan" => manifests' = <<>>
        /\ dir' = 1 /\ entry' = 1 /\ yamls' = <<>>
    BY <1>3 DEF Invoke
  <2>2. SubSeq(DirFiles(call'), 1, 1 - 1) = <<>>
    BY SubSeqEmpty
  <2>3. Concat(SubSeq(DirFiles(call'), 1, dir' - 1)) = <<>>
    BY <2>1, <2>2, ConcatEmpty
  <2>4. YamlFiles(SubSeq(Entries', 1, entry' - 1)) = <<>>
    BY <1>2, <2>1
  <2>5. QED
    BY <2>1, <2>3, <2>4 DEF ScanInv
<1>4. CASE VisitEntry
  <2>1. /\ Scanning /\ entry <= Len(Entries) /\ entry' = entry + 1
        /\ yamls' = IF Entries[entry].type = "yaml"
                      THEN Append(yamls, Entries[entry].file) ELSE yamls
        /\ UNCHANGED <<pc, call, dir, manifests, errs, fileErrors, stopOnError>>
    BY <1>4 DEF VisitEntry, NextEntry, api
  <2>2. Entries' = Entries /\ (Stop(fileErrors))' = Stop(fileErrors) /\ (Stop(errs))' = Stop(errs)
    BY <2>1 DEF Entries, Stop
  <2>3. entry' - 1 = entry
    BY <1>1, <2>1
  <2>4. YamlFiles(SubSeq(Entries, 1, entry)) =
          IF Entries[entry].type = "yaml"
            THEN Append(YamlFiles(SubSeq(Entries, 1, entry - 1)), Entries[entry].file)
            ELSE YamlFiles(SubSeq(Entries, 1, entry - 1))
    BY <2>1, EntryNext
  <2>5. dir \in DOMAIN call.dirs
    BY <2>1, DirNext
  <2>6. QED
    BY <2>1, <2>2, <2>3, <2>4, <2>5, Zenon DEF ScanInv
<1>5. CASE VisitError
  <2>1. /\ Scanning /\ entry <= Len(Entries) /\ Entries[entry].type # "yaml"
        /\ ~Stop(errs)' => entry' = entry + 1
        /\ errs' = Append(errs, AccessError(Entries[entry]))
        /\ UNCHANGED <<pc, call, dir, yamls, manifests, fileErrors, stopOnError>>
    BY <1>5 DEF VisitError, api, Stop
  <2>2. Entries' = Entries /\ (Stop(fileErrors))' = Stop(fileErrors)
    BY <2>1 DEF Entries, Stop
  <2>3. Stop(errs) => Stop(errs)'
    <3>1. AccessError(Entries[entry]) \in ErrorTypes
      BY DEF AccessError, ErrorTypes
    <3>2. <<AccessError(Entries[entry])>> \in Seq(ErrorTypes)
      BY <3>1
    <3>3. errs' = errs \o <<AccessError(Entries[entry])>>
      BY <1>1, <2>1, <3>1, AppendIsConcat
    <3>4. Stop(errs) => Stop(errs')
      BY <1>1, <3>2, <3>3, StopConcat
    <3>5. QED
      BY <2>1, <3>4 DEF Stop
  <2>4. (entry + 1) - 1 = entry
    BY <1>1
  <2>5. /\ YamlFiles(SubSeq(Entries, 1, entry)) = YamlFiles(SubSeq(Entries, 1, entry - 1))
        /\ dir \in DOMAIN call.dirs
    BY <2>1, EntryNext, DirNext
  <2>6. QED
    BY <2>1, <2>2, <2>3, <2>4, <2>5, Zenon DEF ScanInv
<1>6. CASE FinishDir
  <2>1. Scanning /\ entry > Len(Entries) /\ UNCHANGED <<pc, call, stopOnError>> /\ errs' = <<>>
        /\ entry' = 1 /\ yamls' = <<>>
    BY <1>6 DEF FinishDir, FirstEntry, api
  <2> SUFFICES ASSUME ~Stop(fileErrors)'
               PROVE  manifests' = Concat(SubSeq(DirFiles(call), 1, dir' - 1))
    BY <1>2, <2>1 DEF ScanInv
  <2>2. ~Stop(fileErrors')
    BY <2>1 DEF Stop
  <2>3. ~Stop(errs)
    <3>1. CASE Stop(errs)
      <4>1. fileErrors' = fileErrors \o errs
        BY <1>6, <3>1, Zenon DEF FinishDir
      <4>2. Stop(fileErrors \o errs)
        BY <1>1, <3>1, StopConcat
      <4>3. QED
        BY <2>2, <4>1, <4>2
    <3>2. QED
      BY <3>1
  <2>4. /\ manifests' = manifests \o yamls /\ dir' = dir + 1
        /\ fileErrors' = fileErrors \o errs \o NoYamls(manifests')
    BY <1>6, <2>3 DEF FinishDir, AddFiles
  <2>5. ~Stop(fileErrors)
    <3>1. fileErrors \o errs \in Seq(ErrorTypes)
      BY <1>1, ConcatProperties
    <3>2. ~Stop(fileErrors \o errs)
      BY <2>2, <2>4, <3>1, NoneSevere, StopConcat
    <3>3. QED
      BY <1>1, <3>2, StopConcat
  <2>6. /\ manifests = Concat(SubSeq(DirFiles(call), 1, dir - 1))
        /\ yamls = YamlFiles(SubSeq(Entries, 1, entry - 1))
    BY <2>1, <2>3, <2>5, DirNext DEF ScanInv, Scanning
  <2>7. SubSeq(Entries, 1, entry - 1) = Entries
    <3>1. Entries \in Seq(Entry) /\ Len(Entries) \in Nat
      BY <2>1, EntryTypes DEF TypeInv
    <3>2. entry - 1 = Len(Entries)
      <4>1. entry \in 1..(Len(Entries) + 1)
        BY <2>1, DirNext DEF TypeInv, TypeOK, Scanning
      <4>2. QED
        BY <2>1, <3>1, <4>1
    <3>3. QED
      BY <3>1, <3>2, FirstNoneAll
  <2>8. dir' - 1 = dir
    BY <1>1, <2>4
  <2>9. QED
    BY <2>1, <2>4, <2>6, <2>7, <2>8, DirNext
<1>7. CASE Work /\ ~VisitEntry /\ ~VisitError /\ ~FinishDir
  <2>1. pc' # "scan"
    <3>1. CASE FinishScan \/ PanicOnInfo \/ FinishParse \/ NoWorkloads \/ Discover \/ Return
      BY <3>1, Zenon DEF FinishScan, PanicOnInfo, FinishParse, AfterParse, NoWorkloads, Discover, Return
    <3>2. CASE ReadFile \/ AcceptInfo \/ RejectInfo \/ FinishFile \/ Inline
      BY <3>2 DEF ReadFile, AcceptInfo, RejectInfo, FinishFile, Inline, AtInfo, Parsing
    <3>3. QED
      BY <1>7, <3>1, <3>2 DEF Work
  <2>2. QED
    BY <2>1 DEF ScanInv
<1>8. CASE UNCHANGED vars
  <2>1. UNCHANGED <<pc, call, dir, entry, yamls, manifests, errs, fileErrors, stopOnError>>
    BY <1>8 DEF vars, api, scan
  <2>2. QED
    BY <2>1 DEF ScanInv, Stop, Entries
<1>9. QED
  BY <1>3, <1>4, <1>5, <1>6, <1>7, <1>8 DEF Next, Work

-----------------------------------------------------------------------------
(* The parser takes all resources *)

LEMMA ParseInvStep == TypeInv /\ ScanInv /\ ParseInv /\ [Next]_vars => ParseInv'
<1> SUFFICES ASSUME TypeInv, ScanInv, ParseInv, [Next]_vars PROVE ParseInv'
  OBVIOUS
<1>1. /\ errs \in Seq(ErrorTypes) /\ fileErrors \in Seq(ErrorTypes)
      /\ file \in Nat \ {0} /\ info \in Nat /\ manifests \in Seq(File)
  BY DEF TypeInv, LoopTypes
<1>2. ASSUME workloads' = <<>>, services' = <<>>, configmaps' = <<>>,
             manifests' \in Seq(File), file' = 1, info' = 0
      PROVE  Taken(Parsed)'
  <2>1. Parsed' = <<>>
    BY <1>2, ParsedStart DEF Parsed
  <2>2. QED
    BY <1>2, <2>1, OfKindEmpty DEF Taken
<1>3. CASE Invoke
  <2>1. /\ workloads' = <<>> /\ services' = <<>> /\ configmaps' = <<>>
        /\ file' = 1 /\ info' = 0
        /\ pc' = "parse" => call'.fromInfos
        /\ call'.fromInfos => manifests' = <<[readErrors |-> 0, infos |-> call'.infos]>>
    BY <1>3 DEF Invoke
  <2>2. manifests' \in Seq(File)
    BY LoopTypesStep DEF TypeInv, LoopTypes
  <2>3. Taken(Parsed)'
    BY <1>2, <2>1, <2>2
  <2>4. pc' = "parse" => manifests' = FilesOf(call')
    BY <2>1 DEF FilesOf
  <2>5. QED
    BY <2>3, <2>4 DEF ParseInv
<1>4. CASE FinishScan
  <2>1. /\ pc = "scan" /\ dir > Len(call.dirs)
        /\ UNCHANGED <<stopOnError, call, manifests, file, info, errs, fileErrors, acc>>
    BY <1>4 DEF FinishScan, api, scan
  <2>2. errs = <<>> /\ dir \notin DOMAIN call.dirs
    <3>1. call.dirs \in Seq(Seq(Entry))
      BY CallTypes DEF TypeInv, LoopTypes
    <3>2. QED
      BY <2>1, <3>1 DEF TypeInv, StageInv, LoopTypes
  <2>3. Taken(Parsed)'
    BY <1>1, <1>2, <2>1 DEF TypeInv, StageInv, acc
  <2>4. ~Stop(fileErrors) => manifests = FilesOf(call)
    BY <2>1, <2>2, StopNone, ScanEnd DEF ScanInv
  <2>5. (Stop(fileErrors))' = Stop(fileErrors) /\ (FilesOf(call))' = FilesOf(call)
    BY <2>1 DEF Stop
  <2>6. QED
    BY <2>1, <2>3, <2>4, <2>5 DEF ParseInv
<1>5. CASE ReadFile
  <2>1. /\ Parsing /\ info = 0
        /\ UNCHANGED <<stopOnError, pc, call, manifests, file, fileErrors, acc>>
    BY <1>5 DEF ReadFile, api, scan
  <2>2. Stop(errs)' \/ info' = 1
    <3>1. CASE stopOnError /\ manifests[file].readErrors > 0
      <4>1. errs' = <<"FailedReadingFile">>
        BY <1>5, <3>1, Zenon DEF ReadFile
      <4>2. HasSevere(errs')
        BY <4>1 DEF HasSevere, IsSevere
      <4>3. QED
        BY <2>1, <3>1, <4>2 DEF Stop
    <3>2. CASE ~(stopOnError /\ manifests[file].readErrors > 0)
      BY <1>5, <3>2, Zenon DEF ReadFile
    <3>3. QED
      BY <3>1, <3>2
  <2>3. errs = <<>> /\ file \in DOMAIN manifests
    BY <1>1, <2>1 DEF TypeInv, StageInv, Parsing
  <2>4. info' = 1 => Parsed' = Parsed
    BY <1>1, <2>1, <2>3, ParsedFile DEF Parsed
  <2>5. (Stop(fileErrors))' = Stop(fileErrors) /\ (FilesOf(call))' = FilesOf(call) /\ ~Stop(errs)
    BY <2>1, <2>3, StopNone DEF Stop
  <2>6. UNCHANGED <<workloads, services, configmaps>>
    BY <2>1 DEF acc
  <2>7. QED
    BY <2>1, <2>2, <2>4, <2>5, <2>6 DEF ParseInv, Taken
<1>6. CASE AcceptInfo \/ RejectInfo
  <2>1. /\ Parsing /\ info \in DOMAIN Infos /\ info' = info + 1
        /\ UNCHANGED <<stopOnError, pc, call, manifests, file, fileErrors>>
    BY <1>6 DEF AcceptInfo, RejectInfo, AtInfo, api, scan
  <2>2. file \in DOMAIN manifests
    BY <1>1, <2>1 DEF Parsing
  <2> DEFINE i == Infos[info]
  <2>3. Parsed \in Seq(Info) /\ i \in Info /\ Parsed' = Append(Parsed, i)
    BY <1>1, <2>1, <2>2, ParsedNext DEF Parsed, Infos
  <2>4. Stop(errs) => Stop(errs)'
    <3>1. CASE AcceptInfo
      BY <3>1, <2>1 DEF AcceptInfo, Stop
    <3>2. CASE RejectInfo
      <4>1. <<"FailedScanningResource">> \in Seq(ErrorTypes) /\ "FailedScanningResource" \in ErrorTypes
        BY DEF ErrorTypes
      <4>2. errs' = errs \o <<"FailedScanningResource">>
        BY <1>1, <3>2, <4>1, AppendIsConcat DEF RejectInfo
      <4>3. Stop(errs) => Stop(errs')
        BY <1>1, <4>1, <4>2, StopConcat
      <4>4. QED
        BY <2>1, <4>3 DEF Stop
    <3>3. QED
      BY <1>6, <3>1, <3>2
  <2>5. ASSUME Taken(Parsed) PROVE Taken(Parsed)'
    <3> HIDE DEF i
    <3>1. \A kind : OfKind(Parsed', kind) =
            IF i.kind = kind THEN Append(OfKind(Parsed, kind), i) ELSE OfKind(Parsed, kind)
      BY <2>3, OfKindAppend
    <3>2. /\ workloads' = IF i.kind = "workload" THEN Append(workloads, i) ELSE workloads
          /\ services' = IF i.kind = "service" THEN Append(services, i) ELSE services
          /\ configmaps' = IF i.kind = "configmap" THEN Append(configmaps, i) ELSE configmaps
      <4>1. CASE AcceptInfo
        BY <4>1, Zenon DEF AcceptInfo, i
      <4>2. CASE RejectInfo
        <5>1. i.kind \in {"nilObject", "badResource"}
          BY <4>2 DEF RejectInfo, AtInfo, i
        <5>2. QED
          BY <4>2, <5>1 DEF RejectInfo, acc
      <4>3. QED
        BY <1>6, <4>1, <4>2
    <3>3. QED
      BY <2>5, <3>1, <3>2, Zenon DEF Taken
  <2>6. (Stop(fileErrors))' = Stop(fileErrors) /\ (FilesOf(call))' = FilesOf(call)
    BY <2>1 DEF Stop
  <2>7. QED
    BY <2>1, <2>4, <2>5, <2>6 DEF ParseInv
<1>7. CASE FinishFile
  <2>1. /\ Parsing /\ info > Len(Infos) /\ info' = 0 /\ fileErrors' = fileErrors \o errs
        /\ UNCHANGED <<stopOnError, pc, call, manifests, acc>>
    BY <1>7 DEF FinishFile, api, scan
  <2> SUFFICES ASSUME ~Stop(fileErrors)'
               PROVE  (manifests = FilesOf(call) /\ Taken(Parsed))'
    BY DEF ParseInv
  <2>2. ~Stop(fileErrors')
    BY <2>1 DEF Stop
  <2>3. ~Stop(fileErrors) /\ ~Stop(errs)
    BY <1>1, <2>1, <2>2, StopConcat
  <2>4. file' = file + 1
    BY <1>7, <2>2, Zenon DEF FinishFile, NextFile
  <2>5. file \in DOMAIN manifests /\ info = Len(Infos) + 1
    <3>1. Len(Infos) \in Nat /\ file \in DOMAIN manifests
      BY <1>1, <2>1, FileTypes DEF TypeInv, Parsing
    <3>2. info \in 0..(Len(Infos) + 1)
      BY <2>1, <3>1 DEF TypeInv, TypeOK, Parsing
    <3>3. QED
      BY <2>1, <3>1, <3>2
  <2>6. Parsed' = Parsed
    BY <1>1, <2>1, <2>4, <2>5, ParsedFile DEF Parsed, Infos
  <2>7. manifests = FilesOf(call) /\ Taken(Parsed)
    BY <2>1, <2>3 DEF ParseInv, Parsing
  <2>8. QED
    BY <2>1, <2>6, <2>7 DEF Taken, acc
<1>8. CASE Work /\ ~FinishScan /\ ~ReadFile /\ ~AcceptInfo /\ ~RejectInfo /\ ~FinishFile
  <2>1. pc' # "parse"
    <3>1. CASE PanicOnInfo \/ FinishParse \/ NoWorkloads \/ Discover \/ Return
      <4>1. CASE FinishParse
        BY <4>1, Zenon DEF FinishParse, AfterParse
      <4>2. QED
        BY <3>1, <4>1 DEF PanicOnInfo, NoWorkloads, Discover, Return
    <3>2. CASE VisitEntry \/ VisitError \/ FinishDir \/ Inline
      BY <3>2 DEF VisitEntry, VisitError, FinishDir, Scanning, Inline
    <3>3. QED
      BY <1>8, <3>1, <3>2 DEF Work
  <2>2. QED
    BY <2>1 DEF ParseInv
<1>9. CASE UNCHANGED vars
  <2>1. UNCHANGED <<pc, call, file, info, manifests, errs, fileErrors, stopOnError,
                    workloads, services, configmaps>>
    BY <1>9 DEF vars, api, scan, acc
  <2>2. QED
    BY <2>1 DEF ParseInv, Stop, Taken, Parsed
<1>10. QED
  BY <1>3, <1>4, <1>5, <1>6, <1>7, <1>8, <1>9 DEF Next, Work

-----------------------------------------------------------------------------
(* What a call returns with *)

LEMMA EndInvStep == TypeInv /\ ParseInv /\ EndInv /\ [Next]_vars => EndInv'
<1> SUFFICES ASSUME TypeInv, ParseInv, EndInv, [Next]_vars PROVE EndInv'
  OBVIOUS
<1>1. ASSUME UNCHANGED <<call, acc, inlined>>
      PROVE  /\ Taken(InfosOf(call))' <=> Taken(InfosOf(call))
             /\ (inlined = Len(RefsOf(workloads)))' <=> inlined = Len(RefsOf(workloads))
  BY <1>1 DEF Taken, acc
<1>2. CASE Invoke
  BY <1>2 DEF Invoke, EndInv, HasReturned
<1>3. CASE FinishScan
  BY <1>3 DEF FinishScan, EndInv, HasReturned, Stop, api
<1>4. CASE FinishParse
  <2>1. pc = "parse" /\ file > Len(manifests) /\ UNCHANGED <<call, acc, inlined, fileErrors, stopOnError>>
    BY <1>4 DEF FinishParse, api
  <2>2. ~Stop(fileErrors) => Taken(InfosOf(call))
    <3>1. info = 0 /\ errs = <<>>
      BY <2>1 DEF TypeInv, StageInv
    <3>2. file = Len(manifests) + 1 /\ manifests \in Seq(File)
      <4>1. file \in 1..(Len(manifests) + 1) /\ manifests \in Seq(File)
        BY Zenon DEF TypeInv, TypeOK
      <4>2. QED
        BY <2>1, <4>1
    <3>3. Parsed = AllInfos(manifests)
      BY <3>1, <3>2, ParsedEnd DEF Parsed
    <3>4. ~Stop(fileErrors) => manifests = FilesOf(call) /\ Taken(Parsed)
      BY <2>1, <3>1, StopNone DEF ParseInv
    <3>5. QED
      BY <3>3, <3>4 DEF InfosOf
  <2>3. IF Stop(fileErrors) THEN pc' = "return" ELSE pc' = "extract"
    BY <1>4, Zenon DEF FinishParse, AfterParse
  <2>4. Stop(fileErrors)' <=> Stop(fileErrors)
    BY <2>1 DEF Stop
  <2>5. QED
    BY <1>1, <2>1, <2>2, <2>3, <2>4 DEF EndInv, HasReturned
<1>5. CASE NoWorkloads
  <2>1. fileErrors' = Append(fileErrors, "NoK8sResourcesFound") /\ pc' = "return"
    BY <1>5 DEF NoWorkloads
  <2>2. Stop(fileErrors)'
    <3>1. <<"NoK8sResourcesFound">> \in Seq(ErrorTypes) /\ "NoK8sResourcesFound" \in ErrorTypes
      BY DEF ErrorTypes
    <3>2. fileErrors \in Seq(ErrorTypes)
      BY DEF TypeInv, LoopTypes
    <3>3. Len(fileErrors) + 1 \in DOMAIN fileErrors'
      BY <2>1, <3>2
    <3>4. fileErrors'[Len(fileErrors) + 1] = "NoK8sResourcesFound"
      BY <2>1, <3>2
    <3>5. HasFatal(fileErrors')
      BY <3>3, <3>4 DEF HasFatal, IsFatal
    <3>6. QED
      BY <3>5 DEF Stop
  <2>3. QED
    BY <2>1, <2>2 DEF EndInv, HasReturned
<1>6. CASE Inline
  <2>1. pc = "extract" /\ pc' = "extract" /\ UNCHANGED <<call, acc>>
    BY <1>6 DEF Inline
  <2>2. QED
    BY <2>1 DEF EndInv, HasReturned, Taken, acc
<1>7. CASE Discover
  <2>1. pc = "extract" /\ pc' = "return" /\ inlined = Len(RefsOf(workloads))
        /\ UNCHANGED <<call, acc, inlined>>
    BY <1>7 DEF Discover
  <2>2. QED
    BY <1>1, <2>1 DEF EndInv, HasReturned
<1>8. CASE Return
  <2>1. /\ pc = "return" /\ pc' = "idle" /\ UNCHANGED <<call, acc, inlined>>
        /\ returned' = [value |-> IF HasFatal(fileErrors) THEN "nil" ELSE Value,
                        error |-> HasFatal(fileErrors)]
    BY <1>8 DEF Return
  <2>2. returned'.value = "full" => ~HasFatal(fileErrors) /\ ~returned'.error /\ ~Stop(fileErrors)
    BY <2>1, Zenon DEF Value
  <2>3. QED
    BY <1>1, <2>1, <2>2 DEF EndInv, HasReturned
<1>9. CASE VisitEntry \/ VisitError \/ FinishDir \/ ReadFile \/ AcceptInfo \/ RejectInfo \/ FinishFile
  <2>1. pc' \in {"scan", "parse"}
    BY <1>9 DEF VisitEntry, VisitError, FinishDir, Scanning, ReadFile, AcceptInfo, RejectInfo,
                FinishFile, AtInfo, Parsing
  <2>2. QED
    BY <2>1 DEF EndInv, HasReturned
<1>10. CASE PanicOnInfo
  BY <1>10 DEF PanicOnInfo, EndInv, HasReturned
<1>11. CASE UNCHANGED vars
  <2>1. UNCHANGED <<pc, call, acc, inlined, fileErrors, stopOnError, returned>>
    BY <1>11 DEF vars, api
  <2>2. QED
    BY <1>1, <2>1 DEF EndInv, HasReturned, Stop
<1>12. QED
  BY <1>2, <1>3, <1>4, <1>5, <1>6, <1>7, <1>8, <1>9, <1>10, <1>11 DEF Next, Work

LEMMA CompleteInvariant == Spec => [](TypeInv /\ CompleteInv)
<1>1. Init => CompleteInv
  BY DEF Init, CompleteInv, ScanInv, ParseInv, EndInv, HasReturned
<1>2. TypeInv /\ CompleteInv /\ [Next]_vars => CompleteInv'
  BY ScanInvStep, ParseInvStep, EndInvStep DEF CompleteInv
<1>3. QED
  BY <1>1, <1>2, TypeInvInit, TypeInvStep, PTL DEF Spec

\* A call that returns its full result has found every manifest of every
\* directory, taken every resource of every file, and followed every reference
\* of every workload, in their order and once: for all calls, whatever failed.
THEOREM EverythingAnalysedHolds == Spec => []EverythingAnalysed
<1>1. CompleteInv => EverythingAnalysed
  BY DEF CompleteInv, EndInv, EverythingAnalysed, Taken
<1>2. QED
  BY <1>1, CompleteInvariant, PTL

-----------------------------------------------------------------------------
(* Which errors a call has gathered *)

\* How many errors of a type there are so far.
Counted(type) == Count(fileErrors, type) + Count(errs, type)

\* Nothing makes the call stop before the extraction.
GoesOn == ~stopOnError /\ Counted("FailedAccessingRoot") = 0

\* The bad entries of each directory, and those before entry e of directory d.
DirBad(dirs) ==
  [d \in DOMAIN dirs |-> Those(dirs[d], {e \in Entry : e.type = "subdirError"})]
BadUpto(dirs, d, e) ==
  Len(Concat(SubSeq(DirBad(dirs), 1, d - 1)))
    + (IF d \in DOMAIN dirs
         THEN Len(Those(SubSeq(dirs[d], 1, e - 1), {x \in Entry : x.type = "subdirError"}))
         ELSE 0)

\* The errors of each file, and those of the files that are read.
FileReads(files) == [f \in DOMAIN files |-> [i \in 1..files[f].readErrors |-> 0]]
ReadUpto(files, f, i) ==
  Len(Concat(SubSeq(FileReads(files), 1, f - 1)))
    + (IF f \in DOMAIN files /\ i > 0 THEN files[f].readErrors ELSE 0)

BadInfos(infos) == Len(OfKind(infos, "badResource")) + Len(OfKind(infos, "nilObject"))

\* The references that are followed.
Followed == SubSeq(RefsOf(workloads), 1, inlined)

\* searchForManifestsInDirs reports a directory without a manifest if the
\* directories before it have none either.
UntilFirstYaml(dirs) ==
  {d \in DOMAIN dirs : \A i \in 1..d : YamlFiles(dirs[i]) = <<>>}

\* What there is to count so far.
ScanCounts ==
  IF pc = "scan"
    THEN /\ Counted("FailedAccessingSubdir") = BadUpto(call.dirs, dir, entry)
         /\ Counted("NoYamlsFound") =
              Cardinality({d \in UntilFirstYaml(call.dirs) : d < dir})
    ELSE /\ Counted("FailedAccessingSubdir") = Len(BadSubdirs(call.dirs))
         /\ Counted("NoYamlsFound") = Cardinality(UntilFirstYaml(call.dirs))
ParseCounts ==
  /\ pc = "scan" =>
       /\ Counted("FailedReadingFile") = 0
       /\ Counted("FailedScanningResource") = 0
  /\ pc = "parse" =>
       /\ Counted("FailedReadingFile") = ReadUpto(manifests, file, info)
       /\ Counted("FailedScanningResource") = BadInfos(Parsed)
  /\ pc \in {"extract", "return"} =>
       /\ Counted("FailedReadingFile") = ReadErrors(FilesOf(call))
       /\ Counted("FailedScanningResource") = BadInfos(InfosOf(call))
InlineCounts ==
  /\ Counted("ConfigMapNotFound") = Len(NotFound(Followed, configmaps))
  /\ Counted("ConfigMapKeyNotFound") = Len(KeyNotFound(Followed, configmaps))
  /\ Counted("NoK8sResourcesFound") = IF pc = "return" /\ workloads = <<>> THEN 1 ELSE 0

CountInv ==
  /\ pc \in {"extract", "return"} => errs = <<>>
  /\ pc \in {"scan", "parse", "extract", "return"} /\ GoesOn =>
       /\ ScanCounts /\ ParseCounts /\ InlineCounts
       /\ pc = "return" => Taken(InfosOf(call)) /\ inlined = Len(RefsOf(workloads))

-----------------------------------------------------------------------------
(* Counting errors *)

LEMMA CountType ==
  ASSUME NEW es \in Seq(ErrorTypes), NEW type
  PROVE  Count(es, type) \in Nat
<1>1. Those(es, {type}) \in Seq(ErrorTypes)
  BY ThoseType
<1>2. QED
  BY <1>1 DEF Count

LEMMA CountConcat ==
  ASSUME NEW a \in Seq(ErrorTypes), NEW b \in Seq(ErrorTypes), NEW type
  PROVE  Count(a \o b, type) = Count(a, type) + Count(b, type)
<1>1. Those(a, {type}) \in Seq(ErrorTypes) /\ Those(b, {type}) \in Seq(ErrorTypes)
  BY ThoseType
<1>2. Those(a \o b, {type}) = Those(a, {type}) \o Those(b, {type})
  BY ThoseConcat
<1>3. Len(Those(a, {type}) \o Those(b, {type})) = Len(Those(a, {type})) + Len(Those(b, {type}))
  BY <1>1, ConcatProperties
<1>4. QED
  BY <1>2, <1>3 DEF Count

LEMMA CountNone ==
  ASSUME NEW es \in Seq(ErrorTypes), NEW type
  PROVE  Count(es, type) = 0 <=> \A i \in DOMAIN es : es[i] # type
<1>1. Those(es, {type}) = <<>> <=> \A i \in DOMAIN es : es[i] \notin {type}
  BY ThoseNone
<1>2. Those(es, {type}) \in Seq(ErrorTypes)
  BY ThoseType
<1>3. Count(es, type) = 0 <=> Those(es, {type}) = <<>>
  BY <1>2, EmptySeq DEF Count
<1>4. QED
  BY <1>1, <1>3

LEMMA CountAll ==
  ASSUME NEW es \in Seq(ErrorTypes), NEW type, \A i \in DOMAIN es : es[i] = type
  PROVE  Count(es, type) = Len(es)
<1>1. Those(es, {type}) = es
  BY ThoseAll
<1>2. QED
  BY <1>1 DEF Count

LEMMA CountEmpty == \A type : Count(<<>>, type) = 0
<1>1. PICK es \in Seq(ErrorTypes) : es = <<>> /\ DOMAIN es = {}
  <2>1. <<>> \in Seq(ErrorTypes) /\ DOMAIN <<>> = {}
    OBVIOUS
  <2>2. QED
    BY <2>1
<1>2. \A type : Count(es, type) = 0
  BY <1>1, CountNone
<1>3. QED
  BY <1>1, <1>2

LEMMA CountOne ==
  ASSUME NEW e \in ErrorTypes
  PROVE  /\ <<e>> \in Seq(ErrorTypes)
         /\ \A type : Count(<<e>>, type) = IF type = e THEN 1 ELSE 0
<1>1. PICK es \in Seq(ErrorTypes) : es = <<e>> /\ Len(es) = 1 /\ \A i \in DOMAIN es : i = 1 /\ es[i] = e
  <2>1. <<e>> \in Seq(ErrorTypes) /\ Len(<<e>>) = 1 /\ \A i \in DOMAIN <<e>> : i = 1 /\ <<e>>[i] = e
    OBVIOUS
  <2>2. QED
    BY <2>1
<1>2. Count(es, e) = 1
  BY <1>1, CountAll
<1>3. ASSUME NEW type, type # e PROVE Count(es, type) = 0
  <2>1. \A i \in DOMAIN es : es[i] # type
    BY <1>1, <1>3
  <2>2. QED
    BY <2>1, CountNone
<1>4. \A type : Count(es, type) = IF type = e THEN 1 ELSE 0
  BY <1>2, <1>3, Zenon
<1>5. QED
  BY <1>1, <1>4, Zenon

LEMMA CountAppend ==
  ASSUME NEW es \in Seq(ErrorTypes), NEW e \in ErrorTypes
  PROVE  \A type : Count(Append(es, e), type) = Count(es, type) + IF type = e THEN 1 ELSE 0
<1>1. Append(es, e) = es \o <<e>>
  BY AppendIsConcat
<1>2. PICK one \in Seq(ErrorTypes) :
        one = <<e>> /\ \A type : Count(one, type) = IF type = e THEN 1 ELSE 0
  BY CountOne, Zenon
<1>3. \A type : Count(es \o one, type) = Count(es, type) + Count(one, type)
  BY CountConcat
<1>4. QED
  BY <1>1, <1>2, <1>3, Zenon

\* The fatal errors are those of two types.
LEMMA FatalCounts ==
  ASSUME NEW es \in Seq(ErrorTypes)
  PROVE  HasFatal(es) <=> \/ Count(es, "NoK8sResourcesFound") # 0
                          \/ Count(es, "FailedAccessingRoot") # 0
<1>1. QED
  BY CountNone DEF HasFatal, IsFatal

\* A call that goes on does not stop, as long as it has found resources.
LEMMA GoesOnNoStop ==
  ASSUME LoopTypes, GoesOn, Counted("NoK8sResourcesFound") = 0
  PROVE  ~Stop(fileErrors) /\ ~Stop(errs)
<1>1. errs \in Seq(ErrorTypes) /\ fileErrors \in Seq(ErrorTypes)
  BY DEF LoopTypes
<1>2. \A type : Count(errs, type) \in Nat /\ Count(fileErrors, type) \in Nat
  BY <1>1, CountType
<1>3. /\ Count(errs, "NoK8sResourcesFound") = 0 /\ Count(fileErrors, "NoK8sResourcesFound") = 0
      /\ Count(errs, "FailedAccessingRoot") = 0 /\ Count(fileErrors, "FailedAccessingRoot") = 0
  BY <1>2 DEF GoesOn, Counted
<1>4. QED
  BY <1>1, <1>3, FatalCounts DEF Stop, GoesOn

-----------------------------------------------------------------------------
(* Counting what goes wrong *)

\* The bad entries of a directory.
LEMMA DirBadType ==
  ASSUME NEW dirs \in Seq(Seq(Entry))
  PROVE  /\ DirBad(dirs) \in Seq(Seq(Entry)) /\ Len(DirBad(dirs)) = Len(dirs)
         /\ \A d \in DOMAIN dirs :
              DirBad(dirs)[d] = Those(dirs[d], {x \in Entry : x.type = "subdirError"})
<1> DEFINE Bad == {x \in Entry : x.type = "subdirError"}
<1>1. \A d \in DOMAIN dirs : Those(dirs[d], Bad) \in Seq(Entry)
  <2>1. \A d \in DOMAIN dirs : dirs[d] \in Seq(Entry)
    BY ElementOfSeq
  <2>2. QED
    BY <2>1, ThoseType
<1> HIDE DEF Bad
<1>2. DirBad(dirs) = [d \in DOMAIN dirs |-> Those(dirs[d], Bad)]
  BY DEF DirBad, Bad
<1>3. DirBad(dirs) \in Seq(Seq(Entry)) /\ Len(DirBad(dirs)) = Len(dirs)
  BY <1>1, <1>2
<1>4. \A d \in DOMAIN dirs : DirBad(dirs)[d] = Those(dirs[d], Bad)
  BY <1>2, Zenon
<1>5. QED
  BY <1>3, <1>4 DEF Bad

LEMMA BadEntryNext ==
  ASSUME NEW dirs \in Seq(Seq(Entry)), NEW d \in DOMAIN dirs, NEW e \in 1..Len(dirs[d])
  PROVE  BadUpto(dirs, d, e + 1) =
           BadUpto(dirs, d, e) + IF dirs[d][e].type = "subdirError" THEN 1 ELSE 0
<1> DEFINE Bad == {x \in Entry : x.type = "subdirError"}
           es == dirs[d]
           first == SubSeq(es, 1, e - 1)
           earlier == Concat(SubSeq(DirBad(dirs), 1, d - 1))
<1>1. es \in Seq(Entry)
  BY ElementOfSeq
<1> HIDE DEF es
<1>2. /\ first \in Seq(Entry) /\ es[e] \in Entry /\ SubSeq(es, 1, e) = Append(first, es[e])
  BY <1>1, FirstNext DEF es
<1>3. (e + 1) - 1 = e
  BY DEF es
<1> HIDE DEF first
<1>4. Those(Append(first, es[e]), Bad) = Keep(Those(first, Bad), es[e], Bad) /\ Those(first, Bad) \in Seq(Entry)
  BY <1>2, ThoseAppend, ThoseType
<1>5. es[e] \in Bad <=> es[e].type = "subdirError"
  BY <1>2
<1> HIDE DEF Bad
<1>6. Len(Keep(Those(first, Bad), es[e], Bad)) =
        Len(Those(first, Bad)) + IF es[e].type = "subdirError" THEN 1 ELSE 0
  BY <1>2, <1>4, <1>5 DEF Keep
<1>7. BadUpto(dirs, d, e) = Len(earlier) + Len(Those(first, Bad))
  BY Zenon DEF BadUpto, Bad, first, es
<1>8. BadUpto(dirs, d, e + 1) = Len(earlier) + Len(Keep(Those(first, Bad), es[e], Bad))
  BY <1>2, <1>3, <1>4, Zenon DEF BadUpto, Bad, es
<1>9. Len(earlier) \in Nat /\ Len(Those(first, Bad)) \in Nat
  <2>2. DirBad(dirs) \in Seq(Seq(Entry)) /\ Len(DirBad(dirs)) = Len(dirs)
    BY DirBadType
  <2>3. d \in 1..Len(DirBad(dirs))
    BY <2>2
  <2>4. earlier \in Seq(Entry)
    BY <2>2, <2>3, ConcatNext, Zenon
  <2>5. QED
    BY <1>4, <2>4
<1> HIDE DEF earlier
<1>10. QED
  BY <1>6, <1>7, <1>8, <1>9 DEF es

LEMMA BadDirNext ==
  ASSUME NEW dirs \in Seq(Seq(Entry)), NEW d \in DOMAIN dirs
  PROVE  BadUpto(dirs, d, Len(dirs[d]) + 1) = BadUpto(dirs, d + 1, 1)
<1> DEFINE Bad == {x \in Entry : x.type = "subdirError"}
           bad == DirBad(dirs)
           earlier == Concat(SubSeq(bad, 1, d - 1))
           es == dirs[d]
<1>1. bad \in Seq(Seq(Entry)) /\ d \in 1..Len(bad) /\ bad[d] = Those(es, Bad)
  BY DirBadType
<1>2. es \in Seq(Entry)
  BY ElementOfSeq
<1> HIDE DEF bad, es, Bad
<1>3. Concat(SubSeq(bad, 1, d)) = earlier \o bad[d] /\ earlier \in Seq(Entry) /\ bad[d] \in Seq(Entry)
  BY <1>1, ConcatNext, ElementOfSeq, Zenon
<1> HIDE DEF earlier
<1>4. Len(earlier \o bad[d]) = Len(earlier) + Len(bad[d]) /\ Len(earlier) + Len(bad[d]) \in Nat
  BY <1>3, ConcatProperties
<1>5. SubSeq(es, 1, Len(es)) = es
  BY <1>2, FirstNoneAll
<1>6. (Len(es) + 1) - 1 = Len(es) /\ (d + 1) - 1 = d
  BY <1>1, <1>2
<1>7. BadUpto(dirs, d, Len(es) + 1) = Len(earlier) + Len(Those(es, Bad))
  BY <1>5, <1>6, Zenon DEF BadUpto, Bad, earlier, bad, es
<1>8. Len(Those(SubSeq(dirs[d + 1], 1, 1 - 1), Bad)) = 0
  <2>1. SubSeq(dirs[d + 1], 1, 1 - 1) = <<>>
    BY SubSeqEmpty
  <2>2. Those(<<>>, Bad) = <<>> /\ Len(<<>>) = 0
    BY ThoseEmpty
  <2>3. QED
    BY <2>1, <2>2, Zenon
<1>9. BadUpto(dirs, d + 1, 1) = Len(earlier \o bad[d]) + 0
  <2>1. BadUpto(dirs, d + 1, 1) = Len(Concat(SubSeq(bad, 1, d))) +
          (IF d + 1 \in DOMAIN dirs THEN Len(Those(SubSeq(dirs[d + 1], 1, 1 - 1), Bad)) ELSE 0)
    BY <1>6, Zenon DEF BadUpto, Bad, bad
  <2>2. QED
    BY <1>3, <1>8, <2>1, Zenon
<1>10. QED
  BY <1>1, <1>4, <1>7, <1>9 DEF es

LEMMA BadStartEnd ==
  ASSUME NEW dirs \in Seq(Seq(Entry))
  PROVE  /\ BadUpto(dirs, 1, 1) = 0
         /\ \A e : BadUpto(dirs, Len(dirs) + 1, e) = Len(BadSubdirs(dirs))
<1> DEFINE Bad == {x \in Entry : x.type = "subdirError"}
           bad == DirBad(dirs)
           n == Len(dirs)
<1>1. bad \in Seq(Seq(Entry)) /\ Len(bad) = n /\ n \in Nat /\ DOMAIN dirs = 1..n
  BY DirBadType
<1>2. BadSubdirs(dirs) = Concat(bad)
  BY DEF BadSubdirs, DirBad
<1> HIDE DEF Bad, bad, n
<1>3. Concat(bad) \in Seq(Entry)
  BY <1>1, ConcatType
<1>4. SubSeq(bad, 1, n) = bad
  BY <1>1, FirstNoneAll
<1>5. (n + 1) - 1 = n /\ n + 1 \notin DOMAIN dirs
  BY <1>1
<1>6. ASSUME NEW e PROVE BadUpto(dirs, n + 1, e) = Len(BadSubdirs(dirs))
  <2>1. BadUpto(dirs, n + 1, e) = Len(Concat(bad)) + 0
    BY <1>4, <1>5, Zenon DEF BadUpto, bad
  <2>2. QED
    BY <1>2, <1>3, <2>1
<1>7. BadUpto(dirs, 1, 1) = 0
  <2>1. \A s : SubSeq(s, 1, 1 - 1) = <<>>
    BY SubSeqEmpty
  <2>2. Concat(SubSeq(bad, 1, 1 - 1)) = <<>> /\ Those(SubSeq(dirs[1], 1, 1 - 1), Bad) = <<>>
    BY <2>1, ConcatEmpty, ThoseEmpty
  <2>3. Len(<<>>) = 0
    OBVIOUS
  <2>4. BadUpto(dirs, 1, 1) = Len(<<>>) + IF 1 \in DOMAIN dirs THEN Len(<<>>) ELSE 0
    BY <2>2, Zenon DEF BadUpto, Bad, bad
  <2>5. QED
    BY <2>3, <2>4
<1>8. QED
  BY <1>6, <1>7 DEF n

\* The directories that are reported have no manifest, and if none has, some are
\* reported.
LEMMA UntilFirstBounds ==
  ASSUME NEW dirs \in Seq(Seq(Entry))
  PROVE  /\ Cardinality(UntilFirstYaml(dirs)) <= Cardinality(WithoutYaml(dirs))
         /\ dirs # <<>> /\ WithoutYaml(dirs) = DOMAIN dirs =>
              Cardinality(UntilFirstYaml(dirs)) > 0
<1> DEFINE until == UntilFirstYaml(dirs)
           all == WithoutYaml(dirs)
           n == Len(dirs)
<1>1. n \in Nat /\ DOMAIN dirs = 1..n
  BY LenProperties
<1>2. \A d \in DOMAIN dirs : d \in 1..d
  BY <1>1
<1>3. until \subseteq all /\ all \subseteq 1..n
  BY <1>1, <1>2, Zenon DEF UntilFirstYaml, WithoutYaml
<1>4. IsFiniteSet(1..n)
  <2>1. 1 \in Int /\ n \in Int
    BY <1>1
  <2>2. QED
    BY <2>1, FS_Interval
<1>5. IsFiniteSet(all)
  BY <1>3, <1>4, FS_Subset
<1>6. IsFiniteSet(until) /\ Cardinality(until) <= Cardinality(all)
  BY <1>3, <1>5, FS_Subset
<1>7. ASSUME dirs # <<>>, all = DOMAIN dirs
      PROVE  Cardinality(until) > 0
  <2>1. 1 \in 1..n /\ 1..1 = {1}
    <3>1. n # 0
      BY <1>7, EmptySeq
    <3>2. QED
      BY <1>1, <3>1
  <2>2. YamlFiles(dirs[1]) = <<>>
    BY <1>1, <1>7, <2>1, Zenon DEF WithoutYaml
  <2>3. 1 \in until
    BY <1>1, <2>1, <2>2, Zenon DEF UntilFirstYaml
  <2>4. Cardinality(until) \in Nat /\ Cardinality(until) # 0
    BY <1>6, <2>3, FS_CardinalityType, FS_EmptySet
  <2>5. QED
    BY <2>4
<1>8. QED
  BY <1>6, <1>7, Zenon

\* How many there are before a directory, and with it.
LEMMA EmptyDirs ==
  ASSUME NEW dirs \in Seq(Seq(Entry)), NEW d \in DOMAIN dirs
  PROVE  Cardinality({x \in UntilFirstYaml(dirs) : x < d + 1}) =
           Cardinality({x \in UntilFirstYaml(dirs) : x < d})
             + IF d \in UntilFirstYaml(dirs) THEN 1 ELSE 0
<1> DEFINE S == UntilFirstYaml(dirs)
           Upto(m) == {x \in S : x < m}
<1>1. S \subseteq 1..Len(dirs) /\ d \in Nat /\ Len(dirs) \in Nat /\ S \subseteq Nat
  BY DEF UntilFirstYaml
<1>2. \A x \in S : x < d + 1 <=> x < d \/ x = d
  <2>1. \A x \in Nat : x < d + 1 <=> x < d \/ x = d
    BY <1>1
  <2>2. QED
    BY <1>1, <2>1, Zenon
<1> HIDE DEF S
<1>3. IsFiniteSet(Upto(d)) /\ Cardinality(Upto(d)) \in Nat
  <2>1. IsFiniteSet(1..Len(dirs)) /\ Upto(d) \in SUBSET (1..Len(dirs))
    <3>1. 1 \in Int /\ Len(dirs) \in Int
      BY <1>1
    <3>2. QED
      BY <1>1, <3>1, FS_Interval
  <2>2. QED
    BY <2>1, FS_Subset, FS_CardinalityType
<1>4. d \notin Upto(d)
  BY <1>1
<1>5. CASE d \in S
  <2>1. Upto(d + 1) = Upto(d) \union {d}
    BY <1>5, <1>2, Zenon
  <2> HIDE DEF Upto
  <2>2. Cardinality(Upto(d + 1)) = Cardinality(Upto(d)) + 1
    BY <1>3, <1>4, <2>1, FS_AddElement
  <2>3. QED
    BY <1>5, <2>2 DEF S, Upto
<1>6. CASE d \notin S
  <2>1. Upto(d + 1) = Upto(d)
    BY <1>6, <1>2, Zenon
  <2> HIDE DEF Upto
  <2>2. Cardinality(Upto(d + 1)) = Cardinality(Upto(d)) + 0
    BY <1>3, <2>1
  <2>3. QED
    BY <1>6, <2>2 DEF S, Upto
<1>7. QED
  BY <1>5, <1>6

LEMMA EmptyDirsStartEnd ==
  ASSUME NEW dirs \in Seq(Seq(Entry))
  PROVE  /\ Cardinality({x \in UntilFirstYaml(dirs) : x < 1}) = 0
         /\ {x \in UntilFirstYaml(dirs) : x < Len(dirs) + 1} = UntilFirstYaml(dirs)
<1>1. UntilFirstYaml(dirs) \subseteq 1..Len(dirs) /\ Len(dirs) \in Nat
  BY DEF UntilFirstYaml
<1>2. {x \in UntilFirstYaml(dirs) : x < 1} = {}
  BY <1>1
<1>3. {x \in UntilFirstYaml(dirs) : x < Len(dirs) + 1} = UntilFirstYaml(dirs)
  BY <1>1
<1>4. QED
  BY <1>2, <1>3, FS_EmptySet, Zenon

\* No manifest is found up to a directory if none is in it and in those before.
LEMMA EmptySoFar ==
  ASSUME NEW c, c.dirs \in Seq(Seq(Entry)), NEW d \in DOMAIN c.dirs
  PROVE  Concat(SubSeq(DirFiles(c), 1, d)) = <<>> <=> d \in UntilFirstYaml(c.dirs)
<1> DEFINE found == SubSeq(DirFiles(c), 1, d)
<1>1. /\ DirFiles(c) \in Seq(Seq(File)) /\ Len(DirFiles(c)) = Len(c.dirs)
      /\ \A i \in DOMAIN c.dirs : DirFiles(c)[i] = YamlFiles(c.dirs[i])
  BY DirFilesType
<1>2. Len(c.dirs) \in Nat /\ DOMAIN c.dirs = 1..Len(c.dirs) /\ d \in 1..Len(c.dirs)
  BY LenProperties
<1>3. \A i \in 1..d : DirFiles(c)[i] \in Seq(File)
  <2>1. \A i \in 1..d : i \in 1..Len(DirFiles(c))
    BY <1>1, <1>2
  <2>2. QED
    BY <1>1, <2>1, ElementOfSeq, Zenon
<1>4. /\ found \in Seq(Seq(File)) /\ Len(found) = d
      /\ \A i \in 1..d : found[i] = DirFiles(c)[i]
  <2>1. d \in Int /\ 1 \in Int /\ 1 <= d /\ (d - 1) + 1 = d /\ \A i \in 1..d : (1 + i) - 1 = i
    BY <1>2
  <2>2. /\ found \in Seq(Seq(File))
        /\ Len(found) = (IF 1 <= d THEN (d - 1) + 1 ELSE 0)
        /\ \A i \in 1..((d - 1) + 1) : found[i] = DirFiles(c)[(1 + i) - 1]
    BY <1>3, <2>1, SubSeqProperties
  <2>3. QED
    BY <2>1, <2>2
<1> HIDE DEF found
<1>5. Concat(found) = <<>> <=> \A i \in DOMAIN found : found[i] = <<>>
  BY <1>4, ConcatNothing
<1>6. DOMAIN found = 1..d
  BY <1>4
<1>7. \A i \in 1..d : found[i] = YamlFiles(c.dirs[i])
  <2>1. \A i \in 1..d : i \in DOMAIN c.dirs
    BY <1>2
  <2>2. QED
    BY <1>1, <1>4, <2>1, Zenon
<1>8. QED
  BY <1>5, <1>6, <1>7 DEF UntilFirstYaml, found

\* The files that are read with errors.
LEMMA FileReadsType ==
  ASSUME NEW files \in Seq(File)
  PROVE  /\ FileReads(files) \in Seq(Seq({0})) /\ Len(FileReads(files)) = Len(files)
         /\ \A f \in DOMAIN files : /\ files[f].readErrors \in Nat
                                   /\ Len(FileReads(files)[f]) = files[f].readErrors
<1>1. \A f \in DOMAIN files : files[f].readErrors \in Nat
  <2>1. \A f \in DOMAIN files : files[f] \in File
    BY ElementOfSeq
  <2>2. QED
    BY <2>1 DEF File
<1> DEFINE Zeros(n) == [i \in 1..n |-> 0]
<1>2. \A n \in Nat : Zeros(n) \in Seq({0}) /\ Len(Zeros(n)) = n
  OBVIOUS
<1>3. FileReads(files) = [f \in DOMAIN files |-> Zeros(files[f].readErrors)]
  BY DEF FileReads
<1> HIDE DEF Zeros
<1>4. \A f \in DOMAIN files : Zeros(files[f].readErrors) \in Seq({0})
  BY <1>1, <1>2
<1>5. FileReads(files) \in Seq(Seq({0})) /\ Len(FileReads(files)) = Len(files)
  BY <1>3, <1>4
<1>6. \A f \in DOMAIN files : FileReads(files)[f] = Zeros(files[f].readErrors)
  BY <1>3, Zenon
<1>7. QED
  BY <1>1, <1>2, <1>5, <1>6

LEMMA ReadNext ==
  ASSUME NEW files \in Seq(File), NEW f \in DOMAIN files
  PROVE  \A i \in Nat \ {0} :
           /\ ReadUpto(files, f, i) = ReadUpto(files, f, 0) + files[f].readErrors
           /\ ReadUpto(files, f + 1, 0) = ReadUpto(files, f, i)
<1> DEFINE reads == FileReads(files)
           earlier == Concat(SubSeq(reads, 1, f - 1))
           n == files[f].readErrors
<1>1. /\ reads \in Seq(Seq({0})) /\ f \in 1..Len(reads) /\ n \in Nat /\ Len(reads[f]) = n
  BY FileReadsType
<1> HIDE DEF reads, n
<1>2. Concat(SubSeq(reads, 1, f)) = earlier \o reads[f] /\ earlier \in Seq({0}) /\ reads[f] \in Seq({0})
  BY <1>1, ConcatNext, ElementOfSeq, Zenon
<1> HIDE DEF earlier
<1>3. Len(earlier \o reads[f]) = Len(earlier) + n /\ Len(earlier) \in Nat
  BY <1>1, <1>2, ConcatProperties
<1>4. (f + 1) - 1 = f /\ ~(0 > 0) /\ \A i \in Nat \ {0} : i > 0
  BY <1>1
<1>5. ReadUpto(files, f, 0) = Len(earlier) + 0
  BY <1>4, Zenon DEF ReadUpto, earlier, reads
<1>6. \A i \in Nat \ {0} : ReadUpto(files, f, i) = Len(earlier) + n
  BY <1>4, Zenon DEF ReadUpto, earlier, reads, n
<1>7. ReadUpto(files, f + 1, 0) = Len(earlier \o reads[f]) + 0
  BY <1>2, <1>4, Zenon DEF ReadUpto, reads
<1>8. QED
  BY <1>1, <1>3, <1>5, <1>6, <1>7 DEF n

LEMMA ReadStartEnd ==
  ASSUME NEW files \in Seq(File)
  PROVE  /\ ReadUpto(files, 1, 0) = 0
         /\ ReadUpto(files, Len(files) + 1, 0) = ReadErrors(files)
<1> DEFINE reads == FileReads(files)
           n == Len(files)
<1>1. reads \in Seq(Seq({0})) /\ Len(reads) = n /\ n \in Nat
  BY FileReadsType
<1>2. ReadErrors(files) = Len(Concat(reads))
  BY DEF ReadErrors, FileReads
<1> HIDE DEF reads, n
<1>3. SubSeq(reads, 1, n) = reads /\ Concat(reads) \in Seq({0})
  BY <1>1, FirstNoneAll, ConcatType
<1>4. (n + 1) - 1 = n /\ ~(0 > 0) /\ Len(<<>>) = 0
  BY <1>1
<1>5. ReadUpto(files, n + 1, 0) = Len(Concat(reads)) + 0
  BY <1>3, <1>4, Zenon DEF ReadUpto, reads
<1>6. SubSeq(reads, 1, 1 - 1) = <<>>
  BY SubSeqEmpty
<1>7. ReadUpto(files, 1, 0) = Len(<<>>) + 0
  BY <1>4, <1>6, ConcatEmpty, Zenon DEF ReadUpto, reads
<1>8. QED
  BY <1>2, <1>3, <1>4, <1>5, <1>7 DEF n

\* The Infos that cannot be deciphered.
LEMMA BadInfosNext ==
  ASSUME NEW infos \in Seq(Info), NEW i \in Info
  PROVE  BadInfos(Append(infos, i)) =
           BadInfos(infos) + IF i.kind \in {"badResource", "nilObject"} THEN 1 ELSE 0
<1> DEFINE bad == OfKind(infos, "badResource")
           nil == OfKind(infos, "nilObject")
<1>1. bad \in Seq(Info) /\ nil \in Seq(Info)
  BY ThoseType DEF OfKind
<1>2. /\ OfKind(Append(infos, i), "badResource") = IF i.kind = "badResource" THEN Append(bad, i) ELSE bad
      /\ OfKind(Append(infos, i), "nilObject") = IF i.kind = "nilObject" THEN Append(nil, i) ELSE nil
  BY OfKindAppend
<1> HIDE DEF bad, nil
<1>3. /\ Len(Append(bad, i)) = Len(bad) + 1 /\ Len(bad) \in Nat
      /\ Len(Append(nil, i)) = Len(nil) + 1 /\ Len(nil) \in Nat
  BY <1>1
<1>4. QED
  BY <1>2, <1>3 DEF BadInfos, bad, nil

LEMMA BadInfosNone == BadInfos(<<>>) = 0
<1>1. QED
  BY OfKindEmpty DEF BadInfos

-----------------------------------------------------------------------------
(* Following the references *)

\* If a ConfigMap has a name, then one of them is the last.
LEMMA LastNamed ==
  ASSUME NEW maps \in Seq(Info), NEW n, \E i \in DOMAIN maps : maps[i].name = n
  PROVE  \E i \in DOMAIN maps :
           maps[i].name = n /\ \A j \in DOMAIN maps : maps[j].name = n => j <= i
<1> DEFINE behind == {m \in Nat : \E i \in DOMAIN maps : maps[i].name = n /\ m = Len(maps) - i}
<1>1. Len(maps) \in Nat /\ DOMAIN maps = 1..Len(maps)
  OBVIOUS
<1>2. behind # {}
  <2>1. PICK i \in DOMAIN maps : maps[i].name = n
    OBVIOUS
  <2>2. Len(maps) - i \in Nat
    BY <1>1
  <2>3. QED
    BY <2>1, <2>2
<1>3. PICK m \in behind : \A k \in behind : m <= k
  BY <1>2, LeastNat
<1>4. PICK i \in DOMAIN maps : maps[i].name = n /\ m = Len(maps) - i
  BY <1>3
<1>5. ASSUME NEW j \in DOMAIN maps, maps[j].name = n PROVE j <= i
  <2>1. Len(maps) - j \in behind
    BY <1>1, <1>5
  <2>2. Len(maps) - i <= Len(maps) - j
    BY <1>3, <1>4, <2>1
  <2>3. QED
    BY <1>1, <2>2
<1>6. QED
  BY <1>4, <1>5

\* The references that no ConfigMap answers, and those to a key it does not have.
Unanswered(maps) == {r \in Ref : \A i \in DOMAIN maps : maps[i].name # r.config}
Keyless(maps) ==
  {r \in Ref : r.key # WholeMap /\ \E i \in DOMAIN maps :
     /\ maps[i].name = r.config
     /\ \A j \in (i + 1)..Len(maps) : maps[j].name # maps[i].name
     /\ r.key \notin maps[i].keys}

\* The error for a reference is that of the set it is in.
LEMMA RefErrorsAre ==
  ASSUME configmaps \in Seq(Info), NEW r \in Ref
  PROVE  RefErrors(r) = IF r \in Unanswered(configmaps) THEN <<"ConfigMapNotFound">>
                        ELSE IF r \in Keyless(configmaps) THEN <<"ConfigMapKeyNotFound">>
                        ELSE <<>>
<1>1. CASE r \in Unanswered(configmaps)
  <2>1. Named(r.config) = {}
    BY <1>1 DEF Named, Unanswered
  <2>2. QED
    BY <1>1, <2>1 DEF RefErrors
<1>2. CASE r \notin Unanswered(configmaps)
  <2>1. \E i \in DOMAIN configmaps : configmaps[i].name = r.config
    BY <1>2 DEF Unanswered
  <2>2. PICK i \in DOMAIN configmaps :
          /\ configmaps[i].name = r.config
          /\ \A j \in DOMAIN configmaps : configmaps[j].name = r.config => j <= i
    BY <2>1, LastNamed
  <2>3. Len(configmaps) \in Nat /\ DOMAIN configmaps = 1..Len(configmaps)
    OBVIOUS
  <2>4. \A k \in DOMAIN configmaps :
          /\ configmaps[k].name = r.config
          /\ \A j \in DOMAIN configmaps : configmaps[j].name = r.config => j <= k
          => k = i
    BY <2>2, <2>3
  <2>5. Named(r.config) = {configmaps[i]}
    BY <2>2, <2>4, Zenon DEF Named
  <2>6. r \in Keyless(configmaps) <=> r.key # WholeMap /\ r.key \notin configmaps[i].keys
    <3>1. \A k \in DOMAIN configmaps : configmaps[k].name = r.config =>
            ((\A j \in (k + 1)..Len(configmaps) : configmaps[j].name # configmaps[k].name) <=> k = i)
      BY <2>2, <2>3
    <3>2. QED
      BY <2>2, <3>1, Zenon DEF Keyless
  <2>7. QED
    BY <1>2, <2>5, <2>6, Zenon DEF RefErrors
<1>3. QED
  BY <1>1, <1>2

\* One reference more.
LEMMA RefNext ==
  ASSUME configmaps \in Seq(Info), NEW refs \in Seq(Ref), NEW r \in Ref
  PROVE  /\ RefErrors(r) \in Seq(ErrorTypes)
         /\ Len(NotFound(Append(refs, r), configmaps)) =
              Len(NotFound(refs, configmaps)) + Count(RefErrors(r), "ConfigMapNotFound")
         /\ Len(KeyNotFound(Append(refs, r), configmaps)) =
              Len(KeyNotFound(refs, configmaps)) + Count(RefErrors(r), "ConfigMapKeyNotFound")
         /\ \A type : type \notin {"ConfigMapNotFound", "ConfigMapKeyNotFound"} =>
              Count(RefErrors(r), type) = 0
<1> DEFINE A == Unanswered(configmaps)
           B == Keyless(configmaps)
           One(S) == IF r \in S THEN 1 ELSE 0
<1>1. \A x \in Seq(Ref) : /\ NotFound(x, configmaps) = Those(x, A)
                          /\ KeyNotFound(x, configmaps) = Those(x, B)
  BY DEF NotFound, KeyNotFound, Unanswered, Keyless
<1>2. ~(r \in A /\ r \in B)
  BY DEF Unanswered, Keyless
<1>3. RefErrors(r) = IF r \in A THEN <<"ConfigMapNotFound">>
                     ELSE IF r \in B THEN <<"ConfigMapKeyNotFound">> ELSE <<>>
  BY RefErrorsAre
<1> HIDE DEF A, B
<1>4. Append(refs, r) \in Seq(Ref)
  OBVIOUS
<1>5. \A S : Len(Those(Append(refs, r), S)) = Len(Those(refs, S)) + One(S)
  <2> SUFFICES ASSUME NEW S PROVE Len(Those(Append(refs, r), S)) = Len(Those(refs, S)) + One(S)
    OBVIOUS
  <2>1. Those(Append(refs, r), S) = Keep(Those(refs, S), r, S) /\ Those(refs, S) \in Seq(Ref)
    BY ThoseAppend, ThoseType
  <2>2. QED
    BY <2>1 DEF Keep
<1>6. "ConfigMapNotFound" \in ErrorTypes /\ "ConfigMapKeyNotFound" \in ErrorTypes
  BY DEF ErrorTypes
<1>7. /\ Count(RefErrors(r), "ConfigMapNotFound") = One(A)
      /\ Count(RefErrors(r), "ConfigMapKeyNotFound") = One(B)
      /\ \A type : type \notin {"ConfigMapNotFound", "ConfigMapKeyNotFound"} =>
           Count(RefErrors(r), type) = 0
      /\ RefErrors(r) \in Seq(ErrorTypes)
  <2>1. CASE r \in A
    <3>1. RefErrors(r) = <<"ConfigMapNotFound">>
      BY <1>3, <2>1
    <3>2. \A type : Count(RefErrors(r), type) = IF type = "ConfigMapNotFound" THEN 1 ELSE 0
      BY <1>6, <3>1, CountOne
    <3>3. QED
      BY <1>2, <1>6, <2>1, <3>1, <3>2
  <2>2. CASE r \notin A /\ r \in B
    <3>1. RefErrors(r) = <<"ConfigMapKeyNotFound">>
      BY <1>3, <2>2
    <3>2. \A type : Count(RefErrors(r), type) = IF type = "ConfigMapKeyNotFound" THEN 1 ELSE 0
      BY <1>6, <3>1, CountOne
    <3>3. QED
      BY <1>2, <1>6, <2>2, <3>1, <3>2
  <2>3. CASE r \notin A /\ r \notin B
    <3>1. RefErrors(r) = <<>>
      BY <1>3, <2>3
    <3>2. \A type : Count(RefErrors(r), type) = 0
      BY <3>1, CountEmpty
    <3>3. QED
      BY <2>3, <3>1, <3>2
  <2>4. QED
    BY <2>1, <2>2, <2>3
<1>8. QED
  BY <1>1, <1>4, <1>5, <1>7

LEMMA RefsNone ==
  ASSUME NEW maps
  PROVE  Len(NotFound(<<>>, maps)) = 0 /\ Len(KeyNotFound(<<>>, maps)) = 0
<1>1. \A S : Those(<<>>, S) = <<>>
  BY ThoseEmpty
<1>2. Len(<<>>) = 0
  OBVIOUS
<1>3. QED
  BY <1>1, <1>2, Zenon DEF NotFound, KeyNotFound

-----------------------------------------------------------------------------
(* What a step adds to the errors *)

Adds(es) ==
  /\ es \in Seq(ErrorTypes)
  /\ \A type : Counted(type)' = Counted(type) + Count(es, type)

LEMMA CountedType == ASSUME LoopTypes PROVE \A type : Counted(type) \in Nat
<1>1. errs \in Seq(ErrorTypes) /\ fileErrors \in Seq(ErrorTypes)
  BY DEF LoopTypes
<1>2. \A type : Count(errs, type) \in Nat /\ Count(fileErrors, type) \in Nat
  BY <1>1, CountType
<1>3. QED
  BY <1>2 DEF Counted

\* Errors are added to those of the directory or the file, or to those of the
\* call, or to the ones that are moved to those of the call.
LEMMA AddsErrors ==
  ASSUME LoopTypes, NEW es \in Seq(ErrorTypes),
         \/ errs' = errs \o es /\ fileErrors' = fileErrors
         \/ errs' = errs /\ fileErrors' = fileErrors \o es
         \/ errs' = <<>> /\ fileErrors' = (fileErrors \o errs) \o es
  PROVE  Adds(es)
<1>1. errs \in Seq(ErrorTypes) /\ fileErrors \in Seq(ErrorTypes)
  BY DEF LoopTypes
<1>2. \A type : /\ Count(errs, type) \in Nat /\ Count(fileErrors, type) \in Nat
                /\ Count(es, type) \in Nat
  BY <1>1, CountType
<1>3. fileErrors \o errs \in Seq(ErrorTypes)
  BY <1>1, ConcatProperties
<1>4. \A type : Count(errs \o es, type) = Count(errs, type) + Count(es, type)
  BY <1>1, CountConcat
<1>5. \A type : Count(fileErrors \o es, type) = Count(fileErrors, type) + Count(es, type)
  BY <1>1, CountConcat
<1>6. \A type : Count((fileErrors \o errs) \o es, type) =
                  (Count(fileErrors, type) + Count(errs, type)) + Count(es, type)
  <2>1. \A type : Count((fileErrors \o errs) \o es, type) = Count(fileErrors \o errs, type) + Count(es, type)
    BY <1>3, CountConcat
  <2>2. \A type : Count(fileErrors \o errs, type) = Count(fileErrors, type) + Count(errs, type)
    BY <1>1, CountConcat
  <2>3. QED
    BY <2>1, <2>2
<1>7. \A type : Counted(type)' = Count(fileErrors', type) + Count(errs', type)
  BY DEF Counted
<1>8. ASSUME NEW type PROVE Counted(type)' = Counted(type) + Count(es, type)
  <2>1. CASE errs' = errs \o es /\ fileErrors' = fileErrors
    BY <1>2, <1>4, <1>7, <2>1 DEF Counted
  <2>2. CASE errs' = errs /\ fileErrors' = fileErrors \o es
    BY <1>2, <1>5, <1>7, <2>2 DEF Counted
  <2>3. CASE errs' = <<>> /\ fileErrors' = (fileErrors \o errs) \o es
    <3>1. Count(errs', type) = 0
      BY <2>3, CountEmpty, Zenon
    <3>2. Count(fileErrors', type) = (Count(fileErrors, type) + Count(errs, type)) + Count(es, type)
      BY <1>6, <2>3, Zenon
    <3>3. QED
      BY <1>2, <1>7, <3>1, <3>2 DEF Counted
  <2>4. QED
    BY <2>1, <2>2, <2>3
<1>9. QED
  BY <1>8, Zenon DEF Adds

LEMMA AddsNothing ==
  ASSUME LoopTypes, UNCHANGED <<errs, fileErrors>> PROVE Adds(<<>>)
<1>1. \A type : Counted(type)' = Counted(type) /\ Counted(type) \in Nat /\ Count(<<>>, type) = 0
  BY CountedType, CountEmpty DEF Counted
<1>2. QED
  BY <1>1 DEF Adds

\* A call that goes on after a step went on before it.
LEMMA GoesOnBefore ==
  ASSUME LoopTypes, NEW es, Adds(es), stopOnError' = stopOnError, GoesOn'
  PROVE  GoesOn /\ Count(es, "FailedAccessingRoot") = 0
<1>1. Counted("FailedAccessingRoot") \in Nat /\ Count(es, "FailedAccessingRoot") \in Nat
  BY CountedType, CountType DEF Adds
<1>2. Counted("FailedAccessingRoot")' = Counted("FailedAccessingRoot") + Count(es, "FailedAccessingRoot")
  BY DEF Adds
<1>3. Counted("FailedAccessingRoot")' = 0 /\ ~stopOnError
  BY DEF GoesOn
<1>4. QED
  BY <1>1, <1>2, <1>3 DEF GoesOn

-----------------------------------------------------------------------------
(* The counts are right after every step *)

\* Nothing is inlined before the extraction.
NoneInlined ==
  /\ Counted("ConfigMapNotFound") = 0 /\ Counted("ConfigMapKeyNotFound") = 0
  /\ Counted("NoK8sResourcesFound") = 0

LEMMA EarlyInline ==
  TypeInv /\ inlined = 0 /\ pc # "return" => (InlineCounts <=> NoneInlined)
<1> SUFFICES ASSUME TypeInv, inlined = 0, pc # "return" PROVE InlineCounts <=> NoneInlined
  OBVIOUS
<1>1. Followed = <<>>
  <2>1. \A s : SubSeq(s, 1, 0) = <<>>
    BY SubSeqEmpty
  <2>2. QED
    BY <2>1 DEF Followed
<1>2. Len(NotFound(<<>>, configmaps)) = 0 /\ Len(KeyNotFound(<<>>, configmaps)) = 0
  BY RefsNone
<1>3. QED
  BY <1>1, <1>2 DEF InlineCounts, NoneInlined

\* A step of the scan, if it counts what it adds.
ScanAdds(es) ==
  /\ BadUpto(call.dirs, dir', entry') =
       BadUpto(call.dirs, dir, entry) + Count(es, "FailedAccessingSubdir")
  /\ Cardinality({d \in UntilFirstYaml(call.dirs) : d < dir'}) =
       Cardinality({d \in UntilFirstYaml(call.dirs) : d < dir}) + Count(es, "NoYamlsFound")
  /\ \A type \in {"FailedReadingFile", "FailedScanningResource", "ConfigMapNotFound",
                  "ConfigMapKeyNotFound", "NoK8sResourcesFound"} : Count(es, type) = 0

LEMMA ScanStep ==
  ASSUME TypeInv, TypeInv', CountInv, pc = "scan", pc' = "scan", call' = call,
         stopOnError' = stopOnError, NEW es, Adds(es),
         GoesOn' /\ GoesOn /\ ScanCounts => ScanAdds(es)
  PROVE  CountInv'
<1> SUFFICES ASSUME GoesOn' PROVE (ScanCounts /\ ParseCounts /\ InlineCounts)'
  BY DEF CountInv
<1>1. GoesOn
  BY GoesOnBefore DEF TypeInv
<1>2. ScanCounts /\ ParseCounts /\ InlineCounts
  BY <1>1 DEF CountInv
<1>3. ScanAdds(es)
  BY <1>1, <1>2
<1>4. \A type : Counted(type)' = Counted(type) + Count(es, type)
  BY DEF Adds
<1>5. inlined = 0 /\ inlined' = 0
  BY DEF TypeInv, StageInv
<1>6. NoneInlined
  BY <1>2, <1>5, EarlyInline
<1>7. ScanCounts'
  <2>1. /\ Counted("FailedAccessingSubdir") = BadUpto(call.dirs, dir, entry)
        /\ Counted("NoYamlsFound") = Cardinality({d \in UntilFirstYaml(call.dirs) : d < dir})
    BY <1>2 DEF ScanCounts
  <2>2. /\ Counted("FailedAccessingSubdir")' = BadUpto(call.dirs, dir', entry')
        /\ Counted("NoYamlsFound")' = Cardinality({d \in UntilFirstYaml(call.dirs) : d < dir'})
    BY <1>3, <1>4, <2>1, Zenon DEF ScanAdds
  <2>3. QED
    BY <2>2, Zenon DEF ScanCounts
<1>8. ParseCounts'
  BY <1>2, <1>3, <1>4 DEF ParseCounts, ScanAdds
<1>9. InlineCounts'
  <2>1. NoneInlined'
    BY <1>3, <1>4, <1>6 DEF NoneInlined, ScanAdds
  <2>2. (TypeInv /\ inlined = 0 /\ pc # "return" => (InlineCounts <=> NoneInlined))'
    BY EarlyInline, PTL
  <2>3. QED
    BY <1>5, <2>1, <2>2
<1>10. QED
  BY <1>7, <1>8, <1>9

\* The position of the scan.
LEMMA ScanAt ==
  ASSUME TypeInv, Scanning
  PROVE  /\ call.dirs \in Seq(Seq(Entry)) /\ dir \in DOMAIN call.dirs /\ dir \in Nat
         /\ Entries = call.dirs[dir] /\ Len(call.dirs[dir]) \in Nat
         /\ entry \in 1..(Len(call.dirs[dir]) + 1)
<1>1. call.dirs \in Seq(Seq(Entry)) /\ dir \in Nat
  BY CallTypes DEF TypeInv, LoopTypes
<1>2. dir \in DOMAIN call.dirs
  BY DirNext
<1>3. Entries = call.dirs[dir]
  BY DEF Entries
<1>4. Len(Entries) \in Nat /\ entry \in 1..(Len(Entries) + 1)
  BY <1>2, EntryTypes DEF TypeInv, TypeOK, Scanning
<1>5. QED
  BY <1>1, <1>2, <1>3, <1>4, Zenon

LEMMA VisitEntryCounts == TypeInv /\ TypeInv' /\ CountInv /\ VisitEntry => CountInv'
<1> SUFFICES ASSUME TypeInv, TypeInv', CountInv, VisitEntry PROVE CountInv'
  OBVIOUS
<1>1. /\ Scanning /\ entry <= Len(Entries) /\ Entries[entry].type # "subdirError"
      /\ entry' = entry + 1
      /\ UNCHANGED <<stopOnError, pc, call, dir, errs, fileErrors>>
  BY DEF VisitEntry, NextEntry, api
<1>2. Adds(<<>>)
  BY <1>1, AddsNothing DEF TypeInv
<1>3. \A type : Count(<<>>, type) = 0
  BY CountEmpty
<1>4. ASSUME ScanCounts, GoesOn PROVE ScanAdds(<<>>)
  <2>1. /\ Counted("FailedAccessingSubdir") = BadUpto(call.dirs, dir, entry)
        /\ Counted("NoYamlsFound") = Cardinality({d \in UntilFirstYaml(call.dirs) : d < dir})
    BY <1>1, <1>4 DEF ScanCounts, Scanning
  <2>2. BadUpto(call.dirs, dir, entry) \in Nat /\ Cardinality({d \in UntilFirstYaml(call.dirs) : d < dir}) \in Nat
    BY <2>1, CountedType DEF TypeInv
  <2>3. /\ call.dirs \in Seq(Seq(Entry)) /\ dir \in DOMAIN call.dirs
        /\ entry \in 1..Len(call.dirs[dir])
    <3>1. entry <= Len(call.dirs[dir])
      BY <1>1, ScanAt
    <3>2. QED
      BY <1>1, <3>1, ScanAt
  <2>4. BadUpto(call.dirs, dir, entry + 1) = BadUpto(call.dirs, dir, entry) + 0
    BY <1>1, <2>3, BadEntryNext DEF Entries
  <2>5. QED
    BY <1>1, <1>3, <2>2, <2>4 DEF ScanAdds
<1>5. QED
  BY <1>1, <1>2, <1>4, ScanStep DEF Scanning

LEMMA VisitErrorCounts == TypeInv /\ TypeInv' /\ CountInv /\ VisitError => CountInv'
<1> SUFFICES ASSUME TypeInv, TypeInv', CountInv, VisitError PROVE CountInv'
  OBVIOUS
<1> DEFINE e == AccessError(Entries[entry])
<1>1. /\ Scanning /\ entry <= Len(Entries) /\ Entries[entry].type \in {"rootError", "subdirError"}
      /\ errs' = Append(errs, e)
      /\ entry' = (IF Stop(errs') THEN Len(Entries) + 1 ELSE entry + 1)
      /\ UNCHANGED <<stopOnError, pc, call, dir, fileErrors>>
  BY DEF VisitError, api
<1>2. e \in ErrorTypes
  BY DEF AccessError, ErrorTypes
<1>3. PICK es \in Seq(ErrorTypes) :
        es = <<e>> /\ \A type : Count(es, type) = IF type = e THEN 1 ELSE 0
  BY <1>2, CountOne, Zenon
<1>4. /\ errs' = errs \o es
      /\ errs \in Seq(ErrorTypes)
  <2>1. errs \in Seq(ErrorTypes)
    BY DEF TypeInv, LoopTypes
  <2>2. Append(errs, e) = errs \o <<e>>
    BY <1>2, <2>1, AppendIsConcat
  <2>3. QED
    BY <1>1, <1>3, <2>1, <2>2
<1>5. Adds(es)
  BY <1>1, <1>4, AddsErrors DEF TypeInv
<1>6. ASSUME ScanCounts, GoesOn, GoesOn' PROVE ScanAdds(es)
  <2>1. /\ Counted("FailedAccessingSubdir") = BadUpto(call.dirs, dir, entry)
        /\ Counted("NoYamlsFound") = Cardinality({d \in UntilFirstYaml(call.dirs) : d < dir})
    BY <1>1, <1>6 DEF ScanCounts, Scanning
  <2>2. BadUpto(call.dirs, dir, entry) \in Nat /\ Cardinality({d \in UntilFirstYaml(call.dirs) : d < dir}) \in Nat
    BY <2>1, CountedType DEF TypeInv
  <2>3. /\ call.dirs \in Seq(Seq(Entry)) /\ dir \in DOMAIN call.dirs
        /\ entry \in 1..Len(call.dirs[dir])
    <3>1. entry <= Len(call.dirs[dir])
      BY <1>1, ScanAt
    <3>2. QED
      BY <1>1, <3>1, ScanAt
  <2>4. Count(es, "FailedAccessingRoot") = 0
    BY <1>1, <1>5, <1>6, GoesOnBefore DEF TypeInv
  <2>5. e = "FailedAccessingSubdir" /\ Entries[entry].type = "subdirError"
    BY <1>1, <1>3, <2>4 DEF AccessError
  <2>6. BadUpto(call.dirs, dir, entry + 1) = BadUpto(call.dirs, dir, entry) + 1
    BY <2>3, <2>5, BadEntryNext DEF Entries
  <2>7. entry' = entry + 1
    <3>1. (GoesOn /\ LoopTypes /\ Counted("NoK8sResourcesFound") = 0 => ~Stop(fileErrors) /\ ~Stop(errs))'
      BY GoesOnNoStop, PTL
    <3>2. Counted("NoK8sResourcesFound")' = 0
      <4>1. NoneInlined
        BY <1>1, <1>6, EarlyInline DEF CountInv, TypeInv, StageInv, Scanning
      <4>2. Counted("NoK8sResourcesFound")' = Counted("NoK8sResourcesFound") + Count(es, "NoK8sResourcesFound")
        BY <1>5 DEF Adds
      <4>3. QED
        BY <1>3, <2>5, <4>1, <4>2 DEF NoneInlined
    <3>3. ~Stop(errs)'
      BY <1>6, <3>1, <3>2 DEF TypeInv
    <3>4. QED
      BY <1>1, <3>3 DEF Stop
  <2>8. QED
    BY <1>1, <1>3, <2>2, <2>5, <2>6, <2>7 DEF ScanAdds
<1>7. QED
  BY <1>1, <1>5, <1>6, ScanStep DEF Scanning

LEMMA FinishDirCounts == TypeInv /\ TypeInv' /\ ScanInv' /\ CountInv /\ FinishDir => CountInv'
<1> SUFFICES ASSUME TypeInv, TypeInv', ScanInv', CountInv, FinishDir PROVE CountInv'
  OBVIOUS
<1>1. /\ Scanning /\ entry > Len(Entries) /\ errs' = <<>> /\ entry' = 1
      /\ UNCHANGED <<stopOnError, pc, call>>
  BY DEF FinishDir, FirstEntry, api
<1> DEFINE none == IF Stop(errs) THEN <<>> ELSE NoYamls(manifests')
<1>2. /\ none \in Seq(ErrorTypes)
      /\ \A type : Count(none, type) =
           IF ~Stop(errs) /\ manifests' = <<>> /\ type = "NoYamlsFound" THEN 1 ELSE 0
  <2>1. CASE ~Stop(errs) /\ manifests' = <<>>
    <3>1. none = <<"NoYamlsFound">> /\ "NoYamlsFound" \in ErrorTypes
      BY <2>1 DEF NoYamls, ErrorTypes
    <3> HIDE DEF none
    <3>2. QED
      BY <2>1, <3>1, CountOne
  <2>2. CASE ~(~Stop(errs) /\ manifests' = <<>>)
    <3>1. none = <<>>
      BY <2>2 DEF NoYamls
    <3> HIDE DEF none
    <3>2. QED
      BY <2>2, <3>1, CountEmpty
  <2>3. QED
    BY <2>1, <2>2
<1>3. fileErrors' = (fileErrors \o errs) \o none
  <2>1. CASE Stop(errs)
    <3>1. fileErrors' = fileErrors \o errs /\ none = <<>>
      BY <2>1 DEF FinishDir
    <3>2. fileErrors \o errs \in Seq(ErrorTypes)
      BY ConcatProperties DEF TypeInv, LoopTypes
    <3>3. QED
      BY <3>1, <3>2, ConcatEmptySeq
  <2>2. CASE ~Stop(errs)
    BY <2>2, Zenon DEF FinishDir
  <2>3. QED
    BY <2>1, <2>2
<1> HIDE DEF none
<1>4. Adds(none)
  BY <1>1, <1>2, <1>3, AddsErrors DEF TypeInv
<1>5. ASSUME ScanCounts, GoesOn, GoesOn' PROVE ScanAdds(none)
  <2>1. /\ Counted("FailedAccessingSubdir") = BadUpto(call.dirs, dir, entry)
        /\ Counted("NoYamlsFound") = Cardinality({d \in UntilFirstYaml(call.dirs) : d < dir})
    BY <1>1, <1>5 DEF ScanCounts, Scanning
  <2>2. BadUpto(call.dirs, dir, entry) \in Nat /\ Cardinality({d \in UntilFirstYaml(call.dirs) : d < dir}) \in Nat
    BY <2>1, CountedType DEF TypeInv
  <2>3. /\ call.dirs \in Seq(Seq(Entry)) /\ dir \in DOMAIN call.dirs
        /\ dir \in Nat /\ entry = Len(call.dirs[dir]) + 1
    <3>1. /\ call.dirs \in Seq(Seq(Entry)) /\ dir \in DOMAIN call.dirs /\ dir \in Nat
          /\ Entries = call.dirs[dir] /\ Len(call.dirs[dir]) \in Nat
          /\ entry \in 1..(Len(call.dirs[dir]) + 1)
      BY <1>1, ScanAt
    <3>2. \A n \in Nat : entry \in 1..(n + 1) /\ entry > n => entry = n + 1
      OBVIOUS
    <3>3. entry > Len(call.dirs[dir])
      BY <1>1, <3>1
    <3>4. QED
      BY <3>1, <3>2, <3>3, Zenon
  <2>4. NoneInlined
    BY <1>1, <1>5, EarlyInline DEF CountInv, TypeInv, StageInv, Scanning
  <2>5. ~Stop(errs)
    BY <1>5, <2>4, GoesOnNoStop DEF TypeInv, NoneInlined
  <2>6. dir' = dir + 1
    BY <2>5 DEF FinishDir
  <2>7. ~Stop(fileErrors)' /\ ~Stop(errs)'
    <3>1. (GoesOn /\ LoopTypes /\ Counted("NoK8sResourcesFound") = 0 => ~Stop(fileErrors) /\ ~Stop(errs))'
      BY GoesOnNoStop, PTL
    <3>2. Counted("NoK8sResourcesFound")' = 0
      BY <1>2, <1>4, <2>4 DEF NoneInlined, Adds
    <3>3. QED
      BY <1>5, <3>1, <3>2 DEF TypeInv
  <2>8. manifests' = Concat(SubSeq(DirFiles(call), 1, dir))
    <3>1. manifests' = Concat(SubSeq(DirFiles(call), 1, dir' - 1))
      BY <1>1, <2>7 DEF ScanInv, Scanning
    <3>2. dir' - 1 = dir
      BY <2>3, <2>6
    <3>3. QED
      BY <3>1, <3>2
  <2>9. manifests' = <<>> <=> dir \in UntilFirstYaml(call.dirs)
    BY <2>3, <2>8, EmptySoFar
  <2>10. BadUpto(call.dirs, dir', entry') = BadUpto(call.dirs, dir, entry) + 0
    <3>1. BadUpto(call.dirs, dir, entry) = BadUpto(call.dirs, dir', entry')
      BY <1>1, <2>3, <2>6, BadDirNext
    <3>2. QED
      BY <2>2, <3>1
  <2>11. Cardinality({d \in UntilFirstYaml(call.dirs) : d < dir + 1}) =
           Cardinality({d \in UntilFirstYaml(call.dirs) : d < dir})
             + IF dir \in UntilFirstYaml(call.dirs) THEN 1 ELSE 0
    BY <2>3, EmptyDirs
  <2>12. Count(none, "NoYamlsFound") = IF dir \in UntilFirstYaml(call.dirs) THEN 1 ELSE 0
    BY <1>2, <2>5, <2>9
  <2>13. Cardinality({d \in UntilFirstYaml(call.dirs) : d < dir'}) =
           Cardinality({d \in UntilFirstYaml(call.dirs) : d < dir}) + Count(none, "NoYamlsFound")
    BY <2>6, <2>11, <2>12, Zenon
  <2>14. QED
    BY <1>2, <2>10, <2>13 DEF ScanAdds
<1>6. QED
  BY <1>1, <1>4, <1>5, ScanStep DEF Scanning

LEMMA InvokeCounts == TypeInv /\ TypeInv' /\ Invoke => CountInv'
<1> SUFFICES ASSUME TypeInv, TypeInv', Invoke PROVE CountInv'
  OBVIOUS
<1>1. /\ call' \in Calls /\ pc' = (IF call'.fromInfos THEN "parse" ELSE "scan")
      /\ errs' = <<>> /\ fileErrors' = <<>> /\ inlined' = 0
      /\ dir' = 1 /\ entry' = 1 /\ file' = 1 /\ info' = 0
  BY DEF Invoke
<1>2. \A type : Counted(type)' = 0
  <2>1. \A type : Counted(type)' = Count(fileErrors', type) + Count(errs', type)
    BY DEF Counted
  <2>2. QED
    BY <1>1, <2>1, CountEmpty
<1>3. call'.dirs \in Seq(Seq(Entry)) /\ manifests' \in Seq(File)
  BY CallTypes DEF TypeInv, LoopTypes
<1>4. ScanCounts'
  <2>1. CASE pc' = "scan"
    <3>1. /\ BadUpto(call'.dirs, 1, 1) = 0
          /\ Cardinality({x \in UntilFirstYaml(call'.dirs) : x < 1}) = 0
      BY <1>3, BadStartEnd, EmptyDirsStartEnd
    <3>2. QED
      BY <1>1, <1>2, <2>1, <3>1, Zenon DEF ScanCounts
  <2>2. CASE pc' # "scan"
    <3>1. call'.dirs = <<>>
      BY <1>1, <2>2, CallsAssumption
    <3>2. Len(BadSubdirs(<<>>)) = 0
      <4>1. [d \in DOMAIN <<>> |-> Those(<<>>[d], {e \in Entry : e.type = "subdirError"})] = <<>>
        OBVIOUS
      <4>2. BadSubdirs(<<>>) = <<>>
        BY <4>1, ConcatEmpty, Zenon DEF BadSubdirs
      <4>3. QED
        BY <4>2
    <3>3. UntilFirstYaml(<<>>) = {}
      BY DEF UntilFirstYaml
    <3>4. Cardinality(UntilFirstYaml(<<>>)) = 0
      BY <3>3, FS_EmptySet
    <3>5. QED
      BY <1>2, <2>2, <3>1, <3>2, <3>4 DEF ScanCounts
  <2>3. QED
    BY <2>1, <2>2
<1>5. ParseCounts'
  <2>1. ReadUpto(manifests', 1, 0) = 0
    BY <1>3, ReadStartEnd
  <2>2. BadInfos(Parsed') = 0
    BY <1>1, <1>3, ParsedStart, BadInfosNone DEF Parsed
  <2>3. pc' \in {"scan", "parse"}
    BY <1>1
  <2>4. QED
    BY <1>1, <1>2, <2>1, <2>2, <2>3 DEF ParseCounts
<1>6. InlineCounts'
  <2>1. (TypeInv /\ inlined = 0 /\ pc # "return" => (InlineCounts <=> NoneInlined))'
    BY EarlyInline, PTL
  <2>2. NoneInlined'
    BY <1>2 DEF NoneInlined
  <2>3. QED
    BY <1>1, <2>1, <2>2
<1>7. pc' \in {"scan", "parse"}
  BY <1>1
<1>8. QED
  BY <1>4, <1>5, <1>6, <1>7 DEF CountInv

LEMMA FinishScanCounts == TypeInv /\ TypeInv' /\ CountInv /\ FinishScan => CountInv'
<1> SUFFICES ASSUME TypeInv, TypeInv', CountInv, FinishScan PROVE CountInv'
  OBVIOUS
<1>1. /\ pc = "scan" /\ dir > Len(call.dirs) /\ pc' = (IF Stop(fileErrors) THEN "return" ELSE "parse")
      /\ UNCHANGED <<stopOnError, call, dir, entry, manifests, file, info, errs, fileErrors, inlined>>
  BY DEF FinishScan, api, scan
<1>2. errs = <<>> /\ file = 1 /\ info = 0 /\ inlined = 0
  BY <1>1 DEF TypeInv, StageInv
<1>3. \A type : Counted(type)' = Counted(type)
  BY <1>1 DEF Counted
<1>4. GoesOn' <=> GoesOn
  BY <1>1, <1>3 DEF GoesOn
<1> SUFFICES ASSUME GoesOn
             PROVE  pc' = "parse" /\ (ScanCounts /\ ParseCounts /\ InlineCounts)'
  BY <1>1, <1>2, <1>4 DEF CountInv
<1>5. ScanCounts /\ ParseCounts /\ InlineCounts
  BY <1>1 DEF CountInv
<1>6. NoneInlined
  BY <1>1, <1>2, <1>5, EarlyInline
<1>7. pc' = "parse"
  BY <1>1, <1>6, GoesOnNoStop DEF TypeInv, NoneInlined
<1>8. ScanCounts'
  <2>1. call.dirs \in Seq(Seq(Entry)) /\ dir = Len(call.dirs) + 1
    <3>1. call.dirs \in Seq(Seq(Entry)) /\ dir \in 1..(Len(call.dirs) + 1)
      BY CallTypes DEF TypeInv, TypeOK, LoopTypes
    <3>2. Len(call.dirs) \in Nat
      BY <3>1
    <3>3. QED
      BY <1>1, <3>1, <3>2
  <2>2. BadUpto(call.dirs, dir, entry) = Len(BadSubdirs(call.dirs))
    BY <2>1, BadStartEnd
  <2>3. {d \in UntilFirstYaml(call.dirs) : d < dir} = UntilFirstYaml(call.dirs)
    BY <2>1, EmptyDirsStartEnd
  <2>4. /\ Counted("FailedAccessingSubdir") = Len(BadSubdirs(call.dirs))
        /\ Counted("NoYamlsFound") = Cardinality(UntilFirstYaml(call.dirs))
    BY <1>1, <1>5, <2>2, <2>3, Zenon DEF ScanCounts
  <2>5. QED
    BY <1>1, <1>3, <1>7, <2>4 DEF ScanCounts
<1>9. ParseCounts'
  <2>1. manifests \in Seq(File)
    BY DEF TypeInv, TypeOK
  <2>2. ReadUpto(manifests', file', info') = 0
    BY <1>1, <1>2, <2>1, ReadStartEnd
  <2>3. BadInfos(Parsed') = 0
    BY <1>1, <1>2, <2>1, ParsedStart, BadInfosNone DEF Parsed
  <2>4. Counted("FailedReadingFile") = 0 /\ Counted("FailedScanningResource") = 0
    BY <1>1, <1>5 DEF ParseCounts
  <2>5. QED
    BY <1>3, <1>7, <2>2, <2>3, <2>4 DEF ParseCounts
<1>10. InlineCounts'
  <2>1. (TypeInv /\ inlined = 0 /\ pc # "return" => (InlineCounts <=> NoneInlined))'
    BY EarlyInline, PTL
  <2>2. NoneInlined'
    BY <1>3, <1>6 DEF NoneInlined
  <2>3. QED
    BY <1>1, <1>2, <1>7, <2>1, <2>2
<1>11. QED
  BY <1>7, <1>8, <1>9, <1>10

\* A step of the parser, if it counts what it adds.
ParseAdds(es) ==
  /\ ReadUpto(manifests, file', info') =
       ReadUpto(manifests, file, info) + Count(es, "FailedReadingFile")
  /\ BadInfos(Parsed') = BadInfos(Parsed) + Count(es, "FailedScanningResource")
  /\ \A type \in {"FailedAccessingSubdir", "NoYamlsFound", "ConfigMapNotFound",
                  "ConfigMapKeyNotFound", "NoK8sResourcesFound"} : Count(es, type) = 0

LEMMA ParseStep ==
  ASSUME TypeInv, TypeInv', CountInv, pc = "parse", pc' = "parse",
         UNCHANGED <<call, manifests, stopOnError>>, NEW es, Adds(es),
         GoesOn' /\ GoesOn /\ ParseCounts /\ NoneInlined => ParseAdds(es)
  PROVE  CountInv'
<1> SUFFICES ASSUME GoesOn' PROVE (ScanCounts /\ ParseCounts /\ InlineCounts)'
  BY DEF CountInv
<1>1. GoesOn
  BY GoesOnBefore DEF TypeInv
<1>2. ScanCounts /\ ParseCounts /\ InlineCounts
  BY <1>1 DEF CountInv
<1>3. inlined = 0 /\ inlined' = 0
  BY DEF TypeInv, StageInv
<1>4. NoneInlined
  BY <1>2, <1>3, EarlyInline
<1>5. ParseAdds(es)
  BY <1>1, <1>2, <1>4
<1>6. \A type : Counted(type)' = Counted(type) + Count(es, type)
  BY DEF Adds
<1>7. \A type \in {"FailedAccessingSubdir", "NoYamlsFound"} : Counted(type)' = Counted(type)
  BY <1>5, <1>6, CountedType DEF ParseAdds, TypeInv
<1>8. ScanCounts'
  BY <1>2, <1>7 DEF ScanCounts
<1>9. ParseCounts'
  <2>1. /\ Counted("FailedReadingFile") = ReadUpto(manifests, file, info)
        /\ Counted("FailedScanningResource") = BadInfos(Parsed)
    BY <1>2 DEF ParseCounts
  <2>2. /\ Counted("FailedReadingFile")' = ReadUpto(manifests, file', info')
        /\ Counted("FailedScanningResource")' = BadInfos(Parsed')
    BY <1>5, <1>6, <2>1, Zenon DEF ParseAdds
  <2>3. QED
    BY <2>2 DEF ParseCounts
<1>10. InlineCounts'
  <2>1. NoneInlined'
    BY <1>4, <1>5, <1>6 DEF NoneInlined, ParseAdds
  <2>2. (TypeInv /\ inlined = 0 /\ pc # "return" => (InlineCounts <=> NoneInlined))'
    BY EarlyInline, PTL
  <2>3. QED
    BY <1>3, <2>1, <2>2
<1>11. QED
  BY <1>8, <1>9, <1>10

\* The position of the parser, and what is counted there.
LEMMA ParseAt ==
  ASSUME TypeInv, Parsing
  PROVE  /\ manifests \in Seq(File) /\ file \in DOMAIN manifests /\ info \in Nat
         /\ manifests[file].readErrors \in Nat /\ Infos = manifests[file].infos
         /\ pc = "parse"
<1>1. manifests \in Seq(File) /\ file \in Nat \ {0} /\ info \in Nat
  BY DEF TypeInv, LoopTypes
<1>2. file \in DOMAIN manifests
  BY <1>1 DEF Parsing
<1>3. manifests[file].readErrors \in Nat
  BY FileTypes DEF TypeInv
<1>4. QED
  BY <1>1, <1>2, <1>3 DEF Infos, Parsing

LEMMA ParseNats ==
  ASSUME TypeInv, pc = "parse", ParseCounts
  PROVE  ReadUpto(manifests, file, info) \in Nat /\ BadInfos(Parsed) \in Nat
<1>1. QED
  BY CountedType DEF ParseCounts, TypeInv

LEMMA ReadFileCounts == TypeInv /\ TypeInv' /\ CountInv /\ ReadFile => CountInv'
<1> SUFFICES ASSUME TypeInv, TypeInv', CountInv, ReadFile PROVE CountInv'
  OBVIOUS
<1> DEFINE n == manifests[file].readErrors
<1>1. /\ Parsing /\ info = 0 /\ file' = file
      /\ UNCHANGED <<stopOnError, pc, call, manifests, fileErrors>>
      /\ ~stopOnError => errs' = [i \in 1..n |-> "FailedReadingFile"] /\ info' = 1
  BY Zenon DEF ReadFile, api, scan
<1>2. /\ manifests \in Seq(File) /\ file \in DOMAIN manifests /\ n \in Nat /\ pc = "parse"
  BY <1>1, ParseAt
<1>3. errs = <<>> /\ errs' \in Seq(ErrorTypes)
  BY <1>1, <1>2 DEF TypeInv, StageInv, LoopTypes
<1>4. errs' = errs \o errs'
  BY <1>3, ConcatEmptySeq
<1>5. Adds(errs')
  BY <1>1, <1>3, <1>4, AddsErrors DEF TypeInv
<1> HIDE DEF n
<1>6. ASSUME ParseCounts, GoesOn PROVE ParseAdds(errs')
  <2>1. errs' = [i \in 1..n |-> "FailedReadingFile"] /\ info' = 1
    BY <1>1, <1>6 DEF GoesOn
  <2>2. Len(errs') = n /\ \A i \in DOMAIN errs' : errs'[i] = "FailedReadingFile"
    BY <1>2, <2>1
  <2>3. Count(errs', "FailedReadingFile") = n
    BY <1>3, <2>2, CountAll
  <2>4. ASSUME NEW type, type # "FailedReadingFile" PROVE Count(errs', type) = 0
    BY <1>3, <2>2, <2>4, CountNone
  <2>5. ReadUpto(manifests, file, 1) = ReadUpto(manifests, file, 0) + n
    BY <1>2, ReadNext DEF n
  <2>6. Parsed' = Parsed
    BY <1>1, <1>2, <2>1, ParsedFile DEF Parsed
  <2>7. BadInfos(Parsed) \in Nat
    BY <1>2, <1>6, ParseNats
  <2>8. /\ Count(errs', "FailedScanningResource") = 0
        /\ \A type \in {"FailedAccessingSubdir", "NoYamlsFound", "ConfigMapNotFound",
                        "ConfigMapKeyNotFound", "NoK8sResourcesFound"} : Count(errs', type) = 0
    BY <2>4
  <2>9. BadInfos(Parsed') = BadInfos(Parsed) + Count(errs', "FailedScanningResource")
    BY <2>6, <2>7, <2>8
  <2>10. QED
    BY <1>1, <2>1, <2>3, <2>5, <2>8, <2>9, Zenon DEF ParseAdds
<1>7. QED
  BY <1>1, <1>2, <1>5, <1>6, ParseStep

LEMMA ParseInfoCounts ==
  TypeInv /\ TypeInv' /\ CountInv /\ (AcceptInfo \/ RejectInfo) => CountInv'
<1> SUFFICES ASSUME TypeInv, TypeInv', CountInv, AcceptInfo \/ RejectInfo PROVE CountInv'
  OBVIOUS
<1> DEFINE i == Infos[info]
           bad == i.kind \in {"badResource", "nilObject"}
<1>1. /\ Parsing /\ info \in DOMAIN Infos /\ info' = info + 1 /\ file' = file
      /\ UNCHANGED <<stopOnError, pc, call, manifests, fileErrors>>
      /\ errs' = IF bad THEN Append(errs, "FailedScanningResource") ELSE errs
  BY DEF AcceptInfo, RejectInfo, AtInfo, api, scan
<1>2. /\ manifests \in Seq(File) /\ file \in DOMAIN manifests /\ info \in Nat
      /\ manifests[file].readErrors \in Nat /\ Infos = manifests[file].infos
      /\ pc = "parse"
  BY <1>1, ParseAt
<1> DEFINE es == IF bad THEN <<"FailedScanningResource">> ELSE <<>>
<1>3. /\ es \in Seq(ErrorTypes)
      /\ \A type : Count(es, type) = IF bad /\ type = "FailedScanningResource" THEN 1 ELSE 0
  <2> HIDE DEF bad
  <2>1. CASE bad
    <3>1. es = <<"FailedScanningResource">> /\ "FailedScanningResource" \in ErrorTypes
      BY <2>1 DEF ErrorTypes
    <3> HIDE DEF es
    <3>2. QED
      BY <2>1, <3>1, CountOne
  <2>2. CASE ~bad
    <3>1. es = <<>>
      BY <2>2
    <3> HIDE DEF es
    <3>2. QED
      BY <2>2, <3>1, CountEmpty
  <2>3. QED
    BY <2>1, <2>2
<1>4. errs' = errs \o es
  <2>1. errs \in Seq(ErrorTypes) /\ "FailedScanningResource" \in ErrorTypes
    BY DEF TypeInv, LoopTypes, ErrorTypes
  <2>2. Append(errs, "FailedScanningResource") = errs \o <<"FailedScanningResource">>
    BY <2>1, AppendIsConcat
  <2>3. errs \o <<>> = errs
    BY <2>1, ConcatEmptySeq
  <2>4. QED
    BY <1>1, <2>2, <2>3
<1> HIDE DEF es, bad
<1>5. Adds(es)
  BY <1>1, <1>3, <1>4, AddsErrors DEF TypeInv
<1>6. ASSUME ParseCounts PROVE ParseAdds(es)
  <2>1. ReadUpto(manifests, file, info) \in Nat /\ BadInfos(Parsed) \in Nat
    BY <1>2, <1>6, ParseNats
  <2>2. info \in Nat \ {0} /\ info + 1 \in Nat \ {0}
    BY <1>1, FileTypes DEF TypeInv
  <2>3. ReadUpto(manifests, file, info + 1) = ReadUpto(manifests, file, info)
    BY <1>2, <2>2, ReadNext
  <2>4. Parsed \in Seq(Info) /\ i \in Info /\ Parsed' = Append(Parsed, i)
    BY <1>1, <1>2, ParsedNext DEF Parsed
  <2>5. BadInfos(Parsed') = BadInfos(Parsed) + IF bad THEN 1 ELSE 0
    BY <2>4, BadInfosNext DEF bad
  <2>6. BadInfos(Parsed') = BadInfos(Parsed) + Count(es, "FailedScanningResource")
    BY <1>3, <2>5
  <2>7. ReadUpto(manifests, file', info') =
          ReadUpto(manifests, file, info) + Count(es, "FailedReadingFile")
    BY <1>1, <1>3, <2>1, <2>3
  <2>8. QED
    BY <1>3, <2>6, <2>7 DEF ParseAdds
<1>7. QED
  BY <1>1, <1>2, <1>5, <1>6, ParseStep

LEMMA FinishFileCounts == TypeInv /\ TypeInv' /\ CountInv /\ FinishFile => CountInv'
<1> SUFFICES ASSUME TypeInv, TypeInv', CountInv, FinishFile PROVE CountInv'
  OBVIOUS
<1>1. /\ Parsing /\ info > Len(Infos) /\ info' = 0 /\ errs' = <<>>
      /\ fileErrors' = fileErrors \o errs /\ file' = NextFile(fileErrors')
      /\ UNCHANGED <<stopOnError, pc, call, manifests>>
  BY DEF FinishFile, api, scan
<1>2. /\ manifests \in Seq(File) /\ file \in DOMAIN manifests
      /\ manifests[file].readErrors \in Nat /\ Infos = manifests[file].infos
      /\ pc = "parse"
  BY <1>1, ParseAt
<1>3. fileErrors' = (fileErrors \o errs) \o <<>> /\ <<>> \in Seq(ErrorTypes)
  <2>1. fileErrors \o errs \in Seq(ErrorTypes)
    BY ConcatProperties DEF TypeInv, LoopTypes
  <2>2. QED
    BY <1>1, <2>1, ConcatEmptySeq
<1>4. Adds(<<>>)
  BY <1>1, <1>3, AddsErrors DEF TypeInv
<1>5. \A type : Count(<<>>, type) = 0
  BY CountEmpty
<1>6. ASSUME ParseCounts, GoesOn', NoneInlined PROVE ParseAdds(<<>>)
  <2>1. ReadUpto(manifests, file, info) \in Nat /\ BadInfos(Parsed) \in Nat
    BY <1>2, <1>6, ParseNats
  <2>2. info = Len(Infos) + 1 /\ info \in Nat \ {0}
    <3>1. Len(Infos) \in Nat /\ info \in 0..(Len(Infos) + 1)
      BY <1>1, <1>2, FileTypes DEF TypeInv, TypeOK
    <3>2. QED
      BY <1>1, <3>1
  <2>3. file' = file + 1
    <3>1. (GoesOn /\ LoopTypes /\ Counted("NoK8sResourcesFound") = 0 => ~Stop(fileErrors) /\ ~Stop(errs))'
      BY GoesOnNoStop, PTL
    <3>2. Counted("NoK8sResourcesFound")' = 0
      BY <1>4, <1>5, <1>6 DEF Adds, NoneInlined
    <3>3. ~Stop(fileErrors)'
      BY <1>6, <3>1, <3>2 DEF TypeInv
    <3>4. ~Stop(fileErrors')
      BY <1>1, <3>3 DEF Stop
    <3>5. QED
      BY <1>1, <3>4 DEF NextFile
  <2>4. ReadUpto(manifests, file + 1, 0) = ReadUpto(manifests, file, info)
    BY <1>2, <2>2, ReadNext
  <2>5. Parsed' = Parsed
    BY <1>1, <1>2, <2>2, <2>3, ParsedFile DEF Parsed
  <2>6. /\ ReadUpto(manifests, file', info') =
             ReadUpto(manifests, file, info) + Count(<<>>, "FailedReadingFile")
        /\ BadInfos(Parsed') = BadInfos(Parsed) + Count(<<>>, "FailedScanningResource")
    BY <1>1, <1>5, <2>1, <2>3, <2>4, <2>5
  <2>7. QED
    BY <1>5, <2>6 DEF ParseAdds
<1>7. QED
  BY <1>1, <1>2, <1>4, <1>6, ParseStep

LEMMA FinishParseCounts ==
  TypeInv /\ TypeInv' /\ ParseInv /\ CountInv /\ FinishParse => CountInv'
<1> SUFFICES ASSUME TypeInv, TypeInv', ParseInv, CountInv, FinishParse PROVE CountInv'
  OBVIOUS
<1>1. /\ pc = "parse" /\ file > Len(manifests) /\ pc' = (IF Stop(fileErrors) THEN "return" ELSE "extract")
      /\ UNCHANGED <<stopOnError, call, manifests, file, info, errs, fileErrors, acc, inlined>>
  BY DEF FinishParse, AfterParse, api, scan
<1>2. errs = <<>> /\ info = 0 /\ inlined = 0
  BY <1>1 DEF TypeInv, StageInv
<1>3. \A type : Counted(type)' = Counted(type)
  BY <1>1 DEF Counted
<1>4. GoesOn' <=> GoesOn
  BY <1>1, <1>3 DEF GoesOn
<1> SUFFICES ASSUME GoesOn
             PROVE  pc' = "extract" /\ (ScanCounts /\ ParseCounts /\ InlineCounts)'
  BY <1>1, <1>2, <1>4 DEF CountInv
<1>5. ScanCounts /\ ParseCounts /\ InlineCounts
  BY <1>1 DEF CountInv
<1>6. NoneInlined
  BY <1>1, <1>2, <1>5, EarlyInline
<1>7. ~Stop(fileErrors) /\ ~Stop(errs)
  BY <1>6, GoesOnNoStop DEF TypeInv, NoneInlined
<1>8. pc' = "extract"
  BY <1>1, <1>7
<1>9. ScanCounts'
  BY <1>1, <1>3, <1>5, <1>8 DEF ScanCounts
<1>10. ParseCounts'
  <2>1. file = Len(manifests) + 1 /\ manifests \in Seq(File)
    <3>1. manifests \in Seq(File) /\ file \in 1..(Len(manifests) + 1)
      BY DEF TypeInv, TypeOK
    <3>2. QED
      BY <1>1, <3>1
  <2>2. manifests = FilesOf(call)
    BY <1>1, <1>7 DEF ParseInv
  <2>3. ReadUpto(manifests, file, info) = ReadErrors(FilesOf(call))
    BY <1>2, <2>1, <2>2, ReadStartEnd
  <2>4. Parsed = InfosOf(call)
    BY <1>2, <2>1, <2>2, ParsedEnd DEF Parsed, InfosOf
  <2>5. /\ Counted("FailedReadingFile") = ReadErrors(FilesOf(call))
        /\ Counted("FailedScanningResource") = BadInfos(InfosOf(call))
    BY <1>1, <1>5, <2>3, <2>4 DEF ParseCounts
  <2>6. QED
    BY <1>1, <1>3, <1>8, <2>5 DEF ParseCounts
<1>11. InlineCounts'
  <2>1. (TypeInv /\ inlined = 0 /\ pc # "return" => (InlineCounts <=> NoneInlined))'
    BY EarlyInline, PTL
  <2>2. NoneInlined'
    BY <1>3, <1>6 DEF NoneInlined
  <2>3. QED
    BY <1>1, <1>2, <1>8, <2>1, <2>2
<1>12. QED
  BY <1>8, <1>9, <1>10, <1>11

\* A step of the extraction.
LEMMA ExtractStep ==
  ASSUME TypeInv, CountInv, pc = "extract", pc' \in {"extract", "return"},
         UNCHANGED <<call, errs, acc, stopOnError>>, NEW es, Adds(es),
         \A type \in {"FailedAccessingSubdir", "NoYamlsFound", "FailedReadingFile",
                      "FailedScanningResource"} : Count(es, type) = 0,
         InlineCounts => InlineCounts',
         pc' = "return" => (Taken(InfosOf(call)) /\ inlined = Len(RefsOf(workloads)))'
  PROVE  CountInv'
<1>1. errs' = <<>>
  BY DEF CountInv
<1> SUFFICES ASSUME GoesOn' PROVE (ScanCounts /\ ParseCounts /\ InlineCounts)'
  BY <1>1 DEF CountInv
<1>2. ScanCounts /\ ParseCounts /\ InlineCounts
  BY GoesOnBefore DEF TypeInv, CountInv
<1>3. \A type \in {"FailedAccessingSubdir", "NoYamlsFound", "FailedReadingFile",
                   "FailedScanningResource"} : Counted(type)' = Counted(type)
  BY CountedType DEF Adds, TypeInv
<1>4. ScanCounts'
  BY <1>2, <1>3 DEF ScanCounts
<1>5. ParseCounts'
  BY <1>2, <1>3 DEF ParseCounts
<1>6. QED
  BY <1>2, <1>4, <1>5

LEMMA NoWorkloadsCounts == TypeInv /\ EndInv /\ CountInv /\ NoWorkloads => CountInv'
<1> SUFFICES ASSUME TypeInv, EndInv, CountInv, NoWorkloads PROVE CountInv'
  OBVIOUS
<1>1. /\ pc = "extract" /\ workloads = <<>> /\ pc' = "return"
      /\ fileErrors' = Append(fileErrors, "NoK8sResourcesFound")
      /\ UNCHANGED <<stopOnError, call, errs, acc, inlined>>
      /\ workloads' = workloads /\ configmaps' = configmaps
  BY DEF NoWorkloads, api, acc
<1>2. PICK es \in Seq(ErrorTypes) :
        /\ es = <<"NoK8sResourcesFound">>
        /\ \A type : Count(es, type) = IF type = "NoK8sResourcesFound" THEN 1 ELSE 0
  <2>1. "NoK8sResourcesFound" \in ErrorTypes
    BY DEF ErrorTypes
  <2>2. QED
    BY <2>1, CountOne, Zenon
<1>3. fileErrors' = fileErrors \o es
  <2>1. fileErrors \in Seq(ErrorTypes) /\ "NoK8sResourcesFound" \in ErrorTypes
    BY DEF TypeInv, LoopTypes, ErrorTypes
  <2>2. QED
    BY <1>1, <1>2, <2>1, AppendIsConcat
<1>4. Adds(es)
  BY <1>1, <1>3, AddsErrors DEF TypeInv
<1>5. InlineCounts => InlineCounts'
  <2>1. \A type : Counted(type) \in Nat
    BY CountedType DEF TypeInv
  <2>2. /\ Counted("ConfigMapNotFound")' = Counted("ConfigMapNotFound")
        /\ Counted("ConfigMapKeyNotFound")' = Counted("ConfigMapKeyNotFound")
        /\ Counted("NoK8sResourcesFound")' = Counted("NoK8sResourcesFound") + 1
    BY <1>2, <1>4, <2>1 DEF Adds
  <2>3. Followed' = Followed
    BY <1>1 DEF Followed
  <2>4. QED
    BY <1>1, <2>2, <2>3 DEF InlineCounts
<1>6. (Taken(InfosOf(call)) /\ inlined = Len(RefsOf(workloads)))'
  <2>1. Taken(InfosOf(call))
    BY <1>1 DEF EndInv
  <2>2. inlined = Len(RefsOf(workloads))
    <3>1. Len(RefsOf(workloads)) = 0 /\ inlined \in 0..Len(RefsOf(workloads))
      BY <1>1, RefsEmpty DEF TypeInv, TypeOK
    <3>2. QED
      BY <3>1
  <2>3. QED
    BY <1>1, <2>1, <2>2 DEF Taken, acc
<1>7. QED
  BY <1>1, <1>2, <1>4, <1>5, <1>6, ExtractStep

LEMMA InlineStepCounts == TypeInv /\ CountInv /\ Inline => CountInv'
<1> SUFFICES ASSUME TypeInv, CountInv, Inline PROVE CountInv'
  OBVIOUS
<1> DEFINE refs == RefsOf(workloads)
           r == refs[inlined + 1]
<1>1. /\ pc = "extract" /\ pc' = "extract" /\ inlined < Len(refs)
      /\ fileErrors' = fileErrors \o RefErrors(r) /\ inlined' = inlined + 1
      /\ UNCHANGED <<stopOnError, call, errs, acc>>
      /\ workloads' = workloads /\ configmaps' = configmaps
  BY DEF Inline, api, acc
<1>2. refs \in Seq(Ref) /\ inlined \in Nat /\ inlined + 1 \in 1..Len(refs) /\ configmaps \in Seq(Info)
  <2>1. refs \in Seq(Ref) /\ Len(refs) \in Nat /\ inlined \in 0..Len(refs) /\ configmaps \in Seq(Info)
    BY RefsType DEF TypeInv, TypeOK
  <2> HIDE DEF refs
  <2>2. QED
    BY <1>1, <2>1
<1>3. Followed' = SubSeq(refs, 1, inlined + 1) /\ Followed = SubSeq(refs, 1, inlined)
  BY <1>1 DEF Followed
<1> HIDE DEF refs
<1>4. (inlined + 1) - 1 = inlined
  BY <1>2
<1>5. Followed \in Seq(Ref) /\ r \in Ref /\ Followed' = Append(Followed, r)
  BY <1>2, <1>3, <1>4, FirstNext
<1> HIDE DEF r
<1>6. /\ RefErrors(r) \in Seq(ErrorTypes)
      /\ Len(NotFound(Append(Followed, r), configmaps)) =
           Len(NotFound(Followed, configmaps)) + Count(RefErrors(r), "ConfigMapNotFound")
      /\ Len(KeyNotFound(Append(Followed, r), configmaps)) =
           Len(KeyNotFound(Followed, configmaps)) + Count(RefErrors(r), "ConfigMapKeyNotFound")
      /\ \A type : type \notin {"ConfigMapNotFound", "ConfigMapKeyNotFound"} =>
           Count(RefErrors(r), type) = 0
  BY <1>2, <1>5, RefNext
<1>7. Adds(RefErrors(r))
  BY <1>1, <1>6, AddsErrors DEF TypeInv
<1>8. InlineCounts => InlineCounts'
  <2>1. Counted("NoK8sResourcesFound")' = Counted("NoK8sResourcesFound") + 0
    BY <1>6, <1>7 DEF Adds
  <2>2. /\ Counted("ConfigMapNotFound")' =
             Counted("ConfigMapNotFound") + Count(RefErrors(r), "ConfigMapNotFound")
        /\ Counted("ConfigMapKeyNotFound")' =
             Counted("ConfigMapKeyNotFound") + Count(RefErrors(r), "ConfigMapKeyNotFound")
    BY <1>7 DEF Adds
  <2>3. /\ Len(NotFound(Followed', configmaps)) =
             Len(NotFound(Followed, configmaps)) + Count(RefErrors(r), "ConfigMapNotFound")
        /\ Len(KeyNotFound(Followed', configmaps)) =
             Len(KeyNotFound(Followed, configmaps)) + Count(RefErrors(r), "ConfigMapKeyNotFound")
    BY <1>5, <1>6, Zenon
  <2>4. QED
    BY <1>1, <2>1, <2>2, <2>3 DEF InlineCounts
<1>9. QED
  BY <1>1, <1>6, <1>7, <1>8, ExtractStep

LEMMA DiscoverCounts == TypeInv /\ EndInv /\ CountInv /\ Discover => CountInv'
<1> SUFFICES ASSUME TypeInv, EndInv, CountInv, Discover PROVE CountInv'
  OBVIOUS
<1>1. /\ pc = "extract" /\ pc' = "return" /\ workloads # <<>> /\ inlined = Len(RefsOf(workloads))
      /\ UNCHANGED <<stopOnError, call, errs, fileErrors, acc, inlined>>
      /\ workloads' = workloads /\ configmaps' = configmaps
  BY DEF Discover, api, acc
<1>2. Adds(<<>>)
  BY <1>1, AddsNothing DEF TypeInv
<1>3. \A type : Count(<<>>, type) = 0
  BY CountEmpty
<1>4. InlineCounts => InlineCounts'
  <2>1. \A type : Counted(type)' = Counted(type)
    BY <1>1 DEF Counted
  <2>2. Followed' = Followed
    BY <1>1 DEF Followed
  <2>3. QED
    BY <1>1, <2>1, <2>2 DEF InlineCounts
<1>5. (Taken(InfosOf(call)) /\ inlined = Len(RefsOf(workloads)))'
  BY <1>1 DEF EndInv, Taken, acc
<1>6. QED
  BY <1>1, <1>2, <1>3, <1>4, <1>5, ExtractStep

LEMMA CountInvStep ==
  TypeInv /\ TypeInv' /\ CompleteInv /\ CompleteInv' /\ CountInv /\ [Next]_vars => CountInv'
<1> SUFFICES ASSUME TypeInv, TypeInv', CompleteInv, CompleteInv', CountInv, [Next]_vars
             PROVE  CountInv'
  OBVIOUS
<1>1. ScanInv' /\ ParseInv /\ EndInv
  BY DEF CompleteInv
<1>2. CASE Invoke \/ FinishScan
  BY <1>2, InvokeCounts, FinishScanCounts
<1>3. CASE VisitEntry \/ VisitError \/ FinishDir
  BY <1>1, <1>3, VisitEntryCounts, VisitErrorCounts, FinishDirCounts
<1>4. CASE ReadFile \/ AcceptInfo \/ RejectInfo \/ FinishFile \/ FinishParse
  BY <1>1, <1>4, ReadFileCounts, ParseInfoCounts, FinishFileCounts, FinishParseCounts
<1>5. CASE NoWorkloads \/ Inline \/ Discover
  BY <1>1, <1>5, NoWorkloadsCounts, InlineStepCounts, DiscoverCounts
<1>6. CASE PanicOnInfo \/ Return
  BY <1>6 DEF PanicOnInfo, Return, CountInv
<1>7. CASE UNCHANGED vars
  <2>1. UNCHANGED <<stopOnError, pc, call, dir, entry, manifests, file, info, errs, fileErrors,
                    workloads, services, configmaps, inlined>>
    BY <1>7 DEF vars, api, scan, acc
  <2>2. \A type : Counted(type)' = Counted(type)
    BY <2>1 DEF Counted
  <2>3. (GoesOn' <=> GoesOn) /\ (ScanCounts' <=> ScanCounts) /\ (ParseCounts' <=> ParseCounts)
    BY <2>1, <2>2 DEF GoesOn, ScanCounts, ParseCounts, Parsed
  <2>4. (InlineCounts' <=> InlineCounts) /\ (Taken(InfosOf(call))' <=> Taken(InfosOf(call)))
    BY <2>1, <2>2 DEF InlineCounts, Followed, Taken
  <2>5. QED
    BY <2>1, <2>3, <2>4 DEF CountInv
<1>8. QED
  BY <1>2, <1>3, <1>4, <1>5, <1>6, <1>7 DEF Next, Work

-----------------------------------------------------------------------------
(* What Errors() returns *)

LEMMA ErrorsAccountedReturn == TypeInv /\ CountInv /\ Return => ErrorsAccounted'
<1> SUFFICES ASSUME TypeInv, CountInv, Return,
                    ~stopOnError', Count(errors', "FailedAccessingRoot") = 0
             PROVE  ErrorsAccounted'
  BY DEF ErrorsAccounted
<1>1. /\ pc = "return" /\ errors' = fileErrors /\ returned'.error = HasFatal(fileErrors)
      /\ UNCHANGED <<stopOnError, call>>
  BY DEF Return, ErrorsAfter
<1>2. errs = <<>> /\ fileErrors \in Seq(ErrorTypes)
  BY <1>1 DEF CountInv, TypeInv, LoopTypes
<1>3. \A type : Count(errors', type) = Counted(type)
  <2>1. \A type : Count(fileErrors, type) \in Nat /\ Count(<<>>, type) = 0
    BY <1>2, CountType, CountEmpty
  <2>2. QED
    BY <1>1, <1>2, <2>1 DEF Counted
<1>4. GoesOn
  BY <1>1, <1>3 DEF GoesOn
<1>5. /\ ScanCounts /\ ParseCounts /\ InlineCounts
      /\ Taken(InfosOf(call)) /\ inlined = Len(RefsOf(workloads))
  BY <1>1, <1>4 DEF CountInv
<1>6. Followed = RefsOf(workloads)
  <2>1. RefsOf(workloads) \in Seq(Ref)
    BY RefsType DEF TypeInv, TypeOK
  <2>2. QED
    BY <1>5, <2>1, FirstNoneAll DEF Followed
<1>7. returned'.error <=> workloads = <<>>
  <2>1. HasFatal(fileErrors) <=> Counted("NoK8sResourcesFound") # 0
    BY <1>1, <1>2, <1>3, FatalCounts
  <2>2. QED
    BY <1>1, <1>5, <2>1 DEF InlineCounts
<1>8. /\ workloads = OfKind(InfosOf(call), "workload")
      /\ configmaps = OfKind(InfosOf(call), "configmap")
  BY <1>5 DEF Taken
<1>9. /\ Count(errors', "FailedReadingFile") = ReadErrors(FilesOf(call'))
      /\ Count(errors', "FailedScanningResource") = BadInfos(InfosOf(call'))
      /\ Count(errors', "FailedAccessingSubdir") = Len(BadSubdirs(call'.dirs))
      /\ Count(errors', "NoYamlsFound") = Cardinality(UntilFirstYaml(call'.dirs))
  BY <1>1, <1>3, <1>5 DEF ScanCounts, ParseCounts
<1>a. call'.dirs \in Seq(Seq(Entry))
  BY <1>1, CallTypes DEF TypeInv, LoopTypes
<1>b. /\ Count(errors', "NoYamlsFound") <= Cardinality(WithoutYaml(call'.dirs))
      /\ call'.dirs # <<>> /\ WithoutYaml(call'.dirs) = DOMAIN call'.dirs =>
           Count(errors', "NoYamlsFound") > 0
  BY <1>9, <1>a, UntilFirstBounds, Zenon
<1>10. /\ Count(errors', "ConfigMapNotFound") = Len(NotFound(RefsOf(workloads), configmaps))
       /\ Count(errors', "ConfigMapKeyNotFound") = Len(KeyNotFound(RefsOf(workloads), configmaps))
       /\ Count(errors', "NoK8sResourcesFound") = IF returned'.error THEN 1 ELSE 0
  BY <1>1, <1>3, <1>5, <1>6, <1>7 DEF InlineCounts
<1>11. QED
  BY <1>1, <1>8, <1>9, <1>b, <1>10 DEF ErrorsAccounted, BadInfos

LEMMA ErrorsAccountedStep ==
  TypeInv /\ CountInv /\ ErrorsAccounted /\ [Next]_vars => ErrorsAccounted'
<1> SUFFICES ASSUME TypeInv, CountInv, ErrorsAccounted, [Next]_vars PROVE ErrorsAccounted'
  OBVIOUS
<1>1. CASE Return
  BY <1>1, ErrorsAccountedReturn
<1>2. CASE pc' # "idle"
  BY <1>2 DEF ErrorsAccounted, HasReturned
<1>3. CASE UNCHANGED vars
  <2>1. UNCHANGED <<stopOnError, pc, call, errors, returned>>
    BY <1>3 DEF vars, api
  <2>2. QED
    BY <2>1 DEF ErrorsAccounted, HasReturned
<1>4. ASSUME Next, ~Return PROVE pc' # "idle"
  <2>1. CASE Invoke
    BY <2>1 DEF Invoke
  <2>2. CASE VisitEntry \/ VisitError \/ FinishDir \/ FinishScan
    BY <2>2 DEF VisitEntry, VisitError, FinishDir, FinishScan, Scanning
  <2>3. CASE ReadFile \/ AcceptInfo \/ RejectInfo \/ PanicOnInfo \/ FinishFile
    BY <2>3 DEF ReadFile, AcceptInfo, RejectInfo, PanicOnInfo, FinishFile, AtInfo, Parsing
  <2>4. CASE FinishParse
    BY <2>4, Zenon DEF FinishParse, AfterParse
  <2>5. CASE NoWorkloads \/ Inline \/ Discover
    BY <2>5 DEF NoWorkloads, Inline, Discover
  <2>6. QED
    BY <1>4, <2>1, <2>2, <2>3, <2>4, <2>5 DEF Next, Work
<1>5. QED
  BY <1>1, <1>2, <1>3, <1>4

\* Of a call that runs to its end, Errors() tells each thing that went wrong as
\* often as it did: for all calls, and any number of them on one synthesizer.
THEOREM ErrorsAccountedHolds == Spec => []ErrorsAccounted
<1>1. Init => CountInv /\ ErrorsAccounted
  BY DEF Init, CountInv, ErrorsAccounted, HasReturned
<1>2. TypeInv /\ TypeInv' /\ CompleteInv /\ CompleteInv' /\ CountInv /\ ErrorsAccounted /\ [Next]_vars
        => CountInv' /\ ErrorsAccounted'
  BY CountInvStep, ErrorsAccountedStep
<1>3. QED
  BY <1>1, <1>2, CompleteInvariant, PTL DEF Spec

=============================================================================
