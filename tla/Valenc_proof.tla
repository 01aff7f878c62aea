---------------------------- MODULE Valenc_proof ----------------------------
(***************************************************************************)
(* Proofs about valenc, for any command line, any sources and any number   *)
(* of runs: its success is clean and complete, its reports are true, and   *)
(* its output is only touched when nothing was found wrong.                *)
(***************************************************************************)
EXTENDS Valenc, TLAPS

-----------------------------------------------------------------------------
(* Files and their numbers                                                 *)

\* The FileId of an input is its place in the command line, or that of an
\* earlier one with the same path.
LEMMA FileIds ==
    ASSUME NEW f \in File
    PROVE  /\ FileIdOf(f) \in Nat
           /\ FileIdOf(f) < Len(Inputs)
           /\ Inputs[FileIdOf(f) + 1] = f
<1>1. PICK i \in DOMAIN Inputs : Inputs[i] = f
  BY DEF File
<1> DEFINE j == CHOOSE k \in DOMAIN Inputs : Inputs[k] = f
<1>2. j \in DOMAIN Inputs /\ Inputs[j] = f
  BY <1>1
<1>3. j \in 1..Len(Inputs)
  BY <1>2, ProgramsAssumption
<1>4. FileIdOf(f) = j - 1 /\ Len(Inputs) \in Nat
  BY ProgramsAssumption DEF FileIdOf
<1> HIDE DEF j
<1>5. QED
  BY <1>2, <1>3, <1>4

\* Against the map of all inputs a diagnostic names its file.
LEMMA ShownMerged == ASSUME NEW f \in File PROVE Shown(f, Inputs) = f
  BY FileIds DEF Shown

\* Against the map of one file it names that file or none.
LEMMA ShownAlone == ASSUME NEW f \in File PROVE Shown(f, <<f>>) \in File \cup {Unknown}
  BY FileIds DEF Shown

\* The passes find their errors in files of the command line.
LEMMA ErrorsInFiles ==
    ASSUME NEW p \in Programs
    PROVE  /\ \A pass \in Pass : p.errors[pass] \subseteq File
           /\ EntryErrors(p) \subseteq File
           /\ p.classes \in Seq(Class)
<1>1. p \in Program
  BY ProgramsAssumption
<1>2. \A pass \in Pass : p.errors[pass] \subseteq File
  BY <1>1 DEF Program
<1>3. p.classes \in Seq(Class) /\ p.mains \in Seq(MainDef)
  BY <1>1 DEF Program
<1>4. Inputs[1] \in File
  BY ProgramsAssumption DEF File
<1>5. p.mains # <<>> => p.mains[1].file \in File
  <2>1. p.mains # <<>> => p.mains[1] \in MainDef
    BY <1>3
  <2>2. QED
    BY <2>1 DEF MainDef
<1>6. EntryErrors(p) \subseteq File
  BY <1>4, <1>5 DEF EntryErrors
<1>7. QED
  BY <1>2, <1>3, <1>6

-----------------------------------------------------------------------------
(* Types                                                                   *)

\* What emit_diagnostics adds has the type of a diagnostic.
Diagnostics(pass, fs, map) ==
    {[pass |-> pass, file |-> f, shown |-> Shown(f, map)] : f \in fs}

LEMMA DiagnosticsTyped ==
    ASSUME NEW pass \in Pass \cup {"entry"}, NEW fs \in SUBSET File, NEW map,
           \A f \in fs : Shown(f, map) \in File \cup {Unknown}
    PROVE  Diagnostics(pass, fs, map) \subseteq Printed
  BY DEF Diagnostics, Printed

-----------------------------------------------------------------------------
(* The inductive invariant                                                 *)

Late == {"resolve", "type", "coherence", "exhaustive", "entry", "generate", "write", "fill", "ok"}
NoErrors(pass) == program.errors[pass] = {}

\* While files are read, the errors printed are those of the files read.
ReadSoFar ==
    /\ \A d \in printed : d.pass = "parse"
    /\ had_parse_errors <=> printed # {}
    /\ \A i \in DOMAIN Inputs :
          i < idx /\ Inputs[i] \in program.errors["parse"] =>
              \E d \in printed : d.pass = "parse" /\ d.file = Inputs[i]

\* Each phase is entered when the ones before it found nothing.
Passed ==
    /\ pc \in Late => printed = {} /\ NoErrors("parse")
    /\ pc \in Late \ {"resolve"} => NoErrors("resolve")
    /\ pc \in Late \ {"resolve", "type"} => NoErrors("type")
    /\ pc \in Late \ {"resolve", "type", "coherence"} => NoErrors("coherence")
    /\ pc \in Late \ {"resolve", "type", "coherence", "exhaustive"} => NoErrors("exhaustive")
    /\ pc \in {"generate", "write", "fill"} => EntryErrors(program) = {}

\* The class files before idx are there, but for one that is written again.
WrittenSoFar ==
    /\ pc = "write" =>
          \A i \in DOMAIN program.classes : i < idx => out[program.classes[i]] = run
    /\ pc = "fill" =>
          /\ idx \in DOMAIN program.classes
          /\ \A i \in DOMAIN program.classes :
                i < idx => \/ out[program.classes[i]] = run
                           \/ program.classes[i] = program.classes[idx]
    /\ pc = "ok" /\ command = "compile" =>
          \A i \in DOMAIN program.classes : out[program.classes[i]] = run

Running ==
    /\ pc # "idle" => exit = NoExit /\ ~ io_failed
    /\ pc = "mkdir" => printed = {} /\ idx = 1 /\ ~ had_parse_errors
    /\ pc \in {"mkdir", "entry", "generate", "write", "fill"} => command = "compile"
    /\ pc = "read" => ReadSoFar

IndInv ==
    /\ TypeOK
    /\ Running
    /\ Passed
    /\ WrittenSoFar
    /\ ReportsAreTrue
    /\ SuccessIsClean
    /\ SuccessIsComplete

-----------------------------------------------------------------------------
(* Types                                                                   *)

USE ExitsDiffer

LEMMA TypeInit == Init => TypeOK
<1> SUFFICES ASSUME Init PROVE TypeOK
  OBVIOUS
<1>1. idx \in Nat \ {0} /\ run \in Nat /\ out \in [Class -> {Absent, Torn} \cup Nat]
  BY DEF Init
<1>2. printed \subseteq Printed /\ exit \in {NoExit, Killed, 0, 1, 2}
  BY Zenon DEF Init
<1>3. had_parse_errors \in BOOLEAN /\ io_failed \in BOOLEAN /\ program \in Programs
  BY Zenon DEF Init
<1>4. command \in {"compile", "check"} /\ pc \in {"idle"}
  BY Zenon DEF Init
<1>5. QED
  BY <1>1, <1>2, <1>3, <1>4, Zenon DEF TypeOK

\* What a pass prints has the type of what is printed.
LEMMA PrintTyped ==
    ASSUME TypeOK, NEW pass \in Pass \cup {"entry"}, NEW fs \in SUBSET File, NEW map,
           \A f \in fs : Shown(f, map) \in File \cup {Unknown},
           emit_diagnostics(pass, fs, map)
    PROVE  printed' \subseteq Printed
<1>1. {[pass |-> pass, file |-> f, shown |-> Shown(f, map)] : f \in fs} \subseteq Printed
  BY DiagnosticsTyped DEF Diagnostics
<1>2. QED
  BY <1>1 DEF TypeOK, emit_diagnostics

LEMMA TypeStep == TypeOK /\ [Next]_vars => TypeOK'
<1> SUFFICES ASSUME TypeOK, [Next]_vars PROVE TypeOK'
  OBVIOUS
<1> USE DEF TypeOK, Go, Exit, CompileError, OtherError, Fail
<1>1. CASE UNCHANGED vars
  <2>1. /\ had_parse_errors' \in BOOLEAN /\ io_failed' \in BOOLEAN
        /\ out' \in [Class -> {Absent, Torn} \cup Nat]
        /\ program' \in Programs /\ printed' \subseteq Printed
    BY <1>1, Zenon DEF vars
  <2>2. command' \in {"compile", "check"} /\ exit' \in {NoExit, Killed, 0, 1, 2}
    BY <1>1, Zenon DEF vars
  <2>3. /\ pc' \in Pass \cup {"idle", "mkdir", "read", "entry", "generate", "write", "fill", "ok"}
        /\ idx' \in Nat \ {0} /\ run' \in Nat
    BY <1>1, Zenon DEF vars
  <2>4. QED
    BY <2>1, <2>2, <2>3
<1>2. ASSUME NEW c \in {"compile", "check"}, Begin(c) PROVE TypeOK'
  <2>1. had_parse_errors' \in BOOLEAN /\ io_failed' \in BOOLEAN /\ printed' \subseteq Printed
    BY <1>2, Zenon DEF Begin
  <2>2. idx' \in Nat \ {0} /\ run' \in Nat /\ pc' \in {"mkdir", "read"}
    BY <1>2 DEF Begin
  <2>3. QED
    BY <1>2, <2>1, <2>2 DEF Begin
<1>3. CASE MakeDir
  BY <1>3 DEF MakeDir, Pass
<1>4. CASE ReadInput
  <2> DEFINE found == {Inputs[idx]} \cap program.errors["parse"]
  <2>1. Inputs[idx] \in File
    BY <1>4, ProgramsAssumption DEF ReadInput, File
  <2>2. \A f \in found : Shown(f, <<Inputs[idx]>>) \in File \cup {Unknown}
    BY <2>1, ShownAlone
  <2>3. printed' \subseteq Printed
    <3>1. CASE emit_diagnostics("parse", found, <<Inputs[idx]>>)
      <4>1. found \in SUBSET File
        BY <2>1
      <4>2. QED
        BY <2>2, <3>1, <4>1, PrintTyped DEF Pass
    <3>2. CASE UNCHANGED printed
      BY <3>2
    <3>3. QED
      BY <1>4, <3>1, <3>2 DEF ReadInput
  <2>4. had_parse_errors' \in BOOLEAN
    BY <1>4, Zenon DEF ReadInput
  <2>5. idx' \in Nat \ {0}
    BY <1>4 DEF ReadInput
  <2>6. QED
    BY <1>4, <2>3, <2>4, <2>5 DEF ReadInput
<1>5. CASE AllRead
  BY <1>5 DEF AllRead, Pass
<1>6. ASSUME NEW pass \in Pass, NEW next \in Pass \cup {"entry", "ok"}, RunPass(pass, next)
      PROVE  TypeOK'
  <2>1. program.errors[pass] \subseteq File
    BY ErrorsInFiles
  <2>2. printed' \subseteq Printed
    BY <1>6, <2>1, ShownMerged, PrintTyped DEF RunPass
  <2>3. QED
    BY <1>6, <2>2 DEF RunPass
<1>7. CASE Resolve \/ TypeCheck \/ Coherence \/ Exhaustive
  BY <1>6, <1>7 DEF Resolve, TypeCheck, Coherence, Exhaustive, Pass
<1>8. CASE EntryPoint
  <2>1. EntryErrors(program) \subseteq File
    BY ErrorsInFiles
  <2>2. printed' \subseteq Printed
    BY <1>8, <2>1, ShownMerged, PrintTyped DEF EntryPoint
  <2>3. QED
    BY <1>8, <2>2 DEF EntryPoint
<1>9. CASE Generate
  BY <1>9 DEF Generate
<1>10. CASE Truncate
  BY <1>10 DEF Truncate
<1>11. CASE Fill
  <2>1. out' \in [Class -> {Absent, Torn} \cup Nat]
    BY <1>11 DEF Fill
  <2>2. idx' \in Nat \ {0}
    BY <1>11 DEF Fill
  <2>3. io_failed' \in BOOLEAN
    BY <1>11, Zenon DEF Fill
  <2>4. QED
    BY <1>11, <2>1, <2>2, <2>3 DEF Fill
<1>12. CASE AllWritten
  BY <1>12 DEF AllWritten
<1>13. CASE Succeed
  BY <1>13 DEF Succeed
<1>14. CASE Kill
  BY <1>14 DEF Kill
<1>15. CASE Edit
  BY <1>15 DEF Edit
<1>16. QED
  BY <1>1, <1>2, <1>3, <1>4, <1>5, <1>7, <1>8, <1>9, <1>10, <1>11, <1>12, <1>13, <1>14,
     <1>15 DEF Next, Step

-----------------------------------------------------------------------------
(* The invariant is inductive                                              *)

LEMMA IndInvInit == Init => IndInv
<1> SUFFICES ASSUME Init PROVE IndInv
  OBVIOUS
<1>1. printed = {} /\ pc = "idle" /\ exit = NoExit
  BY DEF Init
<1>2. exit \notin {0, 1}
  BY <1>1
<1>3. ReportsAreTrue
  BY <1>1, <1>2 DEF ReportsAreTrue, AllSyntaxErrorsReported, OnePassReports,
        ExitOneHasDiagnostics, MergedDiagnosticsNameTheirFile
<1>4. Running /\ Passed /\ WrittenSoFar
  BY <1>1 DEF Running, Passed, WrittenSoFar, Late
<1>5. QED
  BY <1>2, <1>3, <1>4, TypeInit DEF IndInv, SuccessIsClean, SuccessIsComplete

Reports == ReportsAreTrue /\ SuccessIsClean /\ SuccessIsComplete

\* What was printed is true of a run that has not ended.
LEMMA NotEnded ==
    ASSUME exit' \notin {0, 1}, OnePassReports', MergedDiagnosticsNameTheirFile'
    PROVE  Reports'
  BY DEF Reports, ReportsAreTrue, AllSyntaxErrorsReported, ExitOneHasDiagnostics,
         SuccessIsClean, SuccessIsComplete

\* A step that prints nothing and does not end the run with success or a
\* compile error.
LEMMA Quiet ==
    ASSUME IndInv, UNCHANGED printed, exit' \notin {0, 1}
    PROVE  Reports'
<1>1. OnePassReports' /\ MergedDiagnosticsNameTheirFile'
  BY DEF IndInv, ReportsAreTrue, OnePassReports, MergedDiagnosticsNameTheirFile
<1>2. QED
  BY <1>1, NotEnded

\* Beginning to run.
LEMMA BeginStep ==
    ASSUME IndInv, NEW c \in {"compile", "check"}, Begin(c)
    PROVE  Running' /\ Passed' /\ WrittenSoFar' /\ Reports'
<1>1. printed' = {} /\ exit' = NoExit /\ pc' \in {"mkdir", "read"} /\ idx' = 1
  BY DEF Begin
<1>2. io_failed' = FALSE /\ had_parse_errors' = FALSE
  BY DEF Begin
<1>3. pc' = "mkdir" => command' = "compile"
  BY DEF Begin
<1>4. Passed' /\ WrittenSoFar'
  BY <1>1 DEF Passed, WrittenSoFar, Late
<1>5. ReadSoFar'
  BY <1>1, <1>2, ProgramsAssumption DEF ReadSoFar
<1>6. Running'
  BY <1>1, <1>2, <1>3, <1>5 DEF Running
<1>7. OnePassReports' /\ MergedDiagnosticsNameTheirFile'
  BY <1>1 DEF OnePassReports, MergedDiagnosticsNameTheirFile
<1>8. Reports'
  BY <1>1, <1>7, NotEnded
<1>9. QED
  BY <1>4, <1>6, <1>8

\* After the end of a run nothing is asked of its phases.
LEMMA EndedHasNoPhase == pc' = "idle" => Running' /\ Passed' /\ WrittenSoFar'
  BY DEF Running, Passed, WrittenSoFar, Late

\* Failures of the environment.
LEMMA FailStep ==
    ASSUME IndInv, Fail, UNCHANGED printed
    PROVE  Running' /\ Passed' /\ WrittenSoFar' /\ Reports'
<1>1. pc' = "idle" /\ exit' = 2
  BY DEF Fail, OtherError, Exit
<1>2. QED
  BY <1>1, EndedHasNoPhase, Quiet

LEMMA MakeDirStep ==
    ASSUME IndInv, MakeDir
    PROVE  Running' /\ Passed' /\ WrittenSoFar' /\ Reports'
<1>1. CASE Go("read")
  <2>1. /\ printed = {} /\ idx = 1 /\ ~ had_parse_errors /\ exit = NoExit /\ ~ io_failed
    BY DEF IndInv, Running, MakeDir
  <2>2. /\ UNCHANGED <<printed, idx, had_parse_errors, exit, io_failed, program>>
        /\ pc' = "read"
    BY <1>1 DEF MakeDir, Go
  <2>3. ReadSoFar'
    BY <2>1, <2>2, ProgramsAssumption DEF ReadSoFar
  <2>4. Running' /\ Passed' /\ WrittenSoFar'
    BY <2>1, <2>2, <2>3 DEF Running, Passed, WrittenSoFar, Late
  <2>5. QED
    BY <2>1, <2>2, <2>4, Quiet
<1>2. CASE Fail
  BY <1>2, FailStep DEF MakeDir
<1>3. QED
  BY <1>1, <1>2 DEF MakeDir

\* Reading an input adds its errors, and those of the inputs before stay.
LEMMA ReadInputStep ==
    ASSUME IndInv, ReadInput
    PROVE  Running' /\ Passed' /\ WrittenSoFar' /\ Reports'
<1> DEFINE f == Inputs[idx]
           found == {f} \cap program.errors["parse"]
           new == {[pass |-> "parse", file |-> g, shown |-> Shown(g, <<f>>)] : g \in found}
<1>1. pc = "read" /\ exit = NoExit /\ ~ io_failed /\ ReadSoFar
  BY DEF IndInv, Running, ReadInput
<1>2. CASE Fail
  <2>1. UNCHANGED printed
    BY <1>1, <1>2, ExitsDiffer DEF ReadInput, Fail, OtherError, Exit, Go
  <2>2. QED
    BY <1>2, <2>1, FailStep
<1>3. CASE ~ Fail
  <2>1. /\ printed' = printed \cup new
        /\ had_parse_errors' = (had_parse_errors \/ found # {})
        /\ idx' = idx + 1
        /\ pc' = "read" /\ UNCHANGED <<program, exit, io_failed>>
    BY <1>3 DEF ReadInput, emit_diagnostics, Go
  <2>2. \A d \in printed' : d.pass = "parse"
    BY <1>1, <2>1 DEF ReadSoFar
  <2>3. had_parse_errors' <=> printed' # {}
    <3>1. found # {} <=> new # {}
      OBVIOUS
    <3>2. QED
      BY <1>1, <2>1, <3>1, Zenon DEF ReadSoFar
  <2>4. ASSUME NEW i \in DOMAIN Inputs, i < idx', Inputs[i] \in program'.errors["parse"]
        PROVE  \E d \in printed' : d.pass = "parse" /\ d.file = Inputs[i]
    <3>1. i \in Nat /\ idx \in Nat
      BY ProgramsAssumption DEF IndInv, TypeOK
    <3>2. CASE i < idx
      BY <1>1, <2>1, <2>4, <3>2 DEF ReadSoFar
    <3>3. CASE i = idx
      <4>1. f \in found
        BY <2>1, <2>4, <3>3
      <4>2. [pass |-> "parse", file |-> f, shown |-> Shown(f, <<f>>)] \in printed'
        BY <2>1, <4>1
      <4>3. QED
        BY <3>3, <4>2
    <3>4. QED
      BY <2>1, <2>4, <3>1, <3>2, <3>3
  <2>5. ReadSoFar'
    BY <2>2, <2>3, <2>4 DEF ReadSoFar
  <2>6. Running' /\ Passed' /\ WrittenSoFar'
    BY <1>1, <2>1, <2>5 DEF Running, Passed, WrittenSoFar, Late
  <2>7. OnePassReports' /\ MergedDiagnosticsNameTheirFile'
    BY <2>2 DEF OnePassReports, MergedDiagnosticsNameTheirFile
  <2>8. QED
    BY <1>1, <2>1, <2>6, <2>7, NotEnded
<1>4. QED
  BY <1>2, <1>3

\* When all is read and nothing was found there are no syntax errors; otherwise
\* all of them were printed.
LEMMA AllReadStep ==
    ASSUME IndInv, AllRead
    PROVE  Running' /\ Passed' /\ WrittenSoFar' /\ Reports'
<1>1. /\ pc = "read" /\ exit = NoExit /\ ~ io_failed /\ ReadSoFar
      /\ idx > Len(Inputs) /\ UNCHANGED <<program, printed, io_failed, had_parse_errors>>
  BY DEF IndInv, Running, AllRead, CompileError, Exit, Go
<1>2. \A f \in program.errors["parse"] : \E d \in printed : d.pass = "parse" /\ d.file = f
  <2>1. SUFFICES ASSUME NEW f \in program.errors["parse"]
                 PROVE  \E d \in printed : d.pass = "parse" /\ d.file = f
    OBVIOUS
  <2>2. f \in File
    BY ErrorsInFiles DEF IndInv, TypeOK, Pass
  <2>3. PICK i \in DOMAIN Inputs : Inputs[i] = f
    BY <2>2 DEF File
  <2>4. i < idx
    BY <1>1, ProgramsAssumption DEF IndInv, TypeOK
  <2>5. QED
    BY <1>1, <2>3, <2>4 DEF ReadSoFar
<1>3. CASE had_parse_errors
  <2>1. pc' = "idle" /\ exit' = 1
    BY <1>3 DEF AllRead, CompileError, Exit
  <2>2. printed' # {} /\ \A d \in printed' : d.pass = "parse"
    BY <1>1, <1>3 DEF ReadSoFar
  <2>3. ReportsAreTrue'
    BY <1>1, <1>2, <2>2 DEF ReportsAreTrue, AllSyntaxErrorsReported, OnePassReports,
          ExitOneHasDiagnostics, MergedDiagnosticsNameTheirFile, Pass
  <2>4. QED
    BY <2>1, <2>3, EndedHasNoPhase DEF Reports, SuccessIsClean, SuccessIsComplete
<1>4. CASE ~ had_parse_errors
  <2>1. printed = {} /\ program.errors["parse"] = {}
    BY <1>1, <1>2, <1>4 DEF ReadSoFar
  <2>2. pc' = "resolve" /\ UNCHANGED exit
    BY <1>4 DEF AllRead, Go
  <2>3. Running' /\ Passed' /\ WrittenSoFar'
    BY <1>1, <2>1, <2>2 DEF Running, Passed, WrittenSoFar, Late, NoErrors
  <2>4. QED
    BY <1>1, <2>2, <2>3, Quiet
<1>5. QED
  BY <1>3, <1>4

\* A pass over the merged program prints its errors, which are the first, and
\* ends the run when there are any.
LEMMA PassPrints ==
    ASSUME IndInv, NEW pass \in Pass \cup {"entry"}, NEW fs \in SUBSET File, pass # "parse",
           printed = {}, emit_diagnostics(pass, fs, Inputs)
    PROVE  /\ OnePassReports' /\ MergedDiagnosticsNameTheirFile'
           /\ \A d \in printed' : d.pass = pass
           /\ printed' = {} <=> fs = {}
<1>1. printed' = {[pass |-> pass, file |-> f, shown |-> Shown(f, Inputs)] : f \in fs}
  BY DEF emit_diagnostics
<1>2. printed' = {[pass |-> pass, file |-> f, shown |-> f] : f \in fs}
  BY <1>1, ShownMerged
<1>3. \A d \in printed' : d.pass = pass /\ d.shown = d.file
  BY <1>2
<1>4. OnePassReports'
  BY <1>3, Zenon DEF OnePassReports
<1>5. MergedDiagnosticsNameTheirFile'
  BY <1>3, Zenon DEF MergedDiagnosticsNameTheirFile
<1>6. printed' = {} <=> fs = {}
  BY <1>2
<1>7. QED
  BY <1>3, <1>4, <1>5, <1>6

LEMMA PassStep ==
    ASSUME IndInv, NEW pass \in Pass, pass # "parse", NEW next, RunPass(pass, next)
    PROVE  /\ Reports'
           /\ \/ pc' = "idle"
              \/ pc' = next /\ program.errors[pass] = {} /\ printed' = {}
                 /\ UNCHANGED <<program, command, exit, io_failed>>
<1>1. pc = pass /\ printed = {} /\ NoErrors("parse") /\ exit = NoExit /\ ~ io_failed
  BY DEF RunPass, IndInv, Running, Passed, Pass, Late
<1>2. program.errors[pass] \subseteq File
  BY ErrorsInFiles DEF IndInv, TypeOK
<1>3. /\ OnePassReports' /\ MergedDiagnosticsNameTheirFile'
      /\ \A d \in printed' : d.pass = pass
      /\ printed' = {} <=> program.errors[pass] = {}
  BY <1>1, <1>2, PassPrints DEF RunPass
<1>4. CASE program.errors[pass] # {}
  <2>1. pc' = "idle" /\ exit' = 1 /\ UNCHANGED program
    BY <1>4 DEF RunPass, CompileError, Exit
  <2>2. ReportsAreTrue'
    BY <1>1, <1>3, <1>4, <2>1 DEF ReportsAreTrue, AllSyntaxErrorsReported,
          ExitOneHasDiagnostics, NoErrors
  <2>3. QED
    BY <2>1, <2>2 DEF Reports, SuccessIsClean, SuccessIsComplete
<1>5. CASE program.errors[pass] = {}
  <2>1. pc' = next /\ UNCHANGED <<program, command, exit, io_failed>>
    BY <1>5 DEF RunPass, Go
  <2>2. QED
    BY <1>1, <1>3, <1>5, <2>1, NotEnded
<1>6. QED
  BY <1>4, <1>5

LEMMA PassesStep ==
    ASSUME IndInv, Resolve \/ TypeCheck \/ Coherence \/ Exhaustive
    PROVE  Running' /\ Passed' /\ WrittenSoFar' /\ Reports'
<1> USE DEF IndInv, Running, Passed, WrittenSoFar, Late, NoErrors
<1>1. CASE Resolve
  <2>1. RunPass("resolve", "type") /\ pc = "resolve"
    BY <1>1 DEF Resolve, RunPass
  <2>2. QED
    BY <2>1, PassStep, EndedHasNoPhase DEF Pass
<1>2. CASE TypeCheck
  <2>1. RunPass("type", "coherence") /\ pc = "type"
    BY <1>2 DEF TypeCheck, RunPass
  <2>2. QED
    BY <2>1, PassStep, EndedHasNoPhase DEF Pass
<1>3. CASE Coherence
  <2>1. RunPass("coherence", "exhaustive") /\ pc = "coherence"
    BY <1>3 DEF Coherence, RunPass
  <2>2. QED
    BY <2>1, PassStep, EndedHasNoPhase DEF Pass
<1>4. CASE Exhaustive
  <2>1. /\ RunPass("exhaustive", IF command = "compile" THEN "entry" ELSE "ok")
        /\ pc = "exhaustive"
    BY <1>4 DEF Exhaustive, RunPass
  <2>2. QED
    BY <2>1, PassStep, EndedHasNoPhase DEF Pass
<1>5. QED
  BY <1>1, <1>2, <1>3, <1>4

\* An entry point that is missing or not valid ends the compilation.
LEMMA EntryPointStep ==
    ASSUME IndInv, EntryPoint
    PROVE  Running' /\ Passed' /\ WrittenSoFar' /\ Reports'
<1>1. pc = "entry" /\ printed = {} /\ exit = NoExit /\ ~ io_failed /\ command = "compile"
  BY DEF EntryPoint, IndInv, Running, Passed, Late
<1>2. EntryErrors(program) \subseteq File
  BY ErrorsInFiles DEF IndInv, TypeOK
<1>3. /\ OnePassReports' /\ MergedDiagnosticsNameTheirFile'
      /\ printed' = {} <=> EntryErrors(program) = {}
  BY <1>1, <1>2, PassPrints DEF EntryPoint
<1>4. CASE EntryErrors(program) # {}
  <2>1. pc' = "idle" /\ exit' = 2
    BY <1>4 DEF EntryPoint, OtherError, Exit
  <2>2. QED
    BY <1>3, <2>1, EndedHasNoPhase, NotEnded
<1>5. CASE EntryErrors(program) = {}
  <2>1. pc' = "generate" /\ UNCHANGED <<program, command, exit, io_failed>>
    BY <1>5 DEF EntryPoint, Go
  <2>2. Running' /\ Passed' /\ WrittenSoFar'
    BY <1>1, <1>3, <1>5, <2>1 DEF IndInv, Running, Passed, WrittenSoFar, Late, NoErrors
  <2>3. QED
    BY <1>1, <1>3, <2>1, <2>2, NotEnded
<1>6. QED
  BY <1>4, <1>5

\* Going on from one phase of the output to the next keeps what is known of
\* the program.
LEMMA GoOn ==
    ASSUME IndInv, NEW next \in {"write", "fill", "ok"}, pc \in {"generate", "write", "fill"},
           Go(next), UNCHANGED printed
    PROVE  Running' /\ Passed' /\ Reports'
<1>1. exit = NoExit /\ ~ io_failed /\ command = "compile"
  BY DEF IndInv, Running
<1>2. pc' = next /\ UNCHANGED <<program, command, exit, io_failed>>
  BY DEF Go
<1>3. Running'
  BY <1>1, <1>2 DEF Running
<1>4. Passed'
  BY <1>2 DEF IndInv, Passed, Late, NoErrors
<1>5. QED
  BY <1>1, <1>2, <1>3, <1>4, Quiet

LEMMA GenerateStep ==
    ASSUME IndInv, Generate
    PROVE  Running' /\ Passed' /\ WrittenSoFar' /\ Reports'
<1>1. CASE program.generates
  <2>1. Go("write") /\ UNCHANGED printed /\ pc = "generate"
    BY <1>1 DEF Generate
  <2>2. pc' = "write" /\ idx' = 1 /\ program' = program
    BY <2>1 DEF Generate, Go
  <2>3. program.classes \in Seq(Class)
    BY ErrorsInFiles DEF IndInv, TypeOK
  <2>4. WrittenSoFar'
    BY <2>2, <2>3 DEF WrittenSoFar
  <2>5. QED
    BY <2>1, <2>4, GoOn
<1>2. CASE ~ program.generates
  <2>1. pc' = "idle" /\ exit' = 2 /\ UNCHANGED printed
    BY <1>2 DEF Generate, OtherError, Exit
  <2>2. QED
    BY <2>1, EndedHasNoPhase, Quiet
<1>3. QED
  BY <1>1, <1>2

\* The file that is cut short may be one that was written before: then it is
\* the one that is written now.
LEMMA TruncateStep ==
    ASSUME IndInv, Truncate
    PROVE  Running' /\ Passed' /\ WrittenSoFar' /\ Reports'
<1> DEFINE class == program.classes[idx]
<1>1. pc = "write" /\ idx <= Len(program.classes) /\ UNCHANGED <<idx, printed>>
  BY DEF Truncate
<1>2. program.classes \in Seq(Class) /\ idx \in Nat \ {0} /\ out \in [Class -> {Absent, Torn} \cup Nat]
  BY ErrorsInFiles DEF IndInv, TypeOK
<1>3. CASE Fail
  BY <1>1, <1>3, FailStep
<1>4. CASE ~ Fail
  <2>1. out' = [out EXCEPT ![class] = Torn] /\ Go("fill")
    BY <1>4 DEF Truncate
  <2>2. pc' = "fill" /\ UNCHANGED <<program, run, idx>>
    BY <1>1, <2>1 DEF Go
  <2>3. idx' \in DOMAIN program'.classes
    BY <1>1, <1>2, <2>2
  <2>4. ASSUME NEW i \in DOMAIN program'.classes, i < idx'
        PROVE  \/ out'[program'.classes[i]] = run'
               \/ program'.classes[i] = program'.classes[idx']
    <3>1. program.classes[i] \in Class
      BY <1>2, <2>2, <2>4
    <3>2. out[program.classes[i]] = run
      BY <1>1, <2>2, <2>4 DEF IndInv, WrittenSoFar
    <3>3. CASE program.classes[i] = class
      BY <2>2, <3>3
    <3>4. CASE program.classes[i] # class
      <4>1. out'[program.classes[i]] = out[program.classes[i]]
        BY <1>2, <2>1, <3>1, <3>4
      <4>2. QED
        BY <2>2, <3>2, <4>1
    <3>5. QED
      BY <3>3, <3>4
  <2>5. WrittenSoFar'
    BY <2>2, <2>3, <2>4 DEF WrittenSoFar
  <2>6. QED
    BY <1>1, <2>1, <2>5, GoOn
<1>5. QED
  BY <1>3, <1>4

LEMMA FillStep ==
    ASSUME IndInv, Fill
    PROVE  Running' /\ Passed' /\ WrittenSoFar' /\ Reports'
<1> DEFINE class == program.classes[idx]
<1>1. pc = "fill" /\ UNCHANGED printed
  BY DEF Fill
<1>2. program.classes \in Seq(Class) /\ idx \in Nat \ {0} /\ out \in [Class -> {Absent, Torn} \cup Nat]
  BY ErrorsInFiles DEF IndInv, TypeOK
<1>3. CASE Fail
  BY <1>1, <1>3, FailStep
<1>4. CASE ~ Fail
  <2>1. out' = [out EXCEPT ![class] = run] /\ idx' = idx + 1 /\ Go("write")
    BY <1>4 DEF Fill
  <2>2. pc' = "write" /\ UNCHANGED <<program, run>>
    BY <2>1 DEF Go
  <2>3. ASSUME NEW i \in DOMAIN program'.classes, i < idx'
        PROVE  out'[program'.classes[i]] = run'
    <3>1. program.classes[i] \in Class /\ i \in Nat
      BY <1>2, <2>2
    <3>2. CASE program.classes[i] = class
      <4>1. out'[class] = run
        BY <1>2, <2>1, <3>1, <3>2
      <4>2. QED
        BY <2>2, <3>2, <4>1
    <3>3. CASE program.classes[i] # class
      <4>1. i < idx
        BY <1>2, <2>1, <2>3, <3>1, <3>3
      <4>2. out[program.classes[i]] = run
        BY <1>1, <2>2, <3>3, <4>1 DEF IndInv, WrittenSoFar
      <4>3. out'[program.classes[i]] = out[program.classes[i]]
        BY <1>2, <2>1, <3>1, <3>3
      <4>4. QED
        BY <2>2, <4>2, <4>3
    <3>4. QED
      BY <3>2, <3>3
  <2>4. WrittenSoFar'
    BY <2>2, <2>3 DEF WrittenSoFar
  <2>5. QED
    BY <1>1, <2>1, <2>4, GoOn
<1>5. QED
  BY <1>3, <1>4

LEMMA AllWrittenStep ==
    ASSUME IndInv, AllWritten
    PROVE  Running' /\ Passed' /\ WrittenSoFar' /\ Reports'
<1>1. pc = "write" /\ idx > Len(program.classes) /\ Go("ok") /\ UNCHANGED <<printed, out>>
  BY DEF AllWritten
<1>2. pc' = "ok" /\ UNCHANGED <<program, run>>
  BY <1>1 DEF Go
<1>3. program.classes \in Seq(Class) /\ idx \in Nat
  BY ErrorsInFiles DEF IndInv, TypeOK
<1>4. \A i \in DOMAIN program.classes : i < idx
  BY <1>1, <1>3
<1>5. WrittenSoFar'
  BY <1>1, <1>2, <1>4 DEF IndInv, WrittenSoFar
<1>6. QED
  BY <1>1, <1>5, GoOn

\* A run that gets to its end has found nothing and written everything.
LEMMA SucceedStep ==
    ASSUME IndInv, Succeed
    PROVE  Running' /\ Passed' /\ WrittenSoFar' /\ Reports'
<1>1. /\ pc = "ok" /\ pc' = "idle" /\ exit' = 0
      /\ UNCHANGED <<program, command, printed, io_failed, out, run>>
  BY DEF Succeed, Exit
<1>2. printed = {} /\ \A pass \in Pass : program.errors[pass] = {}
  BY <1>1 DEF IndInv, Passed, Late, Pass, NoErrors
<1>3. ~ io_failed
  BY <1>1 DEF IndInv, Running
<1>4. AllSyntaxErrorsReported' /\ SuccessIsClean'
  <2>1. "parse" \in Pass
    BY DEF Pass
  <2>2. QED
    BY <1>1, <1>2, <1>3, <2>1 DEF AllSyntaxErrorsReported, SuccessIsClean
<1>5. OnePassReports' /\ MergedDiagnosticsNameTheirFile' /\ ExitOneHasDiagnostics'
  BY <1>1, <1>2 DEF OnePassReports, MergedDiagnosticsNameTheirFile, ExitOneHasDiagnostics
<1>6. SuccessIsComplete'
  BY <1>1 DEF IndInv, WrittenSoFar, SuccessIsComplete
<1>7. QED
  BY <1>1, <1>4, <1>5, <1>6, EndedHasNoPhase DEF Reports, ReportsAreTrue

\* A run that is killed makes no claim.
LEMMA KillStep ==
    ASSUME IndInv, Kill
    PROVE  Running' /\ Passed' /\ WrittenSoFar' /\ Reports'
<1>1. pc' = "idle" /\ exit' = Killed /\ UNCHANGED printed
  BY DEF Kill
<1>2. QED
  BY <1>1, EndedHasNoPhase, Quiet

\* Once a source is edited the last run says nothing of it.
LEMMA EditStep ==
    ASSUME IndInv, Edit
    PROVE  Running' /\ Passed' /\ WrittenSoFar' /\ Reports'
<1>1. pc' = "idle" /\ exit' = NoExit /\ UNCHANGED printed
  BY DEF Edit
<1>2. QED
  BY <1>1, EndedHasNoPhase, Quiet

LEMMA IndInvStep == IndInv /\ [Next]_vars => IndInv'
<1> SUFFICES ASSUME IndInv, [Next]_vars PROVE IndInv'
  OBVIOUS
<1>1. TypeOK'
  BY TypeStep DEF IndInv
<1>2. CASE UNCHANGED vars
  <2>1. Running' /\ Passed'
    BY <1>2 DEF vars, IndInv, Running, Passed, ReadSoFar, Late, NoErrors
  <2>2. WrittenSoFar'
    BY <1>2 DEF vars, IndInv, WrittenSoFar
  <2>3. ReportsAreTrue'
    BY <1>2 DEF vars, IndInv, ReportsAreTrue, AllSyntaxErrorsReported, OnePassReports,
          ExitOneHasDiagnostics, MergedDiagnosticsNameTheirFile
  <2>4. SuccessIsClean' /\ SuccessIsComplete'
    BY <1>2 DEF vars, IndInv, SuccessIsClean, SuccessIsComplete
  <2>5. QED
    BY <1>1, <2>1, <2>2, <2>3, <2>4 DEF IndInv
<1>3. CASE Next
  <2>1. Running' /\ Passed' /\ WrittenSoFar' /\ Reports'
    BY <1>3, BeginStep, MakeDirStep, ReadInputStep, AllReadStep, PassesStep, EntryPointStep,
       GenerateStep, TruncateStep, FillStep, AllWrittenStep, SucceedStep, KillStep, EditStep
       DEF Next, Step
  <2>2. QED
    BY <1>1, <2>1 DEF IndInv, Reports
<1>4. QED
  BY <1>2, <1>3

-----------------------------------------------------------------------------
(* Theorems                                                                *)

LEMMA Inductive == Spec => []IndInv
  BY IndInvInit, IndInvStep, PTL DEF Spec

\* Every variable of a run stays in its type.
THEOREM TypeCorrect == Spec => []TypeOK
<1>1. IndInv => TypeOK
  BY DEF IndInv
<1>2. QED
  BY <1>1, Inductive, PTL

\* What a run prints and how it exits is true of the sources: all syntax errors
\* are reported, errors come from one pass, exit 1 stands for errors that were
\* printed, a diagnostic of a merged pass names its file (emit_diagnostics).
THEOREM ReportsCorrect == Spec => []ReportsAreTrue
<1>1. IndInv => ReportsAreTrue
  BY DEF IndInv
<1>2. QED
  BY <1>1, Inductive, PTL

\* Exit 0 means that no pass found anything wrong in any file.
THEOREM SuccessCorrect == Spec => []SuccessIsClean
<1>1. IndInv => SuccessIsClean
  BY DEF IndInv
<1>2. QED
  BY <1>1, Inductive, PTL

\* A compilation that exits 0 has left every class of the program whole in the
\* output directory, whatever failed or killed runs left there before.
THEOREM CompleteCorrect == Spec => []SuccessIsComplete
<1>1. IndInv => SuccessIsComplete
  BY DEF IndInv
<1>2. QED
  BY <1>1, Inductive, PTL

\* Only the two steps of fs::write touch the output.
LEMMA OutputChanges ==
    ASSUME IndInv, [Next]_vars, out' # out
    PROVE  pc \in {"write", "fill"}
  BY DEF Next, Step, vars, MakeDir, ReadInput, AllRead, Resolve, TypeCheck, Coherence,
         Exhaustive, RunPass, EntryPoint, Generate, Truncate, Fill, AllWritten, Succeed,
         Begin, Kill, Edit

\* A class file is only touched by a compilation that has found no error: a
\* failing run, or a check, leaves the last good build alone (compile).
THEOREM OutputCorrect == Spec => OutputOnlyWhenClean
<1>1. ASSUME IndInv, [Next]_vars
      PROVE  [out' # out => /\ command = "compile" /\ printed = {}
                            /\ \A pass \in Pass : program.errors[pass] = {}
                            /\ EntryErrors(program) = {}]_vars
  <2> SUFFICES ASSUME out' # out
               PROVE  /\ command = "compile" /\ printed = {}
                      /\ \A pass \in Pass : program.errors[pass] = {}
                      /\ EntryErrors(program) = {}
    OBVIOUS
  <2>1. pc \in {"write", "fill"}
    BY <1>1, OutputChanges
  <2>2. QED
    BY <1>1, <2>1 DEF IndInv, Running, Passed, Late, Pass, NoErrors
<1>2. QED
  BY <1>1, Inductive, PTL DEF Spec, OutputOnlyWhenClean

=============================================================================
