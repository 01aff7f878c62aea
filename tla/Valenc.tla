------------------------------ MODULE Valenc ------------------------------
(***************************************************************************)
(* The command line compiler (crates/valenc, main.rs): one run of          *)
(* `valenc compile` or `valenc check` after another over the same inputs   *)
(* and the same output directory, with sources edited between the runs,    *)
(* file operations that fail and runs that are killed.                     *)
(*                                                                         *)
(* What the passes find in the sources is given: a program is a record of  *)
(* the files each pass reports an error in, the definitions named `main`   *)
(* and the classes the code generator returns.  Errors are meant: warnings *)
(* (naming conventions, resolve.rs 239-276; a `for` over a range of floats,*)
(* ty.rs 3669) are printed by the same calls and decide nothing, since     *)
(* every phase asks has_errors(); they are left out, and so are            *)
(* `emit-annotations` and `version`, which read no source.                 *)
(***************************************************************************)
EXTENDS Naturals, Sequences, FiniteSets

CONSTANTS Inputs,    \* the source files in command line order
          Unknown,   \* the path "<unknown>" of emit_diagnostics
          Class,     \* names of class files
          Programs,  \* the states the sources can be in
          Absent, Torn,  \* a class file that is not there, or cut short
          NoExit, Killed, \* instead of an exit code: none yet, killed
          MaxRuns    \* bound: runs

File == {Inputs[i] : i \in DOMAIN Inputs}
Pass == {"parse", "resolve", "type", "coherence", "exhaustive"}

\* `mains` lists the definitions named main in HIR order, methods included:
\* whether it is a top-level function, whether validate_entry_point is
\* content with its kind, parameters and return type, and its file.
MainDef == [top : BOOLEAN, valid : BOOLEAN, file : File]
Program == [errors : [Pass -> SUBSET File], mains : Seq(MainDef),
            generates : BOOLEAN, classes : Seq(Class)]

ASSUME ProgramsAssumption ==
    Inputs \in Seq(File) /\ Inputs # <<>> /\ Programs \subseteq Program
ASSUME ExitsDiffer == NoExit # Killed /\ {NoExit, Killed} \cap {0, 1, 2} = {}
ASSUME RunsAssumption == MaxRuns \in Nat

VARIABLES
    program,   \* the sources
    command,   \* the subcommand of this run
    pc,        \* what the run does next
    idx,       \* next input to read, or next class file to write
    had_parse_errors,
    printed,   \* errors printed in this run: pass, file, and the path shown
    io_failed, \* history: a file operation of this run failed
    exit,      \* exit code of the last run
    out,       \* the output directory: which run wrote each class file
    run        \* number of this run

vars == <<program, command, pc, idx, had_parse_errors, printed, io_failed,
          exit, out, run>>

-----------------------------------------------------------------------------
(* Helpers                                                                 *)

FileIdOf(f) == (CHOOSE i \in DOMAIN Inputs : Inputs[i] = f) - 1

\* emit_diagnostics: the FileId of a span selects the path in file_map.
Shown(f, file_map) ==
    IF FileIdOf(f) < Len(file_map) THEN file_map[FileIdOf(f) + 1] ELSE Unknown

emit_diagnostics(pass, fs, file_map) ==
    printed' = printed \cup {[pass |-> pass, file |-> f, shown |-> Shown(f, file_map)] :
                               f \in fs}

\* main: 1 for a CompileError, 2 for any other error.
Exit(code) ==
    /\ exit' = code
    /\ pc' = "idle"
    /\ UNCHANGED <<program, command, run>>

CompileError == Exit(1)
OtherError == Exit(2)

\* A file operation fails.
Fail ==
    /\ OtherError
    /\ io_failed' = TRUE

Go(next) == pc' = next /\ UNCHANGED <<program, command, exit, run, io_failed>>

-----------------------------------------------------------------------------
(* A run                                                                   *)

Begin(c) ==
    /\ pc = "idle" /\ run < MaxRuns
    /\ command' = c
    /\ run' = run + 1
    /\ pc' = IF c = "compile" THEN "mkdir" ELSE "read"
    /\ idx' = 1
    /\ had_parse_errors' = FALSE
    /\ printed' = {}
    /\ io_failed' = FALSE
    /\ exit' = NoExit
    /\ UNCHANGED <<program, out>>

\* compile: create_dir_all(out_dir)?
MakeDir ==
    /\ pc = "mkdir"
    /\ \/ Go("read")
       \/ Fail
    /\ UNCHANGED <<idx, had_parse_errors, printed, out>>

\* Faulty: reads a file with errors again.
Stuck_ReadInput ==
    /\ pc = "read" /\ idx <= Len(Inputs)
    /\ LET f == Inputs[idx]
           found == {f} \cap program.errors["parse"]
       IN  /\ emit_diagnostics("parse", found, <<f>>)
           /\ had_parse_errors' = (had_parse_errors \/ found # {})
           /\ idx' = IF found # {} THEN idx ELSE idx + 1
           /\ Go("read")
    /\ UNCHANGED out

\* The loop of run_pipeline_with_classpath: read, parse, print, go on.  The
\* diagnostics of a file are printed against a file_map of that file alone.
ReadInput ==
    /\ pc = "read" /\ idx <= Len(Inputs)
    /\ LET f == Inputs[idx]
           found == {f} \cap program.errors["parse"]
       IN  \/ /\ emit_diagnostics("parse", found, <<f>>)
              /\ had_parse_errors' = (had_parse_errors \/ found # {})
              /\ idx' = idx + 1
              /\ Go("read")
           \/ Fail /\ UNCHANGED <<idx, had_parse_errors, printed>>
    /\ UNCHANGED out

\* Faulty: goes on after syntax errors.
Faulty_AllRead ==
    /\ pc = "read" /\ idx > Len(Inputs)
    /\ Go("resolve")
    /\ UNCHANGED <<idx, had_parse_errors, printed, out>>

AllRead ==
    /\ pc = "read" /\ idx > Len(Inputs)
    /\ IF had_parse_errors
         THEN CompileError /\ UNCHANGED io_failed
         ELSE Go("resolve")
    /\ UNCHANGED <<idx, had_parse_errors, printed, out>>

\* Faulty: every pass runs, errors or not.
Faulty_RunPass(pass, next) ==
    /\ pc = pass
    /\ emit_diagnostics(pass, program.errors[pass], Inputs)
    /\ Go(next)
    /\ UNCHANGED <<idx, had_parse_errors, out>>

\* The passes over the merged program: print, stop at the first that has
\* errors.
RunPass(pass, next) ==
    /\ pc = pass
    /\ emit_diagnostics(pass, program.errors[pass], Inputs)
    /\ IF program.errors[pass] # {}
         THEN CompileError /\ UNCHANGED io_failed
         ELSE Go(next)
    /\ UNCHANGED <<idx, had_parse_errors, out>>

Resolve == RunPass("resolve", "type")
TypeCheck == RunPass("type", "coherence")
Coherence == RunPass("coherence", "exhaustive")
Exhaustive == RunPass("exhaustive", IF command = "compile" THEN "entry" ELSE "ok")

\* validate_entry_point: the first definition named main decides; without any
\* the diagnostic has a dummy span, in file 0.
EntryErrors(p) ==
    IF p.mains = <<>> THEN {Inputs[1]}
    ELSE IF p.mains[1].valid THEN {} ELSE {p.mains[1].file}

\* compile: entry point errors leave by bail!, not by CompileError.
\* Faulty: a missing entry point is only a warning.
Faulty_EntryPoint ==
    /\ pc = "entry"
    /\ emit_diagnostics("entry", EntryErrors(program), Inputs)
    /\ Go("generate")
    /\ UNCHANGED <<idx, had_parse_errors, out>>

EntryPoint ==
    /\ pc = "entry"
    /\ emit_diagnostics("entry", EntryErrors(program), Inputs)
    /\ IF EntryErrors(program) # {}
         THEN OtherError /\ UNCHANGED io_failed
         ELSE Go("generate")
    /\ UNCHANGED <<idx, had_parse_errors, out>>

\* compile_hir returns all class files or an error.
Generate ==
    /\ pc = "generate"
    /\ idx' = 1
    /\ IF program.generates
         THEN Go("write")
         ELSE OtherError /\ UNCHANGED io_failed
    /\ UNCHANGED <<had_parse_errors, printed, out>>

\* fs::write truncates the file first and then writes its bytes; either may
\* fail, and so may the creation of the class' directory before.
\* Faulty: takes a class file that is there for up to date.
Faulty_Truncate ==
    /\ pc = "write" /\ idx <= Len(program.classes)
    /\ \/ /\ out[program.classes[idx]] = Absent
          /\ out' = [out EXCEPT ![program.classes[idx]] = Torn]
          /\ Go("fill")
          /\ UNCHANGED idx
       \/ /\ out[program.classes[idx]] # Absent
          /\ idx' = idx + 1
          /\ Go("write")
          /\ UNCHANGED out
    /\ UNCHANGED <<had_parse_errors, printed>>

Truncate ==
    /\ pc = "write" /\ idx <= Len(program.classes)
    /\ \/ /\ out' = [out EXCEPT ![program.classes[idx]] = Torn]
          /\ Go("fill")
       \/ Fail /\ UNCHANGED out
    /\ UNCHANGED <<idx, had_parse_errors, printed>>

Fill ==
    /\ pc = "fill"
    /\ \/ /\ out' = [out EXCEPT ![program.classes[idx]] = run]
          /\ idx' = idx + 1
          /\ Go("write")
       \/ Fail /\ UNCHANGED <<out, idx>>
    /\ UNCHANGED <<had_parse_errors, printed>>

AllWritten ==
    /\ pc = "write" /\ idx > Len(program.classes)
    /\ Go("ok")
    /\ UNCHANGED <<idx, had_parse_errors, printed, out>>

Succeed ==
    /\ pc = "ok"
    /\ Exit(0)
    /\ UNCHANGED <<idx, had_parse_errors, printed, io_failed, out>>

Step == \/ MakeDir \/ ReadInput \/ AllRead \/ Resolve \/ TypeCheck \/ Coherence
        \/ Exhaustive \/ EntryPoint \/ Generate \/ Truncate \/ Fill \/ AllWritten
        \/ Succeed

-----------------------------------------------------------------------------
(* The environment (external)                                              *)

Kill ==
    /\ pc # "idle"
    /\ pc' = "idle"
    /\ exit' = Killed
    /\ UNCHANGED <<program, command, idx, had_parse_errors, printed, io_failed,
                   out, run>>

\* The sources are edited between two runs.
Edit ==
    /\ pc = "idle" /\ run < MaxRuns
    /\ program' \in Programs \ {program}
    /\ exit' = NoExit
    /\ UNCHANGED <<command, pc, idx, had_parse_errors, printed, io_failed, out, run>>

Init ==
    /\ program \in Programs
    /\ command = "check"
    /\ pc = "idle"
    /\ idx = 1
    /\ had_parse_errors = FALSE
    /\ printed = {}
    /\ io_failed = FALSE
    /\ exit = NoExit
    /\ out = [c \in Class |-> Absent]
    /\ run = 0

Next == Step \/ (\E c \in {"compile", "check"} : Begin(c)) \/ Kill \/ Edit

Spec == Init /\ [][Next]_vars

\* A process that is not killed runs on.
FairSpec == Spec /\ WF_vars(Step)

-----------------------------------------------------------------------------
(* Properties                                                              *)

\* Every variable stays in its type.
Printed == [pass : Pass \cup {"entry"}, file : File, shown : File \cup {Unknown}]

TypeOK ==
    /\ program \in Programs
    /\ command \in {"compile", "check"}
    /\ pc \in Pass \cup {"idle", "mkdir", "read", "entry", "generate", "write",
                         "fill", "ok"}
    /\ idx \in Nat \ {0}
    /\ had_parse_errors \in BOOLEAN
    /\ printed \subseteq Printed
    /\ io_failed \in BOOLEAN
    /\ exit \in {NoExit, Killed, 0, 1, 2}
    /\ out \in [Class -> {Absent, Torn} \cup Nat]
    /\ run \in Nat

\* Success means that no pass has found an error in any file; warnings may have
\* been printed (run_pipeline_with_classpath stops at the first pass that
\* reports errors).
SuccessIsClean ==
    exit = 0 => /\ printed = {} /\ ~ io_failed
                /\ \A pass \in Pass : program.errors[pass] = {}

\* After a compilation that succeeded each class of the program is in the
\* output directory, whole and from this run, whatever an earlier failed or
\* killed run left there (compile, fs::write).
SuccessIsComplete ==
    exit = 0 /\ command = "compile" =>
        \A i \in DOMAIN program.classes : out[program.classes[i]] = run

\* A class file is only touched by a compilation that has found no error: a
\* failing run or `check` leaves the last good build alone.
OutputOnlyWhenClean ==
    [][out' # out => /\ command = "compile" /\ printed = {}
                     /\ \A pass \in Pass : program.errors[pass] = {}
                     /\ EntryErrors(program) = {}]_vars

\* A run whose reading did not fail reports the syntax errors of every file,
\* not only of the first that has some.
AllSyntaxErrorsReported ==
    exit \in {0, 1} /\ ~ io_failed =>
        \A f \in program.errors["parse"] :
            \E d \in printed : d.pass = "parse" /\ d.file = f

\* Errors of one run come from one pass: a pass never judges what an earlier
\* one has rejected.
OnePassReports == \A d, e \in printed : d.pass = e.pass

\* A compilation error is never taken for a failure of the environment: exit 1
\* is given exactly for errors that were printed (main, CompileError).
ExitOneHasDiagnostics ==
    exit = 1 => printed # {} /\ \A d \in printed : d.pass \in Pass

\* A diagnostic of a pass over the merged program names the file it is in
\* (emit_diagnostics).
MergedDiagnosticsNameTheirFile ==
    \A d \in printed : d.pass # "parse" => d.shown = d.file

\* What a run says is true: every error it was given by a pass is printed for
\* its file and comes from one pass, and the exit code tells errors of the
\* program from failures of the environment.
ReportsAreTrue ==
    /\ AllSyntaxErrorsReported
    /\ OnePassReports
    /\ ExitOneHasDiagnostics
    /\ MergedDiagnosticsNameTheirFile

\* A run comes to an end.
RunEnds == []<>(pc = "idle")

\* "Emit diagnostics using FileId from each span to select the correct file
\* path and line index" (emit_diagnostics).
DiagnosticsNameTheirFile == \A d \in printed : d.shown = d.file

\* "`fn main()` must exist for compiled executables" (compile): what was
\* compiled has a top-level main the JVM can start.
CompiledHasEntryPoint ==
    exit = 0 /\ command = "compile" =>
        \E i \in DOMAIN program.mains : program.mains[i].top /\ program.mains[i].valid

=============================================================================
