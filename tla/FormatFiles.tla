---------------------------- MODULE FormatFiles ------------------------------
(***************************************************************************)
(* The main program of valenfmt: it goes over its inputs, formats each and    *)
(* replaces the files that change.  Calls of the operating system may fail,   *)
(* the process may be killed and the power may go at any point.              *)
(*                                                                           *)
(* The texts and what formatting does to them are parameters: Valenfmt gives  *)
(* them the parser and the printer.                                          *)
(***************************************************************************)
EXTENDS Naturals, Sequences

CONSTANTS
    Paths,
    Commands,       \* [inputs, check, files, stdin, faults]: a command line, the texts of
                    \* the files and of stdin, how many calls may fail
    Formatting(_),  \* format_source of a text, Nothing for None
    Readable(_),    \* the parser finds no error in a text
    Nothing,        \* no text
    Torn,           \* a file of which a part only is there
    Empty           \* what stdin holds once it has been read

Stdin == "-"

ASSUME CommandsAreLines ==
    \A c \in Commands :
        /\ DOMAIN c.files = Paths
        /\ c.inputs \in Seq(Paths \cup {Stdin})
        /\ c.check \in BOOLEAN
        /\ c.faults \in Nat

\* format_source returns None when the parser finds errors.
ASSUME ErrorsAreReported ==
    \A c \in Commands :
        \A t \in {c.files[p] : p \in Paths} \cup {c.stdin, Empty} :
            ~ Readable(t) => Formatting(t) = Nothing

VARIABLES
    command,
    disk,           \* path -> [now, held, synced]: its text, the texts it has had, one of
                    \* which a power failure may bring back, whether the data is on the disk
    tmp,            \* the temporary file: [text, synced], or NoFile
    pc,             \* "input", "write", "sync", "rename", or how the process ended
    next,           \* the inputs that are done
    formatted,      \* what is to be written
    needs_formatting,
    stdout,
    faults          \* how many calls may still fail

vars == <<command, disk, tmp, pc, next, formatted, needs_formatting, stdout, faults>>

NoFile == [text |-> Nothing, synced |-> FALSE]
Ends == {"exit 0", "exit 1", "error", "killed"}
Writing == {"write", "sync", "rename"}

\* Faulty: prints nothing for a text with errors.
Faulty_OrElse(out, text) == out
OrElse(out, text) == IF out = Nothing THEN text ELSE out

\* What main reads as its i-th input from files with these texts.
FirstStdin(i) == \A j \in 1 .. (i - 1) : command.inputs[j] # Stdin
Source(i, files) ==
    IF command.inputs[i] # Stdin THEN files[command.inputs[i]]
    ELSE IF FirstStdin(i) THEN command.stdin ELSE Empty

input == command.inputs[next + 1]
texts == [p \in Paths |-> disk[p].now]

Init ==
    /\ command \in Commands
    /\ disk = [p \in Paths |->
                  [now |-> command.files[p], held |-> {command.files[p]}, synced |-> TRUE]]
    /\ tmp = NoFile /\ formatted = Nothing
    /\ pc = "input" /\ next = 0
    /\ needs_formatting = FALSE /\ stdout = <<>>
    /\ faults = command.faults

\* Faulty: the last input decides.
Faulty_NeedsFormatting(changes) == command.check /\ changes
NeedsFormatting(changes) == needs_formatting \/ (command.check /\ changes)

\* One input; only a file that changes is not done with that.
FormatInput ==
    /\ pc = "input" /\ next < Len(command.inputs)
    /\ \E source \in {Source(next + 1, texts)} :
       \E out \in {Formatting(source)} :
          LET changes == out \notin {source, Nothing}
              replaces == changes /\ ~command.check /\ input # Stdin
          IN /\ needs_formatting' = NeedsFormatting(changes)
             /\ stdout' = IF input = Stdin /\ ~command.check
                          THEN Append(stdout, OrElse(out, source))
                          ELSE stdout
             /\ IF replaces
                THEN pc' = "write" /\ tmp' = [text |-> Torn, synced |-> FALSE] /\ formatted' = out
                     /\ UNCHANGED next
                ELSE next' = next + 1 /\ UNCHANGED <<pc, tmp, formatted>>
    /\ UNCHANGED <<command, disk, faults>>

\* persist: the temporary file takes the place of the input.
Renamed == [now |-> tmp.text, held |-> disk[input].held \cup {tmp.text}, synced |-> tmp.synced]

\* Faulty: renames a file that is not on the disk yet.
Faulty_atomic_write ==
    /\ \/ pc = "write" /\ tmp' = [text |-> formatted, synced |-> FALSE] /\ pc' = "rename"
          /\ UNCHANGED <<disk, next>>
       \/ pc = "rename" /\ tmp' = NoFile /\ pc' = "input" /\ next' = next + 1
          /\ disk' = [disk EXCEPT ![input] = Renamed]
    /\ UNCHANGED <<command, formatted, needs_formatting, stdout, faults>>
\* atomic_write, a call a step.
atomic_write ==
    /\ \/ pc = "write" /\ tmp' = [text |-> formatted, synced |-> FALSE] /\ pc' = "sync"
          /\ UNCHANGED <<disk, next>>
       \/ pc = "sync" /\ tmp' = [text |-> tmp.text, synced |-> TRUE] /\ pc' = "rename"
          /\ UNCHANGED <<disk, next>>
       \/ pc = "rename" /\ tmp' = NoFile /\ pc' = "input" /\ next' = next + 1
          /\ disk' = [disk EXCEPT ![input] = Renamed]
    /\ UNCHANGED <<command, formatted, needs_formatting, stdout, faults>>

Exit ==
    /\ pc = "input" /\ next = Len(command.inputs)
    /\ pc' = IF command.check /\ needs_formatting THEN "exit 1" ELSE "exit 0"
    /\ UNCHANGED <<command, disk, tmp, next, formatted, needs_formatting, stdout, faults>>

\* A call fails: main returns the error, and the temporary file is dropped.
CallFails ==
    /\ faults > 0 /\ pc \notin Ends
    /\ pc = "input" => next < Len(command.inputs)
    /\ pc' = "error" /\ tmp' = NoFile
    /\ faults' = faults - 1
    /\ UNCHANGED <<command, disk, next, formatted, needs_formatting, stdout>>

\* What a file may hold when the process is killed; when it is the power that goes,
\* what is not on the disk is lost, and renames may be.
Remains(p, power) ==
    IF ~power THEN {disk[p].now}
    ELSE disk[p].held \cup {IF disk[p].synced THEN disk[p].now ELSE Torn}

Killed(power) ==
    /\ faults > 0 /\ pc \notin Ends
    /\ pc' = "killed"
    /\ \E left \in [Paths -> UNION {Remains(p, power) : p \in Paths}] :
          /\ \A p \in Paths : left[p] \in Remains(p, power)
          /\ disk' = [p \in Paths |-> [now |-> left[p], held |-> disk[p].held,
                                       synced |-> disk[p].synced]]
    /\ faults' = faults - 1
    /\ UNCHANGED <<command, tmp, next, formatted, needs_formatting, stdout>>

Next == FormatInput \/ atomic_write \/ Exit \/ CallFails \/ \E power \in BOOLEAN : Killed(power)

Spec == Init /\ [][Next]_vars

-----------------------------------------------------------------------------
TypeOK ==
    /\ command \in Commands
    /\ pc \in {"input"} \cup Writing \cup Ends
    /\ next \in 0 .. Len(command.inputs)
    /\ pc \in Writing => next < Len(command.inputs)
    /\ DOMAIN disk = Paths
    /\ \A p \in Paths : disk[p] = [now |-> disk[p].now, held |-> disk[p].held,
                                   synced |-> disk[p].synced]
    /\ needs_formatting \in BOOLEAN
    /\ faults \in Nat

(* A text with syntax errors is left as it is, in its file and on its way      *)
(* through stdin, whatever stands before it in the command line.             *)
StdinText(i) == IF i = 1 THEN command.stdin ELSE Empty
ErrorsUntouched ==
    /\ \A p \in Paths :
          disk[p].now # command.files[p] => Readable(command.files[p])
    /\ \A i \in DOMAIN stdout : stdout[i] # StdinText(i) => Readable(StdinText(i))

(* valenfmt --check fails exactly when valenfmt would change something, and     *)
(* changes nothing itself.                                                   *)
WouldChange(text) == Formatting(text) \notin {text, Nothing}
CheckIsExact ==
    command.check =>
        /\ \A p \in Paths : disk[p].now = command.files[p]
        /\ pc \in {"exit 0", "exit 1"} =>
              (pc = "exit 1" <=>
                 \E i \in DOMAIN command.inputs : WouldChange(Source(i, command.files)))

(* No text is ever torn or mixed: valenfmt implements AtomicFile, whatever      *)
(* fails and wherever it is stopped.                                         *)
FormatOf(text) == OrElse(Formatting(text), text)
Atomic == INSTANCE AtomicFile WITH
    Format <- FormatOf,
    content <- texts, held <- [p \in Paths |-> disk[p].held]
FilesStayWhole == Atomic!Spec
=============================================================================
