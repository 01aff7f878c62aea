-------------------------- MODULE FormatFiles_proof --------------------------
(***************************************************************************)
(* What valenfmt promises of the files it is given, for any formatter, any    *)
(* command line and any number of failing calls, kills and power failures.    *)
(***************************************************************************)
EXTENDS FormatFiles, TLAPS, SequenceTheorems

-----------------------------------------------------------------------------
(* The inductive invariant.                                                *)

\* The file being replaced is one to be replaced, and what will take its place
\* is the formatting of what it holds, whole and on the disk before the rename.
WriteInv ==
    pc \in Writing =>
        /\ ~ command.check
        /\ input \in Paths /\ input # Stdin
        /\ formatted = Formatting(disk[input].now)
        /\ formatted # Nothing
        /\ pc = "sync" => tmp = [text |-> formatted, synced |-> FALSE]
        /\ pc = "rename" => tmp = [text |-> formatted, synced |-> TRUE]

\* Files are on the disk as soon as they have their name, and hold one of the
\* texts they have had; a text they came by is one main could read.
DiskInv == \A p \in Paths :
    /\ disk[p].synced = TRUE
    /\ disk[p].now \in disk[p].held
    /\ command.check => disk[p].held = {command.files[p]}

\* Something needs formatting when one of the inputs done does.
NeedsInv ==
    command.check =>
        (needs_formatting <=> \E i \in 1 .. next : WouldChange(Source(i, command.files)))

ExitInv ==
    pc \in {"exit 0", "exit 1"} =>
        /\ next = Len(command.inputs)
        /\ pc = "exit 1" <=> (command.check /\ needs_formatting)

Inv == TypeOK /\ WriteInv /\ DiskInv /\ NeedsInv /\ ExitInv

-----------------------------------------------------------------------------

LEMMA CommandType ==
    ASSUME command \in Commands
    PROVE  /\ DOMAIN command.files = Paths
           /\ command.inputs \in Seq(Paths \cup {Stdin})
           /\ command.check \in BOOLEAN
           /\ Len(command.inputs) \in Nat
           /\ DOMAIN command.inputs = 1 .. Len(command.inputs)
           /\ \A i \in 1 .. Len(command.inputs) : command.inputs[i] \in Paths \cup {Stdin}
BY CommandsAreLines, ElementOfSeq, LenProperties

LEMMA InputType ==
    ASSUME TypeOK, next < Len(command.inputs)
    PROVE  /\ next \in Nat
           /\ next + 1 \in 1 .. Len(command.inputs)
           /\ input \in Paths \cup {Stdin}
           /\ input # Stdin => input \in Paths
<1>1. next + 1 \in 1 .. Len(command.inputs) /\ next \in Nat
  BY CommandType DEF TypeOK
<1> QED
  BY <1>1, CommandType DEF TypeOK, input

\* The files as main finds them when nothing has changed.
LEMMA SourceSame ==
    ASSUME TypeOK, DiskInv, command.check,
           NEW i \in 1 .. Len(command.inputs)
    PROVE  Source(i, texts) = Source(i, command.files)
<1>1. \A p \in Paths : disk[p].now = command.files[p]
  BY DEF DiskInv
<1>2. command.inputs[i] # Stdin => command.inputs[i] \in Paths
  BY CommandType DEF TypeOK
<1> QED
  BY <1>1, <1>2 DEF Source, texts

LEMMA InitInv == Init => Inv
<1> SUFFICES ASSUME Init PROVE Inv
  OBVIOUS
<1>1. command \in Commands /\ pc = "input" /\ next = 0 /\ needs_formatting = FALSE
  BY DEF Init
<1>2. \A p \in Paths : disk[p] = [now |-> command.files[p],
                                  held |-> {command.files[p]}, synced |-> TRUE]
  BY DEF Init
<1>8. \A p \in Paths : /\ disk[p].now = command.files[p]
                       /\ disk[p].held = {command.files[p]}
                       /\ disk[p].synced = TRUE
  <2> SUFFICES ASSUME NEW p \in Paths
               PROVE  /\ disk[p].now = command.files[p]
                      /\ disk[p].held = {command.files[p]}
                      /\ disk[p].synced = TRUE
    OBVIOUS
  <2>1. PICK old : old = command.files[p]
    OBVIOUS
  <2>2. disk[p] = [now |-> old, held |-> {old}, synced |-> TRUE]
    BY <1>2, <2>1
  <2> QED
    BY <2>1, <2>2
<1>3. TypeOK
  <2>1. next \in 0 .. Len(command.inputs)
    BY <1>1, CommandType
  <2>2. faults \in Nat
    BY CommandsAreLines DEF Init
  <2>3. DOMAIN disk = Paths
    BY DEF Init
  <2> QED
    BY <1>1, <1>2, <1>8, <2>1, <2>2, <2>3 DEF TypeOK, Writing, Ends
<1>4. WriteInv
  BY <1>1 DEF WriteInv, Writing
<1>5. DiskInv
  BY <1>8 DEF DiskInv
<1>6. NeedsInv
  BY <1>1 DEF NeedsInv
<1>7. ExitInv
  BY <1>1 DEF ExitInv
<1> QED
  BY <1>3, <1>4, <1>5, <1>6, <1>7 DEF Inv

LEMMA FormatInputInv == Inv /\ FormatInput => Inv'
<1> SUFFICES ASSUME Inv, FormatInput PROVE Inv'
  OBVIOUS
<1> USE DEF Inv
<1>1. PICK out : 
        LET source == Source(next + 1, texts)
            changes == out \notin {source, Nothing}
            replaces == changes /\ ~command.check /\ input # Stdin
        IN /\ out = Formatting(source)
           /\ needs_formatting' = NeedsFormatting(changes)
           /\ IF replaces
              THEN pc' = "write" /\ tmp' = [text |-> Torn, synced |-> FALSE] /\ formatted' = out
                   /\ UNCHANGED next
              ELSE next' = next + 1 /\ UNCHANGED <<pc, tmp, formatted>>
  BY DEF FormatInput
<1> DEFINE source == Source(next + 1, texts)
           changes == out \notin {source, Nothing}
           replaces == changes /\ ~command.check /\ input # Stdin
<1>2. /\ pc = "input" /\ next < Len(command.inputs)
      /\ UNCHANGED <<command, disk, faults>>
  BY DEF FormatInput
<1>3. /\ next \in Nat /\ next + 1 \in 1 .. Len(command.inputs)
      /\ input # Stdin => input \in Paths
  BY <1>2, InputType
<1>4. needs_formatting' = (needs_formatting \/ (command.check /\ changes))
  BY <1>1 DEF NeedsFormatting
<1>5. changes <=> WouldChange(source)
  BY <1>1 DEF WouldChange
<1>6. CASE replaces
  <2>1. pc' = "write" /\ formatted' = out /\ next' = next
    BY <1>1, <1>6
  <2>2. TypeOK'
    <3>1. needs_formatting' \in BOOLEAN
      BY <1>4 DEF TypeOK
    <3> QED
      BY <1>2, <2>1, <3>1 DEF TypeOK, Writing, Ends
  <2>3. input' = input
    BY <1>2, <2>1 DEF input
  <2>4. source = disk[input].now
    BY <1>3, <1>6 DEF Source, texts, input
  <2>5. WriteInv'
    BY <1>1, <1>2, <1>3, <1>6, <2>1, <2>3, <2>4 DEF WriteInv
  <2>6. DiskInv'
    BY <1>2 DEF DiskInv
  <2>7. NeedsInv'
    BY <1>2, <1>6 DEF NeedsInv
  <2>8. ExitInv'
    BY <2>1 DEF ExitInv
  <2> QED
    BY <2>2, <2>5, <2>6, <2>7, <2>8
<1>7. CASE ~ replaces
  <2>1. next' = next + 1 /\ pc' = "input"
    BY <1>1, <1>2, <1>7
  <2>2. TypeOK'
    <3>1. needs_formatting' \in BOOLEAN
      BY <1>4 DEF TypeOK
    <3>2. next' \in 0 .. Len(command.inputs)
      BY <1>3, <2>1
    <3> QED
      BY <1>2, <2>1, <3>1, <3>2 DEF TypeOK, Writing
  <2>3. WriteInv'
    BY <2>1 DEF WriteInv, Writing
  <2>4. DiskInv'
    BY <1>2 DEF DiskInv
  <2>5. NeedsInv'
    <3> SUFFICES ASSUME command.check
                 PROVE  needs_formatting' <=>
                          \E i \in 1 .. (next + 1) : WouldChange(Source(i, command.files))
      BY <1>2, <2>1 DEF NeedsInv, Source, FirstStdin, WouldChange
    <3>1. source = Source(next + 1, command.files)
      BY <1>3, SourceSame
    <3>2. needs_formatting <=> \E i \in 1 .. next : WouldChange(Source(i, command.files))
      BY DEF NeedsInv
    <3>3. 1 .. (next + 1) = (1 .. next) \cup {next + 1}
      BY <1>3
    <3>4. needs_formatting' <=> needs_formatting \/ WouldChange(Source(next + 1, command.files))
      BY <1>4, <1>5, <3>1
    <3> HIDE DEF changes, source
    <3> QED
      BY <3>2, <3>3, <3>4
  <2>6. ExitInv'
    BY <2>1 DEF ExitInv
  <2> QED
    BY <2>2, <2>3, <2>4, <2>5, <2>6
<1> QED
  BY <1>6, <1>7

LEMMA AtomicWriteInv == Inv /\ atomic_write => Inv'
<1> SUFFICES ASSUME Inv, atomic_write PROVE Inv'
  OBVIOUS
<1> USE DEF Inv
<1>1. UNCHANGED <<command, formatted, needs_formatting, stdout, faults>>
  BY DEF atomic_write
<1>2. pc \in Writing /\ next < Len(command.inputs)
  BY DEF atomic_write, Writing, TypeOK
<1>3. /\ ~ command.check /\ input \in Paths /\ formatted # Nothing
      /\ formatted = Formatting(disk[input].now)
  BY <1>2 DEF WriteInv
<1>4. NeedsInv'
  BY <1>1, <1>3 DEF NeedsInv
<1>5. CASE pc \in {"write", "sync"}
  <2>1. UNCHANGED <<disk, next>> /\ input' = input
    BY <1>1, <1>5 DEF atomic_write, input
  <2>2. \/ pc' = "sync" /\ tmp' = [text |-> formatted, synced |-> FALSE]
        \/ pc' = "rename" /\ tmp' = [text |-> formatted, synced |-> TRUE]
    <3>1. CASE pc = "write"
      BY <3>1 DEF atomic_write
    <3>2. CASE pc = "sync"
      BY <3>2 DEF atomic_write, WriteInv, Writing
    <3> QED
      BY <1>5, <3>1, <3>2
  <2>3. TypeOK'
    BY <1>1, <1>2, <2>1, <2>2 DEF TypeOK, Writing, Ends
  <2>4. WriteInv'
    BY <1>1, <1>2, <1>3, <2>1, <2>2 DEF WriteInv
  <2>5. DiskInv'
    BY <1>1, <2>1 DEF DiskInv
  <2>6. ExitInv'
    BY <2>2 DEF ExitInv
  <2> QED
    BY <1>4, <2>3, <2>4, <2>5, <2>6
<1>6. CASE pc = "rename"
  <2>1. pc' = "input" /\ next' = next + 1 /\ disk' = [disk EXCEPT ![input] = Renamed]
    BY <1>6 DEF atomic_write
  <2>2. tmp.text = formatted /\ tmp.synced = TRUE
    BY <1>2, <1>6 DEF WriteInv
  <2>3. /\ DOMAIN disk' = Paths
        /\ disk'[input] = [now |-> formatted, held |-> disk[input].held \cup {formatted},
                           synced |-> TRUE]
        /\ \A p \in Paths \ {input} : disk'[p] = disk[p]
    BY <1>3, <2>1, <2>2 DEF TypeOK, Renamed
  <2>4. TypeOK'
    <3>1. next' \in 0 .. Len(command.inputs)
      BY <1>2, <2>1, InputType
    <3>2. \A p \in Paths : disk'[p] = [now |-> disk'[p].now, held |-> disk'[p].held,
                                       synced |-> disk'[p].synced]
      BY <2>3 DEF TypeOK
    <3> QED
      BY <1>1, <2>1, <2>3, <3>1, <3>2 DEF TypeOK, Writing
  <2>5. WriteInv'
    BY <2>1 DEF WriteInv, Writing
  <2>6. DiskInv'
    BY <1>1, <1>3, <2>3 DEF DiskInv
  <2>7. ExitInv'
    BY <2>1 DEF ExitInv
  <2> QED
    BY <1>4, <2>4, <2>5, <2>6, <2>7
<1> QED
  BY <1>5, <1>6 DEF atomic_write

\* The exits, whatever way: nothing but disk and tmp can still change.
LEMMA EndInv ==
    ASSUME Inv, UNCHANGED <<command, next, needs_formatting>>, faults' \in Nat,
           pc' \in Ends, ExitInv',
           DOMAIN disk' = Paths,
           \A p \in Paths : /\ disk'[p] = [now |-> disk'[p].now, held |-> disk'[p].held,
                                           synced |-> disk'[p].synced]
                            /\ disk'[p].held = disk[p].held
                            /\ disk'[p].synced = disk[p].synced
                            /\ disk'[p].now \in disk[p].held
    PROVE  Inv'
<1> USE DEF Inv
<1>1. TypeOK'
  BY DEF TypeOK, Ends, Writing
<1>2. WriteInv'
  BY DEF WriteInv, Ends, Writing
<1>3. DiskInv'
  BY DEF DiskInv
<1>4. NeedsInv'
  BY DEF NeedsInv, Source, FirstStdin, WouldChange
<1> QED
  BY <1>1, <1>2, <1>3, <1>4

LEMMA KilledKeeps ==
    ASSUME Inv, NEW power \in BOOLEAN, Killed(power)
    PROVE  /\ DOMAIN disk' = Paths
           /\ \A p \in Paths : /\ disk'[p] = [now |-> disk'[p].now, held |-> disk'[p].held,
                                              synced |-> disk'[p].synced]
                               /\ disk'[p].held = disk[p].held
                               /\ disk'[p].synced = disk[p].synced
                               /\ disk'[p].now \in disk[p].held
<1>1. PICK left :
        /\ \A p \in Paths : left[p] \in Remains(p, power)
        /\ disk' = [p \in Paths |-> [now |-> left[p], held |-> disk[p].held,
                                     synced |-> disk[p].synced]]
  BY DEF Killed
<1>2. \A p \in Paths : Remains(p, power) \subseteq disk[p].held
  BY DEF Inv, DiskInv, Remains
<1> QED
  BY <1>1, <1>2

LEMMA NextInv == Inv /\ [Next]_vars => Inv'
<1> SUFFICES ASSUME Inv, [Next]_vars PROVE Inv'
  OBVIOUS
<1>0. \A p \in Paths : /\ disk[p] = [now |-> disk[p].now, held |-> disk[p].held,
                                     synced |-> disk[p].synced]
                       /\ disk[p].now \in disk[p].held
  BY DEF Inv, TypeOK, DiskInv
<1>1. CASE FormatInput
  BY <1>1, FormatInputInv
<1>2. CASE atomic_write
  BY <1>2, AtomicWriteInv
<1>3. CASE Exit
  <2>1. ExitInv' /\ pc' \in Ends
    BY <1>3 DEF Exit, ExitInv, Ends
  <2> QED
    BY <1>0, <1>3, <2>1, EndInv DEF Exit, Inv, TypeOK
<1>4. CASE CallFails
  <2>1. ExitInv' /\ pc' \in Ends
    BY <1>4 DEF CallFails, ExitInv, Ends
  <2>2. faults' \in Nat
    BY <1>4 DEF CallFails, Inv, TypeOK
  <2> QED
    BY <1>0, <1>4, <2>1, <2>2, EndInv DEF CallFails, Inv, TypeOK
<1>5. ASSUME NEW power \in BOOLEAN, Killed(power) PROVE Inv'
  <2>1. ExitInv' /\ pc' \in Ends
    BY <1>5 DEF Killed, ExitInv, Ends
  <2>2. faults' \in Nat
    BY <1>5 DEF Killed, Inv, TypeOK
  <2> QED
    BY <1>5, <2>1, <2>2, KilledKeeps, EndInv DEF Killed
<1>6. CASE UNCHANGED vars
  BY <1>6 DEF vars, Inv, TypeOK, WriteInv, DiskInv, NeedsInv, ExitInv, input, Source,
              FirstStdin, WouldChange
<1> QED
  BY <1>1, <1>2, <1>3, <1>4, <1>5, <1>6 DEF Next

\* In every state what is under way in atomic_write is the formatting of the file
\* it will replace, and the files are whole.
THEOREM InvCorrect == Spec => []Inv
<1> QED
  BY InitInv, NextInv, PTL DEF Spec

-----------------------------------------------------------------------------
(* What --check says.                                                      *)

\* valenfmt --check fails exactly when valenfmt would change one of its inputs,
\* and changes nothing, in whatever order they stand.
THEOREM CheckCorrect == Spec => []CheckIsExact
<1>1. Inv => CheckIsExact
  <2> SUFFICES ASSUME Inv, command.check PROVE
                 /\ \A p \in Paths : disk[p].now = command.files[p]
                 /\ pc \in {"exit 0", "exit 1"} =>
                      (pc = "exit 1" <=>
                         \E i \in DOMAIN command.inputs : WouldChange(Source(i, command.files)))
    BY DEF CheckIsExact
  <2>1. \A p \in Paths : disk[p].now = command.files[p]
    BY DEF Inv, DiskInv
  <2>2. DOMAIN command.inputs = 1 .. Len(command.inputs)
    BY CommandType DEF Inv, TypeOK
  <2>3. ASSUME pc \in {"exit 0", "exit 1"}
        PROVE  pc = "exit 1" <=>
                 \E i \in DOMAIN command.inputs : WouldChange(Source(i, command.files))
    <3>1. next = Len(command.inputs) /\ (pc = "exit 1" <=> needs_formatting)
      BY <2>3 DEF Inv, ExitInv
    <3> QED
      BY <2>2, <3>1 DEF Inv, NeedsInv
  <2> QED
    BY <2>1, <2>3
<1> QED
  BY <1>1, InvCorrect, PTL

-----------------------------------------------------------------------------
(* Texts with errors.                                                      *)

\* What a file has held besides its first text it came by through a formatting
\* of that one.
HeldInv == \A p \in Paths : \A t \in disk[p].held :
              t # command.files[p] => Readable(command.files[p])

\* What was printed is a sequence, empty until the first "-" has been done.
StdoutInv ==
    /\ Len(stdout) \in Nat
    /\ stdout = [i \in 1 .. Len(stdout) |-> stdout[i]]
    /\ ~ command.check => (Len(stdout) = 0 <=> FirstStdin(next + 1))
    /\ \A i \in 1 .. Len(stdout) : stdout[i] # StdinText(i) => Readable(StdinText(i))

ErrorsInv == HeldInv /\ StdoutInv

LEMMA AppendOutput ==
    ASSUME StdoutInv, NEW out, stdout' = Append(stdout, out)
    PROVE  /\ Len(stdout') = Len(stdout) + 1
           /\ stdout' = [i \in 1 .. Len(stdout') |-> stdout'[i]]
           /\ stdout'[Len(stdout) + 1] = out
           /\ \A i \in 1 .. Len(stdout) : stdout'[i] = stdout[i]
<1> DEFINE S == {stdout[i] : i \in 1 .. Len(stdout)} \cup {out}
<1>1. PICK n \in Nat : n = Len(stdout)
  BY DEF StdoutInv
<1>2. stdout = [i \in 1 .. n |-> stdout[i]]
  BY <1>1 DEF StdoutInv
<1>3. \A i \in 1 .. n : stdout[i] \in S
  BY <1>1
<1> HIDE DEF S
<1>4. [i \in 1 .. n |-> stdout[i]] \in Seq(S)
  BY <1>3
<1>5. stdout \in Seq(S) /\ out \in S
  BY <1>2, <1>4 DEF S
<1>6. PICK longer : longer = Append(stdout, out)
  OBVIOUS
<1>7. /\ longer \in Seq(S)
      /\ Len(longer) = Len(stdout) + 1
      /\ longer[Len(stdout) + 1] = out
      /\ \A i \in 1 .. Len(stdout) : longer[i] = stdout[i]
  BY <1>5, <1>6, AppendProperties
<1>8. longer = [i \in 1 .. Len(longer) |-> longer[i]]
  BY <1>7
<1> QED
  BY <1>6, <1>7, <1>8

LEMMA ErrorsInit == Init => ErrorsInv
<1> SUFFICES ASSUME Init PROVE ErrorsInv
  OBVIOUS
<1>1. HeldInv
  BY DEF Init, HeldInv
<1>2. Len(stdout) = 0 /\ stdout = <<>> /\ next = 0
  BY DEF Init
<1>3. StdoutInv
  BY <1>2 DEF StdoutInv, FirstStdin
<1> QED
  BY <1>1, <1>3 DEF ErrorsInv

LEMMA ErrorsNext == Inv /\ ErrorsInv /\ [Next]_vars => ErrorsInv'
<1> SUFFICES ASSUME Inv, ErrorsInv, [Next]_vars PROVE ErrorsInv'
  OBVIOUS
<1> USE DEF ErrorsInv
<1>1. CASE FormatInput
  <2>1. /\ next < Len(command.inputs)
        /\ UNCHANGED <<command, disk>>
    BY <1>1 DEF FormatInput
  <2>2. /\ next \in Nat /\ next + 1 \in 1 .. Len(command.inputs)
        /\ input # Stdin => input \in Paths
    BY <2>1, InputType DEF Inv
  <2>3. HeldInv'
    BY <2>1 DEF HeldInv
  <2>4. PICK out : 
          LET source == Source(next + 1, texts)
          IN /\ out = Formatting(source)
             /\ stdout' = IF input = Stdin /\ ~command.check
                          THEN Append(stdout, OrElse(out, source))
                          ELSE stdout
             /\ next' = next + 1 \/ (next' = next /\ input # Stdin)
    BY <1>1 DEF FormatInput
  <2>5. next' = next + 1 => (FirstStdin(next + 1)' <=> FirstStdin(next + 1) /\ input # Stdin)
    <3> SUFFICES ASSUME next' = next + 1
                 PROVE  FirstStdin(next + 1)' <=> FirstStdin(next + 1) /\ input # Stdin
      OBVIOUS
    <3>1. 1 .. ((next' + 1) - 1) = (1 .. ((next + 1) - 1)) \cup {next + 1}
      BY <2>2
    <3> QED
      BY <2>1, <3>1 DEF FirstStdin, input
  <2>6. CASE input = Stdin /\ ~ command.check
    <3> DEFINE n == Len(stdout)
               source == Source(next + 1, texts)
    <3>1. /\ stdout' = Append(stdout, OrElse(out, source))
          /\ out = Formatting(source)
          /\ next' = next + 1
      BY <2>4, <2>6
    <3>2. /\ Len(stdout') = n + 1
          /\ stdout' = [i \in 1 .. Len(stdout') |-> stdout'[i]]
          /\ stdout'[n + 1] = OrElse(out, source)
          /\ \A i \in 1 .. n : stdout'[i] = stdout[i]
      BY <3>1, AppendOutput
    <3>3. n \in Nat
      BY DEF StdoutInv
    <3>4. source = StdinText(n + 1)
      BY <2>6, <3>3 DEF Source, StdinText, input, StdoutInv
    <3>5. stdout'[n + 1] # source => Readable(source)
      <4>1. source \in {command.stdin, Empty}
        BY <3>4 DEF StdinText
      <4>2. ~ Readable(source) => Formatting(source) = Nothing
        BY <4>1, ErrorsAreReported DEF Inv, TypeOK
      <4> QED
        BY <3>1, <3>2, <4>2 DEF OrElse
    <3> HIDE DEF source
    <3>6. ASSUME NEW i \in 1 .. (n + 1), stdout'[i] # StdinText(i)
          PROVE  Readable(StdinText(i))
      <4>1. CASE i = n + 1
        BY <3>4, <3>5, <3>6, <4>1
      <4>2. CASE i # n + 1
        <5>1. i \in 1 .. n
          BY <3>3, <4>2
        <5> QED
          BY <3>2, <3>6, <5>1 DEF StdoutInv
      <4> QED
        BY <4>1, <4>2
    <3>7. ~ FirstStdin(next + 1)' /\ Len(stdout') # 0 /\ Len(stdout') \in Nat
      BY <2>5, <2>6, <3>1, <3>2, <3>3
    <3>8. \A i : StdinText(i)' = StdinText(i)
      BY <2>1 DEF StdinText
    <3> HIDE DEF n
    <3>9. StdoutInv'
      BY <3>2, <3>6, <3>7, <3>8 DEF StdoutInv
    <3> QED
      BY <2>3, <3>9
  <2>7. CASE ~ (input = Stdin /\ ~ command.check)
    <3>1. stdout' = stdout
      BY <2>4, <2>7
    <3>2. ~ command.check => (FirstStdin(next + 1)' <=> FirstStdin(next + 1))
      BY <2>1, <2>4, <2>5, <2>7 DEF FirstStdin
    <3>3. \A i : StdinText(i)' = StdinText(i)
      BY <2>1 DEF StdinText
    <3>4. StdoutInv'
      BY <2>1, <3>1, <3>2, <3>3 DEF StdoutInv
    <3> QED
      BY <2>3, <3>4
  <2> QED
    BY <2>6, <2>7
<1>2. ASSUME UNCHANGED <<command, next, stdout>> PROVE StdoutInv'
  BY <1>2 DEF StdoutInv, StdinText, FirstStdin
<1>3. CASE atomic_write
  <2>1. /\ UNCHANGED <<command, stdout>>
        /\ pc \in Writing /\ next < Len(command.inputs)
    BY <1>3 DEF atomic_write, Inv, TypeOK, Writing
  <2>2. CASE UNCHANGED <<disk, next>>
    BY <1>2, <2>1, <2>2 DEF HeldInv
  <2>3. CASE pc = "rename" /\ next' = next + 1 /\ disk' = [disk EXCEPT ![input] = Renamed]
    <3>1. /\ input \in Paths /\ input # Stdin
          /\ tmp.text = Formatting(disk[input].now) /\ tmp.text # Nothing
      BY <2>1, <2>3 DEF Inv, WriteInv
    <3>2. /\ disk'[input].held = disk[input].held \cup {tmp.text}
          /\ \A p \in Paths \ {input} : disk'[p] = disk[p]
      BY <2>3, <3>1 DEF Renamed, Inv, TypeOK
    <3>3. tmp.text # command.files[input] => Readable(command.files[input])
      <4>1. CASE disk[input].now = command.files[input]
        BY <3>1, <4>1, ErrorsAreReported DEF Inv, TypeOK
      <4>2. CASE disk[input].now # command.files[input]
        BY <3>1, <4>2 DEF Inv, DiskInv, HeldInv
      <4> QED
        BY <4>1, <4>2
    <3>4. HeldInv'
      BY <2>1, <3>2, <3>3 DEF HeldInv
    <3>5. FirstStdin(next + 1)' <=> FirstStdin(next + 1)
      <4>1. 1 .. ((next' + 1) - 1) = (1 .. ((next + 1) - 1)) \cup {next + 1}
        BY <2>1, <2>3, InputType DEF Inv
      <4> QED
        BY <2>1, <3>1, <4>1 DEF FirstStdin, input
    <3>6. \A i : StdinText(i)' = StdinText(i)
      BY <2>1 DEF StdinText
    <3>7. StdoutInv'
      BY <2>1, <3>5, <3>6 DEF StdoutInv
    <3> QED
      BY <3>4, <3>7
  <2> QED
    BY <1>3, <2>2, <2>3 DEF atomic_write
<1>4. CASE Exit \/ CallFails \/ UNCHANGED vars
  <2>1. UNCHANGED <<command, next, stdout, disk>>
    BY <1>4 DEF Exit, CallFails, vars
  <2> QED
    BY <1>2, <2>1 DEF HeldInv
<1>5. ASSUME NEW power \in BOOLEAN, Killed(power) PROVE ErrorsInv'
  <2>1. UNCHANGED <<command, next, stdout>>
    BY <1>5 DEF Killed
  <2>2. \A p \in Paths : disk'[p].held = disk[p].held
    BY <1>5, KilledKeeps
  <2> QED
    BY <1>2, <2>1, <2>2 DEF HeldInv
<1> QED
  BY <1>1, <1>3, <1>4, <1>5 DEF Next

\* A text with syntax errors is in its file as it was, and comes out of stdout as
\* it went in, whatever was formatted before it.
THEOREM ErrorsCorrect == Spec => []ErrorsUntouched
<1>1. Inv /\ ErrorsInv => ErrorsUntouched
  <2> SUFFICES ASSUME Inv, ErrorsInv PROVE ErrorsUntouched
    OBVIOUS
  <2>1. DOMAIN stdout = 1 .. Len(stdout)
    BY DEF ErrorsInv, StdoutInv
  <2> QED
    BY <2>1 DEF Inv, DiskInv, ErrorsInv, HeldInv, StdoutInv, ErrorsUntouched
<1> QED
  BY <1>1, ErrorsInit, ErrorsNext, InvCorrect, PTL DEF Spec

-----------------------------------------------------------------------------
(* Files stay whole.                                                       *)

LEMMA WholeInit == Init => Atomic!Init
<1> SUFFICES ASSUME Init PROVE Atomic!Init
  OBVIOUS
<1>1. \A p \in Paths : disk[p].held = {disk[p].now}
  BY DEF Init
<1> QED
  BY <1>1 DEF Atomic!Init, texts

LEMMA WholeNext ==
    Inv /\ [Next]_vars => [Atomic!Change]_<<texts, [p \in Paths |-> disk[p].held]>>
<1> SUFFICES ASSUME Inv, [Next]_vars
             PROVE  [Atomic!Change]_<<texts, [p \in Paths |-> disk[p].held]>>
  OBVIOUS
<1>1. CASE UNCHANGED disk
  BY <1>1 DEF texts
\* Each file is formatted or goes back to a text it had.
<1>2. ASSUME \A p \in Paths :
                /\ \/ disk'[p].now = FormatOf(disk[p].now)
                   \/ disk'[p].now \in disk[p].held
                /\ disk'[p].held = disk[p].held \cup {disk'[p].now}
      PROVE  Atomic!Change
  BY <1>2 DEF Atomic!Change, Atomic!Reformat, Atomic!Revert, texts
<1>3. CASE pc = "rename" /\ atomic_write
  <2>1. disk' = [disk EXCEPT ![input] = Renamed] /\ pc \in Writing
    BY <1>3 DEF atomic_write, Writing
  <2>2. /\ input \in Paths
        /\ tmp.text = Formatting(disk[input].now) /\ tmp.text # Nothing
    BY <1>3, <2>1 DEF Inv, WriteInv
  <2>3. /\ disk'[input].now = FormatOf(disk[input].now)
        /\ disk'[input].held = disk[input].held \cup {disk'[input].now}
        /\ \A p \in Paths \ {input} : disk'[p] = disk[p]
    BY <2>1, <2>2 DEF Renamed, Inv, TypeOK, FormatOf, OrElse
  <2>4. \A p \in Paths : disk[p].now \in disk[p].held
    BY DEF Inv, DiskInv
  <2>5. \A p \in Paths \ {input} : disk[p].held = disk[p].held \cup {disk[p].now}
    BY <2>4
  <2> QED
    BY <1>2, <2>3, <2>4, <2>5
<1>4. ASSUME NEW power \in BOOLEAN, Killed(power) PROVE Atomic!Change
  <2>1. \A p \in Paths : disk'[p].held = disk[p].held /\ disk'[p].now \in disk[p].held
    BY <1>4, KilledKeeps
  <2>2. \A p \in Paths : disk[p].held = disk[p].held \cup {disk'[p].now}
    BY <2>1
  <2> QED
    BY <1>2, <2>1, <2>2
<1> QED
  BY <1>1, <1>3, <1>4 DEF Next, FormatInput, atomic_write, Exit, CallFails, vars

\* Whatever fails, and wherever the process is stopped or the power goes, a file
\* holds a complete text: one it has had, or the formatting of that.
THEOREM WholeCorrect == Spec => FilesStayWhole
<1> QED
  BY WholeInit, WholeNext, InvCorrect, PTL DEF Spec, FilesStayWhole, Atomic!Spec

=============================================================================
