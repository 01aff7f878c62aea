----------------------------- MODULE MCValenfmt ------------------------------
EXTENDS FormatTexts, Valenfmt

Tidy(t) == [toks |-> t, tidy |-> TRUE]
Untidy(t) == [toks |-> t, tidy |-> FALSE]

\* Two short files, one with a pair of imports to be sorted, and one with an error.
Class == <<"class", "X", ";">>
Unsorted == <<"import", "y", ";", "import", "x", ";">>
Broken == <<"class", ";">>
Choices == {Tidy(<<"class", "X", "{", "}">>), Untidy(Class), Untidy(Unsorted), Untidy(Broken)}

\* Every text once; with the short files, command lines of up to three inputs, and
\* at most MaxFaults calls that fail.
MaxFaults == 2
MCCommands ==
    [inputs : {<<"a">>}, check : {FALSE}, files : {[a |-> Untidy(t), b |-> Tidy(<<>>)] : t \in Accepted},
     stdin : {Tidy(<<>>)}, faults : {0}]
    \cup
    [inputs : {<<"a", "b">>, <<"a", "a">>, <<"a", "-", "b">>, <<"-", "b">>, <<"-", "-">>}, check : BOOLEAN,
     files : [{"a", "b"} -> Choices], stdin : {Untidy(Broken), Untidy(Class)},
     faults : {0, MaxFaults}]
=============================================================================
