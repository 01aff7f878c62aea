------------------------------ MODULE MCSyntax ------------------------------
(***************************************************************************)
(* The texts the runs of the parser and of the formatter use: every text of a *)
(* few kinds of tokens up to a length that the parser accepts or may still    *)
(* accept, and items written out.                                            *)
(***************************************************************************)
EXTENDS Parser

\* Nothing wrong with it but that it ends.
Viable(toks) == LET P == ItemParsed(NewParser(toks)) IN P.ok \/ at_eof(P)

RECURSIVE Grow(_, _, _)
Grow(texts, alphabet, n) ==
    IF n = 0 THEN texts
    ELSE texts \cup Grow({t \in {s \o a : s \in texts, a \in alphabet} : Viable(t)}, alphabet, n - 1)
Continued(prefix, alphabet, n, suffix) == {t \o suffix : t \in Grow({prefix}, alphabet, n)}
Ones(S) == {<<t>> : t \in S}

Fn == <<"fn", "x", "(", ")", "{">>
End == <<"}">>

\* `<`, `>` and `>>` as operators, in calls, turbofishes and types.
AngleTexts(n) ==
    Continued(Fn \o <<"x">>, Ones({"x", "(", ")", "<", ">", ">>", ",", "::"}), n, End)
      \cup Continued(<<"fn", "x", "(", "x", ":">>, Ones({"X", "<", ">", ">>", ",", "?", "."}), n,
                 <<")">> \o Fn \o End)
      \cup Continued(<<"enum", "X", "<">>, Ones({"X", "<", ">", ">>", ",", ":", "+", "out"}), n,
                 <<"{", "}">>)

\* Operands and operators of every level.
Operators == {"=", "|>", "||", "&&", "|", "^", "&", "==", "<", "..", "<<", "+", "*"}
InfixTexts(n) ==
    Continued(Fn \o <<"x">>,
          {<<o, "x">> : o \in Operators} \cup {<<"?">>, <<"as", "X">>, <<"+", "-", "x">>,
                                               <<".", "y">>, <<"%=", "!", "x">>},
          n, End)

StatementTexts(n) ==
    Continued(Fn, {<<"x">>, <<"{">>, <<"}">>, <<";">>, <<"if", "x", "{", "}">>, <<"else">>,
               <<"unsafe">>, <<"safe">>, <<"-">>, <<"(">>, <<")">>}, n, End)

LetTexts(n) ==
    Continued(Fn \o <<"let">>, Ones({"x", "X", "(", ")", "=", "else", "{", "}", ";"}), n, End)
      \cup Continued(Fn \o <<"let", "x", "=">>,
                 {<<"x">>, <<"||">>, <<"|", "x", ":", "X", "|">>, <<"{">>, <<"let", "x", "=">>,
                  <<";">>, <<"}">>, <<"else", "{", "}">>, <<"[">>, <<"]">>, <<",">>}, n,
                 <<";", "}">>)

PatternTexts(n) ==
    Continued(Fn \o <<"match", "x", "{">>,
          Ones({"x", "X", "(", ")", ",", "..", ":", "|", "@", ".", "1", "_", "mut", "::"}), n,
          <<"=>", "x", "}">> \o End)

\* Expressions that begin with a keyword.
FormTexts == {Fn \o t \o End : t \in {
    <<"if", "let", "x", "=", "x", "{", "}", "else", "if", "x", "{", "}", "else", "{", "x", "}">>,
    <<"while", "let", "X", "(", "x", ")", "=", "x", "{", "}", "while", "x", "{", "break", "}">>,
    <<"for", "x", "in", "1", "..", "1", "{", "continue", ";", "}">>,
    <<"loop", "{", "break", "x", ";", "}", "return", "x">>,
    <<"match", "x", "{", "X", "if", "x", "=>", "{", "}", ",", "1", "..=", "1", "=>", "x", ",", "}">>,
    <<"x", "(", "x", "=", "#", "{", "x", ":", "x", ",", "}", ",", "[", "x", ",", "1", "]", ")">>,
    <<".", "X", "(", "x", ")", "|>", "X", "::", "<", "X", "<", "X", ">>", "::", "X">>,
    <<"safe", "?", "x", ".", "y", "<", "X", ">", "(", "x", ")">>,
    <<"let", "x", "=", "ref", "mut", "x", ";", "unsafe", "{", "*", "x", "}">>,
    <<"let", "x", ":", "fn", "(", "X", ",", "X", ")", "->", "ref", "mut", "X", "=",
      "|", "x", ",", "y", ":", "X", "|", "->", "X", "x", ";", "(", ")">>}}

Items == {
    <<"class", "X", "<", "reified", "out", "X", ":", "X", "+", "Y", ",", ">", "(",
      "@", "X", "(", "x", "=", "1", ")", "pub", "mut", "x", ":", "X", "<", "X", ">", "=", "x", ",",
      ")", ":", "X", ",", "Y", "{",
      "@", "X", "pub", "override", "fn", "x", "(", "mut", "self", ",", "x", ":", "X", "=", "1", ")",
      "->", "X", "?", "{", "}", "private", "abstract", "fn", "x", "(", ")", ";", "}">>,
    <<"@", "X", "pub", "sealed", "class", "X", "(", ")", ";">>,
    <<"data", "class", "Y", "(", "x", ":", "X", ")", ":", "X", ";">>,
    <<"enum", "X", "<", "X", ">", "{", "X", ",", "Y", "(", "x", ":", "X", ",", ")", "}">>,
    <<"trait", "X", "{", "type", "X", "=", "X", ";", "type", "Y", ";", "fn", "x", "(", "self", ")",
      ";", "fn", "y", "(", ")", "{", "}", "}">>,
    <<"impl", "<", "X", ">", "X", "<", "X", ">", "for", "Y", "{", "type", "X", "=", "Y", ";",
      "inline", "fn", "x", "(", ")", "{", "}", "}">>,
    <<"sealed", "trait", "X", "{", "}">>,
    <<"annotation", "class", "X", "(", "pub", "x", ":", "X", ",", ")">>,
    <<"pub", "typealias", "X", "<", "Y", ">", "=", "X", ";">>,
    <<"newtype", "X", "=", "Y", ";">>,
    <<"package", "x", ".", "y", ";">>,
    <<"import", "x", ".", "y", "as", "x", ";">>,
    <<"import", "x", ".", "X", ";">>,
    <<"inline", "fn", "x", "(", ")", "{", "}">>}

\* Items with errors, and one that is accepted with a `>` too many.
BrokenItems == {
    <<"fn", "x", "(", ")", "{">>,
    <<"fn", "x", "(", ")", "{", "let", "x", "=", "{">>,
    <<"fn", "x", "(", ")", "->", "X", "<", "X", ">>", "{", "}">>,
    <<"enum", "X", "<", "X", ":", "X", "<", "X", "<", "X", ">>">>,
    <<"class", "X", "{">>,
    <<"trait", "X", "{", "type">>,
    <<"impl", "X", "for">>,
    <<"typealias", "X", "=">>,
    <<"@", "(">>,
    <<"}", "x", ";", ")">>}
=============================================================================
