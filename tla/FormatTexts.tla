---------------------------- MODULE FormatTexts -----------------------------
(* The texts of the run of the formatter: those the parser accepts.          *)
EXTENDS MCSyntax

\* Operands in parentheses, of every level and in every place.
ParenTexts == {Fn \o t \o End : t \in
    {<<"(", "x", o, "x", ")", p, "x">> : o, p \in Operators}
      \cup {<<"x", p, "(", "x", o, "x", ")">> : o, p \in Operators}
      \cup {p \o <<"(">> \o e \o <<")">> \o s :
              e \in {<<"x", "+", "x">>, <<"-", "x">>, <<"x", "as", "X">>, <<"return", "x">>,
                     <<"||", "x">>, <<"{", "}">>, <<"if", "x", "{", "}">>, <<"x", "<", "x">>},
              p \in {<<>>, <<"-">>, <<"x", "+">>, <<"x", ">">>, <<"x", "=">>, <<"ref", "mut">>},
              s \in {<<>>, <<"(", ")">>, <<".", "x">>, <<"?">>, <<"as", "X">>, <<"<", "x">>,
                     <<">", "(", "x", ")">>, <<"+", "x">>}}}

Imports == {<<"import", "x", ".", "y", ";">>, <<"import", "x", ".", "X", ";">>,
            <<"import", "x", ".", "X", "as", "y", ";">>, <<"import", "y", ";">>}
ImportTexts == {a \o b \o c \o <<"enum", "X", "{", "}">> : a, b, c \in Imports}

Accepted == {t \in AngleTexts(3) \cup InfixTexts(2) \cup StatementTexts(3) \cup LetTexts(3)
                     \cup PatternTexts(3) \cup ParenTexts \cup ImportTexts
                     \cup FormTexts \cup Items :
                parse_file(t).errs = 0}
=============================================================================
