---------------------------- MODULE ParserTexts -----------------------------
(* The texts of the run of the parser, in a module that TLC evaluates once.  *)
EXTENDS MCSyntax

Short == AngleTexts(4) \cup InfixTexts(3) \cup StatementTexts(4) \cup LetTexts(4)
           \cup PatternTexts(4) \cup FormTexts
=============================================================================
