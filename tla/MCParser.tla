------------------------------ MODULE MCParser ------------------------------
EXTENDS ParserTexts, ParseFile

Chunks == Items \cup BrokenItems
MCFiles ==
    {<<t>> : t \in Short}
      \cup {<<b>> \o f : b \in BrokenItems, f \in {<<i>> : i \in Items} \cup Chunks \X Items}
=============================================================================
