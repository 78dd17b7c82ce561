--------------------------- MODULE MCEepromStore ---------------------------
(* Values for TLC that a configuration file cannot write down.             *)
EXTENDS EepromStore

MCLower == [c \in {"A", "a", "b", "s"} |-> IF c = "A" THEN "a" ELSE c]
MCTexts == {<<>>, <<"A">>, <<"b", "A", "b">>, [i \in 1..9 |-> "a"]}
MCNumbers == {<<"high", "a">>}
MCRawWrites == {<<1, <<"A", "b", "s">>>>, <<6, <<"b">>>>}
=============================================================================
