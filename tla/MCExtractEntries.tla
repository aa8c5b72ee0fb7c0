-------------------------- MODULE MCExtractEntries --------------------------
(* Small instances of ExtractEntries: entries that resolve to two names;   *)
(* the first alternative of one is the other.                              *)
EXTENDS ExtractEntries

CONSTANTS file, file_1, file_1_1, file_2

MCNames == {file, file_1, file_1_1, file_2}
MCAlternatives ==
  [n \in MCNames |-> CASE n = file -> <<file_1, file_2>>
                       [] n = file_1 -> <<file_1_1>>
                       [] OTHER -> <<>>]
=============================================================================
