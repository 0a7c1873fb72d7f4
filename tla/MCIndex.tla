-------------------------------- MODULE MCIndex --------------------------------
(* Small devices with their index. *)
EXTENDS MCDefrag, ImffsIndex

\* "a" and "A" are one name to strcasecmp; with three names for two files, a rename
\* can move a key past another one.
Spellings == {"a", "A", "b", "c"}
RankSpellings == [n \in Spellings |-> CASE n = "b" -> 2 [] n = "c" -> 3 [] OTHER -> 1]
=============================================================================
