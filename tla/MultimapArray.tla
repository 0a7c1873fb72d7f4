---------------------------- MODULE MultimapArray ----------------------------
(***************************************************************************)
(* The array of a multimap (a5_multimap.c): entries [key, values] kept in  *)
(* ascending order of their keys' ranks.  The rank of a key is given as a  *)
(* function, since a client may change what its keys compare as: imffs     *)
(* renames a File in place.  Positions count from 0, as in the code.       *)
(***************************************************************************)
EXTENDS Integers, SequencesExt

\* Variant: the search stops while one position is left to look at.
FindPosStopsEarly(keys, rank, sought) ==
  LET search[range \in (0 .. Len(keys)) \X (-1 .. Len(keys) - 1)] ==
        LET start == range[1]
            end == range[2]
            mid == (end - start) \div 2 + start
            comp == sought - rank[keys[mid + 1].key]
        IN IF start >= end THEN -1
           ELSE IF comp < 0 THEN search[<<start, mid - 1>>]
           ELSE IF comp > 0 THEN search[<<mid + 1, end>>]
           ELSE mid
  IN search[<<0, Len(keys) - 1>>]

\* find_key_pos: search by halves for a key of rank sought.
FindPos(keys, rank, sought) ==
  LET search[range \in (0 .. Len(keys)) \X (-1 .. Len(keys) - 1)] ==
        LET start == range[1]
            end == range[2]
            mid == (end - start) \div 2 + start
            comp == sought - rank[keys[mid + 1].key]
        IN IF start > end THEN -1
           ELSE IF comp < 0 THEN search[<<start, mid - 1>>]
           ELSE IF comp > 0 THEN search[<<mid + 1, end>>]
           ELSE mid
  IN search[<<0, Len(keys) - 1>>]

\* Variant: the comparison the wrong way round.
InsertPosReversed(keys, rank, sought) ==
  Min({p \in 0 .. Len(keys) : p = Len(keys) \/ rank[keys[p + 1].key] < sought})

\* insert_key_ordered: behind every key that is not greater.
InsertPos(keys, rank, sought) ==
  Min({p \in 0 .. Len(keys) : p = Len(keys) \/ sought < rank[keys[p + 1].key]})

\* Variant: a key removed just behind the position does not move it.
MovedDownLate(trav_pos, pos) ==
  IF pos + 1 < trav_pos /\ trav_pos > 0 THEN trav_pos - 1 ELSE trav_pos

\* The traversal's position follows the key it stands at.
MovedUp(trav_pos, pos, max_keys) ==
  IF pos < trav_pos /\ trav_pos < max_keys THEN trav_pos + 1 ELSE trav_pos
MovedDown(trav_pos, pos) ==
  IF pos + 1 <= trav_pos /\ trav_pos > 0 THEN trav_pos - 1 ELSE trav_pos

\* What validate_multimap asserts of the order.
Ascending(keys, rank) ==
  \A i \in 1 .. Len(keys) - 1 : rank[keys[i].key] < rank[keys[i + 1].key]
=============================================================================
