--------------------------- MODULE OrderedMultimap ---------------------------
(***************************************************************************)
(* What a multimap promises: each key has a sequence of values, placed as  *)
(* the comparator of values says, and a traversal returns, in order, each  *)
(* key that stays from its start to its end exactly once, whatever is      *)
(* inserted or removed on the way.  Keys are known by their rank.          *)
(***************************************************************************)
EXTENDS Integers, FiniteSets, SequencesExt

CONSTANTS
  Ranks,        \* the keys, up to equality of compare_keys
  Values,       \* [num, data]
  Orders,       \* the comparators of values: "greater", "less", "num"
  MaxKeys,
  NoKey

VARIABLES
  order,        \* the comparator this multimap was created with
  map,          \* [Ranks -> Seq(Values)], <<>> for no key
  left,         \* the keys that the traversal still has to return
  walking,      \* whether a traversal is under way
  reply

vars == <<order, map, left, walking, reply>>

Present == {r \in Ranks : map[r] # <<>>}

Reply(op, result, key, values) ==
  [op |-> op, result |-> result, key |-> key, values |-> values]
Number(op, result) == Reply(op, result, NoKey, <<>>)

Init ==
  /\ order \in Orders
  /\ map = [r \in Ranks |-> <<>>]
  /\ left = {}
  /\ walking = FALSE
  /\ reply = Number("create", 0)

\* Where a new value goes: last, first, or so that the numbers ascend.
Placings(vals, v) ==
  CASE order = "greater" -> {Append(vals, v)}
    [] order = "less" -> {<<v>> \o vals}
    [] order = "num" ->
         {s \in {InsertAt(vals, i, v) : i \in 1 .. Len(vals) + 1} :
            \A i \in 1 .. Len(vals) : s[i].num <= s[i + 1].num}

Insert(r, v) ==
  /\ reply' = Number("insert", Len(map[r]) + 1)
  /\ r \in Present \/ Cardinality(Present) < MaxKeys
  /\ \E s \in Placings(map[r], v) : map' = [map EXCEPT ![r] = s]
  /\ UNCHANGED walking

\* A new key is returned by the traversal under way if one before it still is.
Join(r) ==
  IF walking /\ r \notin Present
    THEN \/ left' = left \cup {r}
         \/ (\A l \in left : r < l) /\ UNCHANGED left
    ELSE UNCHANGED left

InsertRefused ==
  /\ reply' = Number("insert", -1)
  /\ UNCHANGED <<map, left, walking>>

RemoveKey(r) ==
  /\ reply' = Number("remove", Len(map[r]))
  /\ map' = [map EXCEPT ![r] = <<>>]
  /\ left' = left \ {r}
  /\ UNCHANGED walking

CountKeys == reply' = Number("keys", Cardinality(Present))

CountValues(r) == reply' = Number("values", Len(map[r]))

GetValues(r, max) ==
  LET count == Min({max, Len(map[r])})
  IN reply' = Reply("get", count, NoKey, SubSeq(map[r], 1, count))

First ==
  /\ walking' = (Present # {})
  /\ IF Present = {}
       THEN left' = {} /\ reply' = Number("first", 0)
       ELSE /\ left' = Present \ {Min(Present)}
            /\ reply' = Reply("first", 1, Min(Present), <<>>)
  /\ UNCHANGED map

Step ==
  /\ walking' = (left # {})
  /\ IF left = {}
       THEN left' = {} /\ reply' = Number("next", IF walking THEN 0 ELSE -1)
       ELSE left' = left \ {Min(left)} /\ reply' = Reply("next", 1, Min(left), <<>>)
  /\ UNCHANGED map

Destroy ==
  /\ reply' = Number("destroy",
                Cardinality(Present) + SumFunction([r \in Present |-> Len(map[r])]))
  /\ map' = [r \in Ranks |-> <<>>]
  /\ left' = {}
  /\ walking' = FALSE

Ask ==
  /\ \/ CountKeys
     \/ \E r \in Ranks : CountValues(r) \/ \E max \in 0 .. Len(map[r]) + 1 : GetValues(r, max)
  /\ UNCHANGED <<map, left, walking>>

Next ==
  /\ \/ \E r \in Ranks : (\E v \in Values : Insert(r, v) /\ Join(r)) \/ RemoveKey(r)
     \/ InsertRefused
     \/ Ask
     \/ First
     \/ Step
     \/ Destroy
  /\ UNCHANGED order

Spec == Init /\ [][Next]_vars
=============================================================================
