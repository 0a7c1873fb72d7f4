------------------------------ MODULE Multimap ------------------------------
(***************************************************************************)
(* a5_multimap.c: an array of keys kept in order and searched by halves, a *)
(* list of values for each, and one position for a traversal, which moves  *)
(* as keys are inserted and removed.  imffs uses it as its index; here any *)
(* client calls its operations in any order.  Assertions are on.           *)
(***************************************************************************)
EXTENDS Integers, FiniteSets, MultimapArray

CONSTANTS
  Keys,           \* addresses of keys
  KeyRank,        \* compare_keys: equal ranks compare equal
  Nums, Datas,    \* the two fields of a Value
  Orders,         \* comparators of values: "greater", "less" ignore their arguments
  MaxKeys,        \* max_keys of mm_create
  MaxValues,      \* bound on the values of all keys together
  NULL,
  MallocMayFail

ASSUME KeyRankAssumption == KeyRank \in [Keys -> Int]
ASSUME OrdersAssumption == Orders \subseteq {"greater", "less", "num"}
ASSUME MaxKeysAssumption == MaxKeys \in Nat
ASSUME MaxValuesAssumption == MaxValues \in Nat
ASSUME NumsAssumption == Nums \subseteq Int
ASSUME NullAssumption == NULL \notin Keys

VARIABLES
  order,      \* compare_values, given to mm_create
  keys,       \* [key, values] in the order of the array; num_keys is its length
  trav_pos,   \* the position mm_get_next_key looks at, or -1
  status,
  reply

vars == <<order, keys, trav_pos, status, reply>>

Values == [num : Nums, data : Datas]
Entry == [key : Keys, values : Seq(Values)]

Reply(op, result, key, values) ==
  [op |-> op, result |-> result, key |-> key, values |-> values]
Number(op, result) == Reply(op, result, NULL, <<>>)

num_keys == Len(keys)

CompareKeys(a, b) == KeyRank[a] - KeyRank[b]

CompareValues(v, w) ==
  CASE order = "greater" -> 1
    [] order = "less" -> -1
    [] order = "num" -> v.num - w.num

Lesser(a, b) == IF a < b THEN a ELSE b

\* Positions count from 0, as in the code.
KeyAt(pos) == keys[pos + 1].key
ValuesAt(pos) == keys[pos + 1].values

\* find_key_pos and insert_key_ordered
FindKeyPos(k) == FindPos(keys, KeyRank, KeyRank[k])
InsertionPos(k) == InsertPos(keys, KeyRank, KeyRank[k])

\* insert_value_ordered: before the first value that the new one is not after.
InsertedValue(vals, v) ==
  LET before(i) == i = Len(vals) + 1 \/ CompareValues(v, vals[i]) <= 0
  IN InsertAt(vals, Min({i \in 1 .. Len(vals) + 1 : before(i)}), v)

-----------------------------------------------------------------------------
Init ==
  /\ order \in Orders
  /\ keys = <<>>
  /\ trav_pos = -1
  /\ status = "running"
  /\ reply = Number("create", 0)

Running == status = "running"

CountAll == SumFunction([i \in DOMAIN keys |-> Len(keys[i].values)])

\* The bound of the model.
Roomy == CountAll < MaxValues

InsertKey(k, v) ==
  LET pos == InsertionPos(k) IN
  /\ Running
  /\ FindKeyPos(k) < 0
  /\ num_keys < MaxKeys
  /\ Roomy
  /\ keys' = InsertAt(keys, pos + 1, [key |-> k, values |-> InsertedValue(<<>>, v)])
  /\ trav_pos' = MovedUp(trav_pos, pos, MaxKeys)
  /\ reply' = Number("insert", 1)
  /\ UNCHANGED status

InsertMore(k, v) ==
  LET pos == FindKeyPos(k) IN
  /\ Running
  /\ pos >= 0
  /\ Roomy
  /\ keys' = [keys EXCEPT ![pos + 1].values = InsertedValue(@, v)]
  /\ reply' = Number("insert", Len(ValuesAt(pos)) + 1)
  /\ UNCHANGED <<trav_pos, status>>

\* A new key when there is no room, or a value without data.
InsertRefused ==
  /\ Running
  /\ reply' = Number("insert", -1)
  /\ UNCHANGED <<keys, trav_pos, status>>

InsertFull(k) == FindKeyPos(k) < 0 /\ num_keys >= MaxKeys /\ InsertRefused

InsertNoData == InsertRefused

\* The node of the value cannot be allocated: assert(result > 0).
InsertAborts(k) ==
  /\ MallocMayFail
  /\ Running
  /\ FindKeyPos(k) >= 0 \/ num_keys < MaxKeys
  /\ status' = "aborted"
  /\ UNCHANGED <<keys, trav_pos, reply>>

RemoveKey(k) ==
  LET pos == FindKeyPos(k) IN
  /\ Running
  /\ IF pos >= 0
       THEN /\ keys' = RemoveAt(keys, pos + 1)
            /\ trav_pos' = MovedDown(trav_pos, pos)
            /\ reply' = Number("remove", Len(ValuesAt(pos)))
       ELSE /\ reply' = Number("remove", 0)
            /\ UNCHANGED <<keys, trav_pos>>
  /\ UNCHANGED status

CountKeys == reply' = Number("keys", num_keys)

\* The values of k, none when it is no key.
ValuesOf(k) == IF FindKeyPos(k) >= 0 THEN ValuesAt(FindKeyPos(k)) ELSE <<>>

CountValues(k) == reply' = Number("values", Len(ValuesOf(k)))

GetValues(k, max) ==
  LET count == Min({max, Len(ValuesOf(k))})
  IN reply' = Reply("get", count, NULL, SubSeq(ValuesOf(k), 1, count))

Ask ==
  /\ Running
  /\ \/ CountKeys
     \/ \E k \in Keys : CountValues(k) \/ \E max \in 0 .. MaxValues : GetValues(k, max)
  /\ UNCHANGED <<keys, trav_pos, status>>

GetFirstKey ==
  /\ Running
  /\ IF num_keys > 0
       THEN trav_pos' = 1 /\ reply' = Reply("first", 1, KeyAt(0), <<>>)
       ELSE trav_pos' = -1 /\ reply' = Number("first", 0)
  /\ UNCHANGED <<keys, status>>

GetNextKey ==
  /\ Running
  /\ IF trav_pos < num_keys /\ trav_pos >= 0
       THEN /\ trav_pos' = trav_pos + 1
            /\ reply' = Reply("next", 1, KeyAt(trav_pos), <<>>)
       ELSE /\ trav_pos' = -1
            /\ reply' = Number("next", IF trav_pos < 0 THEN -1 ELSE 0)
  /\ UNCHANGED <<keys, status>>

\* Answers how many keys and values there were.
Destroy ==
  /\ Running
  /\ keys' = <<>>
  /\ trav_pos' = -1
  /\ status' = "destroyed"
  /\ reply' = Number("destroy", num_keys + CountAll)

Change ==
  \/ \E k \in Keys :
       \/ \E n \in Nums, d \in Datas :
            LET v == [num |-> n, data |-> d] IN InsertKey(k, v) \/ InsertMore(k, v)
       \/ InsertFull(k) \/ InsertAborts(k) \/ RemoveKey(k)
  \/ InsertNoData
  \/ Ask
  \/ GetFirstKey
  \/ GetNextKey
  \/ Destroy

Halted == ~Running /\ UNCHANGED <<keys, trav_pos, status, reply>>

Next == (Change \/ Halted) /\ UNCHANGED order

Spec == Init /\ [][Next]_vars

-----------------------------------------------------------------------------
(* Properties *)

\* What validate_multimap asserts before and after every operation: keys in
\* strict order, none without values, the position in its range.
ValidMultimap ==
  /\ keys \in Seq(Entry)
  /\ num_keys <= MaxKeys
  /\ trav_pos \in -1 .. MaxKeys
  /\ \A i \in DOMAIN keys : Len(keys[i].values) > 0
  /\ Ascending(keys, KeyRank)

\* The search by halves finds a key exactly when a look at every key would.
SearchFindsEveryKey ==
  \A k \in Keys :
    LET matches == {p \in 0 .. num_keys - 1 : CompareKeys(k, KeyAt(p)) = 0}
    IN IF matches = {} THEN FindKeyPos(k) = -1 ELSE FindKeyPos(k) \in matches

\* The ordered multimap that the array stands for.
Rank(k) == IF k = NULL THEN NULL ELSE KeyRank[k]
Ranks == {KeyRank[k] : k \in Keys}
PlacesOf(r) == {i \in DOMAIN keys : KeyRank[keys[i].key] = r}

Map == [r \in Ranks |-> IF PlacesOf(r) = {} THEN <<>>
                        ELSE keys[CHOOSE i \in PlacesOf(r) : TRUE].values]
Walking == trav_pos >= 0
Left == IF Walking THEN {KeyRank[keys[i].key] : i \in {j \in DOMAIN keys : j > trav_pos}}
        ELSE {}
Answer == [reply EXCEPT !.key = Rank(@)]

OM == INSTANCE OrderedMultimap WITH
        NoKey <- NULL, map <- Map, left <- Left, walking <- Walking, reply <- Answer

\* The array with its one position keeps the promise of an ordered multimap:
\* values stay with their key and in their order, and a traversal skips no key
\* that stays and returns none twice, though keys come and go before and behind
\* its position.  A key that is removed and inserted again counts as another: it
\* may be returned once more, or not any more.
ImplementsMultimap == OM!Spec
=============================================================================
