---------------------------- MODULE MultimapProofs ----------------------------
(***************************************************************************)
(* The array of a multimap, for any number of keys and any comparator: it  *)
(* stays valid, and its search by halves finds every key it holds.         *)
(***************************************************************************)
EXTENDS Multimap, DataLemmas

Inv == order \in Orders /\ ValidMultimap

LEMMA ValuesCompare ==
  ASSUME order \in Orders, NEW v \in Values, NEW w \in Values
  PROVE  CompareValues(v, w) \in Int
<1>1. v.num \in Int /\ w.num \in Int
  BY NumsAssumption DEF Values
<1>2. order \in {"greater", "less", "num"}
  BY OrdersAssumption
<1> QED BY <1>1, <1>2 DEF CompareValues

\* insert_value_ordered puts a value before the first that it is not after.
LEMMA ValuePlace ==
  ASSUME order \in Orders, NEW vals \in Seq(Values), NEW v \in Values
  PROVE  \E i \in 1 .. Len(vals) + 1 :
           /\ InsertedValue(vals, v) = InsertAt(vals, i, v)
           /\ i = Len(vals) + 1 \/ CompareValues(v, vals[i]) <= 0
           /\ \A j \in 1 .. i - 1 : CompareValues(v, vals[j]) > 0
<1> DEFINE n == Len(vals)
           before(i) == i = n + 1 \/ CompareValues(v, vals[i]) <= 0
           places == {i \in 1 .. n + 1 : before(i)}
           at == Min(places)
<1>1. n \in Nat
  OBVIOUS
<1>2. \A i \in 1 .. n : CompareValues(v, vals[i]) \in Int
  BY ValuesCompare
<1>3. InsertedValue(vals, v) = InsertAt(vals, at, v)
  BY DEF InsertedValue
<1>4. places \in SUBSET Nat /\ n + 1 \in places
  BY <1>1
<1>5. at \in places /\ \A i \in places : at <= i
  <2> HIDE DEF places
  <2> QED BY <1>4, LeastNumber
<1> HIDE DEF n, at
<1>6. at \in 1 .. n + 1 /\ before(at)
  BY <1>5
<1>7. ASSUME NEW j \in 1 .. at - 1 PROVE CompareValues(v, vals[j]) > 0
  <2>1. j \in 1 .. n /\ j < at
    BY <1>1, <1>6
  <2>2. j \in 1 .. n + 1 /\ j # n + 1 /\ j \notin places
    BY <1>1, <1>5, <1>6, <2>1
  <2>3. ~(CompareValues(v, vals[j]) <= 0)
    BY <2>2
  <2> QED BY <1>2, <2>1, <2>3
<1> QED BY <1>3, <1>6, <1>7 DEF n

LEMMA ValueInserted ==
  ASSUME order \in Orders, NEW vals \in Seq(Values), NEW v \in Values
  PROVE  /\ InsertedValue(vals, v) \in Seq(Values)
         /\ Len(InsertedValue(vals, v)) = Len(vals) + 1
<1>1. PICK i \in 1 .. Len(vals) + 1 : InsertedValue(vals, v) = InsertAt(vals, i, v)
  BY ValuePlace
<1> QED BY <1>1, InsertAtProperties

LEMMA KeysRanked ==
  ASSUME ValidMultimap
  PROVE  /\ Ranked(keys, KeyRank)
         /\ Len(keys) \in Nat
         /\ DOMAIN keys = 1 .. Len(keys)
         /\ \A i \in 1 .. Len(keys) :
              keys[i] \in Entry /\ keys[i].key \in Keys /\ keys[i].values \in Seq(Values)
         /\ \A k \in Keys : KeyRank[k] \in Int
<1>1. keys \in Seq(Entry)
  BY DEF ValidMultimap
<1>2. \A k \in Keys : KeyRank[k] \in Int
  BY KeyRankAssumption
<1>3. \A i \in 1 .. Len(keys) :
        keys[i] \in Entry /\ keys[i].key \in Keys /\ keys[i].values \in Seq(Values)
  <2> SUFFICES ASSUME NEW i \in 1 .. Len(keys)
               PROVE  keys[i] \in Entry /\ keys[i].key \in Keys /\ keys[i].values \in Seq(Values)
    OBVIOUS
  <2>1. keys[i] \in Entry
    BY <1>1
  <2> QED BY <2>1 DEF Entry
<1> QED BY <1>1, <1>2, <1>3 DEF Ranked

LEMMA KeyFound ==
  ASSUME ValidMultimap, NEW k \in Keys
  PROVE  IF \E p \in 0 .. num_keys - 1 : KeyRank[KeyAt(p)] = KeyRank[k]
         THEN /\ FindKeyPos(k) \in 0 .. num_keys - 1
              /\ KeyRank[KeyAt(FindKeyPos(k))] = KeyRank[k]
         ELSE FindKeyPos(k) = -1
<1>1. Ranked(keys, KeyRank) /\ Ascending(keys, KeyRank) /\ KeyRank[k] \in Int
  BY KeysRanked DEF ValidMultimap
<1>2. LET at == {p \in 0 .. Len(keys) - 1 : KeyRank[keys[p + 1].key] = KeyRank[k]}
      IN IF at = {} THEN FindPos(keys, KeyRank, KeyRank[k]) = -1
         ELSE FindPos(keys, KeyRank, KeyRank[k]) \in at
  BY <1>1, FindPosLocates
<1> QED BY <1>2 DEF FindKeyPos, KeyAt, num_keys

LEMMA KeyMissing ==
  ASSUME ValidMultimap, NEW k \in Keys, FindKeyPos(k) < 0
  PROVE  \A i \in 1 .. Len(keys) : KeyRank[keys[i].key] # KeyRank[k]
<1> SUFFICES ASSUME NEW i \in 1 .. Len(keys), KeyRank[keys[i].key] = KeyRank[k]
             PROVE  FALSE
  OBVIOUS
<1>1. i - 1 \in 0 .. num_keys - 1 /\ KeyRank[KeyAt(i - 1)] = KeyRank[k]
  BY KeysRanked DEF num_keys, KeyAt
<1>2. FindKeyPos(k) \in 0 .. num_keys - 1
  BY <1>1, KeyFound
<1> QED BY <1>2

-----------------------------------------------------------------------------
(* The array stays valid *)

LEMMA ValidInit == Init => Inv
<1> SUFFICES ASSUME Init PROVE Inv
  OBVIOUS
<1> QED BY MaxKeysAssumption DEF Init, Inv, ValidMultimap, num_keys, Ascending

LEMMA ValidInsertKey ==
  ASSUME Inv, NEW k \in Keys, NEW v \in Values, InsertKey(k, v), UNCHANGED order
  PROVE  Inv'
<1> DEFINE pos == InsertionPos(k)
           e == [key |-> k, values |-> InsertedValue(<<>>, v)]
<1>1. /\ keys \in Seq(Entry) /\ Ascending(keys, KeyRank) /\ Ranked(keys, KeyRank)
      /\ KeyRank[k] \in Int /\ trav_pos \in -1 .. MaxKeys /\ MaxKeys \in Nat
  BY KeysRanked, MaxKeysAssumption DEF Inv, ValidMultimap
<1>2. \A i \in 1 .. Len(keys) : KeyRank[keys[i].key] # KeyRank[k]
  BY KeyMissing DEF Inv, InsertKey
<1>3. e \in Entry /\ Len(e.values) = 1
  <2>1. <<>> \in Seq(Values) /\ Len(<<>>) = 0
    OBVIOUS
  <2>2. /\ InsertedValue(<<>>, v) \in Seq(Values)
        /\ Len(InsertedValue(<<>>, v)) = Len(<<>>) + 1
    BY <2>1, ValueInserted DEF Inv
  <2> QED BY <2>1, <2>2 DEF Entry
<1>4. pos \in 0 .. Len(keys) /\ pos = InsertPos(keys, KeyRank, KeyRank[e.key])
  BY <1>1, InsertPosSplits DEF InsertionPos
<1>5. keys' = InsertAt(keys, pos + 1, e) /\ num_keys < MaxKeys /\ trav_pos' = MovedUp(trav_pos, pos, MaxKeys)
  BY DEF InsertKey
<1> HIDE DEF pos
<1>6. Ascending(keys', KeyRank)
  <2>1. e.key = k
    OBVIOUS
  <2> HIDE DEF e
  <2> QED BY <1>1, <1>2, <1>3, <1>4, <1>5, <2>1, InsertedAscends
<1> HIDE DEF e
<1>7. pos + 1 \in 1 .. Len(keys) + 1
  BY <1>1, <1>4
<1>8. /\ keys' \in Seq(Entry) /\ Len(keys') = Len(keys) + 1
      /\ \A j \in 1 .. Len(keys) + 1 :
           keys'[j] = IF j < pos + 1 THEN keys[j] ELSE IF j = pos + 1 THEN e ELSE keys[j - 1]
  BY <1>1, <1>3, <1>5, <1>7, InsertAtProperties
<1>9. ASSUME NEW j \in DOMAIN keys' PROVE Len(keys'[j].values) > 0
  <2>1. j \in 1 .. Len(keys) + 1
    BY <1>8
  <2>2. \A i \in 1 .. Len(keys) : Len(keys[i].values) > 0
    BY <1>1 DEF Inv, ValidMultimap
  <2>3. CASE j < pos + 1
    <3>1. j \in 1 .. Len(keys)
      BY <1>1, <1>4, <2>1, <2>3
    <3>2. keys'[j] = keys[j]
      BY <1>8, <2>1, <2>3
    <3> QED BY <2>2, <3>1, <3>2
  <2>4. CASE j = pos + 1
    <3>1. keys'[j] = e
      <4>1. ~(j < pos + 1)
        BY <1>4, <2>4
      <4> QED BY <1>8, <2>1, <2>4, <4>1
    <3>2. Len(e.values) > 0
      BY <1>3
    <3> QED BY <3>1, <3>2, Zenon
  <2>5. CASE j > pos + 1
    <3>1. j - 1 \in 1 .. Len(keys)
      BY <1>1, <1>4, <2>1, <2>5
    <3>2. keys'[j] = keys[j - 1]
      BY <1>1, <1>4, <1>8, <2>1, <2>5
    <3> QED BY <2>2, <3>1, <3>2
  <2> QED BY <1>4, <2>1, <2>3, <2>4, <2>5
<1>10. trav_pos' \in -1 .. MaxKeys
  BY <1>1, <1>5 DEF MovedUp
<1>11. Len(keys') <= MaxKeys
  BY <1>1, <1>5, <1>8 DEF num_keys
<1> QED BY <1>6, <1>8, <1>9, <1>10, <1>11 DEF Inv, ValidMultimap, num_keys

LEMMA ValidInsertMore ==
  ASSUME Inv, NEW k \in Keys, NEW v \in Values, InsertMore(k, v), UNCHANGED order
  PROVE  Inv'
<1> DEFINE at == FindKeyPos(k) + 1
           more == InsertedValue(keys[at].values, v)
<1>1. at \in 1 .. Len(keys)
  BY KeyFound, KeysRanked DEF Inv, InsertMore, num_keys
<1>2. keys \in Seq(Entry) /\ Len(keys) \in Nat /\ keys[at] \in Entry /\ keys[at].values \in Seq(Values)
  BY <1>1, KeysRanked DEF Inv, ValidMultimap
<1>3. keys' = [keys EXCEPT ![at] = [keys[at] EXCEPT !.values = more]]
  BY DEF InsertMore
<1>4. more \in Seq(Values) /\ Len(more) = Len(keys[at].values) + 1
  BY <1>2, ValueInserted DEF Inv
<1> HIDE DEF at, more
<1> DEFINE e == [keys[at] EXCEPT !.values = more]
<1>5. e \in Entry /\ e.values = more /\ e.key = keys[at].key
  BY <1>2, <1>4 DEF Entry
<1>6. keys' = [keys EXCEPT ![at] = e]
  BY <1>3
<1> HIDE DEF e
<1>7. keys' \in Seq(Entry) /\ Len(keys') = Len(keys)
  BY <1>1, <1>2, <1>5, <1>6
<1>8. \A i \in 1 .. Len(keys) : keys'[i] = IF i = at THEN e ELSE keys[i]
  BY <1>1, <1>2, <1>6
<1>9. ASSUME NEW i \in DOMAIN keys' PROVE Len(keys'[i].values) > 0
  <2>1. i \in 1 .. Len(keys) /\ Len(keys[i].values) > 0
    BY <1>2, <1>7 DEF Inv, ValidMultimap
  <2>2. Len(more) > 0
    BY <1>2, <1>4
  <2> QED BY <1>5, <1>8, <2>1, <2>2
<1>10. Ascending(keys', KeyRank)
  <2>1. \A i \in 1 .. Len(keys) : keys'[i].key = keys[i].key
    BY <1>5, <1>8
  <2>2. \A i \in 1 .. Len(keys) - 1 : i \in 1 .. Len(keys) /\ i + 1 \in 1 .. Len(keys)
    BY <1>2
  <2>3. \A i \in 1 .. Len(keys) - 1 : KeyRank[keys[i].key] < KeyRank[keys[i + 1].key]
    BY DEF Inv, ValidMultimap, Ascending
  <2> QED BY <1>7, <2>1, <2>2, <2>3 DEF Ascending
<1>11. num_keys' <= MaxKeys
  BY <1>7 DEF Inv, ValidMultimap, num_keys
<1> QED BY <1>7, <1>9, <1>10, <1>11 DEF Inv, ValidMultimap, InsertMore

LEMMA ValidRemoveKey ==
  ASSUME Inv, NEW k \in Keys, RemoveKey(k), UNCHANGED order
  PROVE  Inv'
<1>1. CASE FindKeyPos(k) >= 0
  <2> DEFINE at == FindKeyPos(k) + 1
  <2>1. at \in 1 .. Len(keys)
    BY <1>1, KeyFound, KeysRanked DEF Inv, num_keys
  <2>2. /\ keys \in Seq(Entry) /\ Len(keys) \in Nat /\ Ranked(keys, KeyRank)
        /\ Ascending(keys, KeyRank)
        /\ \A i \in 1 .. Len(keys) : Len(keys[i].values) > 0
        /\ Len(keys) <= MaxKeys /\ MaxKeys \in Nat /\ trav_pos \in -1 .. MaxKeys
    BY KeysRanked, MaxKeysAssumption DEF Inv, ValidMultimap, num_keys
  <2>3. keys' = RemoveAt(keys, at) /\ trav_pos' = MovedDown(trav_pos, FindKeyPos(k))
    BY <1>1 DEF RemoveKey
  <2> HIDE DEF at
  <2>4. /\ keys' \in Seq(Entry) /\ Len(keys') = Len(keys) - 1
        /\ \A j \in 1 .. Len(keys) - 1 : keys'[j] = IF j < at THEN keys[j] ELSE keys[j + 1]
    BY <2>1, <2>2, <2>3, RemoveAtProperties
  <2>5. Ascending(keys', KeyRank)
    BY <2>1, <2>2, <2>3, RemovedAscends
  <2>6. ASSUME NEW j \in 1 .. Len(keys) - 1 PROVE Len(keys'[j].values) > 0
    <3>1. j \in 1 .. Len(keys) /\ j + 1 \in 1 .. Len(keys)
      BY <2>2
    <3> QED BY <2>2, <2>4, <3>1
  <2>7. trav_pos' \in -1 .. MaxKeys
    BY <2>2, <2>3 DEF MovedDown
  <2>8. Len(keys') <= MaxKeys /\ DOMAIN keys' = 1 .. Len(keys) - 1
    BY <2>2, <2>4
  <2> QED BY <2>4, <2>5, <2>6, <2>7, <2>8 DEF Inv, ValidMultimap, num_keys
<1>2. CASE ~(FindKeyPos(k) >= 0)
  BY <1>2 DEF RemoveKey, Inv, ValidMultimap, num_keys, Ascending
<1> QED BY <1>1, <1>2

LEMMA ValidNext == Inv /\ [Next]_vars => Inv'
<1> SUFFICES ASSUME Inv, [Next]_vars PROVE Inv'
  OBVIOUS
<1>1. ASSUME UNCHANGED <<order, keys>>, trav_pos' \in -1 .. MaxKeys PROVE Inv'
  BY <1>1 DEF Inv, ValidMultimap, num_keys, Ascending
<1>2. trav_pos \in -1 .. MaxKeys /\ Len(keys) \in Nat /\ Len(keys) <= MaxKeys /\ MaxKeys \in Nat
  BY KeysRanked, MaxKeysAssumption DEF Inv, ValidMultimap, num_keys
<1>3. CASE UNCHANGED vars
  BY <1>1, <1>2, <1>3 DEF vars
<1>4. ASSUME Next PROVE Inv'
  <2>1. UNCHANGED order
    BY <1>4 DEF Next
  <2>2. ASSUME NEW k \in Keys, NEW n \in Nums, NEW d \in Datas,
               \/ InsertKey(k, [num |-> n, data |-> d])
               \/ InsertMore(k, [num |-> n, data |-> d])
        PROVE  Inv'
    <3>1. [num |-> n, data |-> d] \in Values
      BY DEF Values
    <3> QED BY <2>1, <2>2, <3>1, ValidInsertKey, ValidInsertMore
  <2>3. ASSUME NEW k \in Keys, InsertFull(k) \/ InsertAborts(k) \/ RemoveKey(k)
        PROVE  Inv'
    <3>1. CASE InsertFull(k) \/ InsertAborts(k)
      BY <1>1, <1>2, <2>1, <3>1 DEF InsertFull, InsertRefused, InsertAborts
    <3>2. CASE RemoveKey(k)
      BY <2>1, <3>2, ValidRemoveKey
    <3> QED BY <2>3, <3>1, <3>2
  <2>4. CASE InsertNoData \/ Ask \/ Halted
    BY <1>1, <1>2, <2>1, <2>4 DEF InsertNoData, InsertRefused, Ask, Halted
  <2>5. CASE GetFirstKey
    BY <1>1, <1>2, <2>1, <2>5 DEF GetFirstKey, num_keys
  <2>6. CASE GetNextKey
    BY <1>1, <1>2, <2>1, <2>6 DEF GetNextKey, num_keys
  <2>7. CASE Destroy
    BY <1>2, <2>1, <2>7 DEF Destroy, Inv, ValidMultimap, num_keys, Ascending
  <2> QED BY <1>4, <2>2, <2>3, <2>4, <2>5, <2>6, <2>7 DEF Next, Change
<1> QED BY <1>3, <1>4

\* What validate_multimap asserts before and after every operation is so, whatever
\* the operations, the keys' ranks and the comparator: no assertion of it fails.
THEOREM StaysValid == Spec => []ValidMultimap
<1>1. Inv => ValidMultimap
  BY DEF Inv
<1> QED BY <1>1, ValidInit, ValidNext, PTL DEF Spec

\* find_key_pos finds a key in every multimap that a run can come to exactly when
\* a look at every key would.
THEOREM SearchesFind == Spec => []SearchFindsEveryKey
<1>1. Inv => SearchFindsEveryKey
  <2> SUFFICES ASSUME Inv, NEW k \in Keys
               PROVE  LET matches == {p \in 0 .. num_keys - 1 : CompareKeys(k, KeyAt(p)) = 0}
                      IN IF matches = {} THEN FindKeyPos(k) = -1 ELSE FindKeyPos(k) \in matches
    BY DEF SearchFindsEveryKey
  <2> DEFINE matches == {p \in 0 .. num_keys - 1 : CompareKeys(k, KeyAt(p)) = 0}
  <2>1. ASSUME NEW p \in 0 .. num_keys - 1
        PROVE  CompareKeys(k, KeyAt(p)) = 0 <=> KeyRank[KeyAt(p)] = KeyRank[k]
    <3>1. p + 1 \in 1 .. Len(keys)
      BY KeysRanked DEF Inv, num_keys
    <3>2. KeyRank[KeyAt(p)] \in Int /\ KeyRank[k] \in Int
      BY <3>1, KeysRanked DEF Inv, KeyAt
    <3> QED BY <3>2 DEF CompareKeys
  <2>2. matches = {p \in 0 .. num_keys - 1 : KeyRank[KeyAt(p)] = KeyRank[k]}
    BY <2>1
  <2> QED BY <2>2, KeyFound DEF Inv
<1> QED BY <1>1, ValidInit, ValidNext, PTL DEF Spec

-----------------------------------------------------------------------------
(* The array implements the ordered multimap *)

Ordered(vals) ==
  order = "num" => \A j \in 1 .. Len(vals) - 1 : vals[j].num <= vals[j + 1].num

\* The position of a traversal is that of a key, or just behind the last, and values
\* with a comparator of their numbers are in the order of those.
WalkInv ==
  /\ Inv
  /\ trav_pos <= num_keys
  /\ \A i \in DOMAIN keys : Ordered(keys[i].values)

\* insert_value_ordered puts a value where the comparator says.
LEMMA ValuePlaced ==
  ASSUME order \in Orders, NEW vals \in Seq(Values), NEW v \in Values, Ordered(vals)
  PROVE  /\ InsertedValue(vals, v) \in OM!Placings(vals, v)
         /\ Ordered(InsertedValue(vals, v))
<1> DEFINE n == Len(vals)
<1>1. PICK i \in 1 .. n + 1 :
        /\ InsertedValue(vals, v) = InsertAt(vals, i, v)
        /\ i = n + 1 \/ CompareValues(v, vals[i]) <= 0
        /\ \A j \in 1 .. i - 1 : CompareValues(v, vals[j]) > 0
  BY ValuePlace
<1> DEFINE new == InsertAt(vals, i, v)
<1>2. /\ new \in Seq(Values) /\ Len(new) = n + 1
      /\ \A j \in 1 .. n + 1 :
           new[j] = IF j < i THEN vals[j] ELSE IF j = i THEN v ELSE vals[j - 1]
  <2>1. i \in 1 .. Len(vals) + 1
    OBVIOUS
  <2> QED BY <2>1, InsertAtProperties
<1>3. n \in Nat
  OBVIOUS
<1>4. CASE order = "greater"
  <2>1. \A w \in Values : CompareValues(v, w) = 1
    BY <1>4 DEF CompareValues
  <2>2. i = n + 1
    BY <1>1, <2>1
  <2>3. new = Append(vals, v)
    <3>1. /\ Append(vals, v) \in Seq(Values) /\ Len(Append(vals, v)) = n + 1
          /\ \A j \in 1 .. n + 1 : Append(vals, v)[j] = IF j <= n THEN vals[j] ELSE v
      OBVIOUS
    <3>2. \A j \in 1 .. n + 1 : new[j] = Append(vals, v)[j]
      <4> HIDE DEF n, new
      <4> QED BY <1>2, <1>3, <2>2, <3>1
    <3> HIDE DEF n, new
    <3> QED BY <1>2, <3>1, <3>2, SeqEqual
  <2>4. OM!Placings(vals, v) = {Append(vals, v)}
    BY <1>4 DEF OM!Placings
  <2> HIDE DEF new
  <2> QED BY <1>1, <1>4, <2>3, <2>4 DEF Ordered, new
<1>5. CASE order = "less"
  <2>1. \A w \in Values : CompareValues(v, w) = -1
    BY <1>5 DEF CompareValues
  <2>2. i = 1
    <3> SUFFICES ASSUME i # 1 PROVE FALSE
      OBVIOUS
    <3>1. 1 \in 1 .. i - 1 /\ vals[1] \in Values
      OBVIOUS
    <3>2. CompareValues(v, vals[1]) > 0 /\ CompareValues(v, vals[1]) = -1
      BY <1>1, <2>1, <3>1
    <3> QED BY <3>2
  <2>3. new = <<v>> \o vals
    <3>1. /\ <<v>> \o vals \in Seq(Values) /\ Len(<<v>> \o vals) = n + 1
          /\ \A j \in 1 .. n + 1 : (<<v>> \o vals)[j] = IF j <= 1 THEN v ELSE vals[j - 1]
      OBVIOUS
    <3>2. \A j \in 1 .. n + 1 : new[j] = (<<v>> \o vals)[j]
      <4> HIDE DEF n, new
      <4> QED BY <1>2, <1>3, <2>2, <3>1
    <3> HIDE DEF n, new
    <3> QED BY <1>2, <3>1, <3>2, SeqEqual
  <2>4. OM!Placings(vals, v) = {<<v>> \o vals}
    BY <1>5 DEF OM!Placings
  <2> HIDE DEF new
  <2> QED BY <1>1, <1>5, <2>3, <2>4 DEF Ordered, new
<1>6. CASE order = "num"
  <2>1. \A w \in Values : CompareValues(v, w) = v.num - w.num /\ v.num \in Int /\ w.num \in Int
    BY <1>6, NumsAssumption DEF CompareValues, Values
  <2>2. \A j \in 1 .. n : vals[j] \in Values
    OBVIOUS
  <2>3. \A j \in 1 .. n - 1 : vals[j].num <= vals[j + 1].num
    BY <1>6 DEF Ordered
  <2> HIDE DEF n, new
  <2>4. ASSUME NEW j \in 1 .. n PROVE new[j].num <= new[j + 1].num
    <3>1. CASE j + 1 < i
      <4>1. new[j] = vals[j] /\ new[j + 1] = vals[j + 1] /\ j \in 1 .. n - 1
        BY <1>2, <1>3, <3>1
      <4> QED BY <2>3, <4>1
    <3>2. CASE j + 1 = i
      <4>1. new[j] = vals[j] /\ new[j + 1] = v /\ j \in 1 .. i - 1
        BY <1>2, <1>3, <3>2
      <4>2. CompareValues(v, vals[j]) > 0
        BY <1>1, <4>1
      <4>3. v.num - vals[j].num > 0 /\ v.num \in Int /\ vals[j].num \in Int
        BY <2>1, <2>2, <4>2
      <4> QED BY <4>1, <4>3
    <3>3. CASE j = i
      <4>1. new[j] = v /\ new[j + 1] = vals[j] /\ i # n + 1
        BY <1>2, <1>3, <3>3
      <4>2. CompareValues(v, vals[j]) <= 0
        BY <1>1, <3>3, <4>1 DEF n
      <4>3. v.num - vals[j].num <= 0 /\ v.num \in Int /\ vals[j].num \in Int
        BY <2>1, <2>2, <4>2
      <4> QED BY <4>1, <4>3
    <3>4. CASE j > i
      <4>1. new[j] = vals[j - 1] /\ new[j + 1] = vals[j] /\ j - 1 \in 1 .. n - 1 /\ (j - 1) + 1 = j
        BY <1>2, <1>3, <3>4
      <4> QED BY <2>3, <4>1
    <3> QED BY <1>3, <3>1, <3>2, <3>3, <3>4
  <2>5. Ordered(new)
    BY <1>2, <1>3, <2>4 DEF Ordered
  <2>6. new \in OM!Placings(vals, v)
    <3>1. OM!Placings(vals, v) =
            {s \in {InsertAt(vals, j, v) : j \in 1 .. Len(vals) + 1} :
               \A j \in 1 .. Len(vals) : s[j].num <= s[j + 1].num}
      <4>1. order # "greater" /\ order # "less"
        BY <1>6
      <4>2. OM!Placings(vals, v) =
              {s \in {OM!InsertAt(vals, j, v) : j \in 1 .. Len(vals) + 1} :
                 \A j \in 1 .. Len(vals) : s[j].num <= s[j + 1].num}
        BY <1>6, <4>1, Zenon DEF OM!Placings
      <4>3. \A j : OM!InsertAt(vals, j, v) = InsertAt(vals, j, v)
        BY DEF OM!InsertAt, InsertAt
      <4> QED BY <4>2, <4>3
    <3>2. new \in {InsertAt(vals, j, v) : j \in 1 .. Len(vals) + 1}
      BY DEF n, new
    <3> QED BY <2>4, <3>1, <3>2 DEF n
  <2> QED BY <1>1, <2>5, <2>6 DEF new
<1>7. order \in {"greater", "less", "num"}
  BY OrdersAssumption
<1> QED BY <1>4, <1>5, <1>6, <1>7

-----------------------------------------------------------------------------
(* What the array stands for *)

MapMatches ==
  /\ Map = [r \in Ranks |-> Map[r]]
  /\ \A i \in 1 .. Len(keys) :
       KeyRank[keys[i].key] \in Ranks /\ Map[KeyRank[keys[i].key]] = keys[i].values
  /\ \A r \in Ranks : (\A i \in 1 .. Len(keys) : KeyRank[keys[i].key] # r) => Map[r] = <<>>

LEMMA MapAt == Inv => MapMatches
<1> SUFFICES ASSUME Inv PROVE MapMatches
  OBVIOUS
<1>1. ValidMultimap /\ Ranked(keys, KeyRank) /\ Ascending(keys, KeyRank)
  BY KeysRanked DEF Inv, ValidMultimap
<1>2. \A i, j \in 1 .. Len(keys) : i < j => KeyRank[keys[i].key] < KeyRank[keys[j].key]
  BY <1>1, AscendingPairs
<1>3. \A i \in 1 .. Len(keys) :
        keys[i].key \in Keys /\ KeyRank[keys[i].key] \in Int /\ DOMAIN keys = 1 .. Len(keys)
  BY <1>1, KeysRanked DEF Ranked
<1>4. ASSUME NEW i \in 1 .. Len(keys)
      PROVE  KeyRank[keys[i].key] \in Ranks /\ Map[KeyRank[keys[i].key]] = keys[i].values
  <2>1. KeyRank[keys[i].key] \in Ranks
    BY <1>3 DEF Ranks
  <2>2. PlacesOf(KeyRank[keys[i].key]) = {i}
    <3>1. \A j \in 1 .. Len(keys) : KeyRank[keys[j].key] = KeyRank[keys[i].key] => j = i
      <4> SUFFICES ASSUME NEW j \in 1 .. Len(keys), j # i
                   PROVE  KeyRank[keys[j].key] # KeyRank[keys[i].key]
        OBVIOUS
      <4>1. j < i \/ i < j
        OBVIOUS
      <4> QED BY <1>2, <1>3, <4>1
    <3> QED BY <1>3, <3>1 DEF PlacesOf
  <2>3. Map[KeyRank[keys[i].key]] = keys[CHOOSE j \in {i} : TRUE].values
    BY <2>1, <2>2, Zenon DEF Map
  <2> QED BY <2>1, <2>3
<1>5. ASSUME NEW r \in Ranks, \A i \in 1 .. Len(keys) : KeyRank[keys[i].key] # r
      PROVE  Map[r] = <<>>
  <2>1. PlacesOf(r) = {}
    BY <1>1, <1>5, KeysRanked DEF PlacesOf
  <2> QED BY <2>1 DEF Map
<1>6. Map = [r \in Ranks |-> Map[r]]
  BY DEF Map
<1> QED BY <1>4, <1>5, <1>6 DEF MapMatches

LEMMA MapAtNext == Inv' => MapMatches'
  BY MapAt, PTL

\* The ranks of the keys behind the position at.
RanksAfter(at) == {KeyRank[keys[i].key] : i \in {j \in 1 .. Len(keys) : j > at}}

\* A walk that stands at a key has that one as the least of what is left.
LEMMA LeastAfter ==
  ASSUME Inv, NEW at \in 0 .. Len(keys) - 1
  PROVE  /\ RanksAfter(at) # {}
         /\ Min(RanksAfter(at)) = KeyRank[keys[at + 1].key]
         /\ RanksAfter(at + 1) = RanksAfter(at) \ {KeyRank[keys[at + 1].key]}
<1> DEFINE least == KeyRank[keys[at + 1].key]
<1>1. /\ Len(keys) \in Nat /\ at + 1 \in 1 .. Len(keys)
      /\ \A i \in 1 .. Len(keys) : KeyRank[keys[i].key] \in Int
  BY KeysRanked DEF Inv, Ranked
<1>2. \A i, j \in 1 .. Len(keys) : i < j => KeyRank[keys[i].key] < KeyRank[keys[j].key]
  <2>1. Ranked(keys, KeyRank) /\ Ascending(keys, KeyRank)
    BY KeysRanked DEF Inv, ValidMultimap
  <2> QED BY <2>1, AscendingPairs
<1>3. least \in RanksAfter(at) /\ least \in Int
  BY <1>1 DEF RanksAfter
<1>4. ASSUME NEW r \in RanksAfter(at) PROVE r \in Int /\ least <= r
  <2>1. PICK j \in 1 .. Len(keys) : j > at /\ r = KeyRank[keys[j].key]
    BY DEF RanksAfter
  <2>2. j = at + 1 \/ at + 1 < j
    BY <2>1
  <2> QED BY <1>1, <1>2, <2>1, <2>2
<1>5. Min(RanksAfter(at)) = least
  <2> HIDE DEF least
  <2>1. \A r \in RanksAfter(at) : (\A s \in RanksAfter(at) : r <= s) => r = least
    BY <1>3, <1>4
  <2> QED BY <1>3, <1>4, <2>1 DEF Min
<1>6. ASSUME NEW r PROVE r \in RanksAfter(at + 1) <=> r \in RanksAfter(at) /\ r # least
  <2>1. ASSUME r \in RanksAfter(at + 1) PROVE r \in RanksAfter(at) /\ r # least
    <3>1. PICK j \in 1 .. Len(keys) : j > at + 1 /\ r = KeyRank[keys[j].key]
      BY <2>1 DEF RanksAfter
    <3>2. j > at /\ least < KeyRank[keys[j].key]
      BY <1>1, <1>2, <3>1
    <3> QED BY <1>1, <1>3, <3>1, <3>2 DEF RanksAfter
  <2>2. ASSUME r \in RanksAfter(at), r # least PROVE r \in RanksAfter(at + 1)
    <3>1. PICK j \in 1 .. Len(keys) : j > at /\ r = KeyRank[keys[j].key]
      BY <2>2 DEF RanksAfter
    <3>2. j # at + 1
      BY <2>2, <3>1
    <3> QED BY <1>1, <3>1, <3>2 DEF RanksAfter
  <2> QED BY <2>1, <2>2
<1> QED BY <1>3, <1>5, <1>6

LEMMA LeftAfter ==
  ASSUME Inv
  PROVE  Left = IF Walking THEN RanksAfter(trav_pos) ELSE {}
<1>1. DOMAIN keys = 1 .. Len(keys)
  BY KeysRanked DEF Inv
<1> QED BY <1>1 DEF Left, RanksAfter

LEMMA KeysPresent ==
  ASSUME Inv
  PROVE  /\ OM!Present = RanksAfter(0)
         /\ IsFiniteSet(OM!Present) /\ Cardinality(OM!Present) = num_keys
         /\ [i \in 1 .. Len(keys) |-> KeyRank[keys[i].key]] \in Bijection(1 .. Len(keys), OM!Present)
<1>1. MapMatches /\ Len(keys) \in Nat /\ Ranked(keys, KeyRank) /\ Ascending(keys, KeyRank)
  BY MapAt, KeysRanked DEF Inv, ValidMultimap
<1>2. \A i \in 1 .. Len(keys) : keys[i].values # <<>>
  <2> SUFFICES ASSUME NEW i \in 1 .. Len(keys) PROVE keys[i].values # <<>>
    OBVIOUS
  <2>1. Len(keys[i].values) > 0
    BY KeysRanked DEF Inv, ValidMultimap
  <2> QED BY <2>1
<1>3. ASSUME NEW r PROVE r \in OM!Present <=> r \in RanksAfter(0)
  <2>1. r \in RanksAfter(0) <=> \E i \in 1 .. Len(keys) : r = KeyRank[keys[i].key]
    BY <1>1 DEF RanksAfter
  <2>2. r \in OM!Present <=> r \in Ranks /\ Map[r] # <<>>
    BY DEF OM!Present
  <2> QED BY <1>1, <1>2, <2>1, <2>2 DEF MapMatches
<1>4. OM!Present = RanksAfter(0)
  BY <1>3
<1> DEFINE rank == [i \in 1 .. Len(keys) |-> KeyRank[keys[i].key]]
<1>5. rank \in Bijection(1 .. Len(keys), OM!Present)
  <2>1. rank \in [1 .. Len(keys) -> OM!Present]
    BY <1>1, <1>4 DEF RanksAfter
  <2>2. \A i, j \in 1 .. Len(keys) : rank[i] = rank[j] => i = j
    <3> SUFFICES ASSUME NEW i \in 1 .. Len(keys), NEW j \in 1 .. Len(keys), i # j
                 PROVE  rank[i] # rank[j]
      OBVIOUS
    <3>1. \A a, b \in 1 .. Len(keys) : a < b => KeyRank[keys[a].key] < KeyRank[keys[b].key]
      BY <1>1, AscendingPairs
    <3>2. i < j \/ j < i
      OBVIOUS
    <3>3. KeyRank[keys[i].key] \in Int /\ KeyRank[keys[j].key] \in Int
      BY <1>1 DEF Ranked
    <3> QED BY <3>1, <3>2, <3>3
  <2>3. \A r \in OM!Present : \E i \in 1 .. Len(keys) : rank[i] = r
    BY <1>4 DEF RanksAfter
  <2> HIDE DEF rank
  <2> QED BY <2>1, <2>2, <2>3 DEF Bijection, Injection, Surjection, IsInjective
<1>6. IsFiniteSet(1 .. Len(keys)) /\ Cardinality(1 .. Len(keys)) = Len(keys)
  <2>1. Len(keys) \in Nat
    BY <1>1
  <2> DEFINE n == Len(keys)
  <2>2. 1 \in Int /\ n \in Int /\ (IF 1 > n THEN 0 ELSE n - 1 + 1) = n
    BY <2>1
  <2> HIDE DEF n
  <2>3. IsFiniteSet(1 .. n) /\ Cardinality(1 .. n) = IF 1 > n THEN 0 ELSE n - 1 + 1
    BY <2>2, FS_Interval
  <2>4. IsFiniteSet(1 .. n) /\ Cardinality(1 .. n) = n
    BY <2>2, <2>3
  <2> QED BY <2>4 DEF n
<1>7. IsFiniteSet(OM!Present) /\ Cardinality(OM!Present) = Len(keys)
  <2>1. ExistsBijection(1 .. Len(keys), OM!Present)
    <3> HIDE DEF rank
    <3> QED BY <1>5 DEF ExistsBijection
  <2> QED BY <1>6, <2>1, FS_Bijection
<1> QED BY <1>4, <1>5, <1>7 DEF num_keys

-----------------------------------------------------------------------------
(* Every step is one of the ordered multimap, or none *)

\* OrderedMultimap counts, sums and compares with the same operators.
LEMMA SameCardinality == ASSUME NEW S PROVE OM!Cardinality(S) = Cardinality(S)
  BY DEF OM!Cardinality, Cardinality

LEMMA SameMin == ASSUME NEW S PROVE OM!Min(S) = Min(S)
  BY DEF OM!Min, Min

LEMMA SameSum == ASSUME NEW f PROVE OM!SumFunction(f) = SumFunctionOnSet(f, DOMAIN f)
  BY Zenon DEF OM!SumFunction, OM!SumFunctionOnSet, SumFunctionOnSet, OM!FoldFunctionOnSet,
     FoldFunctionOnSet, OM!MapThenFoldSet, MapThenFoldSet

LEMMA AnswerNumber ==
  ASSUME NEW op, NEW result, reply' = Number(op, result)
  PROVE  Answer' = OM!Number(op, result)
  BY DEF Answer, Rank, Number, Reply, OM!Number, OM!Reply

LEMMA AnswerKey ==
  ASSUME NEW op, NEW result, NEW k \in Keys, NEW vals, reply' = Reply(op, result, k, vals)
  PROVE  Answer' = OM!Reply(op, result, KeyRank[k], vals)
<1>1. k # NULL
  BY NullAssumption
<1> QED BY <1>1 DEF Answer, Rank, Reply, OM!Reply

LEMMA AnswerValues ==
  ASSUME NEW op, NEW result, NEW vals, reply' = Reply(op, result, NULL, vals)
  PROVE  Answer' = OM!Reply(op, result, NULL, vals)
  BY DEF Answer, Rank, Reply, OM!Reply

LEMMA SameArray ==
  ASSUME UNCHANGED <<keys, trav_pos>>
  PROVE  UNCHANGED <<Map, Left, Walking>>
<1>1. Map' = Map
  BY DEF Map, PlacesOf
<1>2. Left' = Left /\ Walking' = Walking
  BY DEF Left, Walking
<1> QED BY <1>1, <1>2

\* What the map says of a key is what the array does.
LEMMA ValuesHeld ==
  ASSUME Inv, NEW k \in Keys
  PROVE  /\ KeyRank[k] \in Ranks
         /\ ValuesOf(k) = Map[KeyRank[k]]
         /\ FindKeyPos(k) >= 0 =>
              /\ FindKeyPos(k) + 1 \in 1 .. Len(keys)
              /\ KeyRank[keys[FindKeyPos(k) + 1].key] = KeyRank[k]
              /\ ValuesAt(FindKeyPos(k)) = Map[KeyRank[k]]
              /\ KeyRank[k] \in OM!Present
         /\ FindKeyPos(k) < 0 => Map[KeyRank[k]] = <<>> /\ KeyRank[k] \notin OM!Present
         /\ FindKeyPos(k) \in Int
<1>1. MapMatches /\ Len(keys) \in Nat
  BY MapAt, KeysRanked DEF Inv
<1>2. KeyRank[k] \in Ranks
  BY DEF Ranks
<1>3. FindKeyPos(k) \in 0 .. num_keys - 1 \/ FindKeyPos(k) = -1
  BY KeyFound DEF Inv
<1>4. ASSUME FindKeyPos(k) >= 0
      PROVE  /\ FindKeyPos(k) + 1 \in 1 .. Len(keys)
             /\ KeyRank[keys[FindKeyPos(k) + 1].key] = KeyRank[k]
             /\ ValuesAt(FindKeyPos(k)) = Map[KeyRank[k]]
             /\ KeyRank[k] \in OM!Present
  <2>1. FindKeyPos(k) \in 0 .. num_keys - 1 /\ KeyRank[KeyAt(FindKeyPos(k))] = KeyRank[k]
    BY <1>4, KeyFound DEF Inv
  <2>2. FindKeyPos(k) + 1 \in 1 .. Len(keys)
    BY <1>1, <2>1 DEF num_keys
  <2>3. Len(keys[FindKeyPos(k) + 1].values) > 0
    BY <2>2, KeysRanked DEF Inv, ValidMultimap
  <2>4. keys[FindKeyPos(k) + 1].values # <<>>
    BY <2>3
  <2> QED BY <1>1, <1>2, <2>1, <2>2, <2>4 DEF KeyAt, ValuesAt, MapMatches, OM!Present
<1>5. ASSUME FindKeyPos(k) < 0 PROVE Map[KeyRank[k]] = <<>> /\ KeyRank[k] \notin OM!Present
  <2>1. \A i \in 1 .. Len(keys) : KeyRank[keys[i].key] # KeyRank[k]
    BY <1>5, KeyMissing DEF Inv
  <2>2. Map[KeyRank[k]] = <<>>
    BY <1>1, <1>2, <2>1 DEF MapMatches
  <2> QED BY <2>2 DEF OM!Present
<1>6. FindKeyPos(k) \in Int /\ (FindKeyPos(k) >= 0 \/ FindKeyPos(k) < 0)
  BY <1>1, <1>3 DEF num_keys
<1>7. ValuesOf(k) = Map[KeyRank[k]]
  BY <1>4, <1>5, <1>6 DEF ValuesOf
<1> QED BY <1>2, <1>4, <1>5, <1>6, <1>7

\* A map that agrees at one rank with the new values and everywhere else with the old.
LEMMA MapChanged ==
  ASSUME Inv, Inv', NEW r \in Ranks, NEW vals,
         Map'[r] = vals, \A s \in Ranks : s # r => Map'[s] = Map[s]
  PROVE  Map' = [Map EXCEPT ![r] = vals]
<1>1. MapMatches /\ MapMatches'
  BY MapAt, MapAtNext
<1>2. Map = [s \in Ranks |-> Map[s]] /\ Map' = [s \in Ranks |-> Map'[s]]
  BY <1>1 DEF MapMatches, Ranks
<1>3. \A s \in Ranks : Map'[s] = IF s = r THEN vals ELSE Map[s]
  OBVIOUS
<1> DEFINE old == [s \in Ranks |-> Map[s]]
           new == [s \in Ranks |-> Map'[s]]
<1>4. new = [old EXCEPT ![r] = vals]
  <2> HIDE DEF Map
  <2> QED BY <1>3
<1> QED BY <1>2, <1>4

LEMMA WalkInit == Init => WalkInv
<1> SUFFICES ASSUME Init PROVE WalkInv
  OBVIOUS
<1>1. Inv /\ keys = <<>> /\ trav_pos = -1
  BY ValidInit DEF Init
<1>2. num_keys = 0 /\ DOMAIN keys = {}
  BY <1>1 DEF num_keys
<1> QED BY <1>1, <1>2 DEF WalkInv

\* The array after a new key: old entries around the new one.
LEMMA KeyEntered ==
  ASSUME Inv, NEW k \in Keys, NEW v \in Values, InsertKey(k, v)
  PROVE  LET pos == InsertionPos(k)
             e == [key |-> k, values |-> InsertedValue(<<>>, v)]
         IN /\ Len(keys) \in Nat /\ DOMAIN keys' = 1 .. Len(keys')
            /\ pos \in 0 .. Len(keys)
            /\ Len(keys') = Len(keys) + 1
            /\ \A j \in 1 .. Len(keys) + 1 :
                 keys'[j] = IF j < pos + 1 THEN keys[j]
                            ELSE IF j = pos + 1 THEN e ELSE keys[j - 1]
            /\ \A i \in 1 .. Len(keys) :
                 IF i <= pos THEN KeyRank[keys[i].key] <= KeyRank[k]
                 ELSE KeyRank[k] < KeyRank[keys[i].key]
<1> DEFINE pos == InsertionPos(k)
           e == [key |-> k, values |-> InsertedValue(<<>>, v)]
<1>1. keys \in Seq(Entry) /\ Len(keys) \in Nat /\ Ranked(keys, KeyRank) /\ Ascending(keys, KeyRank)
      /\ KeyRank[k] \in Int
  BY KeysRanked DEF Inv, ValidMultimap
<1>2. e \in Entry
  <2>1. <<>> \in Seq(Values)
    OBVIOUS
  <2>2. InsertedValue(<<>>, v) \in Seq(Values)
    BY <2>1, ValueInserted DEF Inv
  <2> QED BY <2>2 DEF Entry
<1>3. /\ pos \in 0 .. Len(keys)
      /\ \A i \in 1 .. Len(keys) :
           IF i <= pos THEN KeyRank[keys[i].key] <= KeyRank[k] ELSE KeyRank[k] < KeyRank[keys[i].key]
  BY <1>1, InsertPosSplits DEF InsertionPos
<1>4. keys' = InsertAt(keys, pos + 1, e)
  BY DEF InsertKey
<1> HIDE DEF pos, e
<1>5. pos + 1 \in 1 .. Len(keys) + 1
  BY <1>1, <1>3
<1>6. /\ keys' \in Seq(Entry) /\ Len(keys') = Len(keys) + 1
      /\ \A j \in 1 .. Len(keys) + 1 :
           keys'[j] = IF j < pos + 1 THEN keys[j] ELSE IF j = pos + 1 THEN e ELSE keys[j - 1]
  <2> DEFINE at == pos + 1
  <2>1. at \in 1 .. Len(keys) + 1 /\ keys \in Seq(Entry)
    BY <1>1, <1>5
  <2> DEFINE new == InsertAt(keys, at, e)
  <2>2. keys' = new
    BY <1>4
  <2> HIDE DEF at
  <2>3. /\ new \in Seq(Entry) /\ Len(new) = Len(keys) + 1
        /\ \A j \in 1 .. Len(keys) + 1 :
             new[j] = IF j < at THEN keys[j] ELSE IF j = at THEN e ELSE keys[j - 1]
    <3>1. keys \in Seq(Entry)
      BY <2>1
    <3>2. at \in 1 .. Len(keys) + 1
      BY <2>1
    <3> HIDE DEF Entry
    <3>3. WithInserted(Entry, InsertAt(keys, at, e), keys, at, e)
      BY ONLY <1>2, <3>1, <3>2, InsertAtInserts, Zenon
    <3>4. WithInserted(Entry, new, keys, at, e)
      BY ONLY <3>3 DEF new
    <3> HIDE DEF new
    <3> QED BY ONLY <3>4 DEF WithInserted
  <2> HIDE DEF new
  <2>4. /\ keys' \in Seq(Entry) /\ Len(keys') = Len(keys) + 1
        /\ \A j \in 1 .. Len(keys) + 1 :
             keys'[j] = IF j < at THEN keys[j] ELSE IF j = at THEN e ELSE keys[j - 1]
    BY <2>2, <2>3
  <2> QED BY <2>4 DEF at
<1>7. DOMAIN keys' = 1 .. Len(keys')
  BY <1>6
<1> QED BY <1>1, <1>3, <1>6, <1>7 DEF pos, e

LEMMA WalkInsertKey ==
  ASSUME WalkInv, NEW k \in Keys, NEW v \in Values, InsertKey(k, v), UNCHANGED order
  PROVE  WalkInv'
<1> DEFINE pos == InsertionPos(k)
           e == [key |-> k, values |-> InsertedValue(<<>>, v)]
<1>1. Inv /\ Inv' /\ trav_pos \in Int /\ trav_pos <= Len(keys) /\ MaxKeys \in Nat
  BY ValidInsertKey, MaxKeysAssumption DEF WalkInv, Inv, ValidMultimap, num_keys
<1>2. /\ Len(keys) \in Nat /\ DOMAIN keys' = 1 .. Len(keys')
      /\ pos \in 0 .. Len(keys) /\ Len(keys') = Len(keys) + 1
      /\ \A j \in 1 .. Len(keys) + 1 :
           keys'[j] = IF j < pos + 1 THEN keys[j] ELSE IF j = pos + 1 THEN e ELSE keys[j - 1]
  BY <1>1, KeyEntered
<1>3. Ordered(e.values)
  <2>1. <<>> \in Seq(Values) /\ Ordered(<<>>) /\ order \in Orders
    BY <1>1 DEF Ordered, Inv
  <2>2. Ordered(InsertedValue(<<>>, v))
    BY <2>1, ValuePlaced
  <2> QED BY <2>2
<1>4. \A i \in 1 .. Len(keys) : Ordered(keys[i].values)
  BY <1>1, KeysRanked DEF WalkInv
<1>5. trav_pos' <= num_keys'
  <2>1. trav_pos' = MovedUp(trav_pos, pos, MaxKeys)
    BY DEF InsertKey
  <2> HIDE DEF pos, e
  <2> QED BY <1>1, <1>2, <2>1 DEF MovedUp, num_keys
<1> HIDE DEF pos, e
<1>7. ASSUME NEW j \in DOMAIN keys' PROVE Ordered((keys')[j].values)
  <2>1. j \in 1 .. Len(keys) + 1
    BY <1>2
  <2>2. CASE j < pos + 1
    <3>1. j \in 1 .. Len(keys) /\ keys'[j] = keys[j]
      BY <1>2, <2>1, <2>2
    <3> QED BY <1>4, <3>1
  <2>3. CASE j = pos + 1
    <3>1. keys'[j] = e
      BY <1>2, <2>1, <2>3
    <3> QED BY <1>3, <3>1
  <2>4. CASE j > pos + 1
    <3>1. j - 1 \in 1 .. Len(keys) /\ keys'[j] = keys[j - 1]
      BY <1>2, <2>1, <2>4
    <3> QED BY <1>4, <3>1
  <2> QED BY <1>2, <2>1, <2>2, <2>3, <2>4
<1> QED BY <1>1, <1>5, <1>7 DEF WalkInv, Ordered

\* The array after a value more for a key that it has.
LEMMA ValueEntered ==
  ASSUME Inv, NEW k \in Keys, NEW v \in Values, InsertMore(k, v)
  PROVE  LET at == FindKeyPos(k) + 1
         IN /\ at \in 1 .. Len(keys) /\ DOMAIN keys = 1 .. Len(keys)
            /\ DOMAIN keys' = DOMAIN keys /\ Len(keys') = Len(keys)
            /\ keys'[at].key = keys[at].key
            /\ keys'[at].values = InsertedValue(keys[at].values, v)
            /\ \A j \in 1 .. Len(keys) : j # at => keys'[j] = keys[j]
<1> DEFINE at == FindKeyPos(k) + 1
           more == InsertedValue(keys[at].values, v)
           e == [keys[at] EXCEPT !.values = more]
<1>1. at \in 1 .. Len(keys)
  BY ValuesHeld DEF InsertMore
<1>2. keys \in Seq(Entry) /\ DOMAIN keys = 1 .. Len(keys) /\ keys[at] \in Entry
  BY <1>1, KeysRanked DEF Inv, ValidMultimap
<1>3. keys' = [keys EXCEPT ![at] = e]
  BY DEF InsertMore
<1>4. e.values = more /\ e.key = keys[at].key
  <2> HIDE DEF at, more
  <2> QED BY <1>2 DEF Entry
<1> HIDE DEF e, at
<1>5. DOMAIN keys' = DOMAIN keys /\ Len(keys') = Len(keys)
      /\ keys'[at] = e /\ \A j \in 1 .. Len(keys) : j # at => keys'[j] = keys[j]
  BY <1>1, <1>2, <1>3
<1> QED BY <1>1, <1>2, <1>4, <1>5 DEF at

LEMMA WalkInsertMore ==
  ASSUME WalkInv, NEW k \in Keys, NEW v \in Values, InsertMore(k, v), UNCHANGED order
  PROVE  WalkInv'
<1> DEFINE at == FindKeyPos(k) + 1
<1>1. Inv /\ Inv' /\ trav_pos <= num_keys
  BY ValidInsertMore DEF WalkInv
<1>2. /\ at \in 1 .. Len(keys) /\ DOMAIN keys = 1 .. Len(keys)
      /\ DOMAIN keys' = DOMAIN keys /\ Len(keys') = Len(keys)
      /\ keys'[at].values = InsertedValue(keys[at].values, v)
      /\ \A j \in 1 .. Len(keys) : j # at => keys'[j] = keys[j]
  BY <1>1, ValueEntered
<1> HIDE DEF at
<1>3. \A i \in 1 .. Len(keys) : Ordered(keys[i].values)
  BY <1>2 DEF WalkInv
<1>4. Ordered(InsertedValue(keys[at].values, v))
  <2>1. keys[at].values \in Seq(Values) /\ order \in Orders /\ Ordered(keys[at].values)
    BY <1>1, <1>2, <1>3, KeysRanked DEF Inv
  <2> QED BY <2>1, ValuePlaced
<1>5. \A j \in DOMAIN keys' : Ordered((keys')[j].values)
  BY <1>2, <1>3, <1>4
<1>6. trav_pos' <= num_keys'
  BY <1>1, <1>2 DEF InsertMore, num_keys
<1> QED BY <1>1, <1>5, <1>6 DEF WalkInv, Ordered

\* The array after a removal.
LEMMA KeyTaken ==
  ASSUME Inv, NEW k \in Keys, RemoveKey(k), FindKeyPos(k) >= 0
  PROVE  LET at == FindKeyPos(k) + 1
         IN /\ Len(keys) \in Nat /\ at \in 1 .. Len(keys)
            /\ Len(keys') = Len(keys) - 1 /\ DOMAIN keys' = 1 .. Len(keys')
            /\ \A j \in 1 .. Len(keys) - 1 :
                 keys'[j] = IF j < at THEN keys[j] ELSE keys[j + 1]
<1> DEFINE at == FindKeyPos(k) + 1
<1>1. at \in 1 .. Len(keys) /\ keys' = RemoveAt(keys, at)
  BY ValuesHeld DEF RemoveKey
<1>2. keys \in Seq(Entry) /\ Len(keys) \in Nat
  BY KeysRanked DEF Inv, ValidMultimap
<1> HIDE DEF at
<1>3. /\ keys' \in Seq(Entry) /\ Len(keys') = Len(keys) - 1
      /\ \A j \in 1 .. Len(keys) - 1 : keys'[j] = IF j < at THEN keys[j] ELSE keys[j + 1]
  BY <1>1, <1>2, RemoveAtProperties
<1>4. DOMAIN keys' = 1 .. Len(keys')
  BY <1>3
<1> QED BY <1>1, <1>2, <1>3, <1>4 DEF at

LEMMA WalkRemoveKey ==
  ASSUME WalkInv, NEW k \in Keys, RemoveKey(k), UNCHANGED order
  PROVE  WalkInv'
<1>1. Inv /\ Inv' /\ trav_pos \in Int /\ trav_pos <= Len(keys)
      /\ \A i \in 1 .. Len(keys) : Ordered(keys[i].values)
  BY ValidRemoveKey, KeysRanked DEF WalkInv, Inv, ValidMultimap, num_keys
<1>2. CASE FindKeyPos(k) >= 0
  <2> DEFINE at == FindKeyPos(k) + 1
  <2>1. /\ Len(keys) \in Nat /\ at \in 1 .. Len(keys)
        /\ Len(keys') = Len(keys) - 1 /\ DOMAIN keys' = 1 .. Len(keys')
        /\ \A j \in 1 .. Len(keys) - 1 : keys'[j] = IF j < at THEN keys[j] ELSE keys[j + 1]
    BY <1>1, <1>2, KeyTaken
  <2>2. trav_pos' <= num_keys'
    <3>1. trav_pos' = MovedDown(trav_pos, FindKeyPos(k)) /\ FindKeyPos(k) \in Int
      BY <1>1, <1>2, ValuesHeld DEF RemoveKey
    <3> QED BY <1>1, <1>2, <2>1, <3>1 DEF MovedDown, num_keys
  <2> HIDE DEF at
  <2>3. ASSUME NEW j \in DOMAIN keys' PROVE Ordered((keys')[j].values)
    <3>1. j \in 1 .. Len(keys) - 1 /\ j \in 1 .. Len(keys) /\ j + 1 \in 1 .. Len(keys)
      BY <2>1
    <3>2. keys'[j] = keys[j] \/ keys'[j] = keys[j + 1]
      BY <2>1, <3>1
    <3> QED BY <1>1, <3>1, <3>2
  <2> QED BY <1>1, <2>2, <2>3 DEF WalkInv, Ordered
<1>3. CASE ~(FindKeyPos(k) >= 0)
  BY <1>1, <1>3 DEF RemoveKey, WalkInv, Ordered, num_keys
<1> QED BY <1>2, <1>3

LEMMA WalkNext == WalkInv /\ [Next]_vars => WalkInv'
<1> SUFFICES ASSUME WalkInv, [Next]_vars PROVE WalkInv'
  OBVIOUS
<1>1. Inv /\ Inv' /\ trav_pos \in Int /\ num_keys \in Int
  BY ValidNext, KeysRanked DEF WalkInv, Inv, ValidMultimap, num_keys
<1>2. ASSUME UNCHANGED <<order, keys>>, trav_pos' <= num_keys PROVE WalkInv'
  BY <1>1, <1>2 DEF WalkInv, Ordered, num_keys
<1>3. CASE UNCHANGED vars
  BY <1>2, <1>3 DEF vars, WalkInv
<1>4. ASSUME Next PROVE WalkInv'
  <2>1. UNCHANGED order
    BY <1>4 DEF Next
  <2>2. ASSUME NEW k \in Keys, NEW n \in Nums, NEW d \in Datas,
               \/ InsertKey(k, [num |-> n, data |-> d])
               \/ InsertMore(k, [num |-> n, data |-> d])
        PROVE  WalkInv'
    <3>1. [num |-> n, data |-> d] \in Values
      BY DEF Values
    <3> QED BY <2>1, <2>2, <3>1, WalkInsertKey, WalkInsertMore
  <2>3. ASSUME NEW k \in Keys, InsertFull(k) \/ InsertAborts(k) \/ RemoveKey(k)
        PROVE  WalkInv'
    <3>1. CASE InsertFull(k) \/ InsertAborts(k)
      BY <1>2, <2>1, <3>1 DEF InsertFull, InsertRefused, InsertAborts, WalkInv
    <3>2. CASE RemoveKey(k)
      BY <2>1, <3>2, WalkRemoveKey
    <3> QED BY <2>3, <3>1, <3>2
  <2>4. CASE InsertNoData \/ Ask \/ Halted
    BY <1>2, <2>1, <2>4 DEF InsertNoData, InsertRefused, Ask, Halted, WalkInv
  <2>5. CASE GetFirstKey
    <3>1. num_keys >= 0
      BY <1>1, KeysRanked DEF Inv, num_keys
    <3> QED BY <1>1, <1>2, <2>1, <2>5, <3>1 DEF GetFirstKey
  <2>6. CASE GetNextKey
    <3>1. num_keys >= 0
      BY <1>1, KeysRanked DEF Inv, num_keys
    <3> QED BY <1>1, <1>2, <2>1, <2>6, <3>1 DEF GetNextKey
  <2>7. CASE Destroy
    <3>1. keys' = <<>> /\ trav_pos' = -1
      BY <2>7 DEF Destroy
    <3>2. num_keys' = 0 /\ DOMAIN keys' = {}
      BY <3>1 DEF num_keys
    <3> QED BY <1>1, <3>1, <3>2 DEF WalkInv
  <2> QED BY <1>4, <2>2, <2>3, <2>4, <2>5, <2>6, <2>7 DEF Next, Change
<1> QED BY <1>3, <1>4

-----------------------------------------------------------------------------

LeftMatches ==
  \A l : l \in Left <=> /\ trav_pos >= 0
                        /\ \E j \in 1 .. Len(keys) : j > trav_pos /\ l = KeyRank[keys[j].key]

LEMMA LeftHas == Inv => LeftMatches
<1>1. ASSUME Inv PROVE DOMAIN keys = 1 .. Len(keys)
  BY <1>1, KeysRanked DEF Inv
<1> QED BY <1>1 DEF Left, Walking, LeftMatches

LEMMA LeftHasNext == Inv' => LeftMatches'
  BY LeftHas, PTL

LEMMA StepInsertKey ==
  ASSUME WalkInv, NEW k \in Keys, NEW v \in Values, InsertKey(k, v), UNCHANGED order
  PROVE  OM!Insert(KeyRank[k], v) /\ OM!Join(KeyRank[k])
<1> DEFINE r == KeyRank[k]
           pos == InsertionPos(k)
           n == Len(keys)
           vals == InsertedValue(<<>>, v)
           e == [key |-> k, values |-> vals]
<1>1. Inv /\ Inv' /\ trav_pos \in Int /\ trav_pos <= n /\ MaxKeys \in Nat /\ n < MaxKeys
      /\ order \in Orders
  BY ValidInsertKey, MaxKeysAssumption DEF WalkInv, Inv, ValidMultimap, num_keys, InsertKey
<1>2. MapMatches /\ MapMatches' /\ LeftMatches /\ LeftMatches'
  BY <1>1, MapAt, MapAtNext, LeftHas, LeftHasNext
<1>3. /\ n \in Nat /\ pos \in 0 .. n /\ Len(keys') = n + 1
      /\ \A j \in 1 .. n + 1 :
           keys'[j] = IF j < pos + 1 THEN keys[j] ELSE IF j = pos + 1 THEN e ELSE keys[j - 1]
      /\ \A i \in 1 .. n : IF i <= pos THEN KeyRank[keys[i].key] <= r ELSE r < KeyRank[keys[i].key]
  BY <1>1, KeyEntered
<1>4. r \in Ranks /\ Map[r] = <<>> /\ r \notin OM!Present
  BY <1>1, ValuesHeld DEF InsertKey
<1>5. \A i \in 1 .. n : KeyRank[keys[i].key] # r
  BY <1>1, KeyMissing DEF InsertKey, Inv
<1>6. e.key = k /\ e.values = vals
  OBVIOUS
<1>7. trav_pos' = MovedUp(trav_pos, pos, MaxKeys) /\ reply' = Number("insert", 1)
  BY DEF InsertKey
<1> HIDE DEF pos, n, e, vals
<1>8. Map' = [Map EXCEPT ![r] = vals]
  <2>1. Map'[r] = vals
    <3>1. pos + 1 \in 1 .. Len(keys') /\ keys'[pos + 1] = e
      BY <1>3
    <3> QED BY <1>2, <1>6, <3>1 DEF MapMatches
  <2>2. ASSUME NEW s \in Ranks, s # r PROVE Map'[s] = Map[s]
    <3>1. CASE \E i \in 1 .. n : KeyRank[keys[i].key] = s
      <4>1. PICK i \in 1 .. n : KeyRank[keys[i].key] = s
        BY <3>1
      <4>2. PICK j \in 1 .. Len(keys') : keys'[j] = keys[i]
        <5>1. CASE i <= pos
          <6>1. i \in 1 .. n + 1 /\ i < pos + 1
            BY <1>3, <5>1
          <6> QED BY <1>3, <6>1
        <5>2. CASE i > pos
          <6>1. i + 1 \in 1 .. n + 1 /\ ~(i + 1 < pos + 1) /\ i + 1 # pos + 1 /\ (i + 1) - 1 = i
            BY <1>3, <5>2
          <6> QED BY <1>3, <6>1
        <5> QED BY <1>3, <5>1, <5>2
      <4>3. Map[s] = keys[i].values
        BY <1>2, <4>1 DEF MapMatches, n
      <4>4. Map'[s] = keys'[j].values
        BY <1>2, <4>1, <4>2 DEF MapMatches
      <4> QED BY <4>2, <4>3, <4>4
    <3>2. CASE ~\E i \in 1 .. n : KeyRank[keys[i].key] = s
      <4>1. Map[s] = <<>>
        BY <1>2, <3>2 DEF MapMatches, n
      <4>2. ASSUME NEW j \in 1 .. Len(keys') PROVE KeyRank[keys'[j].key] # s
        <5>1. j \in 1 .. n + 1
          BY <1>3
        <5>2. CASE j < pos + 1
          <6>1. keys'[j] = keys[j] /\ j \in 1 .. n
            BY <1>3, <5>1, <5>2
          <6> QED BY <3>2, <6>1
        <5>3. CASE j = pos + 1
          <6>1. keys'[j] = e
            BY <1>3, <5>1, <5>3
          <6> QED BY <1>6, <2>2, <6>1
        <5>4. CASE j > pos + 1
          <6>1. keys'[j] = keys[j - 1] /\ j - 1 \in 1 .. n
            BY <1>3, <5>1, <5>4
          <6> QED BY <3>2, <6>1
        <5> QED BY <1>3, <5>1, <5>2, <5>3, <5>4
      <4>3. \A x \in Ranks : (\A j \in 1 .. Len(keys') : KeyRank[keys'[j].key] # x) => Map'[x] = <<>>
        BY <1>2 DEF MapMatches, Ranks
      <4>4. Map'[s] = <<>>
        BY <4>2, <4>3
      <4> QED BY <4>1, <4>4
    <3> QED BY <3>1, <3>2
  <2> HIDE DEF r
  <2> QED BY <1>1, <1>4, <2>1, <2>2, MapChanged
<1>9. vals \in OM!Placings(Map[r], v)
  <2>1. <<>> \in Seq(Values) /\ Ordered(<<>>)
    BY DEF Ordered
  <2>2. vals \in OM!Placings(<<>>, v)
    BY <1>1, <2>1, ValuePlaced DEF vals
  <2> QED BY <1>4, <2>2
<1>10. Walking' = Walking
  BY <1>1, <1>3, <1>7 DEF Walking, MovedUp
<1>11. OM!Cardinality(OM!Present) < MaxKeys
  BY <1>1, KeysPresent, SameCardinality DEF num_keys, n
<1>12. Answer' = OM!Number("insert", Len(Map[r]) + 1)
  <2>1. Len(Map[r]) + 1 = 1
    BY <1>4
  <2> QED BY <1>7, <2>1, AnswerNumber
<1>13. OM!Insert(r, v)
  <2>1. \E s \in OM!Placings(Map[r], v) : Map' = [Map EXCEPT ![r] = s]
    BY <1>8, <1>9
  <2> HIDE DEF r
  <2> QED BY <1>10, <1>11, <1>12, <2>1, Zenon DEF OM!Insert
<1>14. CASE ~Walking
  <2>1. Left = {} /\ Left' = {}
    BY <1>10, <1>14 DEF Left
  <2> QED BY <1>13, <1>14, <2>1 DEF OM!Join
<1>15. CASE Walking
  <2>1. trav_pos >= 0
    BY <1>15 DEF Walking
  <2>2. CASE pos < trav_pos
    <3>1. trav_pos' = trav_pos + 1
      BY <1>1, <1>3, <1>7, <2>2 DEF MovedUp
    <3>2. \A l \in Left : r < l
      <4> SUFFICES ASSUME NEW l \in Left PROVE r < l
        OBVIOUS
      <4>1. PICK i \in 1 .. n : i > trav_pos /\ l = KeyRank[keys[i].key]
        BY <1>2 DEF LeftMatches, n
      <4>2. ~(i <= pos)
        BY <1>1, <1>3, <2>2, <4>1
      <4> QED BY <1>3, <4>1, <4>2
    <3>3. ASSUME NEW l PROVE l \in Left' <=> l \in Left
      <4>1. ASSUME l \in Left' PROVE l \in Left
        <5>1. PICK j \in 1 .. n + 1 : j > trav_pos + 1 /\ l = KeyRank[keys'[j].key]
          BY <1>2, <1>3, <3>1, <4>1 DEF LeftMatches
        <5>2. keys'[j] = keys[j - 1] /\ j - 1 \in 1 .. n /\ j - 1 > trav_pos
          BY <1>1, <1>3, <2>2, <5>1
        <5> QED BY <1>2, <2>1, <5>1, <5>2 DEF LeftMatches, n
      <4>2. ASSUME l \in Left PROVE l \in Left'
        <5>1. PICK i \in 1 .. n : i > trav_pos /\ l = KeyRank[keys[i].key]
          BY <1>2, <4>2 DEF LeftMatches, n
        <5>2. i + 1 \in 1 .. n + 1 /\ i + 1 > trav_pos + 1 /\ trav_pos + 1 >= 0
              /\ ~(i + 1 < pos + 1) /\ i + 1 # pos + 1 /\ (i + 1) - 1 = i
          BY <1>1, <1>3, <2>1, <2>2, <5>1
        <5>3. keys'[i + 1] = keys[i]
          BY <1>3, <5>2
        <5> QED BY <1>2, <1>3, <3>1, <5>1, <5>2, <5>3 DEF LeftMatches
      <4> QED BY <4>1, <4>2
    <3>4. Left' = Left
      BY <3>3
    <3> QED BY <1>4, <1>13, <1>15, <3>2, <3>4 DEF OM!Join
  <2>3. CASE pos >= trav_pos
    <3>1. trav_pos' = trav_pos
      BY <1>1, <1>3, <1>7, <2>3 DEF MovedUp
    <3>2. ASSUME NEW l PROVE l \in Left' <=> l \in Left \/ l = r
      <4>1. ASSUME l \in Left' PROVE l \in Left \/ l = r
        <5>1. PICK j \in 1 .. n + 1 : j > trav_pos /\ l = KeyRank[keys'[j].key]
          BY <1>2, <1>3, <3>1, <4>1 DEF LeftMatches
        <5>2. CASE j < pos + 1
          <6>1. keys'[j] = keys[j] /\ j \in 1 .. n
            BY <1>3, <5>1, <5>2
          <6> QED BY <1>2, <2>1, <5>1, <6>1 DEF LeftMatches, n
        <5>3. CASE j = pos + 1
          <6>1. keys'[j] = e
            BY <1>3, <5>1, <5>3
          <6> QED BY <1>6, <5>1, <6>1
        <5>4. CASE j > pos + 1
          <6>1. keys'[j] = keys[j - 1] /\ j - 1 \in 1 .. n /\ j - 1 > trav_pos
            BY <1>1, <1>3, <2>3, <5>1, <5>4
          <6> QED BY <1>2, <2>1, <5>1, <6>1 DEF LeftMatches, n
        <5> QED BY <1>3, <5>1, <5>2, <5>3, <5>4
      <4>2. ASSUME l \in Left PROVE l \in Left'
        <5>1. PICK i \in 1 .. n : i > trav_pos /\ l = KeyRank[keys[i].key]
          BY <1>2, <4>2 DEF LeftMatches, n
        <5>2. PICK j \in 1 .. n + 1 : j > trav_pos /\ keys'[j] = keys[i]
          <6>1. CASE i <= pos
            <7>1. i \in 1 .. n + 1 /\ i < pos + 1
              BY <1>3, <6>1
            <7> QED BY <1>3, <5>1, <7>1
          <6>2. CASE i > pos
            <7>1. i + 1 \in 1 .. n + 1 /\ ~(i + 1 < pos + 1) /\ i + 1 # pos + 1 /\ (i + 1) - 1 = i
                  /\ i + 1 > trav_pos
              BY <1>1, <1>3, <5>1, <6>2
            <7>2. keys'[i + 1] = keys[i]
              BY <1>3, <7>1
            <7> QED BY <7>1, <7>2
          <6> QED BY <1>3, <6>1, <6>2
        <5> QED BY <1>2, <1>3, <2>1, <3>1, <5>1, <5>2 DEF LeftMatches
      <4>3. ASSUME l = r PROVE l \in Left'
        <5>1. pos + 1 \in 1 .. n + 1 /\ pos + 1 > trav_pos /\ keys'[pos + 1] = e
          BY <1>1, <1>3, <2>3
        <5> QED BY <1>2, <1>3, <1>6, <2>1, <3>1, <4>3, <5>1 DEF LeftMatches
      <4> QED BY <4>1, <4>2, <4>3
    <3>3. Left' = Left \cup {r}
      BY <3>2
    <3> QED BY <1>4, <1>13, <1>15, <3>3 DEF OM!Join
  <2> QED BY <1>1, <1>3, <2>2, <2>3
<1> QED BY <1>13, <1>14, <1>15

LEMMA StepInsertMore ==
  ASSUME WalkInv, NEW k \in Keys, NEW v \in Values, InsertMore(k, v), UNCHANGED order
  PROVE  OM!Insert(KeyRank[k], v) /\ OM!Join(KeyRank[k])
<1> DEFINE r == KeyRank[k]
           at == FindKeyPos(k) + 1
           n == Len(keys)
           vals == InsertedValue(keys[at].values, v)
<1>1. Inv /\ Inv' /\ order \in Orders
  BY ValidInsertMore DEF WalkInv, Inv
<1>2. MapMatches /\ MapMatches' /\ LeftMatches /\ LeftMatches'
  BY <1>1, MapAt, MapAtNext, LeftHas, LeftHasNext
<1>3. /\ at \in 1 .. n /\ DOMAIN keys = 1 .. n /\ Len(keys') = n
      /\ keys'[at].key = keys[at].key
      /\ keys'[at].values = vals
      /\ \A j \in 1 .. n : j # at => keys'[j] = keys[j]
  BY <1>1, ValueEntered
<1>4. r \in Ranks /\ r \in OM!Present /\ Map[r] = keys[at].values
      /\ KeyRank[keys[at].key] = r
  BY <1>1, ValuesHeld DEF InsertMore, ValuesAt
<1>5. trav_pos' = trav_pos /\ reply' = Number("insert", Len(keys[at].values) + 1)
  BY DEF InsertMore, ValuesAt
<1>6. vals \in OM!Placings(Map[r], v)
  <2>1. keys[at].values \in Seq(Values) /\ Ordered(keys[at].values)
    BY <1>1, <1>3, KeysRanked DEF Inv, WalkInv
  <2> QED BY <1>1, <1>4, <2>1, ValuePlaced
<1> HIDE DEF at, n, vals
<1>7. \A j \in 1 .. n : KeyRank[keys'[j].key] = KeyRank[keys[j].key]
  BY <1>3
<1>8. Map' = [Map EXCEPT ![r] = vals]
  <2>1. Map'[r] = vals
    BY <1>2, <1>3, <1>4 DEF MapMatches
  <2>2. ASSUME NEW s \in Ranks, s # r PROVE Map'[s] = Map[s]
    <3>1. CASE \E i \in 1 .. n : KeyRank[keys[i].key] = s
      <4>1. PICK i \in 1 .. n : KeyRank[keys[i].key] = s
        BY <3>1
      <4>2. keys'[i] = keys[i]
        BY <1>3, <1>4, <2>2, <4>1
      <4>3. Map[s] = keys[i].values
        BY <1>2, <4>1 DEF MapMatches, n
      <4>4. Map'[s] = keys'[i].values
        BY <1>2, <1>3, <4>1, <4>2 DEF MapMatches
      <4> QED BY <4>2, <4>3, <4>4
    <3>2. CASE ~\E i \in 1 .. n : KeyRank[keys[i].key] = s
      <4>1. Map[s] = <<>>
        BY <1>2, <3>2 DEF MapMatches, n
      <4>2. \A j \in 1 .. Len(keys') : KeyRank[keys'[j].key] # s
        BY <1>3, <1>7, <3>2
      <4>3. \A x \in Ranks : (\A j \in 1 .. Len(keys') : KeyRank[keys'[j].key] # x) => Map'[x] = <<>>
        BY <1>2 DEF MapMatches, Ranks
      <4>4. Map'[s] = <<>>
        BY <4>2, <4>3
      <4> QED BY <4>1, <4>4
    <3> QED BY <3>1, <3>2
  <2> HIDE DEF r
  <2> QED BY <1>1, <1>4, <2>1, <2>2, MapChanged
<1>9. Left' = Left
  <2>1. \A l : l \in Left' <=> l \in Left
    BY <1>2, <1>3, <1>5, <1>7 DEF LeftMatches, n
  <2> QED BY <2>1
<1>10. Walking' = Walking
  BY <1>5 DEF Walking
<1>11. Answer' = OM!Number("insert", Len(Map[r]) + 1)
  BY <1>4, <1>5, AnswerNumber
<1>12. OM!Insert(r, v)
  BY <1>4, <1>6, <1>8, <1>10, <1>11 DEF OM!Insert
<1> QED BY <1>4, <1>9, <1>12 DEF OM!Join

LEMMA StepRemoveKey ==
  ASSUME WalkInv, NEW k \in Keys, RemoveKey(k), UNCHANGED order
  PROVE  OM!RemoveKey(KeyRank[k])
<1> DEFINE r == KeyRank[k]
           at == FindKeyPos(k) + 1
           n == Len(keys)
<1>1. Inv /\ Inv' /\ trav_pos \in Int /\ trav_pos <= n /\ n \in Nat
  BY ValidRemoveKey, KeysRanked DEF WalkInv, Inv, ValidMultimap, num_keys
<1>2. MapMatches /\ MapMatches' /\ LeftMatches /\ LeftMatches'
  BY <1>1, MapAt, MapAtNext, LeftHas, LeftHasNext
<1>3. r \in Ranks /\ FindKeyPos(k) \in Int
  BY <1>1, ValuesHeld
<1>4. CASE FindKeyPos(k) >= 0
  <2>1. /\ at \in 1 .. n /\ Len(keys') = n - 1
        /\ \A j \in 1 .. n - 1 : keys'[j] = IF j < at THEN keys[j] ELSE keys[j + 1]
    BY <1>1, <1>4, KeyTaken
  <2>2. Map[r] = ValuesAt(FindKeyPos(k)) /\ KeyRank[keys[at].key] = r
    BY <1>1, <1>4, ValuesHeld
  <2>3. trav_pos' = MovedDown(trav_pos, at - 1) /\ reply' = Number("remove", Len(Map[r]))
    BY <1>3, <1>4, <2>2 DEF RemoveKey
  <2>4. \A i, j \in 1 .. n : i # j => KeyRank[keys[i].key] # KeyRank[keys[j].key]
    <3>1. Ranked(keys, KeyRank) /\ Ascending(keys, KeyRank)
      BY <1>1, KeysRanked DEF Inv, ValidMultimap
    <3>2. \A i, j \in 1 .. n : i < j => KeyRank[keys[i].key] < KeyRank[keys[j].key]
      BY <3>1, AscendingPairs
    <3>3. \A i \in 1 .. n : KeyRank[keys[i].key] \in Int
      BY <3>1 DEF Ranked
    <3> SUFFICES ASSUME NEW i \in 1 .. n, NEW j \in 1 .. n, i # j
                 PROVE  KeyRank[keys[i].key] # KeyRank[keys[j].key]
      OBVIOUS
    <3>4. i < j \/ j < i
      OBVIOUS
    <3> QED BY <3>2, <3>3, <3>4
  <2> HIDE DEF at, n
  <2>5. ASSUME NEW i \in 1 .. n, i # at
        PROVE  \E j \in 1 .. n - 1 : keys'[j] = keys[i] /\ j = IF i < at THEN i ELSE i - 1
    <3>1. CASE i < at
      <4>1. i \in 1 .. n - 1
        BY <1>1, <2>1, <3>1
      <4> QED BY <2>1, <3>1, <4>1
    <3>2. CASE i > at
      <4>1. i - 1 \in 1 .. n - 1 /\ ~(i - 1 < at) /\ (i - 1) + 1 = i /\ ~(i < at)
        BY <1>1, <2>1, <3>2
      <4> QED BY <2>1, <4>1
    <3> QED BY <2>1, <2>5, <3>1, <3>2
  <2>6. ASSUME NEW j \in 1 .. n - 1
        PROVE  \E i \in 1 .. n : keys'[j] = keys[i] /\ i # at /\ i = IF j < at THEN j ELSE j + 1
    <3>1. CASE j < at
      <4>1. j \in 1 .. n /\ j # at
        BY <1>1, <2>1, <3>1
      <4> QED BY <2>1, <3>1, <4>1
    <3>2. CASE ~(j < at)
      <4>1. j + 1 \in 1 .. n /\ j + 1 # at
        BY <1>1, <2>1, <3>2
      <4> QED BY <2>1, <3>2, <4>1
    <3> QED BY <3>1, <3>2
  <2>7. Map' = [Map EXCEPT ![r] = <<>>]
    <3>0. /\ \A x \in Ranks : (\A j \in 1 .. n - 1 : KeyRank[keys'[j].key] # x) => Map'[x] = <<>>
          /\ \A j \in 1 .. n - 1 : Map'[KeyRank[keys'[j].key]] = keys'[j].values
          /\ \A i \in 1 .. n : Map[KeyRank[keys[i].key]] = keys[i].values
          /\ \A x \in Ranks : (\A j \in 1 .. n : KeyRank[keys[j].key] # x) => Map[x] = <<>>
      BY <1>2, <2>1 DEF MapMatches, Ranks, n
    <3>1. Map'[r] = <<>>
      <4>1. \A j \in 1 .. n - 1 : KeyRank[keys'[j].key] # r
        BY <2>1, <2>2, <2>4, <2>6
      <4> QED BY <1>3, <3>0, <4>1
    <3>2. ASSUME NEW s \in Ranks, s # r PROVE Map'[s] = Map[s]
      <4>1. CASE \E i \in 1 .. n : KeyRank[keys[i].key] = s
        <5>1. PICK i \in 1 .. n : KeyRank[keys[i].key] = s
          BY <4>1
        <5>2. i # at
          BY <2>2, <3>2, <5>1
        <5>3. PICK j \in 1 .. n - 1 : keys'[j] = keys[i]
          BY <2>5, <5>2
        <5>4. Map'[s] = keys'[j].values
          BY <3>0, <5>1, <5>3
        <5> QED BY <3>0, <5>1, <5>3, <5>4
      <4>2. CASE ~\E i \in 1 .. n : KeyRank[keys[i].key] = s
        <5>1. \A j \in 1 .. n - 1 : KeyRank[keys'[j].key] # s
          BY <2>6, <4>2
        <5> QED BY <3>0, <4>2, <5>1
      <4> QED BY <4>1, <4>2
    <3> HIDE DEF r
    <3> QED BY <1>1, <1>3, <3>1, <3>2, MapChanged
  <2>8. Walking' = Walking
    BY <1>1, <2>1, <2>3 DEF Walking, MovedDown
  <2>9. Left' = Left \ {r}
    <3>1. CASE ~Walking
      <4>1. Left = {} /\ Left' = {}
        BY <2>8, <3>1 DEF Left
      <4> QED BY <4>1
    <3>2. CASE Walking
      <4>1. trav_pos >= 0 /\ trav_pos' >= 0
        BY <2>8, <3>2 DEF Walking
      <4>2. trav_pos' = IF at <= trav_pos THEN trav_pos - 1 ELSE trav_pos
        BY <1>1, <2>1, <2>3, <4>1 DEF MovedDown
      <4>3. ASSUME NEW l PROVE l \in Left' <=> l \in Left /\ l # r
        <5>1. ASSUME l \in Left' PROVE l \in Left /\ l # r
          <6>1. PICK j \in 1 .. n - 1 : j > trav_pos' /\ l = KeyRank[keys'[j].key]
            BY <1>2, <2>1, <5>1 DEF LeftMatches
          <6>2. PICK i \in 1 .. n : keys'[j] = keys[i] /\ i # at /\ i = IF j < at THEN j ELSE j + 1
            BY <2>6
          <6>3. i > trav_pos
            BY <1>1, <2>1, <4>2, <6>1, <6>2
          <6>4. l # r
            BY <2>1, <2>2, <2>4, <6>1, <6>2
          <6>5. l \in Left
            BY <1>2, <4>1, <6>1, <6>2, <6>3 DEF LeftMatches, n
          <6> QED BY <6>4, <6>5
        <5>2. ASSUME l \in Left, l # r PROVE l \in Left'
          <6>1. PICK i \in 1 .. n : i > trav_pos /\ l = KeyRank[keys[i].key]
            BY <1>2, <5>2 DEF LeftMatches, n
          <6>2. i # at
            BY <2>2, <5>2, <6>1
          <6>3. PICK j \in 1 .. n - 1 : keys'[j] = keys[i] /\ j = IF i < at THEN i ELSE i - 1
            BY <2>5, <6>2
          <6>4. j > trav_pos'
            BY <1>1, <2>1, <4>2, <6>1, <6>2, <6>3
          <6> QED BY <1>2, <2>1, <4>1, <6>1, <6>3, <6>4 DEF LeftMatches
        <5> QED BY <5>1, <5>2
      <4> QED BY <4>3
    <3> QED BY <3>1, <3>2
  <2>10. Answer' = OM!Number("remove", Len(Map[r]))
    BY <2>3, AnswerNumber
  <2> QED BY <2>7, <2>8, <2>9, <2>10 DEF OM!RemoveKey
<1>5. CASE FindKeyPos(k) < 0
  <2>1. Map[r] = <<>> /\ r \notin OM!Present
    BY <1>1, <1>5, ValuesHeld
  <2>2. ~(FindKeyPos(k) >= 0)
    BY <1>3, <1>5
  <2>3. UNCHANGED <<keys, trav_pos>> /\ reply' = Number("remove", 0)
    BY <2>2 DEF RemoveKey
  <2>4. UNCHANGED <<Map, Left, Walking>>
    BY <2>3, SameArray
  <2>5. Map' = [Map EXCEPT ![r] = <<>>]
    <3>1. \A s \in Ranks : s # r => Map'[s] = Map[s]
      BY <2>4
    <3>2. Map'[r] = <<>>
      BY <2>1, <2>4
    <3> HIDE DEF r
    <3> QED BY <1>1, <1>3, <3>1, <3>2, MapChanged
  <2>6. r \notin Left
    <3>1. \A i \in 1 .. n : KeyRank[keys[i].key] # r
      BY <1>1, <1>5, KeyMissing DEF Inv
    <3> QED BY <1>2, <3>1 DEF LeftMatches
  <2>7. Left' = Left \ {r}
    BY <2>4, <2>6
  <2>8. Len(Map[r]) = 0
    BY <2>1
  <2>9. Answer' = OM!Number("remove", Len(Map[r]))
    BY <2>3, <2>8, AnswerNumber
  <2> QED BY <2>4, <2>5, <2>7, <2>9 DEF OM!RemoveKey
<1> QED BY <1>3, <1>4, <1>5

LEMMA StepAsk ==
  ASSUME WalkInv, Ask
  PROVE  OM!Ask
<1>1. Inv
  BY DEF WalkInv
<1>2. UNCHANGED <<Map, Left, Walking>>
  BY SameArray DEF Ask
<1>3. CASE CountKeys
  <2>1. reply' = Number("keys", OM!Cardinality(OM!Present))
    BY <1>1, <1>3, KeysPresent, SameCardinality DEF CountKeys
  <2>2. OM!CountKeys
    BY <2>1, AnswerNumber DEF OM!CountKeys
  <2> QED BY <1>2, <2>2 DEF OM!Ask
<1>4. ASSUME NEW k \in Keys, CountValues(k) PROVE OM!Ask
  <2>1. KeyRank[k] \in Ranks /\ ValuesOf(k) = Map[KeyRank[k]]
    BY <1>1, ValuesHeld
  <2>2. OM!CountValues(KeyRank[k])
    BY <1>4, <2>1, AnswerNumber DEF CountValues, OM!CountValues
  <2> QED BY <1>2, <2>1, <2>2 DEF OM!Ask
<1>5. ASSUME NEW k \in Keys, NEW max \in 0 .. MaxValues, GetValues(k, max) PROVE OM!Ask
  <2> DEFINE vals == Map[KeyRank[k]]
  <2>1. KeyRank[k] \in Ranks /\ ValuesOf(k) = vals
    BY <1>1, ValuesHeld
  <2>2. Len(vals) \in Nat
    <3>1. vals \in Seq(Values)
      <4>1. CASE FindKeyPos(k) >= 0
        <5>1. FindKeyPos(k) + 1 \in 1 .. Len(keys) /\ ValuesAt(FindKeyPos(k)) = vals
          BY <1>1, <4>1, ValuesHeld
        <5>2. \A i \in 1 .. Len(keys) : keys[i].values \in Seq(Values)
          BY <1>1, KeysRanked DEF Inv
        <5> QED BY <5>1, <5>2 DEF ValuesAt
      <4>2. CASE FindKeyPos(k) < 0
        <5>1. vals = <<>>
          BY <1>1, <4>2, ValuesHeld
        <5> HIDE DEF vals
        <5> QED BY <5>1
      <4>3. FindKeyPos(k) \in Int
        BY <1>1, ValuesHeld
      <4> QED BY <4>1, <4>2, <4>3
    <3> HIDE DEF vals
    <3> QED BY <3>1
  <2>3. PICK m \in 0 .. Len(vals) + 1 : Min({m, Len(vals)}) = Min({max, Len(vals)})
    <3>1. \A a, b \in Nat : Min({a, b}) = IF a <= b THEN a ELSE b
      <4> SUFFICES ASSUME NEW a \in Nat, NEW b \in Nat
                   PROVE  Min({a, b}) = IF a <= b THEN a ELSE b
        OBVIOUS
      <4>1. {a, b} \in SUBSET Nat /\ {a, b} # {}
        OBVIOUS
      <4>2. Min({a, b}) \in {a, b} /\ \A n \in {a, b} : Min({a, b}) <= n
        BY <4>1, LeastNumber
      <4> QED BY <4>2
    <3> HIDE DEF vals
    <3>2. max \in Nat /\ (max <= Len(vals) \/ max > Len(vals))
      BY <2>2, MaxValuesAssumption
    <3>3. CASE max <= Len(vals)
      <4>1. max \in 0 .. Len(vals) + 1
        BY <2>2, <3>2, <3>3
      <4> QED BY <4>1
    <3>4. CASE max > Len(vals)
      <4>1. Len(vals) + 1 \in 0 .. Len(vals) + 1 /\ ~(Len(vals) + 1 <= Len(vals))
            /\ ~(max <= Len(vals)) /\ Len(vals) + 1 \in Nat
        BY <2>2, <3>2, <3>4
      <4>2. Min({max, Len(vals)}) = Len(vals) /\ Min({Len(vals) + 1, Len(vals)}) = Len(vals)
        BY <2>2, <3>1, <3>2, <4>1
      <4> QED BY <4>1, <4>2
    <3> QED BY <3>2, <3>3, <3>4
  <2>4. OM!GetValues(KeyRank[k], m)
    <3> DEFINE count == Min({max, Len(vals)})
    <3>1. reply' = Reply("get", count, NULL, SubSeq(vals, 1, count))
      BY <1>5, <2>1 DEF GetValues
    <3>2. OM!Min({m, Len(vals)}) = count
      BY <2>3, SameMin
    <3> HIDE DEF count
    <3>3. Answer' = OM!Reply("get", count, NULL, SubSeq(vals, 1, count))
      BY <3>1, AnswerValues
    <3> QED BY <3>2, <3>3 DEF OM!GetValues
  <2> QED BY <1>2, <2>1, <2>3, <2>4 DEF OM!Ask
<1> QED BY <1>3, <1>4, <1>5 DEF Ask

LEMMA StepFirst ==
  ASSUME WalkInv, GetFirstKey
  PROVE  OM!First
<1>1. Inv /\ UNCHANGED keys /\ Len(keys) \in Nat
  BY KeysRanked DEF WalkInv, Inv, GetFirstKey
<1>2. Map' = Map
  BY <1>1 DEF Map, PlacesOf
<1>3. DOMAIN keys = 1 .. Len(keys) /\ OM!Present = RanksAfter(0)
  BY <1>1, KeysRanked, KeysPresent DEF Inv
<1>4. CASE num_keys > 0
  <2>1. 0 \in 0 .. Len(keys) - 1
    BY <1>1, <1>4 DEF num_keys
  <2> DEFINE least == KeyRank[keys[0 + 1].key]
  <2>2. /\ RanksAfter(0) # {} /\ Min(RanksAfter(0)) = least
        /\ RanksAfter(0 + 1) = RanksAfter(0) \ {least}
    BY <1>1, <2>1, LeastAfter
  <2>3. trav_pos' = 1 /\ reply' = Reply("first", 1, KeyAt(0), <<>>)
    BY <1>4 DEF GetFirstKey
  <2>4. KeyAt(0) \in Keys /\ KeyRank[KeyAt(0)] = least
    <3>1. 1 \in 1 .. Len(keys) /\ 0 + 1 = 1
      BY <1>1, <2>1
    <3> QED BY <1>1, <3>1, KeysRanked DEF Inv, KeyAt
  <2>5. Left' = RanksAfter(0 + 1)
    BY <1>1, <1>3, <2>3 DEF Left, Walking, RanksAfter
  <2>6. Walking'
    BY <2>3 DEF Walking
  <2>7. Answer' = OM!Reply("first", 1, least, <<>>)
    <3> HIDE DEF least
    <3> QED BY <2>3, <2>4, AnswerKey
  <2>8. OM!Min(OM!Present) = least
    BY <1>3, <2>2, SameMin
  <2> HIDE DEF least
  <2>9. OM!Present # {} /\ Left' = OM!Present \ {OM!Min(OM!Present)}
        /\ Answer' = OM!Reply("first", 1, OM!Min(OM!Present), <<>>)
    BY <1>3, <2>2, <2>5, <2>7, <2>8
  <2>10. Walking' = (OM!Present # {})
    BY <2>6, <2>9 DEF Walking
  <2> QED BY <1>2, <2>9, <2>10 DEF OM!First
<1>5. CASE ~(num_keys > 0)
  <2>1. trav_pos' = -1 /\ reply' = Number("first", 0)
    BY <1>5 DEF GetFirstKey
  <2>2. ~Walking' /\ Left' = {}
    BY <2>1 DEF Walking, Left
  <2>3. OM!Present = {}
    BY <1>1, <1>3, <1>5 DEF RanksAfter, num_keys
  <2>4. Answer' = OM!Number("first", 0)
    BY <2>1, AnswerNumber
  <2>5. Walking' = (OM!Present # {})
    BY <2>2, <2>3 DEF Walking
  <2> QED BY <1>2, <2>2, <2>3, <2>4, <2>5 DEF OM!First
<1> QED BY <1>4, <1>5

LEMMA StepNext ==
  ASSUME WalkInv, GetNextKey
  PROVE  OM!Step
<1>1. Inv /\ UNCHANGED keys /\ Len(keys) \in Nat /\ trav_pos \in Int /\ trav_pos <= Len(keys)
  BY KeysRanked DEF WalkInv, Inv, ValidMultimap, GetNextKey, num_keys
<1>2. Map' = Map
  BY <1>1 DEF Map, PlacesOf
<1>3. DOMAIN keys = 1 .. Len(keys) /\ Left = IF Walking THEN RanksAfter(trav_pos) ELSE {}
  BY <1>1, KeysRanked, LeftAfter DEF Inv
<1>4. CASE trav_pos < num_keys /\ trav_pos >= 0
  <2>1. trav_pos \in 0 .. Len(keys) - 1
    BY <1>1, <1>4 DEF num_keys
  <2> DEFINE least == KeyRank[keys[trav_pos + 1].key]
  <2>2. /\ RanksAfter(trav_pos) # {} /\ Min(RanksAfter(trav_pos)) = least
        /\ RanksAfter(trav_pos + 1) = RanksAfter(trav_pos) \ {least}
    BY <1>1, <2>1, LeastAfter
  <2>3. trav_pos' = trav_pos + 1 /\ reply' = Reply("next", 1, KeyAt(trav_pos), <<>>)
    BY <1>4 DEF GetNextKey
  <2>4. KeyAt(trav_pos) \in Keys /\ KeyRank[KeyAt(trav_pos)] = least
    <3>1. trav_pos + 1 \in 1 .. Len(keys)
      BY <1>1, <2>1
    <3> QED BY <1>1, <3>1, KeysRanked DEF Inv, KeyAt
  <2>5. Walking /\ Walking' /\ trav_pos + 1 >= 0
    BY <1>1, <1>4, <2>3 DEF Walking
  <2>6. Left' = RanksAfter(trav_pos + 1)
    BY <1>1, <1>3, <2>3, <2>5 DEF Left, Walking, RanksAfter
  <2>7. Answer' = OM!Reply("next", 1, least, <<>>)
    <3> HIDE DEF least
    <3> QED BY <2>3, <2>4, AnswerKey
  <2>8. Left = RanksAfter(trav_pos)
    BY <1>3, <2>5
  <2> HIDE DEF least
  <2>9. OM!Min(Left) = least
    BY <2>2, <2>8, SameMin
  <2>10. Left # {} /\ Left' = Left \ {OM!Min(Left)}
         /\ Answer' = OM!Reply("next", 1, OM!Min(Left), <<>>)
    BY <2>2, <2>6, <2>7, <2>8, <2>9
  <2>11. Walking' = (Left # {})
    BY <2>5, <2>10 DEF Walking
  <2> QED BY <1>2, <2>10, <2>11 DEF OM!Step
<1>5. CASE ~(trav_pos < num_keys /\ trav_pos >= 0)
  <2>1. trav_pos' = -1 /\ reply' = Number("next", IF trav_pos < 0 THEN -1 ELSE 0)
    BY <1>5 DEF GetNextKey
  <2>2. ~Walking' /\ Left' = {}
    BY <2>1 DEF Walking, Left
  <2>3. Left = {}
    BY <1>1, <1>3, <1>5 DEF RanksAfter, num_keys, Walking
  <2>4. (IF trav_pos < 0 THEN -1 ELSE 0) = IF Walking THEN 0 ELSE -1
    BY <1>1 DEF Walking
  <2>5. Answer' = OM!Number("next", IF Walking THEN 0 ELSE -1)
    BY <2>1, <2>4, AnswerNumber
  <2>6. Walking' = (Left # {})
    BY <2>2, <2>3 DEF Walking
  <2> QED BY <1>2, <2>2, <2>3, <2>5, <2>6 DEF OM!Step
<1> QED BY <1>4, <1>5

LEMMA StepDestroy ==
  ASSUME WalkInv, Destroy, Inv'
  PROVE  OM!Destroy
<1> DEFINE n == Len(keys)
           lens == [i \in DOMAIN keys |-> Len(keys[i].values)]
           rank == [i \in 1 .. n |-> KeyRank[keys[i].key]]
           held == [r \in OM!Present |-> Len(Map[r])]
<1>1. Inv /\ n \in Nat /\ MapMatches /\ DOMAIN keys = 1 .. n
  BY MapAt, KeysRanked DEF WalkInv, Inv
<1>2. /\ OM!Present = RanksAfter(0) /\ IsFiniteSet(OM!Present)
      /\ Cardinality(OM!Present) = num_keys
      /\ rank \in Bijection(1 .. n, OM!Present)
  BY <1>1, KeysPresent
<1>3. keys' = <<>> /\ trav_pos' = -1 /\ reply' = Number("destroy", num_keys + CountAll)
  BY DEF Destroy
<1>4. CountAll = SumFunctionOnSet(lens, 1 .. n)
  <2>1. DOMAIN lens = 1 .. n
    BY <1>1
  <2>2. CountAll = SumFunction(lens)
    BY DEF CountAll
  <2> HIDE DEF lens, n
  <2> QED BY <2>1, <2>2 DEF SumFunction
<1>5. \A i \in 1 .. n : lens[i] \in Int /\ rank[i] \in OM!Present /\ lens[i] = held[rank[i]]
  <2> SUFFICES ASSUME NEW i \in 1 .. n
               PROVE  lens[i] \in Int /\ rank[i] \in OM!Present /\ lens[i] = held[rank[i]]
    OBVIOUS
  <2>1. lens[i] = Len(keys[i].values) /\ rank[i] = KeyRank[keys[i].key]
    BY <1>1
  <2>2. keys[i].values \in Seq(Values) /\ Map[rank[i]] = keys[i].values
    BY <1>1, <2>1, KeysRanked DEF Inv, MapMatches
  <2>3. rank[i] \in OM!Present
    BY <1>1, <1>2, <2>1 DEF RanksAfter
  <2>4. held[rank[i]] = Len(Map[rank[i]])
    BY <2>3
  <2> HIDE DEF lens, rank, held
  <2> QED BY <2>1, <2>2, <2>3, <2>4
<1>6. \A r \in OM!Present : held[r] \in Int
  <2> SUFFICES ASSUME NEW r \in OM!Present PROVE held[r] \in Int
    OBVIOUS
  <2>1. PICK i \in 1 .. n : rank[i] = r
    <3> HIDE DEF rank, held, lens
    <3> QED BY <1>2 DEF Bijection, Surjection
  <2> HIDE DEF held, lens, rank
  <2> QED BY <1>5, <2>1
<1>7. SumFunctionOnSet(lens, 1 .. n) = SumFunctionOnSet(held, OM!Present)
  <2> DEFINE S == 1 .. n
             T == OM!Present
  <2>1. IsFiniteSet(S) /\ IsFiniteSet(T)
    BY <1>1, <1>2, FS_Interval
  <2>2. \A i \in S : lens[i] \in Int
    BY <1>5
  <2>3. \A i \in S : lens[i] = held[rank[i]]
    BY <1>5
  <2>4. rank \in Bijection(S, T)
    BY <1>2
  <2>5. \A r \in T : held[r] \in Int
    BY <1>6
  <2> HIDE DEF lens, rank, held, n, S, T
  <2>6. SumFunctionOnSet(lens, S) = SumFunctionOnSet(held, T)
    BY <2>1, <2>2, <2>3, <2>4, <2>5, SumsEqual
  <2> QED BY <2>6 DEF S, T
<1>8. OM!SumFunction(held) = SumFunctionOnSet(held, OM!Present)
  <2>1. DOMAIN held = OM!Present
    OBVIOUS
  <2> HIDE DEF held
  <2> QED BY <2>1, SameSum
<1>9. reply' = Number("destroy", OM!Cardinality(OM!Present) + OM!SumFunction(held))
  <2>1. OM!Cardinality(OM!Present) = num_keys
    BY <1>2, SameCardinality
  <2> HIDE DEF held, lens
  <2> QED BY <1>3, <1>4, <1>7, <1>8, <2>1
<1>10. Answer' = OM!Number("destroy", OM!Cardinality(OM!Present) + OM!SumFunction(held))
  BY <1>9, AnswerNumber
<1>11. Map' = [r \in Ranks |-> <<>>]
  <2>1. DOMAIN keys' = {}
    BY <1>3
  <2>2. \A r : {i \in DOMAIN keys' : KeyRank[keys'[i].key] = r} = {}
    BY <2>1
  <2>3. \A r \in Ranks : PlacesOf(r)' = {}
    BY <2>2 DEF PlacesOf
  <2>4. Map' = [r \in Ranks |-> IF PlacesOf(r)' = {} THEN <<>>
                               ELSE keys'[CHOOSE i \in PlacesOf(r)' : TRUE].values]
    BY DEF Map, Ranks
  <2> QED BY <2>3, <2>4
<1>12. Left' = {} /\ ~Walking'
  BY <1>3 DEF Left, Walking
<1>13. Walking' = FALSE
  BY <1>12 DEF Walking
<1> QED BY <1>10, <1>11, <1>12, <1>13 DEF OM!Destroy

LEMMA MapsToInit == Init => OM!Init
<1> SUFFICES ASSUME Init PROVE OM!Init
  OBVIOUS
<1>1. order \in Orders /\ keys = <<>> /\ trav_pos = -1 /\ reply = Number("create", 0)
  BY DEF Init
<1>2. Map = [r \in Ranks |-> <<>>]
  <2>1. \A r : PlacesOf(r) = {}
    BY <1>1 DEF PlacesOf
  <2> QED BY <2>1 DEF Map
<1>3. Left = {} /\ Walking = FALSE
  BY <1>1 DEF Left, Walking
<1>4. Answer = OM!Number("create", 0)
  BY <1>1 DEF Answer, Rank, Number, Reply, OM!Number, OM!Reply
<1> QED BY <1>1, <1>2, <1>3, <1>4 DEF OM!Init

LEMMA MapsToNext == WalkInv /\ [Next]_vars => [OM!Next]_(OM!vars)
<1> SUFFICES ASSUME WalkInv, [Next]_vars PROVE [OM!Next]_(OM!vars)
  OBVIOUS
<1>1. Inv /\ Inv'
  BY ValidNext DEF WalkInv
<1>2. ASSUME UNCHANGED <<order, keys, trav_pos, reply>> PROVE UNCHANGED OM!vars
  <2>1. UNCHANGED <<Map, Left, Walking>>
    BY <1>2, SameArray
  <2>2. Answer' = Answer
    BY <1>2 DEF Answer, Rank
  <2> QED BY <1>2, <2>1, <2>2 DEF OM!vars
<1>3. CASE UNCHANGED vars
  BY <1>2, <1>3 DEF vars
<1>4. ASSUME Next PROVE [OM!Next]_(OM!vars)
  <2>1. UNCHANGED order
    BY <1>4 DEF Next
  <2>2. ASSUME NEW k \in Keys, NEW n \in Nums, NEW d \in Datas,
               \/ InsertKey(k, [num |-> n, data |-> d])
               \/ InsertMore(k, [num |-> n, data |-> d])
        PROVE  OM!Next
    <3> DEFINE v == [num |-> n, data |-> d]
    <3>1. v \in Values /\ KeyRank[k] \in Ranks
      BY DEF Values, Ranks
    <3> HIDE DEF v
    <3>2. InsertKey(k, v) \/ InsertMore(k, v)
      BY <2>2 DEF v
    <3>3. OM!Insert(KeyRank[k], v) /\ OM!Join(KeyRank[k])
      BY <2>1, <3>1, <3>2, StepInsertKey, StepInsertMore
    <3> QED BY <2>1, <3>1, <3>3 DEF OM!Next
  <2>3. ASSUME NEW k \in Keys, RemoveKey(k) PROVE OM!Next
    <3>1. KeyRank[k] \in Ranks
      BY DEF Ranks
    <3>2. OM!RemoveKey(KeyRank[k])
      BY <2>1, <2>3, StepRemoveKey
    <3> QED BY <2>1, <3>1, <3>2 DEF OM!Next
  <2>4. ASSUME InsertRefused PROVE OM!Next
    <3>1. UNCHANGED <<Map, Left, Walking>>
      BY <2>4, SameArray DEF InsertRefused
    <3>2. Answer' = OM!Number("insert", -1)
      BY <2>4, AnswerNumber DEF InsertRefused
    <3> QED BY <2>1, <3>1, <3>2 DEF OM!Next, OM!InsertRefused
  <2>5. ASSUME NEW k \in Keys, InsertAborts(k) PROVE UNCHANGED OM!vars
    BY <1>2, <2>1, <2>5 DEF InsertAborts
  <2>6. CASE Ask
    BY <2>1, <2>6, StepAsk DEF OM!Next
  <2>7. CASE GetFirstKey
    BY <2>1, <2>7, StepFirst DEF OM!Next
  <2>8. CASE GetNextKey
    BY <2>1, <2>8, StepNext DEF OM!Next
  <2>9. CASE Destroy
    BY <1>1, <2>1, <2>9, StepDestroy DEF OM!Next
  <2>10. CASE Halted
    BY <1>2, <2>1, <2>10 DEF Halted
  <2>11. Change \/ Halted
    BY <1>4 DEF Next
  <2>12. ASSUME Change PROVE OM!Next \/ UNCHANGED OM!vars
    <3>1. ASSUME NEW k \in Keys,
                 \/ \E n \in Nums, d \in Datas :
                      LET v == [num |-> n, data |-> d] IN InsertKey(k, v) \/ InsertMore(k, v)
                 \/ InsertFull(k) \/ InsertAborts(k) \/ RemoveKey(k)
          PROVE  OM!Next \/ UNCHANGED OM!vars
      <4>1. CASE \E n \in Nums, d \in Datas :
                   LET v == [num |-> n, data |-> d] IN InsertKey(k, v) \/ InsertMore(k, v)
        BY <2>2, <4>1
      <4>2. CASE InsertFull(k)
        BY <2>4, <4>2 DEF InsertFull
      <4>3. CASE InsertAborts(k)
        BY <2>5, <4>3
      <4>4. CASE RemoveKey(k)
        BY <2>3, <4>4
      <4> QED BY <3>1, <4>1, <4>2, <4>3, <4>4
    <3>2. CASE InsertNoData
      BY <2>4, <3>2 DEF InsertNoData
    <3> QED BY <2>6, <2>7, <2>8, <2>9, <2>12, <3>1, <3>2 DEF Change
  <2> QED BY <2>10, <2>11, <2>12
<1> QED BY <1>3, <1>4

\* For any keys, ranks, values and comparator, the array with its one traversal
\* position (a5_multimap.c) behaves as an ordered multimap: values stay with their key
\* and in their order, and a traversal skips no key that stays and returns none twice
\* that has not been removed and inserted again, though keys come and go before and
\* behind its position.
THEOREM ArrayImplements == Spec => ImplementsMultimap
<1>1. Init => OM!Init
  BY MapsToInit
<1>2. WalkInv /\ [Next]_vars => [OM!Next]_(OM!vars)
  BY MapsToNext
<1> QED BY <1>1, <1>2, WalkInit, WalkNext, PTL DEF Spec, ImplementsMultimap, OM!Spec
=============================================================================
