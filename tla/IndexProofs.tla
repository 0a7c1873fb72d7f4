----------------------------- MODULE IndexProofs -----------------------------
(***************************************************************************)
(* For every device and every sequence of operations: the multimap in      *)
(* fs->index is what imffs takes it for.                                   *)
(***************************************************************************)
EXTENDS ImffsIndex, DefragProofs

-----------------------------------------------------------------------------
(* What an array holds, and what insertion and removal make of it *)

Entry == [key : FileIds, values : Seq(Cluster)]

MapType == [keys : Seq(Entry), trav_pos : -1 .. BlockCount]

\* The array m has the Files that have clusters in the function of, each once, with
\* those clusters.
Holds(m, of) ==
  /\ m \in MapType
  /\ Len(m.keys) <= BlockCount
  /\ \A i \in 1 .. Len(m.keys) :
       m.keys[i].values = of[m.keys[i].key] /\ m.keys[i].values # <<>>
  /\ \A i, j \in 1 .. Len(m.keys) : m.keys[i].key = m.keys[j].key => i = j
  /\ \A f \in FileIds : of[f] # <<>> => \E i \in 1 .. Len(m.keys) : m.keys[i].key = f

\* ... in the order of rank, in which the Files that have clusters differ.
Sorted(m, of, rank) ==
  /\ Holds(m, of)
  /\ Ascending(m.keys, rank)
  /\ \A f \in FileIds : rank[f] \in Int

Clusters == [FileIds -> Seq(Cluster)]

KeysIn(of) == {f \in FileIds : of[f] # <<>>}

\* No other File in of has the rank of f.
Apart(of, rank, f) == \A g \in KeysIn(of) : g # f => rank[g] # rank[f]

LEMMA EntryAt ==
  ASSUME NEW m \in MapType
  PROVE  /\ Len(m.keys) \in Nat
         /\ \A i \in 1 .. Len(m.keys) :
              /\ m.keys[i] \in Entry
              /\ m.keys[i].key \in FileIds
              /\ m.keys[i].values \in Seq(Cluster)
<1>1. m.keys \in Seq(Entry)
  BY DEF MapType
<1> DEFINE s == m.keys
<1> HIDE DEF s
<1>2. s \in Seq(Entry)
  BY <1>1 DEF s
<1>3. Len(s) \in Nat /\ \A i \in 1 .. Len(s) : s[i] \in Entry
  BY <1>2
<1>4. \A e \in Entry : e.key \in FileIds /\ e.values \in Seq(Cluster)
  BY DEF Entry
<1> QED BY <1>3, <1>4 DEF s

LEMMA SortedIsRanked ==
  ASSUME NEW m, NEW of, NEW rank, Sorted(m, of, rank)
  PROVE  /\ m \in MapType /\ Ranked(m.keys, rank) /\ Ascending(m.keys, rank)
         /\ \A i, j \in 1 .. Len(m.keys) :
              i < j => rank[m.keys[i].key] < rank[m.keys[j].key]
<1>1. m \in MapType /\ Ascending(m.keys, rank) /\ \A f \in FileIds : rank[f] \in Int
  BY DEF Sorted, Holds
<1>2. Ranked(m.keys, rank)
  BY <1>1, EntryAt DEF Ranked
<1> QED BY <1>1, <1>2, AscendingPairs

\* Where the search lands.
LEMMA SearchLands ==
  ASSUME NEW m, NEW of, NEW rank, Sorted(m, of, rank), NEW sought \in Int
  PROVE  LET n == Len(m.keys)
             pos == FindPos(m.keys, rank, sought)
         IN /\ n \in Nat
            /\ (\A i \in 1 .. n : rank[m.keys[i].key] # sought) => pos = -1
            /\ \A i \in 1 .. n : rank[m.keys[i].key] = sought => pos = i - 1
<1> DEFINE n == Len(m.keys)
           r(i) == rank[m.keys[i].key]
           at == {p \in 0 .. n - 1 : r(p + 1) = sought}
<1>1. PICK pos : pos = FindPos(m.keys, rank, sought)
  OBVIOUS
<1>2. IF at = {} THEN pos = -1 ELSE pos \in at
  BY <1>1, SortedIsRanked, FindPosLocates
<1>3. n \in Nat /\ \A i, j \in 1 .. n : i < j => r(i) < r(j)
  BY SortedIsRanked, EntryAt
<1>4. \A i \in 1 .. n : r(i) \in Int
  BY SortedIsRanked DEF Ranked
<1> HIDE DEF n, r
<1>5. ASSUME \A i \in 1 .. n : r(i) # sought PROVE pos = -1
  <2>1. \A p \in 0 .. n - 1 : p + 1 \in 1 .. n
    BY <1>3
  <2> QED BY <1>2, <1>5, <2>1
<1>6. ASSUME NEW i \in 1 .. n, r(i) = sought PROVE pos = i - 1
  <2>1. i - 1 \in 0 .. n - 1 /\ (i - 1) + 1 = i
    BY <1>3
  <2>2. i - 1 \in at
    BY <1>6, <2>1
  <2>3. pos \in 0 .. n - 1 /\ r(pos + 1) = sought
    BY <1>2, <2>2
  <2>4. pos + 1 \in 1 .. n /\ pos \in Int
    BY <1>3, <2>3
  <2>5. ~(pos + 1 < i) /\ ~(i < pos + 1)
    BY <1>3, <1>4, <1>6, <2>3, <2>4
  <2> QED BY <1>3, <2>4, <2>5
<1> QED BY <1>1, <1>3, <1>5, <1>6 DEF n, r

\* There are as many keys as Files with clusters.
LEMMA KeysCounted ==
  ASSUME NEW m, NEW of, Holds(m, of)
  PROVE  Len(m.keys) = Cardinality(KeysIn(of)) /\ IsFiniteSet(KeysIn(of))
<1> DEFINE n == Len(m.keys)
           at == [i \in 1 .. n |-> m.keys[i].key]
<1>1. m \in MapType /\ n \in Nat
  BY EntryAt DEF Holds
<1>2. at \in Bijection(1 .. n, KeysIn(of))
  <2>1. \A i \in 1 .. n : m.keys[i].key \in KeysIn(of)
    BY <1>1, EntryAt DEF Holds, KeysIn
  <2>2. \A f \in KeysIn(of) : \E i \in 1 .. n : at[i] = f
    BY DEF Holds, KeysIn
  <2>3. \A i, j \in 1 .. n : at[i] = at[j] => i = j
    BY DEF Holds
  <2>4. at \in [1 .. n -> KeysIn(of)]
    BY <2>1
  <2> HIDE DEF at, n
  <2> QED BY <2>2, <2>3, <2>4 DEF Bijection, Injection, Surjection, IsInjective
<1> HIDE DEF at, n
<1>3. IsFiniteSet(1 .. n) /\ Cardinality(1 .. n) = n
  BY <1>1, FS_Interval
<1> QED BY <1>2, <1>3, FS_Bijection DEF ExistsBijection, n

LEMMA WalkHolds ==
  ASSUME NEW m, NEW of, Holds(m, of), NEW p \in -1 .. BlockCount
  PROVE  /\ Holds([m EXCEPT !.trav_pos = p], of)
         /\ [m EXCEPT !.trav_pos = p].keys = m.keys
<1>1. [m EXCEPT !.trav_pos = p] \in MapType /\ [m EXCEPT !.trav_pos = p].keys = m.keys
  BY DEF Holds, MapType
<1>2. PICK t : t = [m EXCEPT !.trav_pos = p]
  OBVIOUS
<1>3. t \in MapType /\ t.keys = m.keys
  BY <1>1, <1>2
<1>4. Holds(t, of)
  BY <1>3 DEF Holds
<1> QED BY <1>1, <1>2, <1>4

\* A file that has clusters gets one more, the last.
LEMMA InsertMore ==
  ASSUME NEW m, NEW of \in Clusters, NEW rank, Sorted(m, of, rank),
         NEW i \in 1 .. Len(m.keys), NEW c \in Cluster
  PROVE  LET f == m.keys[i].key
         IN Sorted(InsertValue(m, rank, f, c), [of EXCEPT ![f] = Append(@, c)], rank)
<1> DEFINE n == Len(m.keys)
<1>1. PICK f, t : f = m.keys[i].key /\ t = InsertValue(m, rank, f, c)
  OBVIOUS
<1> DEFINE more == [of EXCEPT ![f] = Append(@, c)]
<1>2. /\ m \in MapType /\ n \in Nat /\ i \in Nat /\ f \in FileIds /\ rank[f] \in Int
      /\ m.keys \in Seq(Entry)
  BY <1>1, SortedIsRanked, EntryAt DEF Sorted, MapType
<1>3. FindPos(m.keys, rank, rank[f]) = i - 1
  BY <1>1, <1>2, SearchLands
<1>4. t = [m EXCEPT !.keys[i].values = Append(@, c)]
  <2>1. i - 1 >= 0 /\ (i - 1) + 1 = i
    BY <1>2
  <2> QED BY <1>1, <1>3, <2>1 DEF InsertValue
<1>5. PICK e : e = [m.keys[i] EXCEPT !.values = Append(@, c)]
  OBVIOUS
<1>6. /\ e \in Entry /\ e.key = f
      /\ e.values = Append(m.keys[i].values, c) /\ e.values # <<>>
  <2>1. m.keys[i] \in Entry /\ m.keys[i].values \in Seq(Cluster)
    BY <1>2, EntryAt
  <2>2. Append(m.keys[i].values, c) \in Seq(Cluster) /\ Append(m.keys[i].values, c) # <<>>
    BY <2>1
  <2> QED BY <1>1, <1>5, <2>1, <2>2 DEF Entry
<1>7. /\ t \in MapType /\ Len(t.keys) = n
      /\ \A j \in 1 .. n : t.keys[j] = IF j = i THEN e ELSE m.keys[j]
  <2>1. t = [m EXCEPT !.keys = [m.keys EXCEPT ![i] = e]]
    BY <1>4, <1>5 DEF MapType
  <2>2. [m.keys EXCEPT ![i] = e] \in Seq(Entry)
    BY <1>2, <1>6
  <2>3. t \in MapType /\ t.keys = [m.keys EXCEPT ![i] = e]
    BY <1>2, <2>1, <2>2 DEF MapType
  <2> QED BY <1>2, <2>3
<1>8. \A j \in 1 .. n : t.keys[j].key = m.keys[j].key
  BY <1>1, <1>6, <1>7
<1>9. more \in Clusters /\ more[f] = Append(of[f], c)
      /\ \A g \in FileIds : g # f => more[g] = of[g]
  BY <1>2 DEF Clusters
<1>10. \A j \in 1 .. n : t.keys[j].values = more[t.keys[j].key] /\ t.keys[j].values # <<>>
  <2> SUFFICES ASSUME NEW j \in 1 .. n
               PROVE  t.keys[j].values = more[t.keys[j].key] /\ t.keys[j].values # <<>>
    OBVIOUS
  <2>1. /\ m.keys[j].key \in FileIds /\ m.keys[j].values = of[m.keys[j].key]
        /\ m.keys[j].values # <<>> /\ m.keys[i].values = of[f]
    BY <1>1, <1>2, EntryAt DEF Sorted, Holds
  <2>2. CASE j = i
    BY <1>6, <1>7, <1>8, <1>9, <2>1, <2>2
  <2>3. CASE j # i
    <3>1. m.keys[j].key # f
      BY <1>1, <2>3 DEF Sorted, Holds
    <3> QED BY <1>7, <1>9, <2>1, <2>3, <3>1
  <2> QED BY <2>2, <2>3
<1>11. \A g \in FileIds : more[g] # <<>> => \E j \in 1 .. n : t.keys[j].key = g
  <2> SUFFICES ASSUME NEW g \in FileIds, more[g] # <<>>
               PROVE  \E j \in 1 .. n : m.keys[j].key = g
    BY <1>8
  <2> QED BY <1>1, <1>9 DEF Sorted, Holds
<1> HIDE DEF more
<1>12. Holds(t, more)
  BY <1>7, <1>8, <1>10, <1>11 DEF Sorted, Holds
<1>13. Ascending(t.keys, rank)
  <2>1. \A j \in 1 .. n - 1 : j \in 1 .. n /\ j + 1 \in 1 .. n
    BY <1>2
  <2> QED BY <1>7, <1>8, <2>1 DEF Ascending, Sorted
<1> QED BY <1>1, <1>12, <1>13 DEF Sorted, more

\* A file that has none gets its first, at its place in the order.
LEMMA InsertNew ==
  ASSUME NEW m, NEW of \in Clusters, NEW rank, Sorted(m, of, rank),
         NEW f \in FileIds, f \notin KeysIn(of), Apart(of, rank, f),
         Len(m.keys) < BlockCount, NEW c \in Cluster
  PROVE  Sorted(InsertValue(m, rank, f, c), [of EXCEPT ![f] = Append(@, c)], rank)
<1> DEFINE n == Len(m.keys)
           more == [of EXCEPT ![f] = Append(@, c)]
<1>1. PICK t, at, e : /\ t = InsertValue(m, rank, f, c)
                      /\ at = InsertPos(m.keys, rank, rank[f]) + 1
                      /\ e = [key |-> f, values |-> <<c>>]
  OBVIOUS
<1>2. /\ m \in MapType /\ n \in Nat /\ rank[f] \in Int /\ BlockCount \in Nat
      /\ m.keys \in Seq(Entry) /\ m.trav_pos \in -1 .. BlockCount
      /\ Ranked(m.keys, rank) /\ Ascending(m.keys, rank)
  BY SortedIsRanked, EntryAt, BlockCountAssumption DEF Sorted, MapType, BlockCountAssumption
<1>3. \A i \in 1 .. n : m.keys[i].key \in KeysIn(of) /\ m.keys[i].key # f
  BY <1>2, EntryAt DEF Sorted, Holds, KeysIn
<1>4. \A i \in 1 .. n : rank[m.keys[i].key] # rank[f]
  BY <1>3 DEF Apart
<1>5. FindPos(m.keys, rank, rank[f]) = -1
  BY <1>2, <1>4, SearchLands
<1>6. t = [keys |-> InsertAt(m.keys, at, e),
           trav_pos |-> MovedUp(m.trav_pos, InsertPos(m.keys, rank, rank[f]), BlockCount)]
  <2>1. ~(-1 >= 0) /\ ~(Len(m.keys) >= BlockCount)
    BY <1>2
  <2> QED BY <1>1, <1>5, <2>1 DEF InsertValue
<1>7. e \in Entry /\ e.key = f /\ e.values = <<c>> /\ <<c>> # <<>>
  BY <1>1 DEF Entry
<1>8. InsertPos(m.keys, rank, rank[f]) \in 0 .. n
  BY <1>2, InsertPosSplits
<1>9. at \in 1 .. n + 1
  BY <1>1, <1>2, <1>8
<1>10. /\ t.keys \in Seq(Entry) /\ Len(t.keys) = n + 1
       /\ \A j \in 1 .. n + 1 :
            t.keys[j] = IF j < at THEN m.keys[j] ELSE IF j = at THEN e ELSE m.keys[j - 1]
  <2>1. t.keys = InsertAt(m.keys, at, e)
    BY <1>6
  <2>2. WithInserted(Entry, InsertAt(m.keys, at, e), m.keys, at, e)
    BY <1>2, <1>7, <1>9, InsertAtInserts
  <2>3. WithInserted(Entry, t.keys, m.keys, at, e)
    BY <2>1, <2>2
  <2> QED BY ONLY <2>3 DEF WithInserted
<1>11. t \in MapType
  <2>1. MovedUp(m.trav_pos, InsertPos(m.keys, rank, rank[f]), BlockCount) \in -1 .. BlockCount
    BY <1>2, <1>8 DEF MovedUp
  <2> QED BY <1>6, <1>10, <2>1 DEF MapType
<1>12. \A j \in 1 .. n + 1 : IF j = at THEN t.keys[j] = e
                             ELSE \E i \in 1 .. n : t.keys[j] = m.keys[i] /\ (i = j \/ i = j - 1)
  <2>1. ASSUME NEW j \in 1 .. n + 1, j = at PROVE t.keys[j] = e
    <3>1. ~(j < at)
      BY <1>2, <1>9, <2>1
    <3> QED BY <1>10, <2>1, <3>1
  <2>2. ASSUME NEW j \in 1 .. n + 1, j < at
        PROVE  \E i \in 1 .. n : t.keys[j] = m.keys[i] /\ (i = j \/ i = j - 1)
    <3>1. j \in 1 .. n /\ t.keys[j] = m.keys[j]
      BY <1>2, <1>9, <1>10, <2>2
    <3> QED BY <3>1
  <2>3. ASSUME NEW j \in 1 .. n + 1, j > at
        PROVE  \E i \in 1 .. n : t.keys[j] = m.keys[i] /\ (i = j \/ i = j - 1)
    <3>1. j - 1 \in 1 .. n /\ ~(j < at) /\ j # at
      BY <1>2, <1>9, <2>3
    <3>2. t.keys[j] = m.keys[j - 1]
      BY <1>10, <3>1
    <3> QED BY <3>1, <3>2
  <2>4. \A j \in 1 .. n + 1 : j = at \/ j < at \/ j > at
    BY <1>2, <1>9
  <2> HIDE DEF n
  <2> QED BY <2>1, <2>2, <2>3, <2>4
<1>13. ASSUME NEW i \in 1 .. n PROVE \E j \in 1 .. n + 1 : t.keys[j] = m.keys[i]
  <2>1. CASE i < at
    BY <1>2, <1>10, <2>1
  <2>2. CASE i >= at
    <3>1. i + 1 \in 1 .. n + 1 /\ ~(i + 1 < at) /\ i + 1 # at /\ (i + 1) - 1 = i
      BY <1>2, <1>9, <2>2
    <3> QED BY <1>10, <3>1
  <2> QED BY <1>9, <2>1, <2>2
<1>14. \A i, j \in 1 .. n + 1 : t.keys[i].key = t.keys[j].key => i = j
  <2> SUFFICES ASSUME NEW i \in 1 .. n + 1, NEW j \in 1 .. n + 1,
                      t.keys[i].key = t.keys[j].key, i # j
               PROVE  FALSE
    OBVIOUS
  <2>1. i # at /\ j # at
    BY <1>3, <1>7, <1>12
  <2>2. PICK a, b : /\ a = (IF i < at THEN i ELSE i - 1)
                    /\ b = (IF j < at THEN j ELSE j - 1)
    OBVIOUS
  <2>3. a \in 1 .. n /\ b \in 1 .. n /\ a # b
    BY <1>2, <1>9, <2>1, <2>2
  <2>4. t.keys[i] = m.keys[a] /\ t.keys[j] = m.keys[b]
    BY <1>10, <2>1, <2>2
  <2> QED BY <2>3, <2>4 DEF Sorted, Holds
<1>15. of[f] = <<>>
  BY DEF KeysIn
<1>16. more[f] = <<c>> /\ \A g \in FileIds : g # f => more[g] = of[g]
  BY <1>15 DEF Clusters
<1> HIDE DEF more
<1>17. \A j \in 1 .. n + 1 : t.keys[j].values = more[t.keys[j].key] /\ t.keys[j].values # <<>>
  <2> SUFFICES ASSUME NEW j \in 1 .. n + 1
               PROVE  t.keys[j].values = more[t.keys[j].key] /\ t.keys[j].values # <<>>
    OBVIOUS
  <2>1. CASE j = at
    BY <1>7, <1>12, <1>16, <2>1
  <2>2. CASE j # at
    <3>1. PICK i \in 1 .. n : t.keys[j] = m.keys[i]
      BY <1>12, <2>2
    <3>2. /\ m.keys[i].values = of[m.keys[i].key] /\ m.keys[i].values # <<>>
          /\ m.keys[i].key \in FileIds /\ m.keys[i].key # f
      BY <1>2, <1>3, EntryAt DEF Sorted, Holds
    <3> QED BY <1>16, <3>1, <3>2
  <2> QED BY <2>1, <2>2
<1>18. \A g \in FileIds : more[g] # <<>> => \E j \in 1 .. n + 1 : t.keys[j].key = g
  <2> SUFFICES ASSUME NEW g \in FileIds, more[g] # <<>>
               PROVE  \E j \in 1 .. n + 1 : t.keys[j].key = g
    OBVIOUS
  <2>1. CASE g = f
    BY <1>7, <1>9, <1>12, <2>1
  <2>2. CASE g # f
    <3>1. PICK i \in 1 .. n : m.keys[i].key = g
      BY <1>16, <2>2 DEF Sorted, Holds
    <3> QED BY <1>13, <3>1
  <2> QED BY <2>1, <2>2
<1>19. Holds(t, more)
  <2>1. Len(t.keys) <= BlockCount
    BY <1>2, <1>10
  <2> QED BY <1>10, <1>11, <1>14, <1>17, <1>18, <2>1 DEF Holds
<1>20. Ascending(t.keys, rank)
  <2>1. Ascending(InsertAt(m.keys, InsertPos(m.keys, rank, rank[e.key]) + 1, e), rank)
    BY <1>2, <1>4, <1>7, InsertedAscends
  <2>2. t.keys = InsertAt(m.keys, InsertPos(m.keys, rank, rank[e.key]) + 1, e)
    BY <1>1, <1>6, <1>7
  <2> QED BY <2>1, <2>2
<1> QED BY <1>1, <1>19, <1>20 DEF Sorted, more

\* mm_insert_value: the cluster becomes the last of the file.
LEMMA Inserts ==
  ASSUME NEW m, NEW of \in Clusters, NEW rank, Sorted(m, of, rank),
         NEW f \in FileIds, Apart(of, rank, f),
         f \in KeysIn(of) \/ Cardinality(KeysIn(of)) < BlockCount, NEW c \in Cluster
  PROVE  /\ Sorted(InsertValue(m, rank, f, c), [of EXCEPT ![f] = Append(@, c)], rank)
         /\ [of EXCEPT ![f] = Append(@, c)] \in Clusters
<1>1. [of EXCEPT ![f] = Append(@, c)] \in Clusters
  BY DEF Clusters
<1>2. CASE f \in KeysIn(of)
  <2>1. PICK i \in 1 .. Len(m.keys) : m.keys[i].key = f
    BY <1>2 DEF Sorted, Holds, KeysIn
  <2> QED BY <1>1, <2>1, InsertMore
<1>3. CASE f \notin KeysIn(of)
  <2>1. Len(m.keys) < BlockCount
    BY <1>3, KeysCounted DEF Sorted
  <2> QED BY <1>1, <1>3, <2>1, InsertNew
<1> QED BY <1>2, <1>3

\* mm_remove_key: the file has no cluster any more.
LEMMA Removes ==
  ASSUME NEW m, NEW of \in Clusters, NEW rank, Sorted(m, of, rank),
         NEW f \in FileIds, Apart(of, rank, f)
  PROVE  /\ Sorted(RemoveKey(m, rank, f), [of EXCEPT ![f] = <<>>], rank)
         /\ [of EXCEPT ![f] = <<>>] \in Clusters
<1> DEFINE n == Len(m.keys)
           less == [of EXCEPT ![f] = <<>>]
<1>1. PICK t : t = RemoveKey(m, rank, f)
  OBVIOUS
<1>2. /\ m \in MapType /\ n \in Nat /\ rank[f] \in Int /\ BlockCount \in Nat
      /\ m.keys \in Seq(Entry) /\ m.trav_pos \in -1 .. BlockCount
      /\ Ranked(m.keys, rank) /\ Ascending(m.keys, rank)
  BY SortedIsRanked, EntryAt, BlockCountAssumption DEF Sorted, MapType, BlockCountAssumption
<1>3. less \in Clusters /\ less[f] = <<>> /\ \A g \in FileIds : g # f => less[g] = of[g]
  <2>1. <<>> \in Seq(Cluster)
    OBVIOUS
  <2> QED BY <2>1 DEF Clusters
<1>4. CASE f \in KeysIn(of)
  <2>1. PICK i \in 1 .. n : m.keys[i].key = f
    BY <1>4 DEF Sorted, Holds, KeysIn
  <2>2. FindPos(m.keys, rank, rank[f]) = i - 1
    BY <1>2, <2>1, SearchLands
  <2>3. t = [keys |-> RemoveAt(m.keys, i), trav_pos |-> MovedDown(m.trav_pos, i - 1)]
    <3>1. ~(i - 1 < 0) /\ (i - 1) + 1 = i
      BY <1>2
    <3> QED BY <1>1, <2>2, <3>1 DEF RemoveKey
  <2>4. /\ t.keys \in Seq(Entry) /\ Len(t.keys) = n - 1
        /\ \A j \in 1 .. n - 1 : t.keys[j] = IF j < i THEN m.keys[j] ELSE m.keys[j + 1]
    <3>1. /\ RemoveAt(m.keys, i) \in Seq(Entry) /\ Len(RemoveAt(m.keys, i)) = n - 1
          /\ \A j \in 1 .. n - 1 :
               RemoveAt(m.keys, i)[j] = IF j < i THEN m.keys[j] ELSE m.keys[j + 1]
      BY <1>2, RemoveAtProperties
    <3>2. t.keys = RemoveAt(m.keys, i)
      BY <2>3
    <3> QED BY <3>1, <3>2
  <2>5. t \in MapType
    <3>1. MovedDown(m.trav_pos, i - 1) \in -1 .. BlockCount
      BY <1>2 DEF MovedDown
    <3> QED BY <2>3, <2>4, <3>1 DEF MapType
  <2>6. ASSUME NEW j \in 1 .. n - 1
        PROVE  \E k \in 1 .. n : k # i /\ t.keys[j] = m.keys[k]
    <3>1. CASE j < i
      BY <1>2, <2>4, <3>1
    <3>2. CASE j >= i
      <4>1. j + 1 \in 1 .. n /\ j + 1 # i /\ ~(j < i)
        BY <1>2, <3>2
      <4> QED BY <2>4, <4>1
    <3> QED BY <1>2, <3>1, <3>2
  <2>7. ASSUME NEW k \in 1 .. n, k # i
        PROVE  \E j \in 1 .. n - 1 : t.keys[j] = m.keys[k]
    <3>1. CASE k < i
      <4>1. k \in 1 .. n - 1
        BY <1>2, <3>1
      <4> QED BY <2>4, <3>1, <4>1
    <3>2. CASE k > i
      <4>1. k - 1 \in 1 .. n - 1 /\ ~(k - 1 < i) /\ (k - 1) + 1 = k
        BY <1>2, <3>2
      <4> QED BY <2>4, <4>1
    <3> QED BY <1>2, <2>7, <3>1, <3>2
  <2>8. \A j, k \in 1 .. n - 1 : t.keys[j].key = t.keys[k].key => j = k
    <3> SUFFICES ASSUME NEW j \in 1 .. n - 1, NEW k \in 1 .. n - 1,
                        t.keys[j].key = t.keys[k].key, j # k
                 PROVE  FALSE
      OBVIOUS
    <3>1. PICK a, b : a = (IF j < i THEN j ELSE j + 1) /\ b = (IF k < i THEN k ELSE k + 1)
      OBVIOUS
    <3>2. a \in 1 .. n /\ b \in 1 .. n /\ a # b
      BY <1>2, <3>1
    <3>3. t.keys[j] = m.keys[a] /\ t.keys[k] = m.keys[b]
      BY <2>4, <3>1
    <3> QED BY <3>2, <3>3 DEF Sorted, Holds
  <2> HIDE DEF less
  <2>9. \A j \in 1 .. n - 1 : t.keys[j].values = less[t.keys[j].key] /\ t.keys[j].values # <<>>
    <3> SUFFICES ASSUME NEW j \in 1 .. n - 1
                 PROVE  t.keys[j].values = less[t.keys[j].key] /\ t.keys[j].values # <<>>
      OBVIOUS
    <3>1. PICK k \in 1 .. n : k # i /\ t.keys[j] = m.keys[k]
      BY <2>6
    <3>2. /\ m.keys[k].values = of[m.keys[k].key] /\ m.keys[k].values # <<>>
          /\ m.keys[k].key \in FileIds /\ m.keys[k].key # f
      BY <1>2, <2>1, <3>1, EntryAt DEF Sorted, Holds
    <3> QED BY <1>3, <3>1, <3>2
  <2>10. \A g \in FileIds : less[g] # <<>> => \E j \in 1 .. n - 1 : t.keys[j].key = g
    <3> SUFFICES ASSUME NEW g \in FileIds, less[g] # <<>>
                 PROVE  \E j \in 1 .. n - 1 : t.keys[j].key = g
      OBVIOUS
    <3>1. g # f /\ of[g] # <<>>
      BY <1>3
    <3>2. PICK k \in 1 .. n : m.keys[k].key = g
      BY <3>1 DEF Sorted, Holds
    <3> QED BY <2>1, <2>7, <3>1, <3>2
  <2>11. Holds(t, less)
    <3>1. Len(t.keys) <= BlockCount
      BY <1>2, <2>4 DEF Sorted, Holds
    <3> QED BY <2>4, <2>5, <2>8, <2>9, <2>10, <3>1 DEF Holds
  <2>12. Ascending(t.keys, rank)
    <3>1. Ascending(RemoveAt(m.keys, i), rank)
      BY <1>2, RemovedAscends
    <3> QED BY <2>3, <3>1
  <2> QED BY <1>1, <1>3, <2>11, <2>12 DEF Sorted, less
<1>5. CASE f \notin KeysIn(of)
  <2>1. \A i \in 1 .. n : m.keys[i].key \in KeysIn(of) /\ m.keys[i].key # f
    BY <1>2, <1>5, EntryAt DEF Sorted, Holds, KeysIn
  <2>2. \A i \in 1 .. n : rank[m.keys[i].key] # rank[f]
    BY <2>1 DEF Apart
  <2>3. FindPos(m.keys, rank, rank[f]) = -1
    BY <1>2, <2>2, SearchLands
  <2>4. t = m
    <3>1. -1 < 0
      OBVIOUS
    <3> QED BY <1>1, <2>3, <3>1 DEF RemoveKey
  <2>5. less = of
    BY <1>5 DEF Clusters, KeysIn
  <2> QED BY <1>1, <1>3, <2>4, <2>5
<1> QED BY <1>4, <1>5

-----------------------------------------------------------------------------
(* A key that comes back, and an index that is built anew *)

\* Insertions one after the other; the i-th is made when i is in goes.
InsertStep(built, m, rank, goes, files, clusters, i) ==
  IF i = 0 THEN m
  ELSE IF i \in goes THEN InsertValue(built[i - 1], rank, files[i], clusters[i])
  ELSE built[i - 1]

Builds(built, m, rank, goes, files, clusters, n) ==
  built = [i \in 0 .. n |-> InsertStep(built, m, rank, goes, files, clusters, i)]

LEMMA BuiltExists ==
  ASSUME NEW m, NEW rank, NEW goes, NEW files, NEW clusters, NEW n \in Nat
  PROVE  \E built : Builds(built, m, rank, goes, files, clusters, n)
<1> DEFINE step(g, i) == InsertStep(g, m, rank, goes, files, clusters, i)
           S == {k \in Nat : \E g : \A i \in 0 .. n : i <= k => g[i] = step(g, i)}
<1>1. n \in Nat
  OBVIOUS
<1>0. \A g, h, i : (i = 0 \/ g[i - 1] = h[i - 1]) => step(g, i) = step(h, i)
  BY DEF InsertStep
<1> HIDE DEF step
<1>2. 0 \in S
  <2> DEFINE g == [i \in 0 .. n |-> step(<<>>, 0)]
  <2>1. ASSUME NEW i \in 0 .. n, i <= 0 PROVE g[i] = step(g, i)
    <3>1. i = 0 /\ g[i] = step(<<>>, 0)
      BY <1>1, <2>1
    <3> HIDE DEF g
    <3>2. step(<<>>, 0) = step(g, 0)
      BY <1>0
    <3> QED BY <3>1, <3>2
  <2> HIDE DEF g
  <2> QED BY <2>1
<1>3. ASSUME NEW k \in S PROVE k + 1 \in S
  <2>1. PICK g : \A i \in 0 .. n : i <= k => g[i] = step(g, i)
    OBVIOUS
  <2> DEFINE h == [i \in 0 .. n |-> IF i <= k THEN g[i] ELSE step(g, i)]
  <2>2. ASSUME NEW i \in 0 .. n, i <= k + 1 PROVE h[i] = step(h, i)
    <3>1. h[i] = step(g, i)
      BY <2>1
    <3>2. i # 0 => i - 1 \in 0 .. n /\ i - 1 <= k
      BY <2>2, <1>1
    <3>3. i # 0 => h[i - 1] = g[i - 1]
      BY <3>2
    <3> HIDE DEF h
    <3>4. step(g, i) = step(h, i)
      BY <1>0, <3>3
    <3> QED BY <3>1, <3>4
  <2> HIDE DEF h
  <2> QED BY <2>2
<1>4. S = Nat
  <2>1. S \in SUBSET Nat
    OBVIOUS
  <2> HIDE DEF S
  <2> QED BY <1>2, <1>3, <2>1, Inductive
<1>5. PICK g : \A i \in 0 .. n : g[i] = step(g, i)
  <2>1. n \in S
    <3> HIDE DEF S
    <3> QED BY <1>1, <1>4
  <2>2. PICK g : \A i \in 0 .. n : i <= n => g[i] = step(g, i)
    BY <2>1
  <2> QED BY <1>1, <2>2
<1> DEFINE built == [i \in 0 .. n |-> g[i]]
<1>6. ASSUME NEW i \in 0 .. n PROVE built[i] = step(built, i)
  <2>1. built[i] = step(g, i)
    BY <1>5
  <2>2. i # 0 => i - 1 \in 0 .. n
    BY <1>1
  <2>3. i # 0 => built[i - 1] = g[i - 1]
    BY <2>2
  <2> HIDE DEF built
  <2>4. step(g, i) = step(built, i)
    BY <1>0, <2>3
  <2> QED BY <2>1, <2>4
<1>7. built = [i \in 0 .. n |-> step(built, i)]
  <2>1. built = [i \in 0 .. n |-> built[i]]
    OBVIOUS
  <2> HIDE DEF built
  <2> QED BY <1>6, <2>1
<1> HIDE DEF built
<1> QED BY <1>7 DEF Builds, step

\* A key comes back with its clusters, under another name.
Backs(back, m, rank, f, values) ==
  back = [i \in 0 .. Len(values) |->
            IF i = 0 THEN m ELSE InsertValue(back[i - 1], rank, f, values[i])]

LEMMA ReinsertedIsBack ==
  ASSUME NEW m, NEW files, NEW f, NEW values, Len(values) \in Nat
  PROVE  \E back : /\ Backs(back, m, RanksIn(files), f, values)
                   /\ Reinserted(m, files, f, values) = back[Len(values)]
<1> DEFINE n == Len(values)
           goes == 1 .. n
           same == [i \in 1 .. n |-> f]
<1>1. PICK rank : rank = RanksIn(files)
  OBVIOUS
<1>2. PICK back : back = [i \in 0 .. n |-> InsertStep(back, m, rank, goes, same, values, i)]
  <2>1. n \in Nat
    OBVIOUS
  <2> HIDE DEF n, goes, same
  <2>2. PICK back : Builds(back, m, rank, goes, same, values, n)
    BY <2>1, BuiltExists
  <2> QED BY <2>2 DEF Builds
<1>3. ASSUME NEW i \in 0 .. n
      PROVE  InsertStep(back, m, rank, goes, same, values, i)
             = IF i = 0 THEN m ELSE InsertValue(back[i - 1], rank, f, values[i])
  <2>1. i # 0 => i \in goes /\ same[i] = f
    OBVIOUS
  <2> HIDE DEF goes, same
  <2> QED BY <2>1 DEF InsertStep
<1>4. Backs(back, m, rank, f, values)
  <2> HIDE DEF goes, same
  <2> QED BY <1>2, <1>3 DEF Backs
<1>5. \E back_1 : back_1 = [i \in 0 .. Len(values) |->
                 IF i = 0 THEN m ELSE InsertValue(back_1[i - 1], RanksIn(files), f, values[i])]
  BY <1>1, <1>4, Zenon DEF Backs
<1> QED BY <1>5, Zenon DEF Reinserted, Backs

LEMMA Reinserts ==
  ASSUME NEW m, NEW of \in Clusters, NEW files, Sorted(m, of, RanksIn(files)),
         NEW f \in FileIds, of[f] = <<>>, Apart(of, RanksIn(files), f),
         Cardinality(KeysIn(of)) < BlockCount, NEW values \in Seq(Cluster)
  PROVE  Sorted(Reinserted(m, files, f, values), [of EXCEPT ![f] = values], RanksIn(files))
<1> DEFINE n == Len(values)
           with(i) == [of EXCEPT ![f] = SubSeq(values, 1, i)]
<1>1. n \in Nat
  OBVIOUS
<1>2. PICK rank : rank = RanksIn(files)
  OBVIOUS
<1>3. PICK back : Backs(back, m, rank, f, values) /\ Reinserted(m, files, f, values) = back[n]
  BY <1>1, <1>2, ReinsertedIsBack
<1>4. \A i \in 0 .. n : back[i] = IF i = 0 THEN m ELSE InsertValue(back[i - 1], rank, f, values[i])
  BY <1>1, <1>3 DEF Backs
<1> DEFINE S == {k \in Nat : k <= n => Sorted(back[k], with(k), rank)}
<1>5. 0 \in S
  <2>1. back[0] = m
    BY <1>1, <1>4
  <2>2. SubSeq(values, 1, 0) = <<>>
    OBVIOUS
  <2>3. with(0) = of
    BY <2>2 DEF Clusters
  <2> QED BY <1>2, <2>1, <2>3
<1>6. ASSUME NEW k \in S PROVE k + 1 \in S
  <2> SUFFICES ASSUME k + 1 <= n PROVE Sorted(back[k + 1], with(k + 1), rank)
    OBVIOUS
  <2>1. k \in Nat /\ k + 1 \in 1 .. n /\ Sorted(back[k], with(k), rank)
    BY <1>1
  <2>2. back[k + 1] = InsertValue(back[k], rank, f, values[k + 1])
    <3>1. k + 1 \in 0 .. n /\ k + 1 # 0 /\ (k + 1) - 1 = k
      BY <1>1, <2>1
    <3> QED BY <1>4, <3>1
  <2>3. values[k + 1] \in Cluster /\ SubSeq(values, 1, k) \in Seq(Cluster)
    BY <2>1
  <2>4. SubSeq(values, 1, k + 1) = Append(SubSeq(values, 1, k), values[k + 1])
    BY <2>1
  <2>5. with(k) \in Clusters
    BY <2>3 DEF Clusters
  <2>6. with(k + 1) = [with(k) EXCEPT ![f] = Append(@, values[k + 1])]
    BY <2>4 DEF Clusters
  <2>7. \A g \in FileIds : g # f => with(k)[g] = of[g]
    BY DEF Clusters
  <2>8. Apart(with(k), rank, f)
    BY <1>2, <2>7 DEF Apart, KeysIn
  <2>9. f \in KeysIn(with(k)) \/ Cardinality(KeysIn(with(k))) < BlockCount
    <3>1. CASE k = 0
      <4>1. SubSeq(values, 1, 0) = <<>>
        OBVIOUS
      <4>2. with(k) = of
        BY <3>1, <4>1 DEF Clusters
      <4> QED BY <4>2
    <3>2. CASE k > 0
      <4>1. SubSeq(values, 1, k) # <<>>
        BY <2>1, <3>2
      <4> QED BY <4>1 DEF KeysIn, Clusters
    <3> QED BY <2>1, <3>1, <3>2
  <2> HIDE DEF with
  <2>10. Sorted(InsertValue(back[k], rank, f, values[k + 1]),
                [with(k) EXCEPT ![f] = Append(@, values[k + 1])], rank)
    BY <2>1, <2>3, <2>5, <2>8, <2>9, Inserts
  <2> QED BY <2>2, <2>6, <2>10
<1>7. S = Nat
  <2>1. S \in SUBSET Nat
    OBVIOUS
  <2> HIDE DEF S
  <2> QED BY <1>5, <1>6, <2>1, Inductive
<1>8. Sorted(back[n], with(n), rank)
  <2>1. n \in S
    <3> HIDE DEF S
    <3> QED BY <1>1, <1>7
  <2> QED BY <1>1, <2>1
<1>9. SubSeq(values, 1, n) = values
  OBVIOUS
<1> QED BY <1>2, <1>3, <1>8, <1>9
-----------------------------------------------------------------------------
(* The index that a defragmentation builds *)

LEMMA InOrderGrows ==
  ASSUME NEW S \in SUBSET Nat, IsFiniteSet(S), NEW b \in Nat, \A c \in S : c < b
  PROVE  InOrder(S \cup {b}) = Append(InOrder(S), b)
<1>1. PICK T, s, n : T = S \cup {b} /\ s = InOrder(S) /\ n = Cardinality(S)
  OBVIOUS
<1>2. /\ s \in Seq(S) /\ Len(s) = n /\ n \in Nat
      /\ \A i \in 1 .. n : s[i] \in S
      /\ \A i, j \in 1 .. n : i < j => s[i] < s[j]
      /\ \A c \in S : \E i \in 1 .. n : s[i] = c
  BY <1>1, InOrderAscends
<1>3. T \in SUBSET Nat /\ IsFiniteSet(T)
  BY <1>1, FS_AddElement
<1>4. PICK t : t = Append(s, b)
  OBVIOUS
<1>5. /\ t \in Seq(T) /\ Len(t) = n + 1
      /\ \A i \in 1 .. n : t[i] = s[i]
      /\ t[n + 1] = b
  <2>1. s \in Seq(T) /\ b \in T
    BY <1>1, <1>2
  <2> QED BY <1>2, <1>4, <2>1
<1>6. Rising(t)
  <2> SUFFICES ASSUME NEW x \in 1 .. n + 1, NEW y \in 1 .. n + 1, x < y PROVE t[x] < t[y]
    BY <1>5 DEF Rising
  <2>1. x \in 1 .. n
    BY <1>2
  <2>2. CASE y \in 1 .. n
    BY <1>2, <1>5, <2>1, <2>2
  <2>3. CASE y = n + 1
    BY <1>2, <1>5, <2>1, <2>3
  <2> QED BY <1>2, <2>2, <2>3
<1>7. ASSUME NEW c \in T PROVE \E i \in 1 .. Len(t) : t[i] = c
  <2>1. CASE c = b
    <3>1. n + 1 \in 1 .. Len(t)
      BY <1>2, <1>5
    <3> QED BY <1>5, <2>1, <3>1
  <2>2. CASE c \in S
    <3>1. PICK i \in 1 .. n : s[i] = c
      BY <1>2, <2>2
    <3>2. i \in 1 .. Len(t)
      BY <1>2, <1>5
    <3> QED BY <1>5, <3>1, <3>2
  <2> QED BY <1>1, <2>1, <2>2
<1>8. t = InOrder(T)
  BY <1>3, <1>5, <1>6, <1>7, InOrderUnique
<1> QED BY <1>1, <1>4, <1>8

\* The new index as it is when the blocks before p have been met.
StartsBefore(f, p) == {b \in RunStarts(f) : b < p}

IndexBefore(p) ==
  [f \in FileIds |->
     LET starts == InOrder(StartsBefore(f, p))
     IN [i \in DOMAIN starts |-> RunOf(starts[i])]]

LEMMA IndexStarts ==
  /\ IndexBefore(0) = [f \in FileIds |-> <<>>]
  /\ IndexBefore(BlockCount) = NewIndex
<1>1. ASSUME NEW f \in FileIds PROVE IndexBefore(0)[f] = <<>>
  <2>1. StartsBefore(f, 0) = {}
    BY RunStartsOrdered DEF StartsBefore
  <2>2. PICK starts : starts = InOrder({})
    OBVIOUS
  <2>3. DOMAIN starts = {}
    <3>1. {} \in SUBSET Nat /\ IsFiniteSet({}) /\ Cardinality({}) = 0
      BY FS_EmptySet
    <3>2. DOMAIN InOrder({}) = 1 .. Cardinality({})
      BY <3>1, InOrderAscends
    <3> QED BY <2>2, <3>1, <3>2
  <2>4. IndexBefore(0)[f] = [i \in DOMAIN starts |-> RunOf(starts[i])]
    BY <2>1, <2>2 DEF IndexBefore
  <2> QED BY <2>3, <2>4
<1>2. ASSUME NEW f \in FileIds PROVE StartsBefore(f, BlockCount) = RunStarts(f)
  <2>1. \A b \in RunStarts(f) : b < BlockCount
    BY RunStartsOrdered, EndIsFirstGap, BlockCountAssumption DEF BlockCountAssumption
  <2> QED BY <2>1 DEF StartsBefore
<1> QED BY <1>1, <1>2 DEF IndexBefore, NewIndex

\* Each block that starts a run gives one cluster more to the file that owns it.
LEMMA IndexGrows ==
  ASSUME NEW p \in Blocks
  PROVE  IndexBefore(p + 1) =
           IF p \in AllStarts
             THEN [IndexBefore(p) EXCEPT ![df.owners[p]] = Append(@, RunOf(p))]
             ELSE IndexBefore(p)
<1>0. p \in Nat
  BY DEF Blocks
<1>1. ASSUME NEW f \in FileIds
      PROVE  /\ p \in RunStarts(f) => StartsBefore(f, p + 1) = StartsBefore(f, p) \cup {p}
             /\ p \notin RunStarts(f) => StartsBefore(f, p + 1) = StartsBefore(f, p)
  <2>1. \A b \in RunStarts(f) : b \in Nat
    BY RunStartsOrdered
  <2>2. \A b \in RunStarts(f) : b < p + 1 <=> b < p \/ b = p
    BY <1>0, <2>1
  <2> QED BY <2>2 DEF StartsBefore
<1>2. \A f \in FileIds : p \in RunStarts(f) => df.owners[p] = f
  BY DEF RunStarts
<1>3. ASSUME NEW f \in FileIds, p \notin RunStarts(f)
      PROVE  IndexBefore(p + 1)[f] = IndexBefore(p)[f]
  BY <1>1, <1>3 DEF IndexBefore
<1>4. ASSUME NEW f \in FileIds, p \in RunStarts(f)
      PROVE  IndexBefore(p + 1)[f] = Append(IndexBefore(p)[f], RunOf(p))
  <2>1. PICK S, n, s, t : /\ S = StartsBefore(f, p) /\ n = Cardinality(S)
                          /\ s = InOrder(S) /\ t = InOrder(S \cup {p})
    OBVIOUS
  <2>2. S \in SUBSET Nat /\ IsFiniteSet(S) /\ p \in Nat /\ \A c \in S : c < p
    <3>1. RunStarts(f) \in SUBSET Nat /\ IsFiniteSet(RunStarts(f)) /\ S \in SUBSET RunStarts(f)
      BY <2>1, RunStartsOrdered DEF StartsBefore
    <3>2. IsFiniteSet(S)
      BY <3>1, FS_Subset
    <3> QED BY <1>0, <2>1, <3>1, <3>2 DEF StartsBefore
  <2>3. s \in Seq(S) /\ Len(s) = n /\ n \in Nat /\ t = Append(s, p)
    BY <2>1, <2>2, InOrderAscends, InOrderGrows
  <2>4. /\ DOMAIN s = 1 .. n /\ DOMAIN t = 1 .. n + 1
        /\ \A i \in 1 .. n : t[i] = s[i]
        /\ t[n + 1] = p
    BY <2>2, <2>3
  <2>5. PICK a, z : /\ a = [i \in 1 .. n |-> RunOf(s[i])]
                    /\ z = [i \in 1 .. n + 1 |-> RunOf(t[i])]
    OBVIOUS
  <2>6. IndexBefore(p)[f] = a /\ IndexBefore(p + 1)[f] = z
    BY <1>1, <1>4, <2>1, <2>4, <2>5 DEF IndexBefore
  <2>7. z = Append(a, RunOf(p))
    <3>0. PICK runs : runs = {RunOf(b) : b \in Nat}
      OBVIOUS
    <3>1. a \in Seq(runs) /\ Len(a) = n
      <4>1. \A i \in 1 .. n : s[i] \in Nat
        <5>1. \A i \in 1 .. n : s[i] \in S
          BY <2>3
        <5> QED BY <2>2, <5>1
      <4>2. a \in [1 .. n -> runs]
        BY <2>5, <3>0, <4>1
      <4>3. n \in Nat
        BY <2>3
      <4> QED BY ONLY <4>2, <4>3
    <3>2. Append(a, RunOf(p)) = [i \in 1 .. n + 1 |-> IF i <= n THEN a[i] ELSE RunOf(p)]
      <4>1. PICK r : r = RunOf(p)
        OBVIOUS
      <4>2. r \in runs /\ n \in Nat
        BY <1>0, <2>3, <3>0, <4>1
      <4>3. PICK e : e = Append(a, r)
        OBVIOUS
      <4>4. /\ e \in Seq(runs) /\ Len(e) = n + 1
            /\ \A i \in 1 .. n + 1 : e[i] = IF i <= n THEN a[i] ELSE r
        BY <3>1, <4>2, <4>3
      <4>5. e = [i \in 1 .. n + 1 |-> e[i]]
        BY <4>2, <4>4
      <4> QED BY <4>1, <4>3, <4>4, <4>5
    <3>3. ASSUME NEW i \in 1 .. n + 1
          PROVE  RunOf(t[i]) = IF i <= n THEN a[i] ELSE RunOf(p)
      <4>1. i <= n => i \in 1 .. n
        BY <2>3
      <4>2. ~(i <= n) => i = n + 1
        BY <2>3
      <4> QED BY <2>4, <2>5, <4>1, <4>2
    <3> QED BY <2>5, <3>2, <3>3
  <2> QED BY <2>6, <2>7
<1>5. IndexBefore(p) = [f \in FileIds |-> IndexBefore(p)[f]]
      /\ IndexBefore(p + 1) = [f \in FileIds |-> IndexBefore(p + 1)[f]]
  BY DEF IndexBefore
<1>6. CASE p \in AllStarts
  <2>1. PICK f \in FileIds : p \in RunStarts(f)
    BY <1>6 DEF AllStarts
  <2>2. df.owners[p] = f /\ \A g \in FileIds : g # f => p \notin RunStarts(g)
    BY <1>2, <2>1
  <2>3. \A g \in FileIds :
          IndexBefore(p + 1)[g] = IF g = f THEN Append(IndexBefore(p)[f], RunOf(p))
                                  ELSE IndexBefore(p)[g]
    BY <1>3, <1>4, <2>1, <2>2
  <2> QED BY <1>5, <1>6, <2>2, <2>3
<1>7. CASE p \notin AllStarts
  <2>1. \A f \in FileIds : p \notin RunStarts(f)
    BY <1>7 DEF AllStarts
  <2> QED BY <1>3, <1>5, <1>7, <2>1
<1> QED BY <1>6, <1>7

LEMMA RanksTyped ==
  ASSUME NEW files \in [FileIds -> FileRecord \cup {NULL}], NEW f \in FileIds
  PROVE  /\ RanksIn(files)[f] \in Int
         /\ files[f] # NULL => RanksIn(files)[f] = Rank[files[f].name]
<1>1. RanksIn(files)[f] = IF files[f] = NULL THEN 0 ELSE Rank[files[f].name]
  BY DEF RanksIn
<1>2. files[f] # NULL => Rank[files[f].name] \in Nat
  BY RankAssumption DEF RankAssumption, FileRecord
<1> QED BY <1>1, <1>2

\* Files that are keys or being saved differ in rank.
LEMMA LiveApart ==
  ASSUME TypeOK, NamesUnique, NEW of, KeysIn(of) \subseteq Live, NEW f \in Live
  PROVE  Apart(of, Ranks, f)
<1>1. \A g \in Live : g \in FileIds /\ heap[g] # NULL
  BY DEF Live, Keyed, TypeOK
<1>2. \A g \in Live : Ranks[g] = Rank[heap[g].name]
  BY <1>1, RanksTyped DEF Ranks, TypeOK
<1> QED BY <1>2 DEF Apart, NamesUnique

LEMMA RebuiltIsBuilt ==
  \E built :
    /\ \A p \in 0 .. BlockCount :
         built[p] = IF p = 0 THEN EmptyMap
                    ELSE IF p - 1 \in AllStarts
                      THEN InsertValue(built[p - 1], Ranks, df.owners[p - 1], RunOf(p - 1))
                    ELSE built[p - 1]
    /\ Rebuilt = built[BlockCount]
<1> DEFINE goes == {p \in 1 .. BlockCount : p - 1 \in AllStarts}
           files == [p \in 1 .. BlockCount |-> df.owners[p - 1]]
           clusters == [p \in 1 .. BlockCount |-> RunOf(p - 1)]
<1>1. PICK built : Builds(built, EmptyMap, Ranks, goes, files, clusters, BlockCount)
  <2>1. BlockCount \in Nat
    BY BlockCountAssumption DEF BlockCountAssumption
  <2> HIDE DEF goes, files, clusters
  <2> QED BY <2>1, BuiltExists
<1>2. ASSUME NEW p \in 0 .. BlockCount
      PROVE  InsertStep(built, EmptyMap, Ranks, goes, files, clusters, p)
             = IF p = 0 THEN EmptyMap
               ELSE IF p - 1 \in AllStarts
                 THEN InsertValue(built[p - 1], Ranks, df.owners[p - 1], RunOf(p - 1))
               ELSE built[p - 1]
  <2>1. p # 0 => p \in 1 .. BlockCount
    OBVIOUS
  <2>2. p # 0 => /\ p \in goes <=> p - 1 \in AllStarts
                 /\ files[p] = df.owners[p - 1] /\ clusters[p] = RunOf(p - 1)
    BY <2>1
  <2> HIDE DEF goes, files, clusters
  <2> QED BY <2>2 DEF InsertStep
<1>3. built = [p \in 0 .. BlockCount |->
                 IF p = 0 THEN EmptyMap
                 ELSE IF p - 1 \in AllStarts
                   THEN InsertValue(built[p - 1], Ranks, df.owners[p - 1], RunOf(p - 1))
                 ELSE built[p - 1]]
  <2> HIDE DEF goes, files, clusters
  <2> QED BY <1>1, <1>2 DEF Builds
<1>4. \E map :
        /\ map = [p \in 0 .. BlockCount |->
                 IF p = 0 THEN EmptyMap
                 ELSE IF p - 1 \in AllStarts
                   THEN InsertValue(map[p - 1], Ranks, df.owners[p - 1], RunOf(p - 1))
                 ELSE map[p - 1]]
        /\ Rebuilt = map[BlockCount]
  BY <1>3, Zenon DEF Rebuilt, RunsInserted
<1> QED BY <1>4

\* Run after run, the array is what the part of the device passed says.
LEMMA Rebuilds ==
  ASSUME DLocal, NamesUnique, df.phase # "idle"
  PROVE  Sorted(Rebuilt, NewIndex, Ranks)
<1>1. PICK built :
        /\ \A p \in 0 .. BlockCount :
             built[p] = IF p = 0 THEN EmptyMap
                        ELSE IF p - 1 \in AllStarts
                          THEN InsertValue(built[p - 1], Ranks, df.owners[p - 1], RunOf(p - 1))
                        ELSE built[p - 1]
        /\ Rebuilt = built[BlockCount]
  BY RebuiltIsBuilt
<1>2. BlockCount \in Nat /\ TypeOK
  BY BlockCountAssumption DEF BlockCountAssumption, DLocal, LocalOK
<1>3. \A f \in FileIds : Ranks[f] \in Int
  BY <1>2, RanksTyped DEF Ranks, TypeOK
<1> DEFINE Right(p) ==
             /\ Sorted(built[p], IndexBefore(p), Ranks)
             /\ IndexBefore(p) \in Clusters
             /\ Cardinality(KeysIn(IndexBefore(p))) <= p
             /\ KeysIn(IndexBefore(p)) \subseteq Live
           S == {p \in Nat : p <= BlockCount => Right(p)}
<1>4. 0 \in S
  <2>1. built[0] = EmptyMap
    BY <1>1, <1>2
  <2>2. PICK of : of = [f \in FileIds |-> <<>>]
    OBVIOUS
  <2>3. IndexBefore(0) = of
    BY <2>2, IndexStarts
  <2>4. of \in Clusters /\ KeysIn(of) = {}
    BY <2>2 DEF Clusters, KeysIn
  <2>5. Sorted(EmptyMap, of, Ranks)
    BY <1>2, <1>3, <2>2 DEF Sorted, Holds, EmptyMap, MapType, Ascending
  <2>6. Cardinality({}) = 0
    BY FS_EmptySet
  <2> QED BY <2>1, <2>3, <2>4, <2>5, <2>6
<1>5. ASSUME NEW p \in S PROVE p + 1 \in S
  <2> SUFFICES ASSUME p + 1 <= BlockCount PROVE Right(p + 1)
    OBVIOUS
  <2>1. p \in Nat /\ p \in Blocks /\ p + 1 \in 0 .. BlockCount /\ p < BlockCount /\ Right(p)
    BY <1>2 DEF Blocks
  <2>2. PICK of, more, f : /\ of = IndexBefore(p) /\ more = IndexBefore(p + 1)
                           /\ f = df.owners[p]
    OBVIOUS
  <2>3. /\ Sorted(built[p], of, Ranks) /\ of \in Clusters
        /\ Cardinality(KeysIn(of)) <= p /\ KeysIn(of) \subseteq Live
    BY <2>1, <2>2
  <2>4. built[p + 1] = IF p \in AllStarts THEN InsertValue(built[p], Ranks, f, RunOf(p))
                       ELSE built[p]
    <3>1. p + 1 # 0 /\ (p + 1) - 1 = p
      BY <2>1
    <3> QED BY <1>1, <2>1, <2>2, <3>1
  <2>5. more = IF p \in AllStarts THEN [of EXCEPT ![f] = Append(@, RunOf(p))] ELSE of
    BY <2>1, <2>2, IndexGrows
  <2>6. IsFiniteSet(KeysIn(of)) /\ Cardinality(KeysIn(of)) \in Nat
    BY <2>3, KeysCounted, FS_CardinalityType DEF Sorted
  <2>7. CASE p \notin AllStarts
    BY <2>1, <2>2, <2>3, <2>4, <2>5, <2>6, <2>7
  <2>8. CASE p \in AllStarts
    <3>1. PICK g \in FileIds : p \in RunStarts(g)
      BY <2>8 DEF AllStarts
    <3>2. g = f /\ RunOf(p) \in Cluster
      <4>1. p \in 0 .. End - 1
        BY <3>1, RunStartsOrdered
      <4> QED BY <2>2, <3>1, <4>1, RunIsMaximal DEF RunStarts
    <3>3. f \in Live /\ f \in FileIds
      <4>1. f # NULL
        BY <3>1, <3>2, NullAssumption DEF NullAssumption
      <4> QED BY <2>1, <2>2, <3>1, <3>2, <4>1 DEF DLocal, DfOK, Live
    <3>4. Apart(of, Ranks, f)
      BY <1>2, <2>3, <3>3, LiveApart
    <3>5. Sorted(built[p + 1], more, Ranks) /\ more \in Clusters
      <4>1. Cardinality(KeysIn(of)) < BlockCount
        BY <1>2, <2>1, <2>3, <2>6
      <4>2. PICK m, c, rank : m = built[p] /\ c = RunOf(p) /\ rank = Ranks
        OBVIOUS
      <4>3. /\ Sorted(InsertValue(m, rank, f, c), [of EXCEPT ![f] = Append(@, c)], rank)
            /\ [of EXCEPT ![f] = Append(@, c)] \in Clusters
        BY <2>3, <3>2, <3>3, <3>4, <4>1, <4>2, Inserts
      <4> QED BY <2>4, <2>5, <2>8, <4>2, <4>3
    <3>6. KeysIn(more) \subseteq KeysIn(of) \cup {f}
      BY <2>3, <2>5, <2>8 DEF KeysIn, Clusters
    <3>7. Cardinality(KeysIn(more)) <= p + 1
      <4>1. PICK T : T = KeysIn(of) \cup {f}
        OBVIOUS
      <4>2. IsFiniteSet(T) /\ Cardinality(T) <= Cardinality(KeysIn(of)) + 1 /\ Cardinality(T) \in Nat
        <5>1. PICK K : K = KeysIn(of)
          OBVIOUS
        <5>2. IsFiniteSet(K) /\ Cardinality(K) \in Nat /\ T = K \cup {f}
          BY <2>6, <4>1, <5>1
        <5>3. /\ IsFiniteSet(T)
              /\ Cardinality(T) = IF f \in K THEN Cardinality(K) ELSE Cardinality(K) + 1
          BY <5>2, FS_AddElement
        <5> QED BY <5>1, <5>2, <5>3
      <4>3. Cardinality(KeysIn(more)) <= Cardinality(T) /\ Cardinality(KeysIn(more)) \in Nat
        BY <3>6, <4>1, <4>2, FS_Subset, FS_CardinalityType
      <4> QED BY <2>1, <2>3, <2>6, <4>2, <4>3
    <3> QED BY <2>2, <2>3, <3>3, <3>5, <3>6, <3>7
  <2> QED BY <2>7, <2>8
<1>6. S = Nat
  <2>1. S \in SUBSET Nat
    OBVIOUS
  <2> HIDE DEF S
  <2> QED BY <1>4, <1>5, <2>1, Inductive
<1>7. Right(BlockCount)
  <2>1. BlockCount \in S
    <3> HIDE DEF S
    <3> QED BY <1>2, <1>6
  <2> HIDE DEF Right
  <2> QED BY <1>2, <2>1
<1> QED BY <1>1, <1>7, IndexStarts

-----------------------------------------------------------------------------
(* The array and the index of Imffs, step by step *)

\* They agree, and no key is a freed File while a save or a defragmentation runs.
Agrees ==
  /\ Holds(mm, index)
  /\ Clean => Sorted(mm, index, Ranks)

Careful == sv.file # NULL \/ df.phase # "idle" => Clean

XInv == DLocal /\ NamesUnique /\ Agrees /\ Careful

LEMMA IndexTypes ==
  ASSUME XInv
  PROVE  /\ TypeOK /\ index \in Clusters
         /\ heap \in [FileIds -> FileRecord \cup {NULL}]
         /\ Keyed = KeysIn(index) /\ Keyed \subseteq FileIds
         /\ Live \subseteq FileIds
         /\ \A f \in Live : heap[f] # NULL /\ Ranks[f] = Rank[heap[f].name]
         /\ \A f \in FileIds : Ranks[f] \in Int
<1>1. TypeOK /\ index \in Clusters /\ heap \in [FileIds -> FileRecord \cup {NULL}]
  BY DEF XInv, DLocal, LocalOK, TypeOK, Clusters
<1>2. Keyed = KeysIn(index) /\ Keyed \subseteq FileIds
  BY DEF Keyed, KeysIn
<1>3. Live \subseteq FileIds /\ \A f \in Live : heap[f] # NULL
  BY <1>1, <1>2 DEF Live, TypeOK
<1>4. \A f \in FileIds : Ranks[f] \in Int /\ (heap[f] # NULL => Ranks[f] = Rank[heap[f].name])
  BY <1>1, RanksTyped DEF Ranks
<1> QED BY <1>1, <1>2, <1>3, <1>4

LEMMA SortedNow ==
  ASSUME XInv, Clean
  PROVE  /\ Sorted(mm, index, Ranks) /\ Keyed \subseteq Live
         /\ \A f \in Live : Apart(index, Ranks, f)
<1>1. Keyed \subseteq Live
  BY DEF Clean, Live
<1> QED BY <1>1, IndexTypes, LiveApart DEF XInv, Agrees

\* The order stays while the ranks of the Files that have clusters do.
LEMMA SameOrder ==
  ASSUME NEW m, NEW of, NEW rank, Sorted(m, of, rank),
         NEW after, \A f \in FileIds : after[f] \in Int,
         \A f \in KeysIn(of) : after[f] = rank[f]
  PROVE  Sorted(m, of, after)
<1>1. Len(m.keys) \in Nat
  BY EntryAt DEF Sorted, Holds
<1>2. \A i \in 1 .. Len(m.keys) : m.keys[i].key \in KeysIn(of)
  BY EntryAt DEF Sorted, Holds, KeysIn
<1>3. \A i \in 1 .. Len(m.keys) - 1 : i \in 1 .. Len(m.keys) /\ i + 1 \in 1 .. Len(m.keys)
  BY <1>1
<1> QED BY <1>2, <1>3 DEF Sorted, Ascending

LEMMA RanksKept ==
  ASSUME TypeOK, TypeOK', NEW f \in FileIds,
         heap[f] # NULL, heap'[f] # NULL, heap'[f].name = heap[f].name
  PROVE  Ranks'[f] = Ranks[f]
<1>1. /\ heap \in [FileIds -> FileRecord \cup {NULL}]
      /\ heap' \in [FileIds -> FileRecord \cup {NULL}]
  BY DEF TypeOK
<1>2. Ranks' = RanksIn(heap') /\ Ranks = RanksIn(heap)
  BY DEF Ranks
<1>3. RanksIn(heap)[f] = Rank[heap[f].name]
  BY <1>1, RanksTyped
<1>4. RanksIn(heap')[f] = Rank[heap'[f].name]
  BY <1>1, RanksTyped
<1> QED BY <1>2, <1>3, <1>4

LEMMA RanksTypedAfter ==
  ASSUME TypeOK'
  PROVE  \A f \in FileIds : Ranks'[f] \in Int
<1>1. heap' \in [FileIds -> FileRecord \cup {NULL}] /\ Ranks' = RanksIn(heap')
  BY DEF TypeOK, Ranks
<1> QED BY <1>1, RanksTyped

\* The array changes no key and the index of Imffs stays.
LEMMA KeysUnchanged ==
  ASSUME XInv, TypeOK', index' = index, mm' \in MapType, mm'.keys = mm.keys,
         Clean' => /\ Clean
                   /\ \A f \in Keyed : heap'[f].name = heap[f].name
  PROVE  Agrees'
<1>1. Holds(mm', index')
  BY DEF XInv, Agrees, Holds
<1>2. ASSUME Clean' PROVE Sorted(mm', index', Ranks')
  <2>1. Sorted(mm, index, Ranks) /\ Clean
    BY <1>2, SortedNow
  <2>2. Sorted(mm', index', Ranks)
    BY <1>1, <2>1 DEF Sorted
  <2>3. Keyed' = Keyed
    BY DEF Keyed
  <2>4. \A f \in Keyed : f \in FileIds /\ heap[f] # NULL /\ heap'[f] # NULL
                         /\ heap'[f].name = heap[f].name
    BY <1>2, <2>3 DEF Clean, Keyed
  <2>5. \A f \in KeysIn(index') : Ranks'[f] = Ranks[f]
    BY <2>4, IndexTypes, RanksKept
  <2>6. \A f \in FileIds : Ranks'[f] \in Int
    BY RanksTypedAfter
  <2> QED BY <2>2, <2>5, <2>6, SameOrder
<1> QED BY <1>1, <1>2 DEF Agrees

LEMMA WalkedHolds ==
  ASSUME NEW m, NEW of, Holds(m, of), NEW n
  PROVE  Holds(Walked(m, n), of) /\ Walked(m, n).keys = m.keys
<1>1. PICK p : p = IF Matches(m, n) = {} THEN -1 ELSE Min(Matches(m, n))
  OBVIOUS
<1>2. Len(m.keys) \in Nat /\ Len(m.keys) <= BlockCount /\ BlockCount \in Nat
      /\ DOMAIN m.keys = 1 .. Len(m.keys)
  BY EntryAt, BlockCountAssumption DEF Holds, MapType, BlockCountAssumption
<1>3. Matches(m, n) \in SUBSET (1 .. Len(m.keys))
  BY <1>2 DEF Matches
<1>4. Matches(m, n) # {} => Min(Matches(m, n)) \in Matches(m, n)
  BY <1>2, <1>3, LeastNumber
<1>5. p \in -1 .. BlockCount
  <2>1. CASE Matches(m, n) = {}
    BY <1>1, <1>2, <2>1
  <2>2. CASE Matches(m, n) # {}
    <3>1. p \in 1 .. Len(m.keys)
      BY <1>1, <1>3, <1>4, <2>2
    <3> QED BY <1>2, <3>1
  <2> QED BY <2>1, <2>2
<1>6. Walked(m, n) = [m EXCEPT !.trav_pos = p]
  BY <1>1 DEF Walked
<1> QED BY <1>5, <1>6, WalkHolds

LEMMA WalkedSorted ==
  ASSUME NEW m, NEW of, NEW rank, Sorted(m, of, rank), NEW n
  PROVE  Sorted(Walked(m, n), of, rank)
<1>1. PICK t : t = Walked(m, n)
  OBVIOUS
<1>2. Holds(t, of) /\ t.keys = m.keys
  BY <1>1, WalkedHolds DEF Sorted
<1> QED BY <1>1, <1>2 DEF Sorted

\* A key is removed, and its File is freed or not.
LEMMA RemovedAgrees ==
  ASSUME XInv, TypeOK', NEW m, NEW of \in Clusters, Sorted(m, of, Ranks),
         NEW f \in Live, KeysIn(of) \subseteq Live,
         mm' = RemoveKey(m, Ranks, f), index' = [of EXCEPT ![f] = <<>>],
         \A g \in FileIds : g # f => heap'[g] = heap[g]
  PROVE  Agrees'
<1>1. Apart(of, Ranks, f) /\ f \in FileIds
  BY IndexTypes, LiveApart DEF XInv
<1>2. Sorted(mm', index', Ranks)
  <2>1. PICK rank : rank = Ranks
    OBVIOUS
  <2>2. Sorted(RemoveKey(m, rank, f), [of EXCEPT ![f] = <<>>], rank)
    BY <1>1, <2>1, Removes
  <2> QED BY <2>1, <2>2
<1>3. \A g \in KeysIn(index') : g \in FileIds /\ g # f /\ g \in KeysIn(of)
  BY <1>1 DEF KeysIn, Clusters
<1>4. \A g \in KeysIn(index') : Ranks'[g] = Ranks[g]
  <2> SUFFICES ASSUME NEW g \in KeysIn(index') PROVE Ranks'[g] = Ranks[g]
    OBVIOUS
  <2>1. g \in FileIds /\ heap'[g] = heap[g] /\ heap[g] # NULL
    BY <1>3, IndexTypes
  <2> QED BY <2>1, IndexTypes, RanksKept
<1>5. \A g \in FileIds : Ranks'[g] \in Int
  BY RanksTypedAfter
<1>6. Sorted(mm', index', Ranks')
  BY <1>2, <1>4, <1>5, SameOrder
<1>7. Holds(mm', index')
  BY <1>2 DEF Sorted
<1> QED BY <1>6, <1>7 DEF Agrees

\* mm_insert_value as imffs_save calls it: when it does nothing, Imffs says so.
LEMMA ClusterGoesIn ==
  ASSUME XInv, sv.file # NULL
  PROVE  /\ sv.file \in Live /\ sv.file \in FileIds
         /\ Sorted(mm, index, Ranks)
         /\ CanInsert(sv.file) =>
              /\ Sorted(WithCluster, Inserted(sv.file, Ended), Ranks)
              /\ Inserted(sv.file, Ended) \in Clusters
              /\ KeysIn(Inserted(sv.file, Ended)) \subseteq Live
         /\ ~CanInsert(sv.file) => WithCluster = mm
<1>1. PICK f, c, rank : f = sv.file /\ c = Ended /\ rank = Ranks
  OBVIOUS
<1>2. f \in FileIds /\ f \in Live /\ c \in Cluster /\ BlockCount \in Nat
  BY <1>1, IndexTypes, BlockCountAssumption
  DEF TypeOK, Live, Ended, Cluster, Blocks, BlockCountAssumption
<1>3. /\ Sorted(mm, index, rank) /\ Keyed = KeysIn(index) /\ Keyed \subseteq Live
      /\ Apart(index, rank, f) /\ index \in Clusters /\ rank[f] \in Int
  BY <1>1, <1>2, SortedNow, IndexTypes DEF XInv, Careful
<1>4. Inserted(f, c) = [index EXCEPT ![f] = Append(@, c)]
  BY DEF Inserted
<1>5. ASSUME CanInsert(f)
      PROVE  /\ Sorted(InsertValue(mm, rank, f, c), Inserted(f, c), rank)
             /\ Inserted(f, c) \in Clusters
             /\ KeysIn(Inserted(f, c)) \subseteq Live
  <2>1. f \in KeysIn(index) \/ Cardinality(KeysIn(index)) < BlockCount
    BY <1>3, <1>5 DEF CanInsert
  <2>2. /\ Sorted(InsertValue(mm, rank, f, c), [index EXCEPT ![f] = Append(@, c)], rank)
        /\ [index EXCEPT ![f] = Append(@, c)] \in Clusters
    BY <1>2, <1>3, <2>1, Inserts
  <2>3. KeysIn(Inserted(f, c)) \subseteq KeysIn(index) \cup {f}
    BY <1>3, <1>4 DEF KeysIn, Clusters
  <2> QED BY <1>2, <1>3, <1>4, <2>2, <2>3
<1>6. ASSUME ~CanInsert(f) PROVE InsertValue(mm, rank, f, c) = mm
  <2>1. f \notin KeysIn(index) /\ ~(Cardinality(KeysIn(index)) < BlockCount)
    BY <1>3, <1>6 DEF CanInsert
  <2>2. mm \in MapType /\ Len(mm.keys) \in Nat /\ Len(mm.keys) = Cardinality(KeysIn(index))
    BY <1>3, EntryAt, KeysCounted DEF Sorted, Holds
  <2>3. \A i \in 1 .. Len(mm.keys) : mm.keys[i].key \in KeysIn(index) /\ mm.keys[i].key # f
    BY <1>3, <2>1, <2>2, EntryAt DEF Sorted, Holds, KeysIn
  <2>4. \A i \in 1 .. Len(mm.keys) : rank[mm.keys[i].key] # rank[f]
    BY <1>3, <2>3 DEF Apart
  <2>5. FindPos(mm.keys, rank, rank[f]) = -1
    BY <1>3, <2>4, SearchLands
  <2>6. ~(-1 >= 0) /\ Len(mm.keys) >= BlockCount
    BY <1>2, <2>1, <2>2
  <2> QED BY <2>5, <2>6 DEF InsertValue
<1> QED BY <1>1, <1>2, <1>3, <1>5, <1>6 DEF WithCluster

LEMMA SaveInsertsStep ==
  ASSUME XInv, TypeOK', SaveInserts
  PROVE  Agrees'
<1> USE BytesPerBlockAssumption, SizeAssumption, NullAssumption
<1>1. sv.file # NULL
  BY DEF SaveInserts, SaveCluster, SaveCommit, SaveRollback, SaveRollbackFails, SaveAbandoned,
         Looping, LoopOver, Saving
<1>2. PICK f, more : f = sv.file /\ more = Inserted(f, Ended)
  OBVIOUS
<1>3. /\ f \in Live /\ f \in FileIds /\ heap[f] # NULL
      /\ Sorted(mm, index, Ranks) /\ index \in Clusters
      /\ CanInsert(f) => /\ Sorted(WithCluster, more, Ranks)
                         /\ more \in Clusters /\ KeysIn(more) \subseteq Live
      /\ ~CanInsert(f) => WithCluster = mm
  BY <1>1, <1>2, ClusterGoesIn, IndexTypes
<1>4. ASSUME NEW b \in Blocks, SaveCluster(b), mm' = WithCluster PROVE Agrees'
  <2>1. StoreChunk(b) /\ index' = IF CanInsert(f) THEN more ELSE index
    BY <1>2, <1>4 DEF SaveCluster
  <2>2. Sorted(mm', index', Ranks) /\ index' \in Clusters
    BY <1>3, <1>4, <2>1
  <2>3. KeysIn(index') \subseteq Live
    <3>1. Clean
      BY <1>1 DEF XInv, Careful
    <3> QED BY <1>3, <2>1, <3>1, SortedNow, IndexTypes
  <2>4. ASSUME NEW g \in KeysIn(index') PROVE Ranks'[g] = Ranks[g]
    <3>1. g \in FileIds /\ heap[g] # NULL
      BY <2>3, IndexTypes
    <3>2. heap'[g] # NULL /\ heap'[g].name = heap[g].name
      BY <1>1, <2>1, <3>1, StoredChunkKeepsHeap DEF XInv, DLocal
    <3> QED BY <3>1, <3>2, IndexTypes, RanksKept
  <2>5. \A g \in FileIds : Ranks'[g] \in Int
    BY RanksTypedAfter
  <2>6. Sorted(mm', index', Ranks')
    BY <2>2, <2>4, <2>5, SameOrder
  <2>7. Holds(mm', index')
    BY <2>6 DEF Sorted
  <2> QED BY <2>6, <2>7 DEF Agrees
<1>5. CASE SaveCommit /\ mm' = WithCluster
  <2>1. CanInsert(f) /\ index' = more /\ heap' = heap
    BY <1>2, <1>5 DEF SaveCommit
  <2>2. Ranks' = Ranks
    BY <2>1 DEF Ranks, RanksIn
  <2>3. Sorted(mm', index', Ranks') /\ Holds(mm', index')
    BY <1>3, <1>5, <2>1, <2>2 DEF Sorted
  <2> QED BY <2>3 DEF Agrees
<1>6. CASE SaveRollback /\ mm' = RolledBack
  <2>1. /\ CanInsert(f) /\ index' = [index EXCEPT ![f] = <<>>]
        /\ heap' = [heap EXCEPT ![f] = NULL]
    BY <1>2, <1>6 DEF SaveRollback
  <2>2. PICK m : m = Walked(WithCluster, heap[f].name)
    OBVIOUS
  <2>3. Sorted(m, more, Ranks) /\ mm' = RemoveKey(m, Ranks, f)
    BY <1>2, <1>3, <1>6, <2>1, <2>2, WalkedSorted DEF RolledBack
  <2>4. index' = [more EXCEPT ![f] = <<>>]
    BY <1>2, <1>3, <2>1 DEF Inserted, Clusters
  <2>5. \A g \in FileIds : g # f => heap'[g] = heap[g]
    BY <2>1, IndexTypes
  <2> QED BY <1>3, <2>1, <2>3, <2>4, <2>5, RemovedAgrees
<1>7. CASE SaveRollbackFails /\ mm' = Walked(WithCluster, heap[sv.file].name)
  <2>1. CanInsert(f) /\ index' = more /\ heap' = [heap EXCEPT ![f] = NULL]
    BY <1>2, <1>7 DEF SaveRollbackFails
  <2>2. Holds(mm', index')
    BY <1>3, <1>7, <2>1, WalkedHolds DEF Sorted
  <2>3. ~Clean'
    <3>1. heap'[f] = NULL
      BY <1>3, <2>1, IndexTypes
    <3>2. index'[f] # <<>>
      <4>1. index[f] \in Seq(Cluster) /\ Ended \in Cluster
        BY <1>1, <1>3, IndexTypes DEF Clusters, Ended, Cluster, TypeOK, Blocks
      <4>2. index'[f] = Append(index[f], Ended)
        BY <1>2, <1>3, <2>1 DEF Inserted, Clusters
      <4> QED BY <4>1, <4>2
    <3> QED BY <1>3, <3>1, <3>2 DEF Clean, Keyed
  <2> QED BY <2>2, <2>3 DEF Agrees
<1>8. CASE SaveAbandoned /\ mm' = IF sv.num > 0 THEN WithCluster ELSE mm
  <2>1. /\ index' = index /\ Clean /\ heap' = [heap EXCEPT ![f] = NULL]
        /\ (sv.num = 0 \/ ~CanInsert(f)) /\ sv.num \in Nat
    BY <1>1, <1>2, <1>8, IndexTypes DEF SaveAbandoned, XInv, Careful, TypeOK
  <2>2. mm' = mm
    BY <1>3, <1>8, <2>1
  <2>3. mm' \in MapType /\ mm'.keys = mm.keys
    BY <2>2 DEF XInv, Agrees, Holds
  <2>4. \A g \in Keyed : heap'[g] # NULL => heap'[g].name = heap[g].name
    BY <1>3, <2>1, IndexTypes
  <2>5. Clean' => Clean /\ \A g \in Keyed : heap'[g].name = heap[g].name
    BY <2>1, <2>4 DEF Clean, Keyed
  <2> QED BY <2>1, <2>3, <2>5, KeysUnchanged
<1> QED BY <1>4, <1>5, <1>6, <1>7, <1>8 DEF SaveInserts

\* The operations that touch neither the array nor the clusters of a key.
LEMMA LeavesStep ==
  ASSUME XInv, TypeOK', LeavesIndex, UNCHANGED mm
  PROVE  Agrees'
<1> USE BytesPerBlockAssumption, SizeAssumption, NullAssumption
<1>1. mm' \in MapType /\ mm'.keys = mm.keys
  BY DEF XInv, Agrees, Holds
<1>2. ASSUME index' = index, Clean' => Clean /\ \A f \in Keyed : heap'[f].name = heap[f].name
      PROVE  Agrees'
  BY <1>1, <1>2, KeysUnchanged
<1>3. ASSUME index' = index, heap' = heap PROVE Agrees'
  <2>1. Clean' = Clean
    BY <1>3 DEF Clean, Keyed
  <2> QED BY <1>2, <1>3, <2>1
<1>4. ASSUME NEW b \in Blocks, SaveBlock(b) \/ SaveReadError(b) PROVE Agrees'
  <2>1. sv.file # NULL /\ index' = index /\ Clean
    BY <1>4 DEF SaveBlock, SaveReadError, Looping, Saving, XInv, Careful
  <2>2. \A f \in FileIds : heap[f] # NULL => heap'[f].name = heap[f].name
    <3>1. CASE SaveBlock(b)
      BY <2>1, <3>1, StoredChunkKeepsHeap DEF SaveBlock, XInv, DLocal
    <3>2. CASE SaveReadError(b)
      BY <2>1, <3>2, FailedRead DEF XInv, DLocal
    <3> QED BY <1>4, <3>1, <3>2
  <2> QED BY <1>2, <2>1, <2>2 DEF Clean, Keyed
<1>5. ASSUME NEW n \in Names, NEW d \in DiskFiles, NEW f \in FileIds, SaveOpen(n, d, f)
      PROVE  Agrees'
  <2>1. /\ index' = index /\ Clean /\ heap[f] = NULL
        /\ heap' = [heap EXCEPT ![f] = [name |-> n, byte_len |-> 0]]
    BY <1>5 DEF SaveOpen, Ready
  <2>2. \A g \in Keyed : heap'[g].name = heap[g].name
    BY <2>1, IndexTypes DEF Clean
  <2> QED BY <1>2, <2>1, <2>2
<1>6. CASE SaveInsertAborts
  BY <1>3, <1>6 DEF SaveInsertAborts, Halt
<1>7. CASE \E n \in Names : SaveUnopened(n) \/ SaveDuplicate(n) \/ LoadMissing(n) \/ DeleteMissing(n)
  BY <1>3, <1>7 DEF SaveUnopened, SaveDuplicate, LoadMissing, DeleteMissing, Refuse
<1>8. CASE (\E old, new \in Names : RenameAborts(old, new)) \/ DirAborts \/ TouchDangling \/ Halted
  BY <1>3, <1>8 DEF RenameAborts, DirAborts, TouchDangling, Halted, Halt, vars
<1> QED BY <1>4, <1>5, <1>6, <1>7, <1>8 DEF LeavesIndex

\* The array is walked, to the key that matches or to the end.
LEMMA WalksStep ==
  ASSUME XInv, TypeOK', index' = index, heap' = heap,
         (\E n : mm' = Walked(mm, n)) \/ \E p \in -1 .. BlockCount : mm' = [mm EXCEPT !.trav_pos = p]
  PROVE  Agrees'
<1>1. Holds(mm, index)
  BY DEF XInv, Agrees
<1>2. mm' \in MapType /\ mm'.keys = mm.keys
  <2>1. CASE \E n : mm' = Walked(mm, n)
    BY <1>1, <2>1, WalkedHolds DEF Holds
  <2>2. CASE \E p \in -1 .. BlockCount : mm' = [mm EXCEPT !.trav_pos = p]
    BY <1>1, <2>2, WalkHolds DEF Holds
  <2> QED BY <2>1, <2>2
<1>3. Clean' = Clean
  BY DEF Clean, Keyed
<1> QED BY <1>2, <1>3, KeysUnchanged

LEMMA EmptyAgrees ==
  ASSUME TypeOK, mm = EmptyMap, index = [f \in FileIds |-> <<>>]
  PROVE  Agrees
<1>1. Holds(mm, index)
  BY BlockCountAssumption DEF EmptyMap, Holds, MapType, BlockCountAssumption
<1>2. \A f \in FileIds : Ranks[f] \in Int
  BY RanksTyped DEF Ranks, TypeOK
<1>3. Ascending(mm.keys, Ranks)
  BY DEF EmptyMap, Ascending
<1> QED BY <1>1, <1>2, <1>3 DEF Agrees, Sorted

\* mm_get_values finds the clusters of a key.
LEMMA ValuesFound ==
  ASSUME XInv, Clean, NEW f \in Keyed
  PROVE  ValuesOf(f) = index[f]
<1>1. /\ Sorted(mm, index, Ranks) /\ f \in FileIds /\ Ranks[f] \in Int
      /\ mm \in MapType /\ Len(mm.keys) \in Nat
  BY SortedNow, IndexTypes, EntryAt DEF Sorted, Holds
<1>2. PICK i \in 1 .. Len(mm.keys) : mm.keys[i].key = f
  BY <1>1 DEF Sorted, Holds, Keyed
<1>3. PICK pos : pos = FindPos(mm.keys, Ranks, Ranks[f])
  OBVIOUS
<1>4. pos = i - 1
  BY <1>1, <1>2, <1>3, SearchLands
<1>5. ~(pos < 0) /\ pos + 1 = i
  BY <1>1, <1>4
<1>6. mm.keys[i].values = index[f]
  BY <1>1, <1>2 DEF Sorted, Holds
<1> QED BY <1>3, <1>5, <1>6 DEF ValuesOf

LEMMA RenameStep ==
  ASSUME XInv, TypeOK', NEW n \in Names, NEW new \in Names, NEW f \in FileIds,
         Rename(n, new, f), mm' = Renamed(n, f)
  PROVE  Agrees'
<1>1. /\ Clean /\ f \in Keyed /\ Found(new) = {} /\ index' = index
      /\ heap' = [heap EXCEPT ![f] = [heap[f] EXCEPT !.name = new]]
  BY DEF Rename, Ready, Found
<1>2. /\ Sorted(mm, index, Ranks) /\ index \in Clusters /\ f \in Live /\ Keyed = KeysIn(index)
      /\ Apart(index, Ranks, f) /\ ValuesOf(f) = index[f] /\ index[f] \in Seq(Cluster)
  BY <1>1, SortedNow, IndexTypes, ValuesFound DEF Clusters
<1>3. PICK less, m, rank, after :
        /\ less = [index EXCEPT ![f] = <<>>]
        /\ m = RemoveKey(Walked(mm, n), Ranks, f)
        /\ rank = Ranks /\ after = RanksIn(heap')
  OBVIOUS
<1>4. Sorted(m, less, rank) /\ less \in Clusters
  <2>1. PICK w : w = Walked(mm, n)
    OBVIOUS
  <2>2. Sorted(w, index, rank)
    BY <1>2, <1>3, <2>1, WalkedSorted
  <2>3. /\ Sorted(RemoveKey(w, rank, f), [index EXCEPT ![f] = <<>>], rank)
        /\ [index EXCEPT ![f] = <<>>] \in Clusters
    BY <1>2, <1>3, <2>2, Removes
  <2> QED BY <1>3, <2>1, <2>3
<1>5. less[f] = <<>> /\ KeysIn(less) = Keyed \ {f} /\ [less EXCEPT ![f] = index[f]] = index
  BY <1>2, <1>3 DEF KeysIn, Clusters
<1>6. \A g \in FileIds : after[g] \in Int
  BY <1>3, RanksTypedAfter DEF Ranks
<1>7. ASSUME NEW g \in KeysIn(less)
      PROVE  after[g] = rank[g] /\ g \in FileIds /\ rank[g] = Rank[heap[g].name] /\ g \notin Found(new)
  <2>1. g \in FileIds /\ g # f /\ heap'[g] = heap[g] /\ heap[g] # NULL /\ g \in Live
    BY <1>1, <1>5, IndexTypes DEF Live, Clean
  <2>2. Ranks'[g] = Ranks[g]
    BY <2>1, IndexTypes, RanksKept
  <2> QED BY <1>1, <1>3, <2>1, <2>2, IndexTypes DEF Ranks
<1>8. Sorted(m, less, after)
  BY <1>4, <1>6, <1>7, SameOrder
<1>9. Apart(less, after, f)
  <2>1. after[f] = Rank[new]
    <3>1. heap'[f] = [heap[f] EXCEPT !.name = new] /\ heap[f] \in FileRecord
      BY <1>1, <1>2, IndexTypes
    <3>2. heap'[f].name = new /\ heap'[f] # NULL
      BY <3>1, NullAssumption DEF FileRecord, NullAssumption
    <3>3. heap' \in [FileIds -> FileRecord \cup {NULL}]
      BY DEF TypeOK
    <3> QED BY <1>3, <3>2, <3>3, RanksTyped
  <2>2. \A g \in KeysIn(less) : after[g] # Rank[new]
    <3> SUFFICES ASSUME NEW g \in KeysIn(less), after[g] = Rank[new] PROVE FALSE
      OBVIOUS
    <3>1. g \in Keyed /\ heap[g] # NULL /\ Rank[heap[g].name] = Rank[new]
      BY <1>1, <1>5, <1>7 DEF Clean
    <3> QED BY <1>1, <3>1 DEF Found
  <2> QED BY <2>1, <2>2 DEF Apart
<1>10. Cardinality(KeysIn(less)) < BlockCount
  <2>1. PICK K, L : K = KeysIn(index) /\ L = KeysIn(less)
    OBVIOUS
  <2>2. Holds(mm, index) /\ Holds(m, less)
    BY <1>2, <1>4 DEF Sorted
  <2>3. IsFiniteSet(K) /\ Cardinality(K) <= BlockCount /\ IsFiniteSet(L)
    BY <2>1, <2>2, KeysCounted DEF Holds
  <2>4. K = L \cup {f} /\ f \notin L
    BY <1>1, <1>2, <1>5, <2>1
  <2>5. Cardinality(K) = Cardinality(L) + 1 /\ Cardinality(L) \in Nat
    BY <2>3, <2>4, FS_AddElement, FS_CardinalityType
  <2>6. BlockCount \in Nat
    BY BlockCountAssumption DEF BlockCountAssumption
  <2> QED BY <2>1, <2>3, <2>5, <2>6
<1>11. Sorted(Reinserted(m, heap', f, index[f]), index, after)
  <2>1. PICK files : files = heap'
    OBVIOUS
  <2>2. Sorted(m, less, RanksIn(files)) /\ Apart(less, RanksIn(files), f)
    BY <1>3, <1>8, <1>9, <2>1
  <2>3. Sorted(Reinserted(m, files, f, index[f]), [less EXCEPT ![f] = index[f]], RanksIn(files))
    BY <1>2, <1>4, <1>5, <1>10, <2>2, Reinserts
  <2> QED BY <1>3, <1>5, <2>1, <2>3
<1>12. mm' = Reinserted(m, heap', f, index[f])
  BY <1>2, <1>3 DEF Renamed
<1>13. Sorted(mm', index', Ranks') /\ Holds(mm', index')
  BY <1>1, <1>3, <1>11, <1>12 DEF Sorted, Ranks
<1> QED BY <1>13 DEF Agrees

LEMMA AltersStep ==
  ASSUME XInv, TypeOK', NEW n \in Names, NEW f \in FileIds, Alters(n, f)
  PROVE  Agrees'
<1>1. ASSUME Clean, f \in Keyed, mm' = Deleted(n, f), index' = [index EXCEPT ![f] = <<>>],
             \A g \in FileIds : g # f => heap'[g] = heap[g]
      PROVE  Agrees'
  <2>1. /\ Sorted(mm, index, Ranks) /\ index \in Clusters /\ f \in Live
        /\ KeysIn(index) \subseteq Live
    BY <1>1, SortedNow, IndexTypes
  <2>2. PICK m : m = Walked(mm, n)
    OBVIOUS
  <2>3. Sorted(m, index, Ranks) /\ mm' = RemoveKey(m, Ranks, f)
    BY <1>1, <2>1, <2>2, WalkedSorted DEF Deleted
  <2> QED BY <1>1, <2>1, <2>3, RemovedAgrees
<1>2. CASE Delete(n, f) /\ mm' = IF Restorable(f) THEN Deleted(n, f) ELSE mm
  <2>1. Clean /\ f \in Keyed
    BY <1>2 DEF Delete, Ready, Found
  <2>2. CASE Restorable(f)
    <3>1. /\ index' = [index EXCEPT ![f] = <<>>] /\ heap' = [heap EXCEPT ![f] = NULL]
          /\ mm' = Deleted(n, f)
      BY <1>2, <2>2 DEF Delete
    <3>2. \A g \in FileIds : g # f => heap'[g] = heap[g]
      BY <3>1, IndexTypes
    <3> QED BY <1>1, <2>1, <3>1, <3>2
  <2>3. CASE ~Restorable(f)
    <3>1. index' = index /\ heap' = heap /\ mm' = mm
      BY <1>2, <2>3 DEF Delete, Halt
    <3>2. mm' \in MapType /\ Clean' = Clean
      BY <3>1 DEF XInv, Agrees, Holds, Clean, Keyed
    <3> QED BY <3>1, <3>2, KeysUnchanged
  <2> QED BY <2>2, <2>3
<1>3. ASSUME NEW new \in Names, RenameLosesFile(n, new, f), mm' = Deleted(n, f)
      PROVE  Agrees'
  BY <1>1, <1>3 DEF RenameLosesFile, Ready, Found
<1> QED BY <1>2, <1>3, RenameStep DEF Alters

-----------------------------------------------------------------------------
(* The index beside the rest of imffs *)

\* What is done to the array holds no operation up: a step with the array is a step
\* without it.
LEMMA IndexedStep ==
  ASSUME [INext]_ivars
  PROVE  [DNext]_dvars
<1>1. LeavesIndex => Next
  BY DEF LeavesIndex, Next, SaveStep, Lookup, Alter
<1>2. SaveInserts => Next
  BY DEF SaveInserts, Next, SaveStep
<1>3. ASSUME NEW n \in Names, Looks(n) PROVE Next
  BY <1>3 DEF Looks, Next, Lookup, Alter
<1>4. ASSUME NEW n \in Names, NEW f \in FileIds, Alters(n, f) PROVE Next
  BY <1>4 DEF Alters, Next, Alter
<1>5. CASE Indexed
  <2>1. Next
    BY <1>1, <1>2, <1>3, <1>4, <1>5 DEF Indexed, Next, Lookup
  <2>2. (df.phase = "idle" \/ status # "running") /\ UNCHANGED df
    BY <1>5 DEF Indexed
  <2> QED BY <2>1, <2>2 DEF DNext, Other
<1>6. CASE IndexedDefrag
  BY <1>6 DEF IndexedDefrag, DNext, Compact
<1>7. CASE UNCHANGED ivars
  BY <1>7 DEF ivars
<1> QED BY <1>5, <1>6, <1>7 DEF INext

\* Neither a save nor a defragmentation begins with a freed File as a key, and none
\* becomes one while they run.
LEMMA CarefulNext ==
  ASSUME DLocal, Careful, [DNext]_dvars
  PROVE  Careful'
<1> USE BytesPerBlockAssumption, SizeAssumption, NullAssumption
<1>1. ASSUME index' = index, heap' = heap, Clean PROVE Careful'
  BY <1>1 DEF Careful, Clean, Keyed
<1>2. ASSUME UNCHANGED <<index, heap, sv>>, df' = df PROVE Careful'
  BY <1>2 DEF Careful, Clean, Keyed
<1>3. ASSUME sv'.file = NULL, df' = df, df.phase = "idle" PROVE Careful'
  BY <1>3 DEF Careful
<1>4. CASE Other
  <2>1. CASE status # "running"
    BY <1>2, <1>4, <2>1, StoppedStays DEF Other, vars
  <2>2. CASE df.phase = "idle"
    <3>1. df' = df /\ Next
      BY <1>4 DEF Other
    <3>2. ASSUME NEW b \in Blocks, SaveBlock(b) \/ SaveCluster(b) \/ SaveReadError(b) PROVE Careful'
      <4>1. sv.file # NULL /\ Clean /\ sv.file \in FileIds /\ heap[sv.file] # NULL
        BY <3>2 DEF SaveBlock, SaveCluster, SaveReadError, Looping, Saving, Careful, DLocal,
                    LocalOK, TypeOK
      <4>2. \A f \in FileIds : heap'[f] = NULL <=> heap[f] = NULL
        <5>1. CASE SaveReadError(b)
          BY <5>1, FailedRead DEF DLocal
        <5>2. CASE SaveBlock(b) \/ SaveCluster(b)
          BY <4>1, <5>2, StoredChunkKeepsHeap DEF SaveBlock, SaveCluster, DLocal
        <5> QED BY <3>2, <5>1, <5>2
      <4>3. Keyed' \subseteq Keyed \cup {sv.file}
        BY <3>1, KeysFollow DEF DLocal
      <4>4. \A f \in Keyed \cup {sv.file} : f \in FileIds /\ heap[f] # NULL
        BY <4>1 DEF Clean, Keyed
      <4>5. Clean'
        BY <4>2, <4>3, <4>4 DEF Clean
      <4> QED BY <4>5 DEF Careful
    <3>3. CASE SaveCommit \/ SaveRollback \/ SaveRollbackFails \/ SaveAbandoned
      <4>1. sv'.file = NULL
        BY <3>3 DEF SaveCommit, SaveRollback, SaveRollbackFails, SaveAbandoned, SaveReturns, Idle
      <4> QED BY <1>3, <2>2, <3>1, <4>1
    <3>4. CASE SaveInsertAborts \/ TouchDangling \/ Halted
      BY <1>2, <3>1, <3>4 DEF SaveInsertAborts, TouchDangling, Halted, Halt, vars
    <3>5. ASSUME NEW n \in Names, NEW d \in DiskFiles, NEW f \in FileIds, SaveOpen(n, d, f)
          PROVE  Careful'
      <4>1. /\ Clean /\ index' = index /\ heap[f] = NULL
            /\ \A g \in FileIds : g # f => heap'[g] = heap[g]
        BY <3>5 DEF SaveOpen, Ready, DLocal, LocalOK, TypeOK
      <4>2. Clean'
        BY <4>1 DEF Clean, Keyed
      <4> QED BY <4>2 DEF Careful
    <3>6. ASSUME sv' = sv, sv.file = NULL PROVE Careful'
      BY <1>3, <2>2, <3>1, <3>6
    <3>7. CASE Lookup
      BY <3>6, <3>7 DEF Lookup, LoadMissing, LoadFailed, Load, Dir, DirAborts, Refuse, Halt,
                        Ready, Between
    <3>8. CASE Destroy
      BY <3>6, <3>8 DEF Destroy, Ready, Between
    <3>9. CASE Alter
      <4>1. ASSUME NEW n \in Names,
                   \/ SaveUnopened(n) \/ SaveDuplicate(n) \/ DeleteMissing(n) \/ DeleteUnread(n)
            PROVE  Careful'
        BY <3>6, <4>1 DEF SaveUnopened, SaveDuplicate, DeleteMissing, DeleteUnread, Refuse,
                          Ready, Between
      <4>2. ASSUME NEW n \in Names, NEW f \in FileIds, Delete(n, f) PROVE Careful'
        BY <3>6, <4>2 DEF Delete, Halt, Ready, Between
      <4>3. ASSUME NEW old \in Names, NEW new \in Names,
                   \/ RenameRefused(old, new) \/ RenameUnread(old, new) \/ RenameAborts(old, new)
                   \/ \E f \in FileIds : Rename(old, new, f) \/ RenameLosesFile(old, new, f)
            PROVE  Careful'
        BY <3>6, <4>3 DEF RenameRefused, RenameUnread, RenameAborts, Rename, RenameLosesFile,
                          Refuse, Halt, Ready, Between
      <4> QED BY <3>5, <3>9, <4>1, <4>2, <4>3 DEF Alter
    <3> QED BY <3>1, <3>2, <3>3, <3>4, <3>7, <3>8, <3>9 DEF Next, SaveStep
  <2> QED BY <1>4, <2>1, <2>2 DEF Other
<1>5. CASE DefragStart
  BY <1>1, <1>5 DEF DefragStart, Ready
<1>6. CASE DefragUnready \/ DefragAborts
  BY <1>2, <1>6 DEF DefragUnready, DefragAborts, Refuse, Halt
<1>7. CASE DefragSeek \/ FileCompacted \/ \E p \in Blocks : KeepBlock(p) \/ CopyBlock(p) \/ ShiftBlocks(p)
  <2>1. index' = index /\ heap' = heap /\ df.phase # "idle"
    BY <1>7 DEF DefragSeek, FileCompacted, KeepBlock, CopyBlock, ShiftBlocks, NextOwned,
                InDefrag, Halt, vars
  <2> QED BY <1>1, <2>1 DEF Careful
<1>8. CASE DefragFinish
  <2>1. CASE Finished
    <3>1. /\ Keyed' \subseteq Keyed /\ heap' = heap /\ Clean
      BY <1>8, <2>1, KeysRebuilt DEF Finished, DefragFinish, InDefrag, Careful
    <3>2. Clean'
      BY <3>1 DEF Clean
    <3> QED BY <3>2 DEF Careful
  <2>2. CASE CheckFails
    BY <1>2, <2>2 DEF CheckFails, Halt
  <2> QED BY <1>8, <2>1, <2>2, FinishedOrNot
<1>9. CASE UNCHANGED dvars
  BY <1>2, <1>9 DEF dvars, vars
<1> QED BY <1>4, <1>5, <1>6, <1>7, <1>8, <1>9 DEF DNext, Compact

LEMMA DefragKeepsAgreement ==
  ASSUME XInv, TypeOK', IndexedDefrag
  PROVE  Agrees'
<1>1. BlockCount \in Nat /\ Holds(mm, index) /\ mm \in MapType
  BY BlockCountAssumption DEF BlockCountAssumption, XInv, Agrees, Holds
<1>2. ASSUME index' = index, heap' = heap, mm' = mm PROVE Agrees'
  BY <1>1, <1>2, KeysUnchanged DEF Clean, Keyed
<1>3. CASE DefragStart /\ mm' = WalkedThrough
  <2>1. index' = index /\ heap' = heap /\ mm' = [mm EXCEPT !.trav_pos = -1]
        /\ -1 \in -1 .. BlockCount
    BY <1>1, <1>3 DEF DefragStart, WalkedThrough
  <2> QED BY <2>1, WalksStep
<1>4. ASSUME NEW p \in {mm.trav_pos} \cup DOMAIN mm.keys, DefragUnready,
             mm' = [mm EXCEPT !.trav_pos = p]
      PROVE  Agrees'
  <2>1. index' = index /\ heap' = heap
    BY <1>4 DEF DefragUnready, Refuse
  <2>2. p \in -1 .. BlockCount
    <3>1. CASE p = mm.trav_pos
      BY <1>1, <3>1 DEF MapType
    <3>2. CASE p \in DOMAIN mm.keys
      <4>1. Len(mm.keys) \in Nat /\ Len(mm.keys) <= BlockCount /\ DOMAIN mm.keys = 1 .. Len(mm.keys)
        BY <1>1, EntryAt DEF Holds, MapType
      <4> QED BY <1>1, <3>2, <4>1
    <3> QED BY <1>4, <3>1, <3>2
  <2> QED BY <1>4, <2>1, <2>2, WalksStep
<1>5. CASE DefragFinish /\ mm' = IF status' = "running" THEN Rebuilt ELSE mm
  <2>1. CASE Finished
    <3>1. /\ status' = "running" /\ index' = NewIndex /\ heap' = heap /\ df.phase # "idle"
      BY <1>5, <2>1 DEF Finished, DefragFinish, InDefrag
    <3>2. Sorted(Rebuilt, NewIndex, Ranks)
      BY <3>1, Rebuilds DEF XInv
    <3>3. Ranks' = Ranks
      BY <3>1 DEF Ranks, RanksIn
    <3>4. Sorted(mm', index', Ranks') /\ Holds(mm', index')
      BY <1>5, <3>1, <3>2, <3>3 DEF Sorted
    <3> QED BY <3>4 DEF Agrees
  <2>2. CASE CheckFails
    <3>1. index' = index /\ heap' = heap /\ mm' = mm
      BY <1>5, <2>2 DEF CheckFails, Halt
    <3> QED BY <1>2, <3>1
  <2> QED BY <1>5, <2>1, <2>2, FinishedOrNot
<1>6. CASE /\ \/ DefragSeek
              \/ \E p \in Blocks : KeepBlock(p) \/ CopyBlock(p) \/ ShiftBlocks(p)
              \/ FileCompacted
              \/ DefragAborts
           /\ UNCHANGED mm
  <2>1. index' = index /\ heap' = heap
    BY <1>6 DEF DefragSeek, KeepBlock, CopyBlock, ShiftBlocks, FileCompacted, DefragAborts,
                Halt, vars
  <2> QED BY <1>2, <1>6, <2>1
<1> QED BY <1>3, <1>4, <1>5, <1>6 DEF IndexedDefrag

LEMMA AgreesNext ==
  ASSUME XInv, TypeOK', [INext]_ivars
  PROVE  Agrees'
<1>1. ASSUME index' = index, heap' = heap, mm' = mm PROVE Agrees'
  BY <1>1, KeysUnchanged DEF XInv, Agrees, Holds, Clean, Keyed
<1>2. CASE Indexed
  <2>1. ASSUME NEW n \in Names, Looks(n), mm' = Walked(mm, n) PROVE Agrees'
    <3>1. index' = index /\ heap' = heap
      BY <2>1 DEF Looks, LoadFailed, DeleteUnread, Load, RenameRefused, RenameUnread, Refuse, Halt
    <3> QED BY <2>1, <3>1, WalksStep
  <2>2. CASE Dir /\ mm' = WalkedThrough
    <3>1. /\ index' = index /\ heap' = heap /\ mm' = [mm EXCEPT !.trav_pos = -1]
          /\ -1 \in -1 .. BlockCount
      BY <2>2, BlockCountAssumption DEF Dir, WalkedThrough, BlockCountAssumption
    <3> QED BY <3>1, WalksStep
  <2>3. CASE Destroy /\ mm' = EmptyMap
    <3>1. index' = [f \in FileIds |-> <<>>]
      BY <2>3 DEF Destroy
    <3>2. (TypeOK /\ mm = EmptyMap /\ index = [f \in FileIds |-> <<>>] => Agrees)'
      BY EmptyAgrees, PTL
    <3> QED BY <2>3, <3>1, <3>2
  <2> QED BY <1>2, <2>1, <2>2, <2>3, LeavesStep, SaveInsertsStep, AltersStep DEF Indexed
<1>3. CASE IndexedDefrag
  BY <1>3, DefragKeepsAgreement
<1>4. CASE UNCHANGED ivars
  BY <1>1, <1>4 DEF ivars, dvars, vars
<1> QED BY <1>2, <1>3, <1>4 DEF INext

LEMMA XInvInit == IInit => XInv
<1> SUFFICES ASSUME IInit PROVE XInv
  OBVIOUS
<1>1. DLocal /\ TypeOK
  BY DLocalInit DEF IInit, DLocal, LocalOK
<1>2. NamesUnique /\ Careful
  BY FreshDefrag DEF IInit, DInit, Init, NamesUnique, Live, Keyed, Idle, Careful
<1>3. Agrees
  BY <1>1, EmptyAgrees DEF IInit, DInit, Init
<1> QED BY <1>1, <1>2, <1>3 DEF XInv

LEMMA XInvNext ==
  ASSUME XInv, [INext]_ivars
  PROVE  XInv'
<1>1. [DNext]_dvars
  BY IndexedStep
<1>2. DLocal' /\ NamesUnique' /\ Careful'
  BY <1>1, DLocalNext, NamesStep, CarefulNext DEF XInv
<1>3. TypeOK'
  BY <1>2 DEF DLocal, LocalOK
<1>4. Agrees'
  BY <1>3, AgreesNext
<1> QED BY <1>2, <1>4 DEF XInv

\* Whatever is saved, renamed, deleted or defragmented at any time, the array of the
\* index does what Imffs takes an index to do: imffs with its array behaves as
\* ImffsDefrag, ...
THEOREM IndexedDefrags == ISpec => DSpec
<1>1. IInit => DInit
  BY DEF IInit
<1>2. [INext]_ivars => [DNext]_dvars
  BY IndexedStep
<1> QED BY <1>1, <1>2, PTL DEF ISpec, DSpec

\* ... each File has in it the clusters that mm_insert_value put there in their
\* order, once, and no others have, ...
THEOREM ArrayAgrees == ISpec => []IndexAgrees
<1>1. IInit => XInv
  BY XInvInit
<1>2. XInv /\ [INext]_ivars => XInv'
  BY XInvNext
<1>3. XInv => IndexAgrees
  <2> SUFFICES ASSUME XInv PROVE IndexAgrees
    OBVIOUS
  <2>1. Holds(mm, index)
    BY DEF XInv, Agrees
  <2>2. DOMAIN mm.keys = 1 .. Len(mm.keys)
    BY <2>1 DEF Holds, MapType
  <2> SUFFICES ASSUME NEW f \in FileIds
               PROVE  LET at == {i \in 1 .. Len(mm.keys) : mm.keys[i].key = f}
                      IN IF at = {} THEN index[f] = <<>>
                         ELSE \A i \in at : at = {i} /\ mm.keys[i].values = index[f]
    BY <2>2 DEF IndexAgrees
  <2> DEFINE at == {i \in 1 .. Len(mm.keys) : mm.keys[i].key = f}
  <2>3. at = {} => index[f] = <<>>
    BY <2>1 DEF Holds
  <2>4. \A i \in at : at = {i} /\ mm.keys[i].values = index[f]
    BY <2>1 DEF Holds
  <2> QED BY <2>3, <2>4
<1> QED BY <1>1, <1>2, <1>3, PTL DEF ISpec

\* ... its keys ascend by the names that their Files have now, though imffs_rename
\* changes the name of a File in place (a5_imffs.c, 606 to 617), and validate_multimap
\* fails nowhere, ...
THEOREM IndexStaysValid == ISpec => []ValidIndex
<1>1. IInit => XInv
  BY XInvInit
<1>2. XInv /\ [INext]_ivars => XInv'
  BY XInvNext
<1>3. XInv => ValidIndex
  <2> SUFFICES ASSUME XInv, Clean
               PROVE  /\ Len(mm.keys) <= BlockCount
                      /\ mm.trav_pos \in -1 .. BlockCount
                      /\ \A i \in DOMAIN mm.keys : mm.keys[i].values # <<>>
                      /\ Ascending(mm.keys, Ranks)
    BY DEF ValidIndex
  <2>1. Holds(mm, index) /\ Ascending(mm.keys, Ranks)
    BY SortedNow DEF Sorted
  <2>2. DOMAIN mm.keys = 1 .. Len(mm.keys) /\ mm.trav_pos \in -1 .. BlockCount
    BY <2>1 DEF Holds, MapType
  <2> QED BY <2>1, <2>2 DEF Holds
<1> QED BY <1>1, <1>2, <1>3, PTL DEF ISpec

\* ... and the search by halves and the traversal of find_matching_file find the same
\* File of a name.
THEOREM LookupsStayAgreed == ISpec => []LookupsAgree
<1>1. IInit => XInv
  BY XInvInit
<1>2. XInv /\ [INext]_ivars => XInv'
  BY XInvNext
<1>3. XInv => LookupsAgree
  <2> SUFFICES ASSUME XInv, Clean, NEW n \in Names
               PROVE  LET pos == FindPos(mm.keys, Ranks, Rank[n])
                      IN IF Found(n) = {} THEN pos = -1 /\ Matches(mm, n) = {}
                         ELSE /\ pos >= 0
                              /\ mm.keys[pos + 1].key \in Found(n)
                              /\ Matches(mm, n) = {pos + 1}
    BY DEF LookupsAgree
  <2>1. PICK pos, rank, sought : /\ pos = FindPos(mm.keys, Ranks, Rank[n])
                                 /\ rank = Ranks /\ sought = Rank[n]
    OBVIOUS
  <2>2. /\ Sorted(mm, index, rank) /\ Keyed = KeysIn(index) /\ Keyed \subseteq Live
        /\ sought \in Int /\ mm \in MapType /\ Len(mm.keys) \in Nat
        /\ DOMAIN mm.keys = 1 .. Len(mm.keys)
    BY <2>1, SortedNow, IndexTypes, EntryAt, RankAssumption
    DEF RankAssumption, Sorted, Holds, MapType
  <2>3. ASSUME NEW i \in 1 .. Len(mm.keys)
        PROVE  /\ mm.keys[i].key \in Keyed
               /\ rank[mm.keys[i].key] = sought <=> mm.keys[i].key \in Found(n)
    <3>1. mm.keys[i].key \in Keyed /\ mm.keys[i].key \in Live
      BY <2>2, EntryAt DEF Sorted, Holds, KeysIn
    <3>2. heap[mm.keys[i].key] # NULL
          /\ rank[mm.keys[i].key] = Rank[heap[mm.keys[i].key].name]
      BY <2>1, <3>1, IndexTypes
    <3> QED BY <2>1, <3>1, <3>2 DEF Found
  <2>4. Matches(mm, n) = {i \in 1 .. Len(mm.keys) : rank[mm.keys[i].key] = sought}
    BY <2>1, <2>2 DEF Matches
  <2>5. CASE Found(n) = {}
    <3>1. \A i \in 1 .. Len(mm.keys) : rank[mm.keys[i].key] # sought
      BY <2>3, <2>5
    <3>2. pos = -1
      BY <2>1, <2>2, <3>1, SearchLands
    <3> QED BY <2>1, <2>4, <2>5, <3>1, <3>2
  <2>6. CASE Found(n) # {}
    <3>1. PICK f : f \in Found(n)
      BY <2>6
    <3>2. PICK i \in 1 .. Len(mm.keys) : mm.keys[i].key = f
      BY <2>2, <3>1 DEF Found, KeysIn, Sorted, Holds, Keyed
    <3>3. rank[mm.keys[i].key] = sought
      BY <2>3, <3>1, <3>2
    <3>4. pos = i - 1
      BY <2>1, <2>2, <3>3, SearchLands
    <3>5. \A j \in 1 .. Len(mm.keys) : rank[mm.keys[j].key] = sought => j = i
      <4> SUFFICES ASSUME NEW j \in 1 .. Len(mm.keys), rank[mm.keys[j].key] = sought
                   PROVE  j = i
        OBVIOUS
      <4>1. pos = j - 1
        BY <2>1, <2>2, SearchLands
      <4> QED BY <2>2, <3>4, <4>1
    <3>6. pos >= 0 /\ pos + 1 = i
      BY <2>2, <3>4
    <3>7. Matches(mm, n) = {i}
      BY <2>4, <3>3, <3>5
    <3> QED BY <2>1, <2>6, <3>1, <3>2, <3>6, <3>7
  <2> QED BY <2>5, <2>6
<1> QED BY <1>1, <1>2, <1>3, PTL DEF ISpec
=============================================================================
