----------------------------- MODULE DataLemmas -----------------------------
(***************************************************************************)
(* What the recursive operators and the operators on arrays of the models  *)
(* compute, for every argument.  Induction is by least counterexample: a   *)
(* nonempty set of naturals has a least element.                           *)
(***************************************************************************)
EXTENDS MultimapArray, FiniteSets, SequenceTheorems, FiniteSetTheorems, WellFoundedInduction, TLAPS

LEMMA LeastNumber ==
  ASSUME NEW S \in SUBSET Nat, S # {}
  PROVE  Min(S) \in S /\ \A n \in S : Min(S) <= n
<1>1. IsWellFoundedOn(OpToRel(<, Nat), Nat)
  BY NatLessThanWellFounded
<1>2. \E m \in S : \A n \in S : <<n, m>> \notin OpToRel(<, Nat)
  <2> DEFINE R == OpToRel(<, Nat)
  <2>1. IsWellFoundedOn(R, Nat)
    BY <1>1
  <2> HIDE DEF R
  <2>2. \E m \in S : \A n \in S : <<n, m>> \notin R
    BY <2>1, WFMin
  <2> QED BY <2>2 DEF R
<1>3. \E m \in S : \A n \in S : m <= n
  <2>1. \A n, m \in Nat : n < m => <<n, m>> \in OpToRel(<, Nat)
    <3> SUFFICES ASSUME NEW n \in Nat, NEW m \in Nat, n < m
                 PROVE  <<n, m>> \in {ss \in Nat \X Nat : ss[1] < ss[2]}
      BY DEF OpToRel
    <3> QED OBVIOUS
  <2>2. PICK m \in S : \A n \in S : <<n, m>> \notin OpToRel(<, Nat)
    BY <1>2
  <2>3. \A n \in S : ~(n < m)
    BY <2>1, <2>2
  <2> QED BY <2>3
<1> QED BY <1>3 DEF Min

\* Induction over a set of naturals: one that has 0 and each successor is Nat.
LEMMA Inductive ==
  ASSUME NEW S \in SUBSET Nat, 0 \in S, \A n \in S : n + 1 \in S
  PROVE  S = Nat
<1> SUFFICES ASSUME Nat \ S # {}
             PROVE  FALSE
  OBVIOUS
<1>1. PICK m \in Nat \ S : \A n \in Nat \ S : m <= n
  <2>1. Nat \ S \in SUBSET Nat
    OBVIOUS
  <2> QED BY <2>1, LeastNumber
<1>2. m - 1 \in Nat /\ m - 1 \in S
  BY <1>1
<1> QED BY <1>1, <1>2

-----------------------------------------------------------------------------
(* find_key_pos *)

\* The keys of an array have integer ranks.
Ranked(keys, rank) ==
  Len(keys) \in Nat /\ \A i \in 1 .. Len(keys) : rank[keys[i].key] \in Int

LEMMA AscendingPairs ==
  ASSUME NEW keys, NEW rank, Ranked(keys, rank), Ascending(keys, rank)
  PROVE  \A i, j \in 1 .. Len(keys) : i < j => rank[keys[i].key] < rank[keys[j].key]
<1> DEFINE n == Len(keys)
           r(i) == rank[keys[i].key]
<1>1. n \in Nat /\ \A i \in 1 .. n : r(i) \in Int
  BY DEF Ranked
<1>2. \A i \in 1 .. n - 1 : r(i) < r(i + 1)
  BY DEF Ascending
<1> DEFINE S == {k \in Nat : \A i \in 1 .. n : i + k + 1 <= n => r(i) < r(i + k + 1)}
<1> HIDE DEF n, r
<1>3. 0 \in S
  BY <1>1, <1>2
<1>4. ASSUME NEW k \in S PROVE k + 1 \in S
  <2> SUFFICES ASSUME NEW i \in 1 .. n, i + (k + 1) + 1 <= n
               PROVE  r(i) < r(i + (k + 1) + 1)
    OBVIOUS
  <2>1. i + k + 1 \in 1 .. n - 1 /\ i + (k + 1) + 1 = (i + k + 1) + 1
    BY <1>1
  <2>2. i + k + 1 <= n /\ r(i) < r(i + k + 1)
    BY <1>1, <2>1
  <2>3. r(i + k + 1) < r((i + k + 1) + 1)
    BY <1>2, <2>1
  <2>4. r(i) \in Int /\ r(i + k + 1) \in Int /\ r((i + k + 1) + 1) \in Int
    BY <1>1, <2>1
  <2> QED BY <2>1, <2>2, <2>3, <2>4
<1>5. S = Nat
  <2>1. S \in SUBSET Nat
    OBVIOUS
  <2> HIDE DEF S
  <2> QED BY <1>3, <1>4, <2>1, Inductive
<1>6. ASSUME NEW i \in 1 .. n, NEW j \in 1 .. n, i < j PROVE r(i) < r(j)
  <2>1. j - i - 1 \in S
    <3>1. j - i - 1 \in Nat
      BY <1>1, <1>6
    <3> HIDE DEF S
    <3> QED BY <1>5, <3>1
  <2>2. i + (j - i - 1) + 1 = j /\ j <= n
    BY <1>1
  <2> QED BY <2>1, <2>2
<1> QED BY <1>6 DEF n, r

\* One step of the search in the array of ranks.
Halved(search, keys, rank, sought, start, end) ==
  LET mid == (end - start) \div 2 + start
      comp == sought - rank[keys[mid + 1].key]
  IN IF start > end THEN -1
     ELSE IF comp < 0 THEN search[<<start, mid - 1>>]
     ELSE IF comp > 0 THEN search[<<mid + 1, end>>]
     ELSE mid

Ranges(keys) == (0 .. Len(keys)) \X (-1 .. Len(keys) - 1)

\* The positions from start to end with the rank sought.
Matching(keys, rank, sought, start, end) ==
  {p \in start .. end : rank[keys[p + 1].key] = sought}

AnyOrNone(positions) == IF positions = {} THEN -1 ELSE CHOOSE p \in positions : TRUE

\* What the search comes to between start and end.
Located(keys, rank, sought, start, end) ==
  AnyOrNone(Matching(keys, rank, sought, start, end))

\* Halving does not lose the match: what is sought in a range is sought in the
\* half that the comparison leaves.
HalfSuffices(keys, rank, sought, start, end) ==
  LET mid == (end - start) \div 2 + start
      comp == sought - rank[keys[mid + 1].key]
      L(a, b) == Located(keys, rank, sought, a, b)
  IN /\ start > end => L(start, end) = -1
     /\ start <= end =>
          /\ mid \in start .. end
          /\ comp \in Int
          /\ <<start, mid - 1>> \in Ranges(keys) /\ <<mid + 1, end>> \in Ranges(keys)
          /\ comp < 0 => L(start, end) = L(start, mid - 1)
          /\ comp > 0 => L(start, end) = L(mid + 1, end)
          /\ comp = 0 => L(start, end) = mid

LEMMA LocatedInHalf ==
  ASSUME NEW keys, NEW rank, Ranked(keys, rank), Ascending(keys, rank),
         NEW sought \in Int, NEW start \in 0 .. Len(keys), NEW end \in -1 .. Len(keys) - 1
  PROVE  HalfSuffices(keys, rank, sought, start, end)
<1> DEFINE n == Len(keys)
           r(p) == rank[keys[p + 1].key]
           mid == (end - start) \div 2 + start
           M(a, b) == Matching(keys, rank, sought, a, b)
           L(a, b) == Located(keys, rank, sought, a, b)
<1>1. n \in Nat /\ \A p \in 0 .. n - 1 : r(p) \in Int
  BY DEF Ranked
<1>2. \A p, q \in 0 .. n - 1 : p < q => r(p) < r(q)
  <2> SUFFICES ASSUME NEW p \in 0 .. n - 1, NEW q \in 0 .. n - 1, p < q
               PROVE  rank[keys[p + 1].key] < rank[keys[q + 1].key]
    OBVIOUS
  <2>1. p + 1 \in 1 .. Len(keys) /\ q + 1 \in 1 .. Len(keys) /\ p + 1 < q + 1
    BY <1>1
  <2> QED BY <2>1, AscendingPairs
<1>3. \A a, b : \A p : p \in M(a, b) <=> p \in a .. b /\ r(p) = sought
  BY DEF Matching
<1>a. \A a, b, c, d :
        (\A p : p \in a .. b /\ r(p) = sought <=> p \in c .. d /\ r(p) = sought)
          => M(a, b) = M(c, d)
  <2> SUFFICES ASSUME NEW a, NEW b, NEW c, NEW d,
                      \A p : p \in a .. b /\ r(p) = sought <=> p \in c .. d /\ r(p) = sought
               PROVE  {p \in a .. b : r(p) = sought} = {p \in c .. d : r(p) = sought}
    BY DEF Matching
  <2> QED OBVIOUS
<1>4. \A a, b : L(a, b) = AnyOrNone(M(a, b))
  BY DEF Located
<1> HIDE DEF n, r, M, L
<1>5. ASSUME start > end PROVE L(start, end) = -1
  <2>1. M(start, end) = {}
    BY <1>3, <1>5
  <2> QED BY <1>4, <2>1 DEF AnyOrNone
<1>6. ASSUME start <= end
      PROVE  /\ mid \in start .. end
             /\ sought - r(mid) \in Int
             /\ <<start, mid - 1>> \in Ranges(keys) /\ <<mid + 1, end>> \in Ranges(keys)
             /\ sought - r(mid) < 0 => L(start, end) = L(start, mid - 1)
             /\ sought - r(mid) > 0 => L(start, end) = L(mid + 1, end)
             /\ sought - r(mid) = 0 => L(start, end) = mid
  <2>1. mid \in start .. end /\ start \in Int /\ end \in Int /\ end <= n - 1 /\ 0 <= start
    BY <1>1, <1>6 DEF n
  <2>2. sought - r(mid) \in Int
    BY <1>1, <2>1
  <2>3. <<start, mid - 1>> \in Ranges(keys) /\ <<mid + 1, end>> \in Ranges(keys)
    BY <1>1, <2>1 DEF Ranges, n
  <2>4. \A p \in start .. end :
          /\ p \in 0 .. n - 1
          /\ mid \in 0 .. n - 1
          /\ r(p) \in Int /\ r(mid) \in Int
          /\ p < mid => r(p) < r(mid)
          /\ mid < p => r(mid) < r(p)
    BY <1>1, <1>2, <2>1
  <2> HIDE DEF mid
  <2>5. ASSUME sought - r(mid) < 0 PROVE L(start, end) = L(start, mid - 1)
    <3>a. \A p \in start .. end : r(p) = sought => p \in start .. mid - 1
      BY <2>1, <2>4, <2>5
    <3>b. \A p \in start .. mid - 1 : p \in start .. end
      BY <2>1
    <3>1. \A p : p \in start .. end /\ r(p) = sought <=> p \in start .. mid - 1 /\ r(p) = sought
      BY <3>a, <3>b
    <3>2. M(start, end) = M(start, mid - 1)
      BY <1>a, <3>1
    <3> QED BY <1>4, <3>2
  <2>6. ASSUME sought - r(mid) > 0 PROVE L(start, end) = L(mid + 1, end)
    <3>a. \A p \in start .. end : r(p) = sought => p \in mid + 1 .. end
      BY <2>1, <2>4, <2>6
    <3>b. \A p \in mid + 1 .. end : p \in start .. end
      BY <2>1
    <3>1. \A p : p \in start .. end /\ r(p) = sought <=> p \in mid + 1 .. end /\ r(p) = sought
      BY <3>a, <3>b
    <3>2. M(start, end) = M(mid + 1, end)
      BY <1>a, <3>1
    <3> QED BY <1>4, <3>2
  <2>7. ASSUME sought - r(mid) = 0 PROVE L(start, end) = mid
    <3>1. \A p : p \in start .. end /\ r(p) = sought <=> p = mid
      BY <2>1, <2>4, <2>7
    <3>2. M(start, end) = {mid}
      BY <1>3, <3>1
    <3> QED BY <1>4, <3>2 DEF AnyOrNone
  <2> QED BY <2>1, <2>2, <2>3, <2>5, <2>6, <2>7
<1> QED BY <1>5, <1>6 DEF r, L, HalfSuffices

\* The search is well defined, ...
LEMMA SearchExists ==
  ASSUME NEW keys, NEW rank, Ranked(keys, rank), Ascending(keys, rank), NEW sought \in Int
  PROVE  \E search :
           search = [range \in Ranges(keys) |->
                       Halved(search, keys, rank, sought, range[1], range[2])]
<1> DEFINE L(a, b) == Located(keys, rank, sought, a, b)
<1> DEFINE f == [range \in Ranges(keys) |-> L(range[1], range[2])]
<1>1. ASSUME NEW start \in 0 .. Len(keys), NEW end \in -1 .. Len(keys) - 1
      PROVE  L(start, end) = Halved(f, keys, rank, sought, start, end)
  <2> DEFINE mid == (end - start) \div 2 + start
             comp == sought - rank[keys[mid + 1].key]
  <2>2. /\ start > end => L(start, end) = -1
        /\ start <= end =>
             /\ comp \in Int
             /\ <<start, mid - 1>> \in Ranges(keys) /\ <<mid + 1, end>> \in Ranges(keys)
             /\ comp < 0 => L(start, end) = L(start, mid - 1)
             /\ comp > 0 => L(start, end) = L(mid + 1, end)
             /\ comp = 0 => L(start, end) = mid
    <3>1. HalfSuffices(keys, rank, sought, start, end)
      BY LocatedInHalf
    <3> HIDE DEF f
    <3> QED BY <3>1 DEF HalfSuffices
  <2>3. \A a, b : <<a, b>> \in Ranges(keys) => f[<<a, b>>] = L(a, b)
    OBVIOUS
  <2>4. start \in Int /\ end \in Int
    BY DEF Ranked
  <2> HIDE DEF mid, comp, L, f
  <2>5. L(start, end) = IF start > end THEN -1
                        ELSE IF comp < 0 THEN f[<<start, mid - 1>>]
                        ELSE IF comp > 0 THEN f[<<mid + 1, end>>]
                        ELSE mid
    BY <2>2, <2>3, <2>4
  <2> QED BY <2>5 DEF Halved, mid, comp
<1>2. f = [range \in Ranges(keys) |->
             Halved(f, keys, rank, sought, range[1], range[2])]
  <2> HIDE DEF L
  <2>1. f = [range \in Ranges(keys) |-> L(range[1], range[2])]
    OBVIOUS
  <2>2. \A range \in Ranges(keys) :
          L(range[1], range[2]) = Halved(f, keys, rank, sought, range[1], range[2])
    BY <1>1 DEF Ranges
  <2> HIDE DEF f
  <2> QED BY <2>1, <2>2
<1> HIDE DEF f
<1> QED BY <1>2

\* ... and ends where the match is, by induction on the length of the range.
LEMMA SearchLocates ==
  ASSUME NEW keys, NEW rank, Ranked(keys, rank), Ascending(keys, rank), NEW sought \in Int,
         NEW search,
         search = [range \in Ranges(keys) |->
                     Halved(search, keys, rank, sought, range[1], range[2])]
  PROVE  \A start \in 0 .. Len(keys), end \in -1 .. Len(keys) - 1 :
           search[<<start, end>>] = Located(keys, rank, sought, start, end)
<1> DEFINE L(a, b) == Located(keys, rank, sought, a, b)
           S == {k \in Nat : \A start \in 0 .. Len(keys), end \in -1 .. Len(keys) - 1 :
                   end - start < k => search[<<start, end>>] = L(start, end)}
<1>1. ASSUME NEW start \in 0 .. Len(keys), NEW end \in -1 .. Len(keys) - 1,
             NEW k \in S, end - start < k + 1
      PROVE  search[<<start, end>>] = L(start, end)
  <2> DEFINE mid == (end - start) \div 2 + start
             comp == sought - rank[keys[mid + 1].key]
  <2>1. /\ start > end => L(start, end) = -1
        /\ start <= end =>
             /\ mid \in start .. end
             /\ comp \in Int
             /\ <<start, mid - 1>> \in Ranges(keys) /\ <<mid + 1, end>> \in Ranges(keys)
             /\ comp < 0 => L(start, end) = L(start, mid - 1)
             /\ comp > 0 => L(start, end) = L(mid + 1, end)
             /\ comp = 0 => L(start, end) = mid
    <3>1. HalfSuffices(keys, rank, sought, start, end)
      BY LocatedInHalf
    <3> HIDE DEF S
    <3> QED BY <3>1 DEF HalfSuffices
  <2>2. search[<<start, end>>] = IF start > end THEN -1
                                 ELSE IF comp < 0 THEN search[<<start, mid - 1>>]
                                 ELSE IF comp > 0 THEN search[<<mid + 1, end>>]
                                 ELSE mid
    <3>1. <<start, end>> \in Ranges(keys)
      BY DEF Ranges
    <3>2. search[<<start, end>>] = Halved(search, keys, rank, sought, start, end)
      BY <3>1
    <3> QED BY <3>2 DEF Halved
  <2>3. start \in Int /\ end \in Int /\ Len(keys) \in Nat /\ k \in Nat
    BY DEF Ranked
  <2>4. \A a \in 0 .. Len(keys), b \in -1 .. Len(keys) - 1 :
          b - a < k => search[<<a, b>>] = L(a, b)
    OBVIOUS
  <2> HIDE DEF mid, comp, L, S
  <2>5. CASE start > end
    BY <2>1, <2>2, <2>3, <2>5
  <2>6. CASE start <= end
    <3>1. /\ start \in 0 .. Len(keys) /\ mid - 1 \in -1 .. Len(keys) - 1
          /\ mid + 1 \in 0 .. Len(keys) /\ end \in -1 .. Len(keys) - 1
          /\ mid - 1 - start < k /\ end - (mid + 1) < k
      BY <1>1, <2>1, <2>3, <2>6
    <3>2. search[<<start, mid - 1>>] = L(start, mid - 1)
      BY <2>4, <3>1
    <3>3. search[<<mid + 1, end>>] = L(mid + 1, end)
      BY <2>4, <3>1
    <3> QED BY <2>1, <2>2, <2>3, <2>6, <3>2, <3>3
  <2> QED BY <2>3, <2>5, <2>6
<1>2. 0 \in S
  <2> SUFFICES ASSUME NEW start \in 0 .. Len(keys), NEW end \in -1 .. Len(keys) - 1,
                      end - start < 0
               PROVE  search[<<start, end>>] = L(start, end)
    OBVIOUS
  <2>1. start > end /\ <<start, end>> \in Ranges(keys)
    BY DEF Ranked, Ranges
  <2>2. search[<<start, end>>] = Halved(search, keys, rank, sought, start, end)
    BY <2>1
  <2>3. L(start, end) = -1
    BY <2>1, LocatedInHalf DEF HalfSuffices
  <2>4. Halved(search, keys, rank, sought, start, end) = -1
    BY <2>1, Zenon DEF Halved
  <2> QED BY <2>2, <2>3, <2>4
<1>3. S = Nat
  <2>1. ASSUME NEW k \in S PROVE k + 1 \in S
    <3>1. \A start \in 0 .. Len(keys), end \in -1 .. Len(keys) - 1 :
            end - start < k + 1 => search[<<start, end>>] = L(start, end)
      BY <1>1
    <3> HIDE DEF L
    <3> QED BY <3>1
  <2>2. S \in SUBSET Nat
    OBVIOUS
  <2> HIDE DEF S
  <2> QED BY <1>2, <2>1, <2>2, Inductive
<1>4. ASSUME NEW start \in 0 .. Len(keys), NEW end \in -1 .. Len(keys) - 1
      PROVE  search[<<start, end>>] = L(start, end)
  <2>1. Len(keys) \in Nat
    BY DEF Ranked
  <2>2. Len(keys) \in S /\ end - start < Len(keys)
    <3>1. end - start < Len(keys)
      BY <2>1
    <3> HIDE DEF S
    <3> QED BY <1>3, <2>1, <3>1
  <2> HIDE DEF L
  <2> QED BY <2>2
<1> QED BY <1>4

\* find_key_pos finds a key of the rank sought exactly when there is one.
LEMMA FindPosLocates ==
  ASSUME NEW keys, NEW rank, Ranked(keys, rank), Ascending(keys, rank), NEW sought \in Int
  PROVE  LET at == {p \in 0 .. Len(keys) - 1 : rank[keys[p + 1].key] = sought}
         IN IF at = {} THEN FindPos(keys, rank, sought) = -1
            ELSE FindPos(keys, rank, sought) \in at
<1>1. PICK search :
        /\ search = [range \in Ranges(keys) |->
                       Halved(search, keys, rank, sought, range[1], range[2])]
        /\ FindPos(keys, rank, sought) = search[<<0, Len(keys) - 1>>]
  <2>1. \E search :
          search = [range \in Ranges(keys) |->
                      Halved(search, keys, rank, sought, range[1], range[2])]
    BY SearchExists
  <2> QED BY <2>1, Zenon DEF FindPos, Halved, Ranges
<1>2. FindPos(keys, rank, sought) = Located(keys, rank, sought, 0, Len(keys) - 1)
  <2>1. 0 \in 0 .. Len(keys) /\ Len(keys) - 1 \in -1 .. Len(keys) - 1
    BY DEF Ranked
  <2> QED BY <1>1, <2>1, SearchLocates
<1> QED BY <1>2 DEF Located, Matching, AnyOrNone

-----------------------------------------------------------------------------
(* Insertion in an array and removal from one *)

LEMMA Appended ==
  ASSUME NEW S, NEW s \in Seq(S), NEW e \in S
  PROVE  Append(s, e) = [i \in 1 .. Len(s) + 1 |-> IF i <= Len(s) THEN s[i] ELSE e]
<1>1. Append(s, e) = [i \in 1 .. Len(s) + 1 |-> Append(s, e)[i]]
  <2>1. Append(s, e) \in Seq(S) /\ Len(Append(s, e)) = Len(s) + 1
    OBVIOUS
  <2>2. Append(s, e) \in [1 .. Len(s) + 1 -> S]
    BY <2>1, LenProperties
  <2> QED BY <2>2
<1>2. \A i \in 1 .. Len(s) + 1 : Append(s, e)[i] = IF i <= Len(s) THEN s[i] ELSE e
  OBVIOUS
<1> QED BY <1>1, <1>2

LEMMA InsertAtProperties ==
  ASSUME NEW S, NEW s \in Seq(S), NEW i \in 1 .. Len(s) + 1, NEW e \in S
  PROVE  /\ InsertAt(s, i, e) \in Seq(S)
         /\ Len(InsertAt(s, i, e)) = Len(s) + 1
         /\ \A j \in 1 .. Len(s) + 1 :
              InsertAt(s, i, e)[j] = IF j < i THEN s[j] ELSE IF j = i THEN e ELSE s[j - 1]
<1> DEFINE front == SubSeq(s, 1, i - 1)
           back == SubSeq(s, i, Len(s))
<1>1. /\ front \in Seq(S) /\ Len(front) = i - 1
      /\ \A j \in 1 .. i - 1 : front[j] = s[j]
  OBVIOUS
<1>2. /\ back \in Seq(S) /\ Len(back) = Len(s) - i + 1
      /\ \A j \in 1 .. Len(s) - i + 1 : back[j] = s[i + j - 1]
  OBVIOUS
<1>3. InsertAt(s, i, e) = (front \o <<e>>) \o back
  BY DEF InsertAt
<1> HIDE DEF front, back
<1>4. /\ front \o <<e>> \in Seq(S) /\ Len(front \o <<e>>) = i
      /\ \A j \in 1 .. i : (front \o <<e>>)[j] = IF j < i THEN s[j] ELSE e
  BY <1>1
<1> DEFINE fronte == front \o <<e>>
<1>5. fronte \in Seq(S) /\ Len(fronte) = i
      /\ \A j \in 1 .. i : fronte[j] = IF j < i THEN s[j] ELSE e
  BY <1>4
<1> HIDE DEF fronte
<1>6. /\ fronte \o back \in Seq(S) /\ Len(fronte \o back) = Len(s) + 1
      /\ \A j \in 1 .. Len(s) + 1 :
           (fronte \o back)[j] = IF j <= i THEN fronte[j] ELSE back[j - i]
  <2>1. /\ fronte \o back \in Seq(S) /\ Len(fronte \o back) = Len(fronte) + Len(back)
        /\ \A j \in 1 .. Len(fronte) + Len(back) :
             (fronte \o back)[j] = IF j <= Len(fronte) THEN fronte[j] ELSE back[j - Len(fronte)]
    BY <1>2, <1>5, ConcatProperties
  <2>2. Len(fronte) = i /\ Len(fronte) + Len(back) = Len(s) + 1
    BY <1>2, <1>5
  <2> QED BY <2>1, <2>2
<1>7. ASSUME NEW j \in 1 .. Len(s) + 1
      PROVE  (fronte \o back)[j] = IF j < i THEN s[j] ELSE IF j = i THEN e ELSE s[j - 1]
  <2>1. CASE j <= i
    BY <1>5, <1>6, <2>1
  <2>2. CASE j > i
    <3>1. j - i \in 1 .. Len(s) - i + 1 /\ i + (j - i) - 1 = j - 1
      BY <2>2
    <3>2. (fronte \o back)[j] = back[j - i]
      BY <1>6, <2>2
    <3>3. back[j - i] = s[i + (j - i) - 1]
      BY <1>2, <3>1
    <3>4. back[j - i] = s[j - 1]
      BY <3>1, <3>3
    <3> QED BY <2>2, <3>2, <3>4
  <2>3. j <= i \/ j > i
    OBVIOUS
  <2> QED BY <2>1, <2>2, <2>3, Zenon
<1>8. InsertAt(s, i, e) = fronte \o back
  BY <1>3 DEF fronte
<1> QED BY <1>6, <1>7, <1>8

\* t is s with e put before its i-th element.
WithInserted(S, t, s, i, e) ==
  /\ t \in Seq(S) /\ Len(t) = Len(s) + 1
  /\ \A j \in 1 .. Len(s) + 1 : t[j] = IF j < i THEN s[j] ELSE IF j = i THEN e ELSE s[j - 1]

LEMMA InsertAtInserts ==
  ASSUME NEW S, NEW s \in Seq(S), NEW i \in 1 .. Len(s) + 1, NEW e \in S
  PROVE  WithInserted(S, InsertAt(s, i, e), s, i, e)
BY InsertAtProperties DEF WithInserted

LEMMA RemoveAtProperties ==
  ASSUME NEW S, NEW s \in Seq(S), NEW i \in 1 .. Len(s)
  PROVE  /\ RemoveAt(s, i) \in Seq(S)
         /\ Len(RemoveAt(s, i)) = Len(s) - 1
         /\ \A j \in 1 .. Len(s) - 1 :
              RemoveAt(s, i)[j] = IF j < i THEN s[j] ELSE s[j + 1]
<1> DEFINE front == SubSeq(s, 1, i - 1)
           back == SubSeq(s, i + 1, Len(s))
<1>1. /\ front \in Seq(S) /\ Len(front) = i - 1
      /\ \A j \in 1 .. i - 1 : front[j] = s[j]
  OBVIOUS
<1>2. /\ back \in Seq(S) /\ Len(back) = Len(s) - i
      /\ \A j \in 1 .. Len(s) - i : back[j] = s[i + j]
  OBVIOUS
<1>3. RemoveAt(s, i) = front \o back
  BY DEF RemoveAt
<1> HIDE DEF front, back
<1>4. /\ front \o back \in Seq(S) /\ Len(front \o back) = Len(s) - 1
      /\ \A j \in 1 .. Len(s) - 1 :
           (front \o back)[j] = IF j <= i - 1 THEN front[j] ELSE back[j - (i - 1)]
  <2>1. /\ front \o back \in Seq(S) /\ Len(front \o back) = Len(front) + Len(back)
        /\ \A j \in 1 .. Len(front) + Len(back) :
             (front \o back)[j] = IF j <= Len(front) THEN front[j] ELSE back[j - Len(front)]
    BY <1>1, <1>2, ConcatProperties
  <2>2. Len(front) = i - 1 /\ Len(front) + Len(back) = Len(s) - 1
    BY <1>1, <1>2
  <2> QED BY <2>1, <2>2
<1>5. ASSUME NEW j \in 1 .. Len(s) - 1
      PROVE  (front \o back)[j] = IF j < i THEN s[j] ELSE s[j + 1]
  <2>1. CASE j < i
    BY <1>1, <1>4, <2>1
  <2>2. CASE j >= i
    <3>1. j - (i - 1) \in 1 .. Len(s) - i /\ i + (j - (i - 1)) = j + 1
      BY <2>2
    <3>2. (front \o back)[j] = back[j - (i - 1)]
      BY <1>4, <2>2
    <3>3. back[j - (i - 1)] = s[i + (j - (i - 1))]
      BY <1>2, <3>1
    <3>4. back[j - (i - 1)] = s[j + 1]
      BY <3>1, <3>3
    <3> QED BY <2>2, <3>2, <3>4
  <2>3. j < i \/ j >= i
    OBVIOUS
  <2> QED BY <2>1, <2>2, <2>3, Zenon
<1> QED BY <1>3, <1>4, <1>5

\* insert_key_ordered puts a key behind those that are not greater, before the first
\* that is.
LEMMA InsertPosSplits ==
  ASSUME NEW keys, NEW rank, Ranked(keys, rank), Ascending(keys, rank), NEW sought \in Int
  PROVE  /\ InsertPos(keys, rank, sought) \in 0 .. Len(keys)
         /\ \A i \in 1 .. Len(keys) :
              IF i <= InsertPos(keys, rank, sought) THEN rank[keys[i].key] <= sought
              ELSE sought < rank[keys[i].key]
<1> DEFINE n == Len(keys)
           r(i) == rank[keys[i].key]
           places == {p \in 0 .. n : p = n \/ sought < r(p + 1)}
           pos == InsertPos(keys, rank, sought)
<1>1. n \in Nat /\ \A i \in 1 .. n : r(i) \in Int
  BY DEF Ranked
<1>2. places \in SUBSET Nat /\ n \in places
  BY <1>1
<1>3. pos = Min(places)
  BY DEF InsertPos
<1>4. pos \in places /\ \A p \in places : pos <= p
  <2> HIDE DEF places, pos
  <2> QED BY <1>2, <1>3, LeastNumber
<1>5. \A i, j \in 1 .. n : i < j => r(i) < r(j)
  BY AscendingPairs
<1> HIDE DEF n, r, pos
<1>6. ASSUME NEW i \in 1 .. n PROVE IF i <= pos THEN r(i) <= sought ELSE sought < r(i)
  <2>1. CASE i <= pos
    <3>1. i - 1 \in 0 .. n /\ i - 1 # n /\ i - 1 < pos /\ (i - 1) + 1 = i
      BY <1>1, <1>4, <2>1
    <3>2. i - 1 \notin places
      BY <1>1, <1>4, <3>1
    <3>3. ~(sought < r(i))
      BY <3>1, <3>2
    <3> QED BY <1>1, <2>1, <3>3
  <2>2. CASE pos < i
    <3>1. pos # n /\ pos + 1 \in 1 .. n /\ sought < r(pos + 1)
      BY <1>1, <1>4, <2>2
    <3>2. pos + 1 = i \/ r(pos + 1) < r(i)
      BY <1>1, <1>4, <1>5, <2>2, <3>1
    <3> QED BY <1>1, <1>4, <2>2, <3>1, <3>2
  <2> QED BY <1>1, <1>4, <2>1, <2>2
<1> QED BY <1>4, <1>6 DEF n, r, pos

LEMMA InsertedAscends ==
  ASSUME NEW E, NEW keys \in Seq(E), NEW rank, NEW e \in E,
         Ranked(keys, rank), Ascending(keys, rank), rank[e.key] \in Int,
         \A i \in 1 .. Len(keys) : rank[keys[i].key] # rank[e.key]
  PROVE  Ascending(InsertAt(keys, InsertPos(keys, rank, rank[e.key]) + 1, e), rank)
<1> DEFINE n == Len(keys)
           at == InsertPos(keys, rank, rank[e.key]) + 1
           new == InsertAt(keys, at, e)
<1>1. n \in Nat /\ \A i \in 1 .. n : rank[keys[i].key] \in Int
  BY DEF Ranked
<1>2. /\ at \in 1 .. n + 1
      /\ \A i \in 1 .. n : IF i < at THEN rank[keys[i].key] < rank[e.key]
                            ELSE rank[e.key] < rank[keys[i].key]
  <2>1. /\ InsertPos(keys, rank, rank[e.key]) \in 0 .. n
        /\ \A i \in 1 .. n :
             IF i <= InsertPos(keys, rank, rank[e.key]) THEN rank[keys[i].key] <= rank[e.key]
             ELSE rank[e.key] < rank[keys[i].key]
    BY InsertPosSplits
  <2> QED BY <1>1, <2>1
<1>3. /\ Len(new) = n + 1
      /\ \A j \in 1 .. n + 1 :
           new[j] = IF j < at THEN keys[j] ELSE IF j = at THEN e ELSE keys[j - 1]
  <2> HIDE DEF at
  <2> QED BY <1>2, InsertAtProperties
<1>4. \A i \in 1 .. n - 1 : rank[keys[i].key] < rank[keys[i + 1].key]
  BY DEF Ascending
<1> HIDE DEF n, at, new
<1>5. ASSUME NEW i \in 1 .. n PROVE rank[new[i].key] < rank[new[i + 1].key]
  <2>1. CASE i + 1 < at
    <3>1. new[i] = keys[i] /\ new[i + 1] = keys[i + 1] /\ i \in 1 .. n - 1
      BY <1>1, <1>2, <1>3, <2>1
    <3> QED BY <1>4, <3>1
  <2>2. CASE i + 1 = at
    <3>1. new[i] = keys[i] /\ new[i + 1] = e
      BY <1>1, <1>2, <1>3, <2>2
    <3> QED BY <1>1, <1>2, <2>2, <3>1
  <2>3. CASE i = at
    <3>1. new[i] = e /\ new[i + 1] = keys[i]
      BY <1>1, <1>2, <1>3, <2>3
    <3> QED BY <1>1, <1>2, <2>3, <3>1
  <2>4. CASE i > at
    <3>1. new[i] = keys[i - 1] /\ new[i + 1] = keys[i] /\ i - 1 \in 1 .. n - 1 /\ (i - 1) + 1 = i
      BY <1>1, <1>2, <1>3, <2>4
    <3> QED BY <1>4, <3>1
  <2> QED BY <1>1, <1>2, <2>1, <2>2, <2>3, <2>4
<1> QED BY <1>1, <1>3, <1>5 DEF Ascending, new, n, at

LEMMA RemovedAscends ==
  ASSUME NEW E, NEW keys \in Seq(E), NEW rank, Ranked(keys, rank), Ascending(keys, rank),
         NEW at \in 1 .. Len(keys)
  PROVE  Ascending(RemoveAt(keys, at), rank)
<1> DEFINE n == Len(keys)
           new == RemoveAt(keys, at)
<1>1. n \in Nat /\ \A i \in 1 .. n : rank[keys[i].key] \in Int
  BY DEF Ranked
<1>2. /\ Len(new) = n - 1
      /\ \A j \in 1 .. n - 1 : new[j] = IF j < at THEN keys[j] ELSE keys[j + 1]
  BY RemoveAtProperties
<1>3. \A i, j \in 1 .. n : i < j => rank[keys[i].key] < rank[keys[j].key]
  BY AscendingPairs
<1> HIDE DEF new
<1>4. ASSUME NEW i \in 1 .. (n - 1) - 1 PROVE rank[new[i].key] < rank[new[i + 1].key]
  <2>1. \E j, k \in 1 .. n : j < k /\ new[i] = keys[j] /\ new[i + 1] = keys[k]
    <3>1. CASE i + 1 < at
      <4>1. i \in 1 .. n /\ i + 1 \in 1 .. n /\ i < i + 1
        BY <1>1
      <4>2. new[i] = keys[i] /\ new[i + 1] = keys[i + 1]
        BY <1>1, <1>2, <3>1, <4>1
      <4> QED BY <4>1, <4>2
    <3>2. CASE i + 1 = at
      <4>1. i \in 1 .. n /\ i + 2 \in 1 .. n /\ (i + 1) + 1 = i + 2 /\ i < i + 2
        BY <1>1
      <4>2. new[i] = keys[i] /\ new[i + 1] = keys[i + 2]
        BY <1>1, <1>2, <3>2, <4>1
      <4> QED BY <4>1, <4>2
    <3>3. CASE i >= at
      <4>1. i + 1 \in 1 .. n /\ i + 2 \in 1 .. n /\ (i + 1) + 1 = i + 2 /\ i + 1 < i + 2
        BY <1>1
      <4>2. new[i] = keys[i + 1] /\ new[i + 1] = keys[i + 2]
        BY <1>1, <1>2, <3>3, <4>1
      <4> QED BY <4>1, <4>2
    <3> QED BY <1>1, <3>1, <3>2, <3>3
  <2> QED BY <1>3, <2>1
<1> QED BY <1>2, <1>4 DEF Ascending, new

-----------------------------------------------------------------------------
(* FlattenSeq *)

\* The i-th element joins the first i sequences.
Joins(flat, seqs) ==
  flat = [i \in 1 .. Len(seqs) |-> IF i = 1 THEN seqs[i] ELSE flat[i - 1] \o seqs[i]]

\* There is one such function, ...
LEMMA JoinsExists ==
  ASSUME NEW seqs, Len(seqs) \in Nat
  PROVE  \E flat : Joins(flat, seqs)
<1> DEFINE n == Len(seqs)
           step(g, i) == IF i = 1 THEN seqs[i] ELSE g[i - 1] \o seqs[i]
           S == {k \in Nat : \E g : \A i \in 1 .. n : i <= k => g[i] = step(g, i)}
<1>1. 0 \in S
  BY DEF n
<1>2. ASSUME NEW k \in S PROVE k + 1 \in S
  <2>1. PICK g : \A i \in 1 .. n : i <= k => g[i] = step(g, i)
    OBVIOUS
  <2> DEFINE h == [i \in 1 .. n |-> IF i <= k THEN g[i] ELSE step(g, i)]
  <2>2. ASSUME NEW i \in 1 .. n, i <= k + 1 PROVE h[i] = step(h, i)
    <3>1. h[i] = step(g, i)
      BY <2>1
    <3>2. i # 1 => i - 1 \in 1 .. n /\ i - 1 <= k
      BY <2>2
    <3>3. i # 1 => h[i - 1] = g[i - 1]
      BY <3>2
    <3> HIDE DEF h
    <3> QED BY <3>1, <3>3
  <2> HIDE DEF h, step
  <2> QED BY <2>2
<1>3. S = Nat
  <2>1. S \in SUBSET Nat
    OBVIOUS
  <2> HIDE DEF S
  <2> QED BY <1>1, <1>2, <2>1, Inductive
<1>4. PICK g : \A i \in 1 .. n : g[i] = step(g, i)
  <2>1. n \in S
    <3> HIDE DEF S
    <3> QED BY <1>3
  <2>2. PICK g : \A i \in 1 .. n : i <= n => g[i] = step(g, i)
    BY <2>1
  <2> HIDE DEF step
  <2> QED BY <2>2
<1> DEFINE flat == [i \in 1 .. n |-> g[i]]
<1>5. ASSUME NEW i \in 1 .. n PROVE flat[i] = step(flat, i)
  <2>1. flat[i] = step(g, i)
    BY <1>4
  <2>2. i # 1 => flat[i - 1] = g[i - 1]
    OBVIOUS
  <2> HIDE DEF flat
  <2> QED BY <2>1, <2>2
<1>6. flat = [i \in 1 .. n |-> step(flat, i)]
  <2>1. flat = [i \in 1 .. n |-> flat[i]]
    OBVIOUS
  <2> HIDE DEF flat, step
  <2> QED BY <1>5, <2>1
<1> HIDE DEF flat
<1> QED BY <1>6 DEF Joins

\* ... and FlattenSeq is its last element.
LEMMA FlattenJoins ==
  ASSUME NEW seqs, Len(seqs) \in Nat \ {0}
  PROVE  \E flat : Joins(flat, seqs) /\ FlattenSeq(seqs) = flat[Len(seqs)]
<1>1. \E flat : flat = [i \in 1 .. Len(seqs) |->
                        IF i = 1 THEN seqs[i] ELSE flat[i - 1] \o seqs[i]]
  BY JoinsExists DEF Joins
<1>2. Len(seqs) # 0
  OBVIOUS
<1> QED BY <1>1, <1>2, Zenon DEF FlattenSeq, Joins

LEMMA JoinsPrefix ==
  ASSUME NEW seqs, NEW more, Len(seqs) \in Nat, Len(more) \in Nat, Len(seqs) <= Len(more),
         \A i \in 1 .. Len(seqs) : more[i] = seqs[i],
         NEW flat, Joins(flat, seqs), NEW longer, Joins(longer, more)
  PROVE  \A i \in 1 .. Len(seqs) : longer[i] = flat[i]
<1> DEFINE n == Len(seqs)
           S == {k \in Nat : \A i \in 1 .. n : i <= k => longer[i] = flat[i]}
<1>1. \A i \in 1 .. n : flat[i] = IF i = 1 THEN seqs[i] ELSE flat[i - 1] \o seqs[i]
  BY DEF Joins
<1>2. \A i \in 1 .. n : longer[i] = IF i = 1 THEN seqs[i] ELSE longer[i - 1] \o seqs[i]
  <2>1. \A i \in 1 .. Len(more) : longer[i] = IF i = 1 THEN more[i] ELSE longer[i - 1] \o more[i]
    BY DEF Joins
  <2> QED BY <2>1
<1>3. 0 \in S
  OBVIOUS
<1>4. ASSUME NEW k \in S PROVE k + 1 \in S
  <2>1. ASSUME NEW i \in 1 .. n, i <= k + 1 PROVE longer[i] = flat[i]
    <3>1. i # 1 => i - 1 \in 1 .. n /\ i - 1 <= k
      BY <2>1
    <3>2. i # 1 => longer[i - 1] = flat[i - 1]
      BY <3>1
    <3> QED BY <1>1, <1>2, <3>2
  <2> QED BY <2>1
<1>5. S = Nat
  <2>1. S \in SUBSET Nat
    OBVIOUS
  <2> HIDE DEF S
  <2> QED BY <1>3, <1>4, <2>1, Inductive
<1>6. n \in S
  <2> HIDE DEF S
  <2> QED BY <1>5
<1> QED BY <1>6

LEMMA FlattenNone ==
  ASSUME NEW seqs, Len(seqs) = 0
  PROVE  FlattenSeq(seqs) = seqs
  BY DEF FlattenSeq

LEMMA FlattenAppend ==
  ASSUME NEW T, NEW seqs \in Seq(Seq(T)), NEW s \in Seq(T)
  PROVE  FlattenSeq(Append(seqs, s)) = FlattenSeq(seqs) \o s
<1> DEFINE n == Len(seqs)
           more == Append(seqs, s)
<1>1. /\ n \in Nat /\ Len(more) = n + 1 /\ more[n + 1] = s
      /\ \A i \in 1 .. n : more[i] = seqs[i]
  OBVIOUS
<1> HIDE DEF more
<1>2. PICK longer : Joins(longer, more) /\ FlattenSeq(more) = longer[n + 1]
  BY <1>1, FlattenJoins
<1>3. longer[n + 1] = IF n + 1 = 1 THEN more[n + 1] ELSE longer[n] \o more[n + 1]
  <2>1. \A i \in 1 .. n + 1 :
          longer[i] = IF i = 1 THEN more[i] ELSE longer[i - 1] \o more[i]
    BY <1>1, <1>2 DEF Joins
  <2>2. n + 1 \in 1 .. n + 1 /\ (n + 1) - 1 = n
    BY <1>1
  <2> HIDE DEF n
  <2> QED BY <2>1, <2>2
<1>4. CASE n = 0
  <2>1. seqs = <<>> /\ FlattenSeq(seqs) = <<>>
    BY <1>4 DEF FlattenSeq
  <2>2. <<>> \o s = s
    OBVIOUS
  <2> QED BY <1>1, <1>2, <1>3, <1>4, <2>1, <2>2 DEF more
<1>5. CASE n # 0
  <2>1. PICK flat : Joins(flat, seqs) /\ FlattenSeq(seqs) = flat[n]
    BY <1>1, <1>5, FlattenJoins
  <2>2. longer[n] = flat[n]
    <3>1. \A i \in 1 .. n : longer[i] = flat[i]
      <4>1. Len(seqs) \in Nat /\ Len(more) \in Nat /\ Len(seqs) <= Len(more)
        BY <1>1
      <4>2. \A i \in 1 .. Len(seqs) : more[i] = seqs[i]
        BY <1>1
      <4>3. Joins(flat, seqs) /\ Joins(longer, more)
        BY <1>2, <2>1
      <4> HIDE DEF n
      <4>4. \A i \in 1 .. Len(seqs) : longer[i] = flat[i]
        BY <4>1, <4>2, <4>3, JoinsPrefix
      <4> QED BY <4>4 DEF n
    <3> QED BY <1>1, <1>5, <3>1
  <2> QED BY <1>1, <1>2, <1>3, <1>5, <2>1, <2>2 DEF more
<1> QED BY <1>4, <1>5

LEMMA FlattenType ==
  ASSUME NEW T, NEW seqs \in Seq(Seq(T))
  PROVE  FlattenSeq(seqs) \in Seq(T)
<1> DEFINE n == Len(seqs)
<1>1. n \in Nat /\ \A i \in 1 .. n : seqs[i] \in Seq(T)
  OBVIOUS
<1>2. CASE n = 0
  BY <1>2 DEF FlattenSeq
<1>3. CASE n # 0
  <2>1. PICK flat : Joins(flat, seqs) /\ FlattenSeq(seqs) = flat[n]
    BY <1>1, <1>3, FlattenJoins
  <2>2. \A i \in 1 .. n : flat[i] = IF i = 1 THEN seqs[i] ELSE flat[i - 1] \o seqs[i]
    BY <2>1 DEF Joins
  <2> DEFINE S == {k \in Nat : \A i \in 1 .. n : i <= k => flat[i] \in Seq(T)}
  <2>3. 0 \in S
    OBVIOUS
  <2>4. ASSUME NEW k \in S PROVE k + 1 \in S
    <3>1. ASSUME NEW i \in 1 .. n, i <= k + 1 PROVE flat[i] \in Seq(T)
      <4>1. i # 1 => i - 1 \in 1 .. n /\ i - 1 <= k
        BY <3>1
      <4>2. i # 1 => flat[i - 1] \in Seq(T)
        BY <4>1
      <4>3. i # 1 => flat[i - 1] \o seqs[i] \in Seq(T)
        BY <1>1, <4>2
      <4> QED BY <1>1, <2>2, <4>3
    <3> QED BY <3>1
  <2>5. S = Nat
    <3>1. S \in SUBSET Nat
      OBVIOUS
    <3> HIDE DEF S
    <3> QED BY <2>3, <2>4, <3>1, Inductive
  <2>6. n \in S
    <3> HIDE DEF S
    <3> QED BY <1>1, <2>5
  <2> QED BY <1>3, <2>1, <2>6
<1> QED BY <1>2, <1>3

-----------------------------------------------------------------------------
(* SumFunctionOnSet: the order in which a sum takes its terms does not matter *)

Chosen(s) == CHOOSE x \in s : TRUE

\* The sum over each subset takes one element and adds the rest.
Totals(total, f, S) ==
  total = [s \in SUBSET S |-> IF s = {} THEN 0 ELSE f[Chosen(s)] + total[s \ {Chosen(s)}]]

LEMMA SmallerRest ==
  ASSUME NEW S, IsFiniteSet(S), NEW s \in SUBSET S, NEW x \in s
  PROVE  /\ IsFiniteSet(s) /\ Cardinality(s) \in Nat
         /\ s \ {x} \in SUBSET S
         /\ Cardinality(s \ {x}) = Cardinality(s) - 1
<1>1. IsFiniteSet(s)
  BY FS_Subset
<1> QED BY <1>1, FS_CardinalityType, FS_RemoveElement

LEMMA TotalsExist ==
  ASSUME NEW f, NEW S, IsFiniteSet(S)
  PROVE  \E total : Totals(total, f, S)
<1> DEFINE step(g, s) == IF s = {} THEN 0 ELSE f[Chosen(s)] + g[s \ {Chosen(s)}]
           K == {k \in Nat : \E g : \A s \in SUBSET S : Cardinality(s) <= k => g[s] = step(g, s)}
<1>1. \A s \in SUBSET S : s # {} =>
        /\ Cardinality(s) \in Nat
        /\ s \ {Chosen(s)} \in SUBSET S
        /\ Cardinality(s \ {Chosen(s)}) = Cardinality(s) - 1
  <2> SUFFICES ASSUME NEW s \in SUBSET S, s # {}
               PROVE  /\ Cardinality(s) \in Nat
                      /\ s \ {Chosen(s)} \in SUBSET S
                      /\ Cardinality(s \ {Chosen(s)}) = Cardinality(s) - 1
    OBVIOUS
  <2>1. Chosen(s) \in s
    BY DEF Chosen
  <2> QED BY <2>1, SmallerRest
<1>2. \A s \in SUBSET S : Cardinality(s) \in Nat
  BY FS_Subset, FS_CardinalityType
<1>3. 0 \in K
  <2> DEFINE g == [s \in SUBSET S |-> 0]
  <2>1. \A s \in SUBSET S : Cardinality(s) <= 0 => g[s] = step(g, s)
    <3> SUFFICES ASSUME NEW s \in SUBSET S, Cardinality(s) <= 0 PROVE g[s] = step(g, s)
      OBVIOUS
    <3>1. s = {}
      <4>1. IsFiniteSet(s) /\ Cardinality(s) = 0
        BY <1>2, FS_Subset
      <4> QED BY <4>1, FS_EmptySet
    <3> QED BY <3>1
  <2> HIDE DEF g, step
  <2> QED BY <2>1
<1>4. ASSUME NEW k \in K PROVE k + 1 \in K
  <2>1. PICK g : \A s \in SUBSET S : Cardinality(s) <= k => g[s] = step(g, s)
    OBVIOUS
  <2> DEFINE h == [s \in SUBSET S |-> IF Cardinality(s) <= k THEN g[s] ELSE step(g, s)]
  <2>2. ASSUME NEW s \in SUBSET S, Cardinality(s) <= k + 1 PROVE h[s] = step(h, s)
    <3>1. h[s] = step(g, s)
      <4> HIDE DEF step
      <4> QED BY <2>1
    <3>2. s # {} => h[s \ {Chosen(s)}] = g[s \ {Chosen(s)}]
      <4>1. s # {} => s \ {Chosen(s)} \in SUBSET S /\ Cardinality(s \ {Chosen(s)}) <= k
        BY <1>1, <2>2
      <4> QED BY <4>1
    <3> HIDE DEF h
    <3> QED BY <3>1, <3>2
  <2> HIDE DEF h, step
  <2>3. k + 1 \in Nat
    OBVIOUS
  <2> QED BY <2>2, <2>3
<1>5. K = Nat
  <2>1. K \in SUBSET Nat
    OBVIOUS
  <2> HIDE DEF K
  <2> QED BY <1>3, <1>4, <2>1, Inductive
<1>6. PICK g : \A s \in SUBSET S : g[s] = step(g, s)
  <2>1. Cardinality(S) \in K
    <3> HIDE DEF K
    <3> QED BY <1>2, <1>5
  <2>2. PICK g : \A s \in SUBSET S : Cardinality(s) <= Cardinality(S) => g[s] = step(g, s)
    BY <2>1
  <2>3. \A s \in SUBSET S : Cardinality(s) <= Cardinality(S)
    BY FS_Subset
  <2> HIDE DEF step
  <2> QED BY <2>2, <2>3
<1> DEFINE total == [s \in SUBSET S |-> g[s]]
<1>7. ASSUME NEW s \in SUBSET S PROVE total[s] = step(total, s)
  <2>1. total[s] = step(g, s)
    BY <1>6
  <2>2. s # {} => total[s \ {Chosen(s)}] = g[s \ {Chosen(s)}]
    BY <1>1
  <2> HIDE DEF total
  <2> QED BY <2>1, <2>2
<1>8. total = [s \in SUBSET S |-> step(total, s)]
  <2>1. total = [s \in SUBSET S |-> total[s]]
    OBVIOUS
  <2> HIDE DEF total, step
  <2> QED BY <1>7, <2>1
<1> HIDE DEF total
<1> QED BY <1>8 DEF Totals

LEMMA SumIsTotal ==
  ASSUME NEW f, NEW S, IsFiniteSet(S)
  PROVE  \E total : Totals(total, f, S) /\ SumFunctionOnSet(f, S) = total[S]
<1>1. \E total : Totals(total, f, S)
  BY TotalsExist
<1>2. \E total : total = [s \in SUBSET S |->
                 IF s = {} THEN 0 ELSE f[CHOOSE x \in s : TRUE] + total[s \ {CHOOSE x \in s : TRUE}]]
  BY <1>1, Zenon DEF Totals, Chosen
<1> QED BY <1>2, Zenon
    DEF SumFunctionOnSet, FoldFunctionOnSet, MapThenFoldSet, Totals, Chosen

\* Induction over the subsets of a finite set, by their number of elements.
LEMMA EverySubset ==
  ASSUME NEW S, IsFiniteSet(S), NEW P \in SUBSET SUBSET S, {} \in P,
         \A s \in SUBSET S : s # {} /\ (\A x \in s : s \ {x} \in P) => s \in P
  PROVE  P = SUBSET S
<1> DEFINE K == {k \in Nat : \A s \in SUBSET S : Cardinality(s) <= k => s \in P}
<1>1. \A s \in SUBSET S : IsFiniteSet(s) /\ Cardinality(s) \in Nat
  BY FS_Subset, FS_CardinalityType
<1>2. 0 \in K
  <2> SUFFICES ASSUME NEW s \in SUBSET S, Cardinality(s) <= 0 PROVE s \in P
    OBVIOUS
  <2>1. IsFiniteSet(s) /\ Cardinality(s) = 0
    BY <1>1
  <2> QED BY <2>1, FS_EmptySet
<1>3. ASSUME NEW k \in K PROVE k + 1 \in K
  <2> SUFFICES ASSUME NEW s \in SUBSET S, Cardinality(s) <= k + 1 PROVE s \in P
    OBVIOUS
  <2>1. CASE s = {}
    BY <2>1
  <2>2. CASE s # {}
    <3>1. ASSUME NEW x \in s PROVE s \ {x} \in P
      <4>1. s \ {x} \in SUBSET S /\ Cardinality(s \ {x}) <= k
        BY SmallerRest
      <4> QED BY <4>1
    <3> QED BY <2>2, <3>1
  <2> QED BY <2>1, <2>2
<1>4. K = Nat
  <2>1. K \in SUBSET Nat
    OBVIOUS
  <2> HIDE DEF K
  <2> QED BY <1>2, <1>3, <2>1, Inductive
<1>5. Cardinality(S) \in K
  <2> HIDE DEF K
  <2> QED BY <1>1, <1>4
<1>6. \A s \in SUBSET S : Cardinality(s) <= Cardinality(S)
  BY FS_Subset
<1> QED BY <1>5, <1>6

LEMMA TotalNone ==
  ASSUME NEW f, NEW S, NEW total, Totals(total, f, S)
  PROVE  total[{}] = 0
<1>1. {} \in SUBSET S
  OBVIOUS
<1> QED BY <1>1 DEF Totals

LEMMA TotalStep ==
  ASSUME NEW f, NEW S, NEW total, Totals(total, f, S)
  PROVE  \A s \in SUBSET S : s # {} =>
           Chosen(s) \in s /\ total[s] = f[Chosen(s)] + total[s \ {Chosen(s)}]
<1> SUFFICES ASSUME NEW s \in SUBSET S, s # {}
             PROVE  Chosen(s) \in s /\ total[s] = f[Chosen(s)] + total[s \ {Chosen(s)}]
  OBVIOUS
<1>1. total[s] = IF s = {} THEN 0 ELSE f[Chosen(s)] + total[s \ {Chosen(s)}]
  BY DEF Totals
<1>2. Chosen(s) \in s
  BY DEF Chosen
<1> QED BY <1>1, <1>2

LEMMA TotalInt ==
  ASSUME NEW f, NEW S, IsFiniteSet(S), \A x \in S : f[x] \in Int,
         NEW total, Totals(total, f, S)
  PROVE  \A s \in SUBSET S : total[s] \in Int
<1> DEFINE P == {s \in SUBSET S : total[s] \in Int}
<1>0. \A s \in SUBSET S : s # {} =>
        Chosen(s) \in s /\ total[s] = f[Chosen(s)] + total[s \ {Chosen(s)}]
  BY TotalStep
<1>1. {} \in P
  BY TotalNone
<1>2. ASSUME NEW s \in SUBSET S, s # {}, \A x \in s : s \ {x} \in P PROVE s \in P
  <2>1. Chosen(s) \in s /\ total[s] = f[Chosen(s)] + total[s \ {Chosen(s)}]
    BY <1>0, <1>2
  <2>2. total[s \ {Chosen(s)}] \in Int /\ f[Chosen(s)] \in Int
    BY <1>2, <2>1
  <2> QED BY <2>1, <2>2
<1>3. P = SUBSET S
  <2>1. P \in SUBSET SUBSET S
    OBVIOUS
  <2> HIDE DEF P
  <2> QED BY <1>1, <1>2, <2>1, EverySubset
<1> QED BY <1>3

\* Whichever element is taken first, the total is the same.
LEMMA TotalTakes ==
  ASSUME NEW f, NEW S, IsFiniteSet(S), \A x \in S : f[x] \in Int,
         NEW total, Totals(total, f, S)
  PROVE  \A s \in SUBSET S : \A x \in s : total[s] = f[x] + total[s \ {x}]
<1> DEFINE P == {s \in SUBSET S : \A x \in s : total[s] = f[x] + total[s \ {x}]}
<1>0. \A s \in SUBSET S : s # {} =>
        Chosen(s) \in s /\ total[s] = f[Chosen(s)] + total[s \ {Chosen(s)}]
  BY TotalStep
<1>1. {} \in P
  OBVIOUS
<1>2. ASSUME NEW s \in SUBSET S, s # {}, \A x \in s : s \ {x} \in P PROVE s \in P
  <2> SUFFICES ASSUME NEW x \in s PROVE total[s] = f[x] + total[s \ {x}]
    OBVIOUS
  <2> DEFINE c == Chosen(s)
  <2>1. c \in s /\ total[s] = f[c] + total[s \ {c}]
    BY <1>0, <1>2
  <2> HIDE DEF c
  <2>2. CASE x = c
    BY <2>1, <2>2
  <2>3. CASE x # c
    <3>1. s \ {c} \in P /\ s \ {x} \in P /\ x \in s \ {c} /\ c \in s \ {x}
      BY <1>2, <2>1, <2>3
    <3>2. /\ total[s \ {c}] = f[x] + total[(s \ {c}) \ {x}]
          /\ total[s \ {x}] = f[c] + total[(s \ {x}) \ {c}]
      BY <3>1
    <3>3. (s \ {c}) \ {x} = (s \ {x}) \ {c} /\ (s \ {c}) \ {x} \in SUBSET S
      OBVIOUS
    <3>4. f[x] \in Int /\ f[c] \in Int /\ total[(s \ {c}) \ {x}] \in Int
      BY <2>1, <3>3, TotalInt
    <3> DEFINE t == total[(s \ {c}) \ {x}]
    <3>5. total[s] = f[c] + (f[x] + t) /\ total[s \ {x}] = f[c] + t /\ t \in Int
      BY <2>1, <3>2, <3>3, <3>4
    <3> HIDE DEF t
    <3> QED BY <3>4, <3>5
  <2> QED BY <2>2, <2>3
<1>3. P = SUBSET S
  <2>1. P \in SUBSET SUBSET S
    OBVIOUS
  <2> HIDE DEF P
  <2> QED BY <1>1, <1>2, <2>1, EverySubset
<1> QED BY <1>3

\* A sum over S is the sum over T when a bijection takes each term to its equal.
LEMMA SumsEqual ==
  ASSUME NEW f, NEW S, IsFiniteSet(S), \A x \in S : f[x] \in Int,
         NEW g, NEW T, IsFiniteSet(T), \A y \in T : g[y] \in Int,
         NEW h \in Bijection(S, T), \A x \in S : f[x] = g[h[x]]
  PROVE  SumFunctionOnSet(f, S) = SumFunctionOnSet(g, T)
<1>1. PICK tf : Totals(tf, f, S) /\ SumFunctionOnSet(f, S) = tf[S]
  BY SumIsTotal
<1>2. PICK tg : Totals(tg, g, T) /\ SumFunctionOnSet(g, T) = tg[T]
  BY SumIsTotal
<1>3. /\ h \in [S -> T]
      /\ \A x, y \in S : h[x] = h[y] => x = y
      /\ \A y \in T : \E x \in S : h[x] = y
  BY DEF Bijection, Injection, Surjection, IsInjective
<1>a. \A t \in SUBSET T : \A y \in t : tg[t] = g[y] + tg[t \ {y}]
  <2> SUFFICES ASSUME NEW t \in SUBSET T, NEW y \in t PROVE tg[t] = g[y] + tg[t \ {y}]
    OBVIOUS
  <2>1. Totals(tg, g, T)
    BY <1>2
  <2> QED BY <2>1, TotalTakes
<1> DEFINE image(s) == {h[x] : x \in s}
           P == {s \in SUBSET S : tf[s] = tg[image(s)]}
<1>4. {} \in P
  <2>1. tf[{}] = 0 /\ tg[{}] = 0
    <3>1. tf[{}] = 0
      BY <1>1, TotalNone
    <3>2. tg[{}] = 0
      BY <1>2, TotalNone
    <3> QED BY <3>1, <3>2
  <2>2. image({}) = {}
    OBVIOUS
  <2> HIDE DEF image
  <2> QED BY <2>1, <2>2
<1>5. ASSUME NEW s \in SUBSET S, s # {}, \A x \in s : s \ {x} \in P PROVE s \in P
  <2>1. PICK x : x \in s
    BY <1>5
  <2>2. tf[s] = f[x] + tf[s \ {x}]
    BY <1>1, <2>1, TotalTakes
  <2>3. tg[image(s)] = g[h[x]] + tg[image(s) \ {h[x]}]
    <3>1. image(s) \in SUBSET T /\ h[x] \in image(s)
      BY <1>3, <2>1
    <3> HIDE DEF image
    <3> QED BY <1>a, <3>1
  <2>4. image(s) \ {h[x]} = image(s \ {x})
    BY <1>3, <2>1
  <2>5. tf[s \ {x}] = tg[image(s \ {x})]
    BY <1>5, <2>1
  <2>6. f[x] = g[h[x]]
    BY <2>1
  <2> HIDE DEF image
  <2> QED BY <2>2, <2>3, <2>4, <2>5, <2>6
<1>6. P = SUBSET S
  <2>1. P \in SUBSET SUBSET S
    OBVIOUS
  <2> HIDE DEF P
  <2> QED BY <1>4, <1>5, <2>1, EverySubset
<1>7. image(S) = T
  BY <1>3
<1> QED BY <1>1, <1>2, <1>6, <1>7

LEMMA SumNone ==
  ASSUME NEW f
  PROVE  SumFunctionOnSet(f, {}) = 0
<1>1. IsFiniteSet({})
  BY FS_EmptySet
<1>2. PICK total : Totals(total, f, {}) /\ SumFunctionOnSet(f, {}) = total[{}]
  BY <1>1, SumIsTotal
<1> QED BY <1>2, TotalNone

LEMMA SumInt ==
  ASSUME NEW f, NEW S, IsFiniteSet(S), \A x \in S : f[x] \in Int
  PROVE  SumFunctionOnSet(f, S) \in Int
<1>1. PICK total : Totals(total, f, S) /\ SumFunctionOnSet(f, S) = total[S]
  BY SumIsTotal
<1> QED BY <1>1, TotalInt

LEMMA SumMore ==
  ASSUME NEW f, NEW S, IsFiniteSet(S), \A x \in S : f[x] \in Int, NEW x \in S
  PROVE  SumFunctionOnSet(f, S) = f[x] + SumFunctionOnSet(f, S \ {x})
<1> DEFINE R == S \ {x}
<1>1. PICK total : Totals(total, f, S) /\ SumFunctionOnSet(f, S) = total[S]
  BY SumIsTotal
<1>2. IsFiniteSet(R)
  BY FS_RemoveElement
<1>3. PICK rest : Totals(rest, f, R) /\ SumFunctionOnSet(f, R) = rest[R]
  BY <1>2, SumIsTotal
<1> DEFINE P == {s \in SUBSET R : total[s] = rest[s]}
<1>4. {} \in P
  <2>1. total[{}] = 0
    BY <1>1, TotalNone
  <2>2. rest[{}] = 0
    BY <1>3, TotalNone
  <2> QED BY <2>1, <2>2
<1>5. ASSUME NEW s \in SUBSET R, s # {}, \A y \in s : s \ {y} \in P PROVE s \in P
  <2>1. Chosen(s) \in s /\ total[s] = f[Chosen(s)] + total[s \ {Chosen(s)}]
    <3>1. s \in SUBSET S
      OBVIOUS
    <3> HIDE DEF P
    <3> QED BY <1>1, <1>5, <3>1, TotalStep
  <2>2. rest[s] = f[Chosen(s)] + rest[s \ {Chosen(s)}]
    BY <1>3, <1>5, TotalStep
  <2> QED BY <1>5, <2>1, <2>2
<1>6. P = SUBSET R
  <2>1. P \in SUBSET SUBSET R
    OBVIOUS
  <2> HIDE DEF P, R
  <2> QED BY <1>2, <1>4, <1>5, <2>1, EverySubset
<1>7. total[S] = f[x] + total[R]
  BY <1>1, TotalTakes
<1> QED BY <1>1, <1>3, <1>6, <1>7

-----------------------------------------------------------------------------
(* Sets that share nothing *)

\* Sets that share no element have together as many as they have one by one.
LEMMA UnionCounts ==
  ASSUME NEW S, IsFiniteSet(S), NEW part, \A x \in S : IsFiniteSet(part[x]),
         \A x, y \in S : x # y => part[x] \cap part[y] = {}
  PROVE  Cardinality(UNION {part[x] : x \in S})
           = SumFunctionOnSet([x \in S |-> Cardinality(part[x])], S)
<1> DEFINE count == [x \in S |-> Cardinality(part[x])]
           whole(s) == UNION {part[x] : x \in s}
           P == {s \in SUBSET S : /\ IsFiniteSet(whole(s))
                                  /\ Cardinality(whole(s)) = SumFunctionOnSet(count, s)}
<1>1. {} \in P
  <2>1. whole({}) = {} /\ IsFiniteSet({}) /\ Cardinality({}) = 0
    BY FS_EmptySet
  <2>2. SumFunctionOnSet(count, {}) = 0
    BY SumNone
  <2> HIDE DEF whole, count
  <2> QED BY <2>1, <2>2
<1>2. ASSUME NEW s \in SUBSET S, s # {}, \A x \in s : s \ {x} \in P PROVE s \in P
  <2>1. PICK x : x \in s
    BY <1>2
  <2> DEFINE rest == whole(s \ {x})
  <2>2. IsFiniteSet(rest) /\ Cardinality(rest) = SumFunctionOnSet(count, s \ {x})
    BY <1>2, <2>1
  <2>3. whole(s) = part[x] \cup rest /\ part[x] \cap rest = {} /\ IsFiniteSet(part[x])
    BY <2>1
  <2>4. /\ IsFiniteSet(part[x] \cup rest)
        /\ Cardinality(part[x] \cup rest) = Cardinality(part[x]) + Cardinality(rest)
    <3> HIDE DEF rest
    <3>1. Cardinality(part[x] \cap rest) = 0
      BY <2>3, FS_EmptySet
    <3>2. /\ IsFiniteSet(part[x] \cup rest)
          /\ Cardinality(part[x] \cup rest)
               = Cardinality(part[x]) + Cardinality(rest) - Cardinality(part[x] \cap rest)
      BY <2>2, <2>3, FS_Union
    <3>3. Cardinality(part[x]) \in Nat /\ Cardinality(rest) \in Nat
      BY <2>2, <2>3, FS_CardinalityType
    <3> QED BY <3>1, <3>2, <3>3
  <2>5. SumFunctionOnSet(count, s) = Cardinality(part[x]) + SumFunctionOnSet(count, s \ {x})
    <3>1. \A y \in S : count[y] \in Int
      BY FS_CardinalityType
    <3>2. IsFiniteSet(s) /\ \A y \in s : count[y] \in Int
      BY <3>1, FS_Subset
    <3>3. count[x] = Cardinality(part[x])
      BY <2>1
    <3> HIDE DEF count
    <3>4. SumFunctionOnSet(count, s) = count[x] + SumFunctionOnSet(count, s \ {x})
      BY <2>1, <3>2, SumMore
    <3> QED BY <3>3, <3>4
  <2> HIDE DEF whole, count, rest
  <2> QED BY <2>2, <2>3, <2>4, <2>5
<1>3. P = SUBSET S
  <2>1. P \in SUBSET SUBSET S
    OBVIOUS
  <2> HIDE DEF P
  <2> QED BY <1>1, <1>2, <2>1, EverySubset
<1>4. S \in P
  BY <1>3
<1> QED BY <1>4

\* Sequences laid end to end are as long as the sets they list, when these share
\* nothing, are large together.
LEMMA FlattenCounts ==
  ASSUME NEW T, NEW seqs \in Seq(Seq(T)), NEW part,
         \A i \in 1 .. Len(seqs) : IsFiniteSet(part[i]) /\ Cardinality(part[i]) = Len(seqs[i]),
         \A i, j \in 1 .. Len(seqs) : i # j => part[i] \cap part[j] = {}
  PROVE  /\ IsFiniteSet(UNION {part[i] : i \in 1 .. Len(seqs)})
         /\ Cardinality(UNION {part[i] : i \in 1 .. Len(seqs)}) = Len(FlattenSeq(seqs))
<1> DEFINE n == Len(seqs)
           first(k) == SubSeq(seqs, 1, k)
           whole(k) == UNION {part[i] : i \in 1 .. k}
           K == {k \in Nat : k <= n => /\ IsFiniteSet(whole(k))
                                       /\ Cardinality(whole(k)) = Len(FlattenSeq(first(k)))}
<1>0. n \in Nat
  OBVIOUS
<1>1. 0 \in K
  <2>1. whole(0) = {} /\ IsFiniteSet({}) /\ Cardinality({}) = 0
    BY FS_EmptySet
  <2>2. Len(first(0)) = 0
    OBVIOUS
  <2>3. Len(FlattenSeq(first(0))) = 0
    <3> HIDE DEF first
    <3> QED BY <2>2, FlattenNone
  <2> HIDE DEF whole, first
  <2> QED BY <2>1, <2>3
<1>2. ASSUME NEW k \in K PROVE k + 1 \in K
  <2>0. k \in Nat /\ k + 1 \in Nat
    OBVIOUS
  <2> SUFFICES ASSUME k + 1 <= n
               PROVE  /\ IsFiniteSet(whole(k + 1))
                      /\ Cardinality(whole(k + 1)) = Len(FlattenSeq(first(k + 1)))
    BY <2>0
  <2>1. IsFiniteSet(whole(k)) /\ Cardinality(whole(k)) = Len(FlattenSeq(first(k)))
    BY <1>0, <2>0
  <2> DEFINE new == part[k + 1]
  <2>2. IsFiniteSet(new) /\ Cardinality(new) = Len(seqs[k + 1]) /\ k + 1 \in 1 .. n
    BY <1>0, <2>0
  <2>3. whole(k + 1) = whole(k) \cup new /\ whole(k) \cap new = {}
    <3>1. 1 .. k + 1 = (1 .. k) \cup {k + 1} /\ 1 .. k \subseteq 1 .. n /\ k + 1 \notin 1 .. k
      BY <1>0, <2>0
    <3> QED BY <2>2, <3>1
  <2>4. /\ IsFiniteSet(whole(k) \cup new)
        /\ Cardinality(whole(k) \cup new) = Cardinality(whole(k)) + Cardinality(new)
    <3> HIDE DEF whole, new
    <3>1. Cardinality(whole(k) \cap new) = 0
      BY <2>3, FS_EmptySet
    <3>2. /\ IsFiniteSet(whole(k) \cup new)
          /\ Cardinality(whole(k) \cup new)
               = Cardinality(whole(k)) + Cardinality(new) - Cardinality(whole(k) \cap new)
      BY <2>1, <2>2, FS_Union
    <3>3. Cardinality(whole(k)) \in Nat /\ Cardinality(new) \in Nat
      BY <2>1, <2>2, FS_CardinalityType
    <3> QED BY <3>1, <3>2, <3>3
  <2>5. /\ first(k) \in Seq(Seq(T)) /\ seqs[k + 1] \in Seq(T)
        /\ first(k + 1) = Append(first(k), seqs[k + 1])
    BY <1>0, <2>0
  <2>6. FlattenSeq(first(k + 1)) = FlattenSeq(first(k)) \o seqs[k + 1]
    <3> HIDE DEF first
    <3> QED BY <2>5, FlattenAppend
  <2>7. Len(FlattenSeq(first(k)) \o seqs[k + 1]) = Len(FlattenSeq(first(k))) + Len(seqs[k + 1])
    <3> HIDE DEF first
    <3>1. FlattenSeq(first(k)) \in Seq(T)
      BY <2>5, FlattenType
    <3> QED BY <2>5, <3>1
  <2> HIDE DEF first, whole, new
  <2> QED BY <2>1, <2>2, <2>3, <2>4, <2>6, <2>7
<1>3. K = Nat
  <2>1. K \in SUBSET Nat
    OBVIOUS
  <2> HIDE DEF K
  <2> QED BY <1>1, <1>2, <2>1, Inductive
<1>4. n \in K
  <2> HIDE DEF K
  <2> QED BY <1>0, <1>3
<1>5. first(n) = seqs
  BY SubSeqFull
<1>6. IsFiniteSet(whole(n)) /\ Cardinality(whole(n)) = Len(FlattenSeq(first(n)))
  <2> HIDE DEF whole, first
  <2> QED BY <1>0, <1>4
<1> HIDE DEF first
<1> QED BY <1>5, <1>6

Rising(s) == \A x, y \in 1 .. Len(s) : x < y => s[x] < s[y]

\* Rising sequences laid end to end, each above the one before, rise, and have the
\* elements of all.
LEMMA FlattenRises ==
  ASSUME NEW T \in SUBSET Nat, NEW seqs \in Seq(Seq(T)),
         \A i \in 1 .. Len(seqs) : Rising(seqs[i]),
         \A i, j \in 1 .. Len(seqs) : i < j =>
           \A x \in 1 .. Len(seqs[i]), y \in 1 .. Len(seqs[j]) : seqs[i][x] < seqs[j][y]
  PROVE  /\ Rising(FlattenSeq(seqs))
         /\ \A i \in 1 .. Len(seqs) : \A x \in 1 .. Len(seqs[i]) :
              \E p \in 1 .. Len(FlattenSeq(seqs)) : FlattenSeq(seqs)[p] = seqs[i][x]
<1> DEFINE n == Len(seqs)
           first(k) == SubSeq(seqs, 1, k)
           flat(k) == FlattenSeq(first(k))
           From(k) == \A p \in 1 .. Len(flat(k)) :
                        \E i \in 1 .. k : \E x \in 1 .. Len(seqs[i]) : flat(k)[p] = seqs[i][x]
           Has(k) == \A i \in 1 .. k : \A x \in 1 .. Len(seqs[i]) :
                       \E p \in 1 .. Len(flat(k)) : flat(k)[p] = seqs[i][x]
           K == {k \in Nat : k <= n => Rising(flat(k)) /\ From(k) /\ Has(k)}
<1>0. n \in Nat
  OBVIOUS
<1>1. 0 \in K
  <2>1. Len(first(0)) = 0
    OBVIOUS
  <2>2. Len(flat(0)) = 0
    <3> HIDE DEF first
    <3> QED BY <2>1, FlattenNone
  <2> HIDE DEF flat
  <2> QED BY <2>2 DEF Rising
<1>2. ASSUME NEW k \in K PROVE k + 1 \in K
  <2>0. k \in Nat /\ k + 1 \in Nat
    OBVIOUS
  <2> SUFFICES ASSUME k + 1 <= n
               PROVE  Rising(flat(k + 1)) /\ From(k + 1) /\ Has(k + 1)
    BY <2>0
  <2>1. Rising(flat(k)) /\ From(k) /\ Has(k)
    BY <1>0, <2>0
  <2> DEFINE s == flat(k)
             new == seqs[k + 1]
             all == flat(k + 1)
  <2>2. /\ first(k) \in Seq(Seq(T)) /\ new \in Seq(T) /\ k + 1 \in 1 .. n
        /\ first(k + 1) = Append(first(k), new)
    BY <1>0, <2>0
  <2>3. s \in Seq(T) /\ all = s \o new
    <3>1. s \in Seq(T)
      <4> HIDE DEF first
      <4> QED BY <2>2, FlattenType
    <3>2. all = s \o new
      <4> HIDE DEF first, new
      <4> QED BY <2>2, FlattenAppend
    <3> QED BY <3>1, <3>2
  <2> HIDE DEF first, flat
  <2>4. /\ Len(all) = Len(s) + Len(new) /\ Len(s) \in Nat /\ Len(new) \in Nat
        /\ \A p \in 1 .. Len(all) :
             \/ p \in 1 .. Len(s) /\ all[p] = s[p]
             \/ p - Len(s) \in 1 .. Len(new) /\ all[p] = new[p - Len(s)] /\ p > Len(s)
    <3> HIDE DEF s, new, all
    <3> QED BY <2>2, <2>3
  <2>5. /\ \A p \in 1 .. Len(s) : p \in 1 .. Len(all) /\ all[p] = s[p]
        /\ \A x \in 1 .. Len(new) : Len(s) + x \in 1 .. Len(all) /\ all[Len(s) + x] = new[x]
    <3> HIDE DEF s, new, all
    <3> QED BY <2>2, <2>3
  <2>6. From(k + 1)
    <3> SUFFICES ASSUME NEW p \in 1 .. Len(all)
                 PROVE  \E i \in 1 .. k + 1 : \E x \in 1 .. Len(seqs[i]) : all[p] = seqs[i][x]
      OBVIOUS
    <3>1. CASE p \in 1 .. Len(s) /\ all[p] = s[p]
      <4>1. \E i \in 1 .. k : \E x \in 1 .. Len(seqs[i]) : s[p] = seqs[i][x]
        BY <2>1, <3>1
      <4>2. 1 .. k \subseteq 1 .. k + 1
        BY <2>0
      <4> HIDE DEF s, all
      <4> QED BY <3>1, <4>1, <4>2
    <3>2. CASE p - Len(s) \in 1 .. Len(new) /\ all[p] = new[p - Len(s)]
      <4>1. k + 1 \in 1 .. k + 1
        BY <2>0
      <4> HIDE DEF s, all
      <4> QED BY <3>2, <4>1
    <3> HIDE DEF s, new, all
    <3> QED BY <2>4, <3>1, <3>2
  <2>7. Has(k + 1)
    <3> SUFFICES ASSUME NEW i \in 1 .. k + 1, NEW x \in 1 .. Len(seqs[i])
                 PROVE  \E p \in 1 .. Len(all) : all[p] = seqs[i][x]
      OBVIOUS
    <3>1. CASE i \in 1 .. k
      <4>1. \E p \in 1 .. Len(s) : s[p] = seqs[i][x]
        BY <2>1, <3>1
      <4> HIDE DEF s, all
      <4> QED BY <2>5, <4>1
    <3>2. CASE i = k + 1
      <4> HIDE DEF s, all
      <4> QED BY <2>5, <3>2
    <3> QED BY <2>0, <3>1, <3>2
  <2>8. Rising(all)
    <3> SUFFICES ASSUME NEW p \in 1 .. Len(all), NEW q \in 1 .. Len(all), p < q
                 PROVE  all[p] < all[q]
      BY DEF Rising
    <3>1. \A x, y \in 1 .. Len(s) : x < y => s[x] < s[y]
      BY <2>1 DEF Rising
    <3>2. \A x, y \in 1 .. Len(new) : x < y => new[x] < new[y]
      BY <2>2 DEF Rising
    <3>3. \A x \in 1 .. Len(s), y \in 1 .. Len(new) : s[x] < new[y]
      <4> SUFFICES ASSUME NEW x \in 1 .. Len(s), NEW y \in 1 .. Len(new) PROVE s[x] < new[y]
        OBVIOUS
      <4>1. PICK i \in 1 .. k : \E z \in 1 .. Len(seqs[i]) : s[x] = seqs[i][z]
        BY <2>1
      <4>2. i \in 1 .. n /\ i < k + 1
        BY <1>0, <2>0, <2>2
      <4> HIDE DEF s
      <4> QED BY <2>2, <4>1, <4>2
    <3>4. CASE p \in 1 .. Len(s) /\ all[p] = s[p]
      <4>1. CASE q \in 1 .. Len(s) /\ all[q] = s[q]
        <5> HIDE DEF s, new, all
        <5> QED BY <3>1, <3>4, <4>1
      <4>2. CASE q - Len(s) \in 1 .. Len(new) /\ all[q] = new[q - Len(s)]
        <5> HIDE DEF s, new, all
        <5> QED BY <3>3, <3>4, <4>2
      <4> HIDE DEF s, new, all
      <4> QED BY <2>4, <4>1, <4>2
    <3>5. CASE p - Len(s) \in 1 .. Len(new) /\ all[p] = new[p - Len(s)] /\ p > Len(s)
      <4> HIDE DEF s, new, all
      <4>1. q - Len(s) \in 1 .. Len(new) /\ all[q] = new[q - Len(s)]
        BY <2>4, <3>5
      <4>2. p - Len(s) < q - Len(s)
        BY <2>4, <3>5
      <4> QED BY <3>2, <3>5, <4>1, <4>2
    <3> HIDE DEF s, new, all
    <3> QED BY <2>4, <3>4, <3>5
  <2> QED BY <2>6, <2>7, <2>8
<1>3. K = Nat
  <2>1. K \in SUBSET Nat
    OBVIOUS
  <2> HIDE DEF K
  <2> QED BY <1>1, <1>2, <2>1, Inductive
<1>4. n \in K
  <2> HIDE DEF K
  <2> QED BY <1>0, <1>3
<1>5. first(n) = seqs
  BY SubSeqFull
<1>6. Rising(flat(n)) /\ Has(n)
  <2> HIDE DEF flat
  <2> QED BY <1>0, <1>4
<1> HIDE DEF first
<1> QED BY <1>5, <1>6
=============================================================================
