--------------------------- MODULE ListView_proofs ---------------------------
(* Theorems about ListView, for any records, names, order of the PDDB and      *)
(* criteria: the list stays in order and implements ItemSet, and a filter      *)
(* keeps what it should.                                                       *)
EXTENDS ListView, FiniteSetTheorems, FunctionTheorems, SequenceTheorems,
        WellFoundedInduction, TLAPS

\* No record is twice in a list, and a list in order.
Distinct(s) == \A i, j \in DOMAIN s : s[i] = s[j] => i = j
Ordered(s)  == \A i, j \in DOMAIN s : i < j => Before(s[i], s[j])

\* The rows that come before a record.
Below(s, a) == {j \in DOMAIN s : Before(s[j], a)}

-----------------------------------------------------------------------------
(* Numbers.                                                                 *)

LEMMA LeastExists ==
    ASSUME NEW T, T \subseteq Nat, T # {}
    PROVE  \E x \in T : \A y \in T : x <= y
<1>1. PICK x \in T : \A y \in T : ~ (<<y, x>> \in OpToRel(<, Nat))
      BY NatLessThanWellFounded, WFMin
<1>2. \A y \in T : ~(y < x)
      BY <1>1 DEF OpToRel
<1> QED BY <1>2

LEMMA UpTo ==
    ASSUME NEW n \in Nat
    PROVE  IsFiniteSet(1..n) /\ Cardinality(1..n) = n
<1>1. 1 \in Int /\ n \in Int /\ (1 > n => n = 0)
      OBVIOUS
<1>2. IsFiniteSet(1..n) /\ Cardinality(1..n) = IF 1 > n THEN 0 ELSE n - 1 + 1
      BY <1>1, FS_Interval
<1> QED BY <1>1, <1>2

\* What has with every number the ones before it is an interval.
LEMMA Downward ==
    ASSUME NEW n \in Nat, NEW D \in SUBSET (1..n),
           \A i \in D : \A j \in 1..n : j < i => j \in D
    PROVE  Cardinality(D) \in 0..n /\ D = 1..Cardinality(D)
<1> DEFINE T == (1..(n + 1)) \ D
<1>1. T \subseteq Nat /\ (n + 1) \in T
      OBVIOUS
<1>2. PICK m \in T : \A y \in T : m <= y
      <2> HIDE DEF T
      <2> QED BY <1>1, LeastExists
<1>3. m \in 1..(n + 1) /\ m \notin D
      OBVIOUS
<1>4. ASSUME NEW j \in 1..(m - 1) PROVE j \in D
      <2>1. j \in 1..(n + 1) /\ j < m
            BY <1>3
      <2> QED BY <1>2, <1>3, <2>1
<1>5. ASSUME NEW j \in D PROVE j \in 1..(m - 1)
      BY <1>3
<1>6. D = 1..(m - 1)
      BY <1>4, <1>5
<1>7. Cardinality(1..(m - 1)) = m - 1
      <2>1. m - 1 \in Int /\ (1 > m - 1 => m - 1 = 0)
            BY <1>3
      <2> QED BY <2>1, FS_Interval
<1> HIDE DEF T
<1> QED BY <1>3, <1>6, <1>7

-----------------------------------------------------------------------------
(* The order, and a record's place in it.                                   *)

LEMMA BeforeIsOrder ==
    ASSUME NEW a \in Accounts, NEW b \in Accounts
    PROVE  /\ NameOf[a] \in Nat
           /\ a \in Nat
           /\ ~Before(a, a)
           /\ Before(a, b) \/ a = b \/ Before(b, a)
           /\ ~(Before(a, b) /\ Before(b, a))
           /\ Before(a, b) => NameOf[a] <= NameOf[b]
           /\ \A c \in Accounts : Before(a, b) /\ Before(b, c) => Before(a, c)
<1>1. \A c \in Accounts : c \in Nat /\ NameOf[c] \in Nat
      BY NameAssumption
<1>2. ASSUME NEW c \in Accounts, Before(a, b), Before(b, c) PROVE Before(a, c)
      <2> DEFINE x == NameOf[a]
                 y == NameOf[b]
                 z == NameOf[c]
      <2>1. x \in Nat /\ y \in Nat /\ z \in Nat /\ a \in Nat /\ b \in Nat /\ c \in Nat
            BY <1>1
      <2>2. (x < y \/ (x = y /\ a < b)) /\ (y < z \/ (y = z /\ b < c))
            BY <1>2, <2>1 DEF Before
      <2>3. x < z \/ (x = z /\ a < c)
            <3> HIDE DEF x, y, z
            <3> QED BY <2>1, <2>2
      <2> QED BY <2>3 DEF Before
<1>3. ~Before(a, a) /\ (Before(a, b) \/ a = b \/ Before(b, a)) /\ ~(Before(a, b) /\ Before(b, a))
      BY <1>1 DEF Before
<1>4. Before(a, b) => NameOf[a] <= NameOf[b]
      BY <1>1 DEF Before
<1> QED BY <1>1, <1>2, <1>3, <1>4

LEMMA RowsOfSeq ==
    ASSUME NEW s \in Seq(Accounts)
    PROVE  /\ Len(s) \in Nat
           /\ DOMAIN s = 1..Len(s)
           /\ \A i \in DOMAIN s : s[i] \in Accounts /\ s[i] \in Rows(s)
           /\ \A a \in Rows(s) : a \in Accounts /\ \E i \in DOMAIN s : a = s[i]
BY DEF Rows

LEMMA OrderedIsDistinct ==
    ASSUME NEW s \in Seq(Accounts), Ordered(s)
    PROVE  /\ Distinct(s)
           /\ \A i, j \in DOMAIN s : Before(s[i], s[j]) => i < j
           /\ \A i, j \in DOMAIN s : i <= j => NameOf[s[i]] <= NameOf[s[j]]
<1>1. ASSUME NEW i \in DOMAIN s, NEW j \in DOMAIN s
      PROVE  /\ s[i] = s[j] => i = j
             /\ Before(s[i], s[j]) => i < j
             /\ i <= j => NameOf[s[i]] <= NameOf[s[j]]
      <2>1. i \in Nat /\ j \in Nat /\ s[i] \in Accounts /\ s[j] \in Accounts
            BY RowsOfSeq
      <2>2. (i < j => Before(s[i], s[j])) /\ (j < i => Before(s[j], s[i]))
            BY DEF Ordered
      <2>3. CASE i < j
            BY <2>1, <2>2, <2>3, BeforeIsOrder
      <2>4. CASE j < i
            BY <2>1, <2>2, <2>4, BeforeIsOrder
      <2>5. CASE i = j
            <3>1. NameOf[s[i]] \in Nat /\ ~Before(s[i], s[i])
                  BY <2>1, BeforeIsOrder
            <3> QED BY <3>1, <2>5
      <2> QED BY <2>1, <2>3, <2>4, <2>5
<1> QED BY <1>1 DEF Distinct

\* Places follow the order.
LEMMA Places ==
    ASSUME NEW s \in Seq(Accounts), NEW a \in Accounts
    PROVE  /\ PlaceOf(s, a) \in 1..(Len(s) + 1)
           /\ Distinct(s) /\ a \in Rows(s) => PlaceOf(s, a) \in DOMAIN s
           /\ \A b \in Rows(s) : Before(b, a) => PlaceOf(s, b) < PlaceOf(s, a)
<1>1. \A b : /\ Below(s, b) \in SUBSET (1..Len(s))
             /\ IsFiniteSet(Below(s, b))
             /\ Cardinality(Below(s, b)) \in 0..Len(s)
             /\ PlaceOf(s, b) = 1 + Cardinality(Below(s, b))
      <2> TAKE b
      <2>1. Below(s, b) \in SUBSET (1..Len(s))
            BY DEF Below
      <2>2. IsFiniteSet(1..Len(s)) /\ Cardinality(1..Len(s)) = Len(s) /\ Len(s) \in Nat
            BY UpTo, RowsOfSeq
      <2>3. IsFiniteSet(Below(s, b)) /\ Cardinality(Below(s, b)) <= Len(s)
            BY <2>1, <2>2, FS_Subset
      <2>4. Cardinality(Below(s, b)) \in Nat
            BY <2>3, FS_CardinalityType
      <2> QED BY <2>1, <2>2, <2>3, <2>4 DEF PlaceOf, Below
<1>2. ASSUME NEW b \in Rows(s), Before(b, a) PROVE PlaceOf(s, b) < PlaceOf(s, a)
      <2>1. PICK i \in DOMAIN s : s[i] = b
            BY DEF Rows
      <2>2. b \in Accounts
            BY RowsOfSeq
      <2>3. i \notin Below(s, b) /\ i \in Below(s, a)
            BY <1>2, <2>1, <2>2, BeforeIsOrder DEF Below
      <2>4. ASSUME NEW j \in Below(s, b) PROVE j \in Below(s, a)
            <3>1. j \in DOMAIN s /\ Before(s[j], b) /\ s[j] \in Accounts
                  BY DEF Below
            <3> QED BY <3>1, <1>2, <2>2, BeforeIsOrder DEF Below
      <2>5. Below(s, b) \cup {i} \in SUBSET Below(s, a)
            BY <2>3, <2>4
      <2>6. /\ IsFiniteSet(Below(s, b) \cup {i})
            /\ Cardinality(Below(s, b) \cup {i}) = Cardinality(Below(s, b)) + 1
            BY <1>1, <2>3, FS_AddElement
      <2>7. Cardinality(Below(s, b) \cup {i}) <= Cardinality(Below(s, a))
            BY <1>1, <2>5, FS_Subset
      <2> QED BY <1>1, <2>6, <2>7
<1>3. ASSUME Distinct(s), a \in Rows(s) PROVE PlaceOf(s, a) \in DOMAIN s
      <2>1. PICK i \in DOMAIN s : s[i] = a
            BY <1>3 DEF Rows
      <2>2. Below(s, a) # 1..Len(s)
            BY <2>1, BeforeIsOrder DEF Below
      <2>3. IsFiniteSet(1..Len(s)) /\ Cardinality(1..Len(s)) = Len(s) /\ Len(s) \in Nat
            BY UpTo, RowsOfSeq
      <2>4. Cardinality(Below(s, a)) # Len(s)
            BY <1>1, <2>2, <2>3, FS_Subset
      <2> QED BY <1>1, <2>3, <2>4
<1>4. PlaceOf(s, a) \in 1..(Len(s) + 1)
      BY <1>1
<1> QED BY <1>2, <1>3, <1>4

\* Sorting: each place is that of one row.
LEMMA PlacesAreOnto ==
    ASSUME NEW s \in Seq(Accounts), Distinct(s), NEW i \in DOMAIN s
    PROVE  \E a \in Rows(s) : PlaceOf(s, a) = i
<1> DEFINE D == DOMAIN s
           f == [j \in D |-> PlaceOf(s, s[j])]
<1>1. D = 1..Len(s) /\ Len(s) \in Nat /\ IsFiniteSet(D)
      BY UpTo, RowsOfSeq
<1>2. \A j \in D : s[j] \in Accounts /\ s[j] \in Rows(s)
      BY RowsOfSeq
<1>3. f \in [D -> D]
      BY <1>2, Places
<1>4. ASSUME NEW j \in D, NEW k \in D, f[j] = f[k] PROVE j = k
      <2>1. PlaceOf(s, s[j]) = PlaceOf(s, s[k]) /\ PlaceOf(s, s[j]) \in D
            BY <1>2, <1>4, Places
      <2>2. PlaceOf(s, s[j]) \in Nat
            BY <1>1, <2>1
      <2>3. ~Before(s[j], s[k]) /\ ~Before(s[k], s[j])
            <3>1. ~(PlaceOf(s, s[j]) < PlaceOf(s, s[k])) /\ ~(PlaceOf(s, s[k]) < PlaceOf(s, s[j]))
                  BY <2>1, <2>2
            <3> QED BY <1>2, <3>1, Places
      <2>4. s[j] = s[k]
            BY <1>2, <2>3, BeforeIsOrder
      <2> QED BY <2>4 DEF Distinct
<1>5. f \in Injection(D, D)
      <2> HIDE DEF f, D
      <2> QED BY <1>3, <1>4, Fun_IsInj
<1>6. f \in Surjection(D, D)
      <2> HIDE DEF f, D
      <2> QED BY <1>1, <1>5, FS_Injection
<1>7. PICK j \in D : f[j] = i
      <2> HIDE DEF f
      <2> QED BY <1>6 DEF Surjection
<1> QED BY <1>2, <1>7

LEMMA InOrderSorts ==
    ASSUME NEW s \in Seq(Accounts), Distinct(s)
    PROVE  /\ InOrder(s) \in Seq(Accounts)
           /\ Len(InOrder(s)) = Len(s)
           /\ Rows(InOrder(s)) = Rows(s)
           /\ Ordered(InOrder(s))
<1> DEFINE t == InOrder(s)
           At(i) == CHOOSE a \in Rows(s) : PlaceOf(s, a) = i
<1>1. DOMAIN s = 1..Len(s) /\ Len(s) \in Nat
      OBVIOUS
<1>2. \A i \in DOMAIN s : At(i) \in Rows(s) /\ At(i) \in Accounts /\ PlaceOf(s, At(i)) = i
      BY PlacesAreOnto, RowsOfSeq
<1>3. t = [i \in DOMAIN s |-> At(i)]
      <2> DEFINE place == [a \in Rows(s) |-> PlaceOf(s, a)]
      <2>1. \A a \in Rows(s) : place[a] = PlaceOf(s, a)
            OBVIOUS
      <2>2. \A i : (CHOOSE a \in Rows(s) : place[a] = i) = At(i)
            <3> HIDE DEF place
            <3> QED BY <2>1
      <2>3. t = [i \in DOMAIN s |-> CHOOSE a \in Rows(s) : place[a] = i]
            BY DEF InOrder
      <2> HIDE DEF t, place, At
      <2> QED BY <2>2, <2>3
<1> HIDE DEF At, t
<1>4. t \in [1..Len(s) -> Accounts]
      BY <1>1, <1>2, <1>3
<1>5. t \in Seq(Accounts) /\ Len(t) = Len(s) /\ DOMAIN t = DOMAIN s
      <2>1. t \in Seq(Accounts)
            BY <1>1, <1>4
      <2> QED BY <1>1, <1>4, <2>1
<1>6. ASSUME NEW a \in Rows(s) PROVE a \in Rows(t)
      <2>1. a \in Accounts /\ PlaceOf(s, a) \in DOMAIN s
            BY RowsOfSeq, Places
      <2> DEFINE b == At(PlaceOf(s, a))
      <2>2. b \in Rows(s) /\ b \in Accounts /\ PlaceOf(s, b) = PlaceOf(s, a)
            BY <1>2, <2>1
      <2>3. b = t[PlaceOf(s, a)]
            BY <1>3, <2>1
      <2> HIDE DEF b
      <2>4. ~Before(a, b) /\ ~Before(b, a)
            <3>1. PlaceOf(s, a) \in Nat
                  BY <1>1, <2>1
            <3>2. ~(PlaceOf(s, b) < PlaceOf(s, a)) /\ ~(PlaceOf(s, a) < PlaceOf(s, b))
                  BY <2>2, <3>1
            <3> QED BY <2>1, <2>2, <3>2, Places
      <2>5. a = b
            BY <2>1, <2>2, <2>4, BeforeIsOrder
      <2> QED BY <1>5, <2>1, <2>3, <2>5 DEF Rows
<1>7. \A a \in Rows(t) : a \in Rows(s)
      BY <1>2, <1>3 DEF Rows
<1>8. ASSUME NEW i \in DOMAIN t, NEW j \in DOMAIN t, i < j PROVE Before(t[i], t[j])
      <2> DEFINE a == At(i)
                 b == At(j)
      <2>1. t[i] = a /\ t[j] = b
            BY <1>3, <1>5
      <2>2. /\ a \in Rows(s) /\ a \in Accounts /\ PlaceOf(s, a) = i
            /\ b \in Rows(s) /\ b \in Accounts /\ PlaceOf(s, b) = j
            BY <1>2, <1>5
      <2> HIDE DEF a, b
      <2>3. i \in Nat /\ j \in Nat
            BY <1>1, <1>5
      <2>4. a # b
            BY <1>8, <2>2, <2>3
      <2>5. ~Before(b, a)
            <3>1. ~(PlaceOf(s, b) < PlaceOf(s, a))
                  BY <1>8, <2>2, <2>3
            <3> QED BY <2>2, <3>1, Places
      <2> QED BY <2>1, <2>2, <2>4, <2>5, BeforeIsOrder
<1> QED BY <1>5, <1>6, <1>7, <1>8 DEF t, Ordered

\* The place a search by halving finds in a list in order: what is before it there
\* comes before the record, and nothing else does.
LEMMA PlaceInOrder ==
    ASSUME NEW s \in Seq(Accounts), Ordered(s), NEW a \in Accounts
    PROVE  /\ PlaceOf(s, a) \in 1..(Len(s) + 1)
           /\ \A j \in DOMAIN s : Before(s[j], a) <=> j < PlaceOf(s, a)
           /\ \A i \in DOMAIN s : s[i] = a => PlaceOf(s, a) = i
<1>1. DOMAIN s = 1..Len(s) /\ Len(s) \in Nat /\ \A i \in DOMAIN s : s[i] \in Accounts
      OBVIOUS
<1>2. ASSUME NEW i \in Below(s, a), NEW j \in 1..Len(s), j < i PROVE j \in Below(s, a)
      <2>1. i \in DOMAIN s /\ j \in DOMAIN s /\ Before(s[i], a) /\ Before(s[j], s[i])
            BY <1>1, <1>2 DEF Below, Ordered
      <2>2. Before(s[j], a)
            BY <1>1, <2>1, BeforeIsOrder
      <2> QED BY <2>1, <2>2 DEF Below
<1>3. Below(s, a) \in SUBSET (1..Len(s))
      BY <1>1 DEF Below
<1> DEFINE k == Cardinality(Below(s, a))
<1>4. k \in 0..Len(s) /\ Below(s, a) = 1..k
      <2> QED BY <1>1, <1>2, <1>3, Downward
<1>5. PlaceOf(s, a) = 1 + k
      BY DEF PlaceOf, Below
<1> HIDE DEF k
<1>6. \A j \in DOMAIN s : Before(s[j], a) <=> j \in 1..k
      BY <1>4 DEF Below
<1>7. \A j \in DOMAIN s : Before(s[j], a) <=> j < PlaceOf(s, a)
      BY <1>1, <1>4, <1>5, <1>6
<1>8. ASSUME NEW i \in DOMAIN s, s[i] = a PROVE PlaceOf(s, a) = i
      <2>1. ~Before(s[i], a)
            BY <1>8, BeforeIsOrder
      <2>2. i > 1 => Before(s[i - 1], a)
            <3>1. i > 1 => i - 1 \in DOMAIN s /\ i - 1 < i
                  BY <1>1
            <3> QED BY <1>8, <3>1 DEF Ordered
      <2>3. i \in 1..Len(s) /\ ~(i < 1 + k)
            BY <1>1, <1>5, <1>7, <2>1
      <2>4. i > 1 => i - 1 < 1 + k
            <3>1. i > 1 => i - 1 \in DOMAIN s
                  BY <1>1
            <3> QED BY <1>5, <1>7, <2>2, <3>1
      <2> QED BY <1>1, <1>4, <1>5, <2>3, <2>4
<1> QED BY <1>1, <1>4, <1>5, <1>7, <1>8

LEMMA InsertRow ==
    ASSUME NEW s \in Seq(Accounts), Ordered(s), NEW a \in Accounts, a \notin Rows(s)
    PROVE  LET t == InsertAt(s, PlaceOf(s, a), a)
           IN  t \in Seq(Accounts) /\ Rows(t) = Rows(s) \cup {a} /\ Ordered(t)
<1> DEFINE p == PlaceOf(s, a)
           t == InsertAt(s, p, a)
           l == SubSeq(s, 1, p - 1)
           r == SubSeq(s, p, Len(s))
<1>1. DOMAIN s = 1..Len(s) /\ Len(s) \in Nat /\ \A i \in DOMAIN s : s[i] \in Accounts
      OBVIOUS
<1>2. /\ p \in 1..(Len(s) + 1)
      /\ \A j \in DOMAIN s : Before(s[j], a) <=> j < p
      BY PlaceInOrder
<1>3. t = (l \o <<a>>) \o r
      BY DEF InsertAt
<1> HIDE DEF p, t
<1>4. /\ l \in Seq(Accounts) /\ Len(l) = p - 1
      /\ \A i \in 1..(p - 1) : l[i] = s[i]
      <2>1. 1 \in Int /\ p - 1 \in Int /\ \A i \in 1..(p - 1) : s[i] \in Accounts
            BY <1>1, <1>2
      <2>2. /\ l \in Seq(Accounts)
            /\ Len(l) = (IF 1 <= p - 1 THEN (p - 1) - 1 + 1 ELSE 0)
            /\ \A i \in 1..((p - 1) - 1 + 1) : l[i] = s[1 + i - 1]
            BY <2>1, SubSeqProperties
      <2> HIDE DEF l
      <2>3. p \in Nat /\ 1 <= p
            BY <1>1, <1>2
      <2>4. (p - 1) - 1 + 1 = p - 1 /\ \A i \in 1..(p - 1) : 1 + i - 1 = i
            BY <2>3
      <2> QED BY <2>2, <2>3, <2>4
<1>5. /\ r \in Seq(Accounts) /\ Len(r) = Len(s) - p + 1
      /\ \A i \in 1..(Len(s) - p + 1) : r[i] = s[p + i - 1]
      <2>1. p \in Int /\ Len(s) \in Int /\ \A i \in p..Len(s) : s[i] \in Accounts
            BY <1>1, <1>2
      <2>2. /\ r \in Seq(Accounts)
            /\ Len(r) = (IF p <= Len(s) THEN Len(s) - p + 1 ELSE 0)
            /\ \A i \in 1..(Len(s) - p + 1) : r[i] = s[p + i - 1]
            BY <2>1, SubSeqProperties
      <2> HIDE DEF r
      <2> QED BY <1>1, <1>2, <2>2
<1> HIDE DEF l, r
<1>6. <<a>> \in Seq(Accounts) /\ Len(<<a>>) = 1 /\ <<a>>[1] = a
      OBVIOUS
<1> DEFINE m == l \o <<a>>
<1>7. /\ m \in Seq(Accounts) /\ Len(m) = p
      /\ \A i \in 1..p : m[i] = IF i < p THEN s[i] ELSE a
      <2>1. /\ m \in Seq(Accounts) /\ Len(m) = Len(l) + Len(<<a>>)
            /\ \A i \in 1..(Len(l) + Len(<<a>>)) :
                  m[i] = IF i <= Len(l) THEN l[i] ELSE <<a>>[i - Len(l)]
            BY <1>4, <1>6, ConcatProperties
      <2> HIDE DEF m
      <2>2. p \in Nat /\ 1 <= p /\ Len(l) + Len(<<a>>) = p
            BY <1>1, <1>2, <1>4, <1>6
      <2>3. ASSUME NEW i \in 1..p PROVE m[i] = IF i < p THEN s[i] ELSE a
            <3>1. CASE i < p
                  BY <1>4, <2>1, <2>2, <3>1
            <3>2. CASE i = p
                  <4>1. ~(i <= Len(l)) /\ i - Len(l) = 1
                        BY <1>4, <2>2, <3>2
                  <4> QED BY <1>6, <2>1, <2>2, <3>2, <4>1
            <3> QED BY <2>2, <3>1, <3>2
      <2> QED BY <2>1, <2>2, <2>3
<1> HIDE DEF m
<1>8. /\ t \in Seq(Accounts) /\ Len(t) = Len(s) + 1
      /\ \A i \in 1..(Len(s) + 1) : t[i] = IF i < p THEN s[i]
                                            ELSE IF i = p THEN a ELSE s[i - 1]
      <2>1. /\ t \in Seq(Accounts) /\ Len(t) = Len(m) + Len(r)
            /\ \A i \in 1..(Len(m) + Len(r)) : t[i] = IF i <= Len(m) THEN m[i] ELSE r[i - Len(m)]
            <3>1. t = m \o r
                  BY <1>3 DEF m
            <3> QED BY <1>5, <1>7, <3>1, ConcatProperties
      <2>2. p \in Nat /\ 1 <= p /\ Len(s) \in Nat /\ Len(m) + Len(r) = Len(s) + 1
            BY <1>1, <1>2, <1>5, <1>7
      <2>3. ASSUME NEW i \in 1..(Len(s) + 1)
            PROVE  t[i] = IF i < p THEN s[i] ELSE IF i = p THEN a ELSE s[i - 1]
            <3>1. CASE i <= p
                  BY <1>7, <2>1, <2>2, <3>1
            <3>2. CASE i > p
                  <4>1. i - p \in 1..(Len(s) - p + 1) /\ p + (i - p) - 1 = i - 1 /\ ~(i <= Len(m))
                        BY <1>7, <2>2, <3>2
                  <4>2. r[i - p] = s[i - 1]
                        BY <1>5, <4>1
                  <4>3. t[i] = r[i - p]
                        BY <1>7, <2>1, <2>2, <4>1
                  <4> QED BY <2>2, <3>2, <4>2, <4>3
            <3> QED BY <2>2, <3>1, <3>2
      <2> QED BY <2>1, <2>2, <2>3
<1>9. DOMAIN t = 1..(Len(s) + 1)
      BY <1>8
<1>10. ASSUME NEW i \in DOMAIN t, NEW j \in DOMAIN t, i < j PROVE Before(t[i], t[j])
      <2>1. i \in Nat /\ j \in Nat /\ p \in Nat
            BY <1>1, <1>2, <1>9
      <2>2. CASE j < p
            <3>1. i \in DOMAIN s /\ j \in DOMAIN s /\ t[i] = s[i] /\ t[j] = s[j]
                  BY <1>1, <1>2, <1>8, <1>9, <1>10, <2>2
            <3> QED BY <1>10, <3>1 DEF Ordered
      <2>3. CASE j = p
            <3>1. i \in DOMAIN s /\ i < p /\ t[i] = s[i] /\ t[j] = a
                  BY <1>1, <1>2, <1>8, <1>9, <1>10, <2>3
            <3> QED BY <1>2, <3>1
      <2>4. CASE p < j
            <3>1. j - 1 \in DOMAIN s /\ t[j] = s[j - 1] /\ ~(j - 1 < p)
                  BY <1>1, <1>2, <1>8, <1>9, <2>1, <2>4
            <3>2. s[j - 1] \in Accounts /\ s[j - 1] # a /\ ~Before(s[j - 1], a)
                  BY <1>1, <1>2, <3>1 DEF Rows
            <3>3. Before(a, s[j - 1])
                  BY <3>2, BeforeIsOrder
            <3>4. CASE i < p
                  <4>1. i \in DOMAIN s /\ t[i] = s[i] /\ i < j - 1
                        BY <1>1, <1>2, <1>8, <1>9, <2>1, <2>4, <3>4
                  <4> QED BY <3>1, <4>1 DEF Ordered
            <3>5. CASE i = p
                  BY <1>8, <1>9, <2>1, <3>1, <3>3, <3>5
            <3>6. CASE p < i
                  <4>1. i - 1 \in DOMAIN s /\ t[i] = s[i - 1] /\ i - 1 < j - 1
                        BY <1>1, <1>2, <1>8, <1>9, <1>10, <2>1, <3>6
                  <4> QED BY <3>1, <4>1 DEF Ordered
            <3> QED BY <2>1, <3>4, <3>5, <3>6
      <2> QED BY <2>1, <2>2, <2>3, <2>4
<1>11. Rows(t) = Rows(s) \cup {a}
      <2>1. ASSUME NEW x \in Rows(t) PROVE x \in Rows(s) \cup {a}
            <3>1. PICK i \in DOMAIN t : x = t[i]
                  BY DEF Rows
            <3>2. x = a \/ (i \in DOMAIN s /\ x = s[i]) \/ (i - 1 \in DOMAIN s /\ x = s[i - 1])
                  BY <1>1, <1>2, <1>8, <1>9, <3>1
            <3> QED BY <3>2 DEF Rows
      <2>2. a \in Rows(t)
            <3>1. p \in DOMAIN t /\ t[p] = a
                  BY <1>1, <1>2, <1>8, <1>9
            <3> QED BY <3>1 DEF Rows
      <2>3. ASSUME NEW x \in Rows(s) PROVE x \in Rows(t)
            <3>1. PICK i \in DOMAIN s : x = s[i]
                  BY DEF Rows
            <3>2. CASE i < p
                  <4>1. i \in DOMAIN t /\ t[i] = x
                        BY <1>1, <1>2, <1>8, <1>9, <3>1, <3>2
                  <4> QED BY <4>1 DEF Rows
            <3>3. CASE ~(i < p)
                  <4>1. i + 1 \in DOMAIN t /\ ~(i + 1 < p) /\ i + 1 # p /\ (i + 1) - 1 = i
                        BY <1>1, <1>2, <1>9, <3>3
                  <4>2. t[i + 1] = x
                        BY <1>8, <1>9, <3>1, <4>1
                  <4> QED BY <4>1, <4>2 DEF Rows
            <3> QED BY <3>2, <3>3
      <2> QED BY <2>1, <2>2, <2>3
<1> QED BY <1>8, <1>10, <1>11 DEF t, p, Ordered

LEMMA RemoveRow ==
    ASSUME NEW s \in Seq(Accounts), Ordered(s), NEW a \in Accounts
    PROVE  LET t == Without(s, a)
           IN  t \in Seq(Accounts) /\ Rows(t) = Rows(s) \ {a} /\ Ordered(t)
<1> DEFINE p == PlaceOf(s, a)
           t == RemoveAt(s, p)
           l == SubSeq(s, 1, p - 1)
           r == SubSeq(s, p + 1, Len(s))
<1> SUFFICES ASSUME a \in Rows(s)
             PROVE  t \in Seq(Accounts) /\ Rows(t) = Rows(s) \ {a} /\ Ordered(t)
    BY DEF Without
<1>1. DOMAIN s = 1..Len(s) /\ Len(s) \in Nat /\ \A i \in DOMAIN s : s[i] \in Accounts
      OBVIOUS
<1>2. p \in 1..Len(s) /\ s[p] = a
      <2>1. PICK i \in DOMAIN s : s[i] = a
            BY DEF Rows
      <2>2. p = i
            BY <2>1, PlaceInOrder
      <2> QED BY <1>1, <2>1, <2>2
<1>3. t = l \o r
      BY DEF RemoveAt
<1> HIDE DEF p, t
<1>4. /\ l \in Seq(Accounts) /\ Len(l) = p - 1
      /\ \A i \in 1..(p - 1) : l[i] = s[i]
      <2>1. 1 \in Int /\ p - 1 \in Int /\ \A i \in 1..(p - 1) : s[i] \in Accounts
            BY <1>1, <1>2
      <2>2. /\ l \in Seq(Accounts)
            /\ Len(l) = (IF 1 <= p - 1 THEN (p - 1) - 1 + 1 ELSE 0)
            /\ \A i \in 1..((p - 1) - 1 + 1) : l[i] = s[1 + i - 1]
            BY <2>1, SubSeqProperties
      <2> HIDE DEF l
      <2>3. p \in Nat /\ 1 <= p
            BY <1>1, <1>2
      <2>4. (p - 1) - 1 + 1 = p - 1 /\ \A i \in 1..(p - 1) : 1 + i - 1 = i
            BY <2>3
      <2> QED BY <2>2, <2>3, <2>4
<1>5. /\ r \in Seq(Accounts) /\ Len(r) = Len(s) - p
      /\ \A i \in 1..(Len(s) - p) : r[i] = s[p + i]
      <2>1. p + 1 \in Int /\ Len(s) \in Int /\ \A i \in (p + 1)..Len(s) : s[i] \in Accounts
            BY <1>1, <1>2
      <2>2. /\ r \in Seq(Accounts)
            /\ Len(r) = (IF p + 1 <= Len(s) THEN Len(s) - (p + 1) + 1 ELSE 0)
            /\ \A i \in 1..(Len(s) - (p + 1) + 1) : r[i] = s[(p + 1) + i - 1]
            BY <2>1, SubSeqProperties
      <2> HIDE DEF r
      <2>3. p \in Nat /\ Len(s) - (p + 1) + 1 = Len(s) - p
            BY <1>1, <1>2
      <2>4. ASSUME NEW i \in 1..(Len(s) - p) PROVE r[i] = s[p + i]
            <3>1. i \in 1..(Len(s) - (p + 1) + 1)
                  BY <2>3
            <3>2. (p + 1) + i - 1 = p + i
                  BY <2>3
            <3> QED BY <2>2, <3>1, <3>2
      <2>5. Len(r) = Len(s) - p
            <3>1. p \in Nat /\ Len(s) \in Nat /\ p <= Len(s)
                  BY <1>1, <1>2
            <3>2. Len(r) = IF p + 1 <= Len(s) THEN Len(s) - (p + 1) + 1 ELSE 0
                  BY <2>2
            <3> QED BY <3>1, <3>2
      <2> QED BY <2>2, <2>4, <2>5
<1> HIDE DEF l, r
<1>6. /\ t \in Seq(Accounts) /\ Len(t) = Len(s) - 1
      /\ \A i \in 1..(Len(s) - 1) : t[i] = IF i < p THEN s[i] ELSE s[i + 1]
      <2>1. /\ t \in Seq(Accounts) /\ Len(t) = Len(l) + Len(r)
            /\ \A i \in 1..(Len(l) + Len(r)) : t[i] = IF i <= Len(l) THEN l[i] ELSE r[i - Len(l)]
            BY <1>3, <1>4, <1>5, ConcatProperties
      <2>2. p \in Nat /\ 1 <= p /\ Len(s) \in Nat /\ Len(l) + Len(r) = Len(s) - 1
            BY <1>1, <1>2, <1>4, <1>5
      <2>3. ASSUME NEW i \in 1..(Len(s) - 1) PROVE t[i] = IF i < p THEN s[i] ELSE s[i + 1]
            <3>1. CASE i < p
                  BY <1>4, <2>1, <2>2, <3>1
            <3>2. CASE ~(i < p)
                  <4> DEFINE k == i - (p - 1)
                  <4>1. k \in 1..(Len(s) - p) /\ p + k = i + 1 /\ ~(i <= Len(l)) /\ i - Len(l) = k
                        BY <1>2, <1>4, <2>2, <3>2
                  <4> HIDE DEF k
                  <4>2. t[i] = r[k]
                        BY <2>1, <2>2, <4>1
                  <4>3. r[k] = s[i + 1]
                        BY <1>5, <4>1
                  <4> QED BY <3>2, <4>2, <4>3
            <3> QED BY <3>1, <3>2
      <2> QED BY <2>1, <2>2, <2>3
<1>7. DOMAIN t = 1..(Len(s) - 1)
      BY <1>1, <1>2, <1>6
<1>8. ASSUME NEW i \in DOMAIN t
      PROVE  \E k \in DOMAIN s : t[i] = s[k] /\ k # p /\ k = IF i < p THEN i ELSE i + 1
      <2>1. (IF i < p THEN i ELSE i + 1) \in DOMAIN s /\ (IF i < p THEN i ELSE i + 1) # p
            BY <1>1, <1>2, <1>7
      <2> QED BY <1>6, <1>7, <2>1
<1>9. ASSUME NEW i \in DOMAIN t, NEW j \in DOMAIN t, i < j PROVE Before(t[i], t[j])
      <2>1. PICK k \in DOMAIN s : t[i] = s[k] /\ k = IF i < p THEN i ELSE i + 1
            BY <1>8
      <2>2. PICK n \in DOMAIN s : t[j] = s[n] /\ n = IF j < p THEN j ELSE j + 1
            BY <1>8
      <2>3. k < n
            BY <1>1, <1>2, <1>7, <1>9, <2>1, <2>2
      <2> QED BY <2>1, <2>2, <2>3 DEF Ordered
<1>10. Rows(t) = Rows(s) \ {a}
      <2>1. ASSUME NEW x \in Rows(t) PROVE x \in Rows(s) \ {a}
            <3>1. PICK i \in DOMAIN t : x = t[i]
                  BY DEF Rows
            <3>2. PICK k \in DOMAIN s : x = s[k] /\ k # p
                  BY <1>8, <3>1
            <3>3. x # a
                  BY <1>1, <1>2, <3>2, OrderedIsDistinct DEF Distinct
            <3> QED BY <3>2, <3>3 DEF Rows
      <2>2. ASSUME NEW x \in Rows(s), x # a PROVE x \in Rows(t)
            <3>1. PICK i \in DOMAIN s : x = s[i]
                  BY DEF Rows
            <3>2. i # p
                  BY <1>2, <2>2, <3>1
            <3>3. CASE i < p
                  <4>1. i \in DOMAIN t /\ t[i] = x
                        BY <1>1, <1>2, <1>6, <1>7, <3>1, <3>3
                  <4> QED BY <4>1 DEF Rows
            <3>4. CASE ~(i < p)
                  <4>1. i - 1 \in DOMAIN t /\ ~(i - 1 < p) /\ (i - 1) + 1 = i
                        BY <1>1, <1>2, <1>7, <3>2, <3>4
                  <4>2. t[i - 1] = x
                        BY <1>6, <1>7, <3>1, <4>1
                  <4> QED BY <4>1, <4>2 DEF Rows
            <3> QED BY <3>3, <3>4
      <2> QED BY <2>1, <2>2
<1> QED BY <1>6, <1>9, <1>10 DEF Ordered

\* A list as its operations leave it.
WellKept(v) == /\ v.list \in Seq(Accounts)
               /\ v.sorted \in BOOLEAN
               /\ Distinct(v.list)
               /\ v.sorted => Ordered(v.list)

\* A range that lies in the list.
Within(v) == \/ v.filter_range = NoRange
             \/ /\ v.filter_range \in [start : Nat, end : Nat]
                /\ v.filter_range.start <= v.filter_range.end
                /\ v.filter_range.end <= Len(v.list)

LEMMA ViewFields ==
    ASSUME NEW s, NEW f, NEW r, NEW w, w = View(s, f, r)
    PROVE  w.list = s /\ w.sorted = f /\ w.filter_range = r
BY Zenon DEF View

LEMMA SpanFields ==
    ASSUME NEW a, NEW b
    PROVE  /\ Span(a, b).start = a /\ Span(a, b).end = b /\ Span(a, b) # NoRange
           /\ a \in Nat /\ b \in Nat => Span(a, b) \in [start : Nat, end : Nat]
<1>1. "start" \in DOMAIN Span(a, b) /\ "start" \notin DOMAIN NoRange
      BY DEF Span, NoRange
<1>2. Span(a, b) # NoRange
      BY <1>1
<1> QED BY <1>2 DEF Span

LEMMA SortKeeps ==
    ASSUME NEW v, WellKept(v)
    PROVE  /\ WellKept(Sort(v)) /\ Sort(v).sorted
           /\ Ordered(Sort(v).list) /\ Sort(v).list \in Seq(Accounts)
           /\ Rows(Sort(v).list) = Rows(v.list)
           /\ Len(Sort(v).list) = Len(v.list)
<1>1. CASE v.sorted
      BY <1>1 DEF WellKept, Sort
<1>2. CASE ~v.sorted
      <2> DEFINE t == InOrder(v.list)
      <2>1. Sort(v).list = t /\ Sort(v).sorted = TRUE
            <3> DEFINE w == Sort(v)
                       r == v.filter_range
            <3>1. w = View(t, TRUE, r)
                  BY <1>2 DEF Sort
            <3> HIDE DEF t, w, r
            <3>2. w.list = t /\ w.sorted = TRUE
                  BY Zenon, <3>1 DEF View
            <3> QED BY <3>2 DEF w
      <2>2. t \in Seq(Accounts) /\ Len(t) = Len(v.list) /\ Rows(t) = Rows(v.list) /\ Ordered(t)
            BY InOrderSorts DEF WellKept
      <2> HIDE DEF t
      <2>3. Distinct(t)
            BY <2>2, OrderedIsDistinct
      <2> QED BY <2>1, <2>2, <2>3 DEF WellKept
<1> QED BY <1>1, <1>2

LEMMA InsertKeeps ==
    ASSUME NEW v, WellKept(v), NEW a \in Accounts
    PROVE  LET w == insert_unique(v, a)
           IN  WellKept(w) /\ w.filter_range = NoRange /\ Rows(w.list) = Rows(v.list) \cup {a}
<1> DEFINE s == Sort(v).list
           t == InsertAt(s, PlaceOf(s, a), a)
           w == insert_unique(v, a)
<1>1. s \in Seq(Accounts) /\ Ordered(s) /\ Rows(s) = Rows(v.list) /\ Distinct(s)
      BY SortKeeps DEF WellKept
<1>2. w.list = (IF a \in Rows(s) THEN s ELSE t) /\ w.sorted = TRUE /\ w.filter_range = NoRange
      <2>1. w = View(IF a \in Rows(s) THEN s ELSE t, TRUE, NoRange)
            BY DEF insert_unique
      <2> HIDE DEF w, s, t
      <2> QED BY Zenon, <2>1 DEF View
<1>3. a \notin Rows(s) => t \in Seq(Accounts) /\ Rows(t) = Rows(s) \cup {a} /\ Ordered(t)
      BY <1>1, InsertRow
<1> HIDE DEF s, t, w
<1>4. a \notin Rows(s) => Distinct(t)
      BY <1>3, OrderedIsDistinct
<1> QED BY <1>1, <1>2, <1>3, <1>4 DEF w, WellKept

LEMMA RemoveKeeps ==
    ASSUME NEW v, WellKept(v), NEW a \in Accounts
    PROVE  LET w == remove(v, a)
           IN  WellKept(w) /\ w.filter_range = NoRange /\ Rows(w.list) = Rows(v.list) \ {a}
<1> DEFINE s == Sort(v).list
           t == Without(s, a)
           w == remove(v, a)
<1>1. s \in Seq(Accounts) /\ Ordered(s) /\ Rows(s) = Rows(v.list)
      BY SortKeeps
<1>2. w.list = t /\ w.sorted = TRUE /\ w.filter_range = NoRange
      <2>1. w = View(t, TRUE, NoRange)
            BY DEF remove
      <2> HIDE DEF w, t
      <2> QED BY Zenon, <2>1 DEF View
<1>3. t \in Seq(Accounts) /\ Rows(t) = Rows(s) \ {a} /\ Ordered(t)
      BY <1>1, RemoveRow
<1> HIDE DEF s, t, w
<1>4. Distinct(t)
      BY <1>3, OrderedIsDistinct
<1> QED BY <1>1, <1>2, <1>3, <1>4 DEF w, WellKept

\* One record of a reload.
LEMMA LoadOneKeeps ==
    ASSUME NEW v, WellKept(v), NEW a \in Accounts
    PROVE  WellKept(LoadOne(v, a)) /\ Rows(LoadOne(v, a).list) = Rows(v.list) \cup {a}
<1>1. CASE a \in Rows(v.list)
      BY <1>1, SortKeeps DEF LoadOne
<1>2. CASE a \notin Rows(v.list)
      <2> DEFINE s == Sort(v).list
                 t == Append(s, a)
      <2>1. s \in Seq(Accounts) /\ Distinct(s) /\ Rows(s) = Rows(v.list)
            BY SortKeeps DEF WellKept
      <2>2. LoadOne(v, a).list = t /\ LoadOne(v, a).sorted = FALSE
            <3> DEFINE w == LoadOne(v, a)
                       r == Sort(v).filter_range
            <3>1. w = View(t, FALSE, r)
                  BY <1>2 DEF LoadOne, push
            <3> HIDE DEF t, w, r
            <3>2. w.list = t /\ w.sorted = FALSE
                  BY Zenon, <3>1 DEF View
            <3> QED BY <3>2 DEF w
      <2> HIDE DEF s
      <2>3. /\ t \in Seq(Accounts) /\ DOMAIN t = 1..(Len(s) + 1)
            /\ \A i \in 1..Len(s) : t[i] = s[i]
            /\ t[Len(s) + 1] = a
            BY <2>1
      <2>4. Len(s) \in Nat /\ DOMAIN s = 1..Len(s)
            BY <2>1
      <2> HIDE DEF t
      <2>5. ASSUME NEW i \in DOMAIN t, NEW j \in DOMAIN t, t[i] = t[j] PROVE i = j
            <3>1. \A k \in DOMAIN t : (k \in DOMAIN s /\ t[k] = s[k]) \/ (k = Len(s) + 1 /\ t[k] = a)
                  BY <2>3, <2>4
            <3>2. \A k \in DOMAIN s : s[k] # a
                  BY <1>2, <2>1 DEF Rows
            <3>3. CASE t[i] = a
                  BY <2>5, <3>1, <3>2, <3>3
            <3>4. CASE t[i] # a
                  BY <2>1, <2>5, <3>1, <3>4 DEF Distinct
            <3> QED BY <3>3, <3>4
      <2>6. Rows(t) = Rows(s) \cup {a}
            <3>1. \A k \in DOMAIN t : (k \in DOMAIN s /\ t[k] = s[k]) \/ (k = Len(s) + 1 /\ t[k] = a)
                  BY <2>3, <2>4
            <3>2. \A k \in DOMAIN s : k \in DOMAIN t /\ t[k] = s[k]
                  BY <2>3, <2>4
            <3>3. Len(s) + 1 \in DOMAIN t
                  BY <2>3, <2>4
            <3> QED BY <2>3, <3>1, <3>2, <3>3 DEF Rows
      <2> QED BY <2>1, <2>2, <2>3, <2>5, <2>6 DEF WellKept, Distinct
<1> QED BY <1>1, <1>2

\* All of them: the fold of LoadOne is defined, and keeps the list.
Loads(g, order, k, v) ==
    g = [S \in SUBSET (1..k) |-> IF S = {} THEN v
                                 ELSE LoadOne(g[S \ {Max(S)}], order[Max(S)])]

LEMMA LargestIs ==
    ASSUME NEW S \in SUBSET Nat, NEW m \in S, \A x \in S : x <= m
    PROVE  Max(S) = m
<1>1. \A x \in S : m >= x
      OBVIOUS
<1>2. Max(S) \in S /\ \A y \in S : Max(S) >= y
      BY Zenon, <1>1 DEF Max
<1> HIDE DEF Max
<1>3. m \in Nat /\ Max(S) \in Nat /\ m >= Max(S) /\ Max(S) >= m
      BY <1>1, <1>2
<1> QED BY <1>3

LEMMA LargestExists ==
    ASSUME NEW k \in Nat, NEW S \in SUBSET (1..k), S # {}
    PROVE  Max(S) \in S /\ \A x \in S : x <= Max(S)
<1> DEFINE T == {k - x : x \in S}
<1>1. T \subseteq Nat /\ T # {}
      BY \A x \in S : k - x \in Nat
<1>2. PICK z \in T : \A y \in T : z <= y
      <2> HIDE DEF T
      <2> QED BY <1>1, LeastExists
<1>3. PICK m \in S : z = k - m
      OBVIOUS
<1>4. \A x \in S : x <= m
      <2>1. \A x \in S : z <= k - x
            BY <1>2
      <2> HIDE DEF T
      <2> QED BY <1>3, <2>1
<1> HIDE DEF T
<1>5. Max(S) = m
      BY <1>4, LargestIs
<1> QED BY <1>4, <1>5

LEMMA LoadsExists ==
    ASSUME NEW v, NEW order, NEW n \in Nat
    PROVE  \E g : Loads(g, order, n, v)
<1> DEFINE T == {k \in Nat : ~\E g : Loads(g, order, k, v)}
<1> SUFFICES ASSUME T # {} PROVE FALSE
    OBVIOUS
<1>1. PICK k \in T : \A y \in T : k <= y
      <2> HIDE DEF T
      <2>1. T \subseteq Nat
            BY DEF T
      <2> QED BY <2>1, LeastExists
<1>2. k \in Nat /\ ~\E g : Loads(g, order, k, v)
      OBVIOUS
<1>3. CASE k = 0
      <2> DEFINE g == [S \in SUBSET (1..0) |-> v]
      <2>1. SUBSET (1..0) = {{}}
            OBVIOUS
      <2>2. Loads(g, order, 0, v)
            BY <2>1 DEF Loads
      <2> QED BY <1>2, <1>3, <2>2
<1>4. CASE k # 0
      <2>1. k - 1 \in Nat /\ k - 1 \notin T
            BY <1>1, <1>2, <1>4
      <2>2. PICK h : Loads(h, order, k - 1, v)
            BY <2>1
      <2> DEFINE g == [S \in SUBSET (1..k) |->
                          IF k \in S THEN LoadOne(h[S \ {k}], order[k]) ELSE h[S]]
      <2>3. ASSUME NEW S \in SUBSET (1..k)
            PROVE  g[S] = IF S = {} THEN v ELSE LoadOne(g[S \ {Max(S)}], order[Max(S)])
            <3>1. CASE k \in S
                  <4>1. Max(S) = k
                        <5>1. S \in SUBSET Nat /\ \A x \in S : x <= k
                              OBVIOUS
                        <5> QED BY <3>1, <5>1, LargestIs
                  <4>2. S \ {k} \in SUBSET (1..k) /\ k \notin S \ {k}
                        OBVIOUS
                  <4>3. g[S \ {k}] = h[S \ {k}] /\ g[S] = LoadOne(h[S \ {k}], order[k])
                        BY <3>1, <4>2
                  <4> HIDE DEF g
                  <4> QED BY <3>1, <4>1, <4>3
            <3>2. CASE k \notin S
                  <4>1. S \in SUBSET (1..(k - 1))
                        BY <1>2, <3>2
                  <4>2. g[S] = h[S]
                        BY <3>2
                  <4>3. h[S] = IF S = {} THEN v ELSE LoadOne(h[S \ {Max(S)}], order[Max(S)])
                        BY <2>2, <4>1 DEF Loads
                  <4>4. g[S \ {Max(S)}] = h[S \ {Max(S)}]
                        <5>1. S \ {Max(S)} \in SUBSET (1..k) /\ k \notin S \ {Max(S)}
                              BY <3>2
                        <5> QED BY <5>1
                  <4> HIDE DEF g
                  <4> QED BY <4>2, <4>3, <4>4
            <3> QED BY <3>1, <3>2
      <2>4. g = [S \in SUBSET (1..k) |-> g[S]]
            OBVIOUS
      <2> HIDE DEF g
      <2>5. Loads(g, order, k, v)
            BY <2>3, <2>4 DEF Loads
      <2> QED BY <1>2, <2>5
<1> QED BY <1>3, <1>4

LEMMA LoadsKeeps ==
    ASSUME NEW v, WellKept(v), NEW n \in Nat, NEW order \in [1..n -> Accounts],
           NEW g, Loads(g, order, n, v)
    PROVE  WellKept(g[1..n]) /\ Rows(g[1..n].list) = Rows(v.list) \cup {order[i] : i \in 1..n}
<1> DEFINE Good(k) == /\ WellKept(g[1..k])
                      /\ Rows(g[1..k].list) = Rows(v.list) \cup {order[i] : i \in 1..k}
           T == {k \in 0..n : ~Good(k)}
<1>1. Good(0)
      <2>1. 1..0 = {} /\ {} \in SUBSET (1..n) /\ {order[i] : i \in {}} = {}
            OBVIOUS
      <2>2. g[{}] = v
            BY <2>1 DEF Loads
      <2> QED BY <2>1, <2>2
<1>2. ASSUME NEW k \in 1..n, Good(k - 1) PROVE Good(k)
      <2>1. 1..k \in SUBSET (1..n) /\ 1..k # {} /\ k \in 1..k /\ order[k] \in Accounts
            OBVIOUS
      <2>2. Max(1..k) = k
            <3>1. 1..k \in SUBSET Nat /\ \A x \in 1..k : x <= k
                  OBVIOUS
            <3> QED BY <2>1, <3>1, LargestIs
      <2>3. (1..k) \ {k} = 1..(k - 1)
            OBVIOUS
      <2>4. g[1..k] = LoadOne(g[1..(k - 1)], order[k])
            BY <2>1, <2>2, <2>3 DEF Loads
      <2>5. /\ WellKept(g[1..k])
            /\ Rows(g[1..k].list) = Rows(g[1..(k - 1)].list) \cup {order[k]}
            <3> DEFINE h == g[1..(k - 1)]
            <3>1. WellKept(h)
                  BY <1>2
            <3> HIDE DEF h
            <3>2. /\ WellKept(LoadOne(h, order[k]))
                  /\ Rows(LoadOne(h, order[k]).list) = Rows(h.list) \cup {order[k]}
                  BY <2>1, <3>1, LoadOneKeeps
            <3> QED BY <2>4, <3>2 DEF h
      <2>6. {order[i] : i \in 1..k} = {order[i] : i \in 1..(k - 1)} \cup {order[k]}
            <3>1. \A i \in 1..k : i = k \/ i \in 1..(k - 1)
                  OBVIOUS
            <3>2. \A i \in 1..(k - 1) : i \in 1..k
                  OBVIOUS
            <3> QED BY <2>1, <3>1, <3>2
      <2> QED BY <1>2, <2>5, <2>6
<1> SUFFICES ASSUME T # {} PROVE FALSE
    BY n \in 0..n
<1> HIDE DEF Good
<1>3. PICK k \in T : \A y \in T : k <= y
      <2>1. T \subseteq Nat
            OBVIOUS
      <2> HIDE DEF T
      <2> QED BY <2>1, LeastExists
<1>4. k \in 0..n /\ ~Good(k) /\ k # 0
      BY <1>1
<1>5. k \in 1..n /\ k - 1 \in 0..n /\ Good(k - 1)
      <2>1. k \in 1..n /\ k - 1 \in 0..n /\ ~(k <= k - 1)
            BY <1>4
      <2> QED BY <1>3, <2>1
<1> QED BY <1>2, <1>4, <1>5

\* A reload adds what is missing, in whatever order the keys come.
LEMMA LoadedKeeps ==
    ASSUME NEW v, WellKept(v), NEW d \in SUBSET Accounts, NEW w \in Loaded(v, d)
    PROVE  /\ WellKept(w) /\ Rows(w.list) = Rows(v.list) \cup d
           /\ w.filter_range = Span(0, Len(w.list))
<1>1. PICK order \in SetToSeqs(d) : w = filter_reset(FoldLeft(LoadOne, v, order))
      BY DEF Loaded
<1> DEFINE n == Cardinality(d)
           u == FoldLeft(LoadOne, v, order)
<1>2. IsFiniteSet(d) /\ n \in Nat
      BY NameAssumption, FS_Subset, FS_CardinalityType
<1>3. order \in [1..n -> d] /\ \A i, j \in 1..n : i # j => order[i] # order[j]
      BY <1>1 DEF SetToSeqs
<1>4. order \in Injection(1..n, d)
      <2> HIDE DEF n
      <2>1. \A i, j \in 1..n : order[i] = order[j] => i = j
            BY <1>3
      <2> QED BY <1>3, <2>1, Fun_IsInj
<1>5. order \in Surjection(1..n, d)
      <2>1. IsFiniteSet(1..n) /\ Cardinality(1..n) = n
            <3> HIDE DEF n
            <3> QED BY <1>2, UpTo
      <2> QED BY <1>2, <1>4, <2>1, FS_Injection
<1>6. {order[i] : i \in 1..n} = d
      <2> HIDE DEF n
      <2> QED BY <1>3, <1>5 DEF Surjection
<1>7. DOMAIN order = 1..n
      BY <1>3
<1>8. u = (CHOOSE g : Loads(g, order, n, v))[1..n]
      <2>1. u = (CHOOSE g : g = [S \in SUBSET DOMAIN order |->
                                   IF S = {} THEN v
                                   ELSE LoadOne(g[S \ {Max(S)}], order[Max(S)])])[DOMAIN order]
            BY DEF FoldLeft, MapThenFoldSet
      <2> HIDE DEF n, u
      <2> QED BY <1>7, <2>1 DEF Loads
<1> DEFINE G == CHOOSE g : Loads(g, order, n, v)
<1>9. Loads(G, order, n, v)
      <2> HIDE DEF n
      <2>1. \E g : Loads(g, order, n, v)
            BY <1>2, LoadsExists
      <2> QED BY <2>1
<1> HIDE DEF G, n, u
<1>10. u = G[1..n]
      BY <1>8 DEF G
<1>11. order \in [1..n -> Accounts]
      BY <1>3
<1>12. WellKept(u) /\ Rows(u.list) = Rows(v.list) \cup d
      BY <1>2, <1>6, <1>9, <1>10, <1>11, LoadsKeeps
<1>13. w = View(u.list, u.sorted, Span(0, Len(u.list)))
      BY <1>1 DEF u, filter_reset
<1>14. w.list = u.list /\ w.sorted = u.sorted /\ w.filter_range = Span(0, Len(u.list))
      BY <1>13, ViewFields
<1> QED BY <1>12, <1>14 DEF WellKept

-----------------------------------------------------------------------------
(* The filter.                                                              *)

KeptOf(v) == IF v.filter_range = NoRange THEN {}
             ELSE v.filter_range.start + 1 .. v.filter_range.end

\* FilterKeepsMatches, of a list and the criterion it was filtered by.
KeepsMatches(v, c) ==
    \A i \in DOMAIN v.list :
        /\ i \in KeptOf(v) => Starts(v.list[i], c)
        /\ Starts(v.list[i], c) => \/ i \in KeptOf(v)
                                   \/ i = 1 /\ NameOf[v.list[1]] = c.at /\ 2 \in KeptOf(v)

\* What the binary search answers: the names before it do not come after the
\* criterion, those from it on do not come before, and if there is such a name at
\* all it is that of the row.
LEMMA FoundIs ==
    ASSUME NEW s \in Seq(Accounts), Ordered(s), NEW c \in Criteria, NEW i \in Found(s, c)
    PROVE  /\ i \in 1..(Len(s) + 1)
           /\ \A j \in DOMAIN s : j < i => NameOf[s[j]] <= c.at
           /\ \A j \in DOMAIN s : i <= j => NameOf[s[j]] >= c.at
           /\ (\E j \in DOMAIN s : NameOf[s[j]] = c.at)
                 => i \in DOMAIN s /\ NameOf[s[i]] = c.at
<1> DEFINE same == {j \in DOMAIN s : NameOf[s[j]] = c.at}
           low  == {j \in DOMAIN s : NameOf[s[j]] < c.at}
           k    == Cardinality(low)
<1>1. /\ DOMAIN s = 1..Len(s) /\ Len(s) \in Nat /\ c.at \in Nat
      /\ \A j \in DOMAIN s : NameOf[s[j]] \in Nat
      /\ \A j, m \in DOMAIN s : j <= m => NameOf[s[j]] <= NameOf[s[m]]
      <2>1. c.at \in Nat
            BY CriteriaAssumption
      <2>2. \A j \in DOMAIN s : s[j] \in Accounts
            OBVIOUS
      <2>3. \A j \in DOMAIN s : NameOf[s[j]] \in Nat
            BY <2>2, NameAssumption
      <2> QED BY <2>1, <2>3, OrderedIsDistinct
<1>2. i \in (IF same # {} THEN same ELSE {1 + k})
      BY DEF Found
<1>3. CASE same # {}
      <2>1. i \in DOMAIN s /\ NameOf[s[i]] = c.at
            BY <1>2, <1>3
      <2> HIDE DEF same, low, k
      <2>2. \A j \in DOMAIN s : j < i => NameOf[s[j]] <= c.at
            BY <1>1, <2>1
      <2>3. \A j \in DOMAIN s : i <= j => NameOf[s[j]] >= c.at
            BY <1>1, <2>1
      <2>4. i \in 1..(Len(s) + 1)
            BY <1>1, <2>1
      <2> QED BY <2>1, <2>2, <2>3, <2>4
<1>4. CASE same = {}
      <2>1. low \in SUBSET (1..Len(s))
            BY <1>1
      <2>2. ASSUME NEW j \in low, NEW m \in 1..Len(s), m < j PROVE m \in low
            <3>1. j \in DOMAIN s /\ m \in DOMAIN s /\ m <= j /\ NameOf[s[j]] < c.at
                  BY <1>1, <2>2
            <3>2. NameOf[s[m]] <= NameOf[s[j]] /\ NameOf[s[m]] \in Nat /\ NameOf[s[j]] \in Nat
                  BY <1>1, <3>1
            <3>3. NameOf[s[m]] < c.at
                  BY <1>1, <3>1, <3>2
            <3> QED BY <3>1, <3>3
      <2>3. k \in 0..Len(s) /\ low = 1..k
            <3> HIDE DEF low
            <3> QED BY <1>1, <2>1, <2>2, Downward
      <2>4. i = 1 + k
            BY <1>2, <1>4
      <2>5. \A j \in DOMAIN s : j \in 1..k <=> NameOf[s[j]] < c.at
            <3>1. \A j \in DOMAIN s : j \in low <=> NameOf[s[j]] < c.at
                  OBVIOUS
            <3> HIDE DEF low, k
            <3> QED BY <2>3, <3>1
      <2>6. ~\E j \in DOMAIN s : NameOf[s[j]] = c.at
            BY <1>4
      <2> HIDE DEF same, low, k
      <2>7. \A j \in DOMAIN s : j < i => NameOf[s[j]] <= c.at
            BY <1>1, <2>3, <2>4, <2>5
      <2>8. \A j \in DOMAIN s : i <= j => NameOf[s[j]] >= c.at
            BY <1>1, <2>3, <2>4, <2>5
      <2>9. i \in 1..(Len(s) + 1)
            BY <1>1, <2>3, <2>4
      <2> QED BY <2>6, <2>7, <2>8, <2>9
<1> QED BY <1>3, <1>4

LEMMA FirstIs ==
    ASSUME NEW s \in Seq(Accounts), NEW c, NEW i \in DOMAIN s, Starts(s[i], c)
    PROVE  LET k == FirstMatch(s, c, i)
           IN  /\ k \in (2..i) \cup {i}
               /\ \A m \in k..i : Starts(s[m], c)
               /\ k > 2 => ~Starts(s[k - 1], c)
<1> DEFINE T == {k \in (2..i) \cup {i} : \A m \in k..i : Starts(s[m], c)}
<1>1. i \in Nat /\ i >= 1
      BY RowsOfSeq
<1>2. \A m \in i..i : m = i
      BY <1>1
<1>3. i \in T /\ T \subseteq Nat
      BY <1>1, <1>2
<1>4. PICK k \in T : \A y \in T : k <= y
      <2> HIDE DEF T
      <2> QED BY <1>3, LeastExists
<1>5. k \in (2..i) \cup {i} /\ \A m \in k..i : Starts(s[m], c)
      BY <1>4
<1>6. ASSUME k > 2, Starts(s[k - 1], c) PROVE FALSE
      <2>1. k - 1 \in 2..i /\ k \in Nat
            BY <1>1, <1>5, <1>6
      <2>2. \A m \in (k - 1)..i : m = k - 1 \/ m \in k..i
            BY <1>1, <2>1
      <2>3. k - 1 \in T
            BY <1>5, <1>6, <2>1, <2>2
      <2> HIDE DEF T
      <2> QED BY <1>4, <2>1, <2>3
<1> HIDE DEF T
<1>7. \E x \in (2..i) \cup {i} : /\ \A m \in x..i : Starts(s[m], c)
                                 /\ x > 2 => ~Starts(s[x - 1], c)
      BY <1>5, <1>6
<1> QED BY <1>7, Zenon DEF FirstMatch

LEMMA LastIs ==
    ASSUME NEW s \in Seq(Accounts), NEW c, NEW i \in DOMAIN s, Starts(s[i], c)
    PROVE  LET k == LastMatch(s, c, i)
           IN  /\ k \in i..Len(s)
               /\ \A m \in i..k : Starts(s[m], c)
               /\ k < Len(s) => ~Starts(s[k + 1], c)
<1> DEFINE n == Len(s)
           T == {k \in i..n : k < n => ~Starts(s[k + 1], c)}
<1>1. i \in Nat /\ i >= 1 /\ i <= n /\ n \in Nat
      BY RowsOfSeq
<1> HIDE DEF n
<1>2. n \in T /\ T \subseteq Nat
      BY <1>1
<1>3. PICK k \in T : \A y \in T : k <= y
      <2> HIDE DEF T
      <2> QED BY <1>2, LeastExists
<1>4. k \in i..n /\ (k < n => ~Starts(s[k + 1], c))
      BY <1>3
<1>5. ASSUME NEW m \in i..k PROVE Starts(s[m], c)
      <2>1. CASE m = i
            BY <2>1
      <2>2. CASE m # i
            <3>1. m - 1 \in i..n /\ m - 1 < n /\ ~(k <= m - 1) /\ (m - 1) + 1 = m
                  BY <1>1, <1>4, <2>2
            <3>2. m - 1 \notin T
                  <4> HIDE DEF T
                  <4> QED BY <1>3, <3>1
            <3> QED BY <3>1, <3>2
      <2> QED BY <2>1, <2>2
<1> HIDE DEF T
<1>6. \E x \in i..n : /\ \A m \in i..x : Starts(s[m], c)
                      /\ x < n => ~Starts(s[x + 1], c)
      BY <1>4, <1>5
<1> QED BY <1>6, Zenon DEF LastMatch, n

LEMMA FilteredKeeps ==
    ASSUME NEW v, WellKept(v), Within(v), NEW c \in Criteria, NEW w \in Filtered(v, c)
    PROVE  /\ WellKept(w) /\ Within(w) /\ Rows(w.list) = Rows(v.list)
           /\ KeepsMatches(w, c)
<1> DEFINE s == Sort(v).list
           n == Len(s)
           At(i) == IF i <= n THEN i ELSE n
           R(i) == IF Starts(s[At(i)], c)
                   THEN Span(FirstMatch(s, c, i) - 1, LastMatch(s, c, i))
                   ELSE NoRange
<1>1. s \in Seq(Accounts) /\ Ordered(s) /\ Distinct(s) /\ Rows(s) = Rows(v.list) /\ n = Len(v.list)
      BY SortKeeps DEF WellKept
<1>2. CASE s = <<>>
      <2>1. w = View(s, TRUE, v.filter_range)
            BY <1>2 DEF Filtered
      <2> HIDE DEF s
      <2>2. w.list = s /\ w.sorted = TRUE /\ w.filter_range = v.filter_range
            BY Zenon, <2>1 DEF View
      <2>3. DOMAIN w.list = {}
            BY <1>2, <2>2
      <2>4. KeepsMatches(w, c)
            BY <2>3 DEF KeepsMatches
      <2> QED BY <1>1, <2>2, <2>4 DEF WellKept, Within
<1>3. CASE s # <<>>
      <2>1. PICK i \in Found(s, c) : w = View(s, TRUE, R(i))
            BY <1>3 DEF Filtered
      <2> DEFINE r == R(i)
      <2>2. w.list = s /\ w.sorted = TRUE /\ w.filter_range = r
            <3> HIDE DEF s, r
            <3> QED BY Zenon, <2>1 DEF View, r
      <2> HIDE DEF s
      <2>3. n \in Nat /\ n >= 1 /\ DOMAIN s = 1..n
            BY <1>1, <1>3
      <2>4. \A j \in DOMAIN s : NameOf[s[j]] \in Nat /\ s[j] \in Accounts
            <3>1. \A j \in DOMAIN s : s[j] \in Accounts
                  BY <1>1
            <3> QED BY <3>1, NameAssumption
      <2>5. c.at \in Nat /\ c.last \in Int
            BY CriteriaAssumption
      <2>6. \A j \in DOMAIN s : Starts(s[j], c) <=> NameOf[s[j]] >= c.at /\ NameOf[s[j]] <= c.last
            BY <2>4, <2>5 DEF Starts
      <2>7. \A j, m \in DOMAIN s : j <= m => NameOf[s[j]] <= NameOf[s[m]]
            BY <1>1, OrderedIsDistinct
      <2>8. /\ i \in 1..(n + 1)
            /\ \A j \in DOMAIN s : j < i => NameOf[s[j]] <= c.at
            /\ \A j \in DOMAIN s : i <= j => NameOf[s[j]] >= c.at
            /\ (\E j \in DOMAIN s : NameOf[s[j]] = c.at) => i \in DOMAIN s /\ NameOf[s[i]] = c.at
            BY <1>1, FoundIs
      <2>9. (\E j \in DOMAIN s : NameOf[s[j]] = c.at) => c.at <= c.last
            <3>1. (\E j \in DOMAIN s : NameOf[s[j]] = c.at) => c.at \in {NameOf[a] : a \in Accounts}
                  BY <2>4
            <3> QED BY <3>1, CriteriaAssumption
      <2>10. CASE ~Starts(s[At(i)], c)
            <3>1. r = NoRange
                  BY <2>10
            <3>2. ASSUME NEW j \in DOMAIN s PROVE ~Starts(s[j], c)
                  <4>1. CASE i \in DOMAIN s
                        <5>1. ~Starts(s[i], c)
                              BY <2>3, <2>10, <4>1
                        <5>2. NameOf[s[i]] >= c.at /\ ~(NameOf[s[i]] <= c.last)
                              BY <2>3, <2>6, <2>8, <4>1, <5>1
                        <5>3. ~\E m \in DOMAIN s : NameOf[s[m]] = c.at
                              BY <2>4, <2>5, <2>8, <2>9, <5>2
                        <5>4. CASE j < i
                              BY <2>4, <2>5, <2>6, <2>8, <5>3, <5>4
                        <5>5. CASE i <= j
                              <6>1. NameOf[s[i]] <= NameOf[s[j]]
                                    BY <2>7, <4>1, <5>5
                              <6> QED BY <2>4, <2>5, <2>6, <4>1, <5>2, <6>1
                        <5> QED BY <2>3, <2>8, <5>4, <5>5
                  <4>2. CASE i \notin DOMAIN s
                        <5>1. j < i /\ ~\E m \in DOMAIN s : NameOf[s[m]] = c.at
                              BY <2>3, <2>8, <4>2
                        <5> QED BY <2>4, <2>5, <2>6, <2>8, <5>1
                  <4> QED BY <4>1, <4>2
            <3>3. KeptOf(w) = {}
                  BY <2>2, <3>1 DEF KeptOf
            <3>4. KeepsMatches(w, c)
                  BY <2>2, <3>2, <3>3 DEF KeepsMatches
            <3> QED BY <1>1, <2>2, <3>1, <3>4 DEF WellKept, Within
      <2>11. CASE Starts(s[At(i)], c)
            <3> DEFINE f == FirstMatch(s, c, i)
                       l == LastMatch(s, c, i)
            <3>1. i \in DOMAIN s /\ Starts(s[i], c)
                  <4>1. CASE i \in DOMAIN s
                        BY <2>3, <2>11, <4>1
                  <4>2. CASE i \notin DOMAIN s
                        <5>0. n \in DOMAIN s /\ n < i /\ ~(i <= n)
                              <6> HIDE DEF n
                              <6> QED BY <2>3, <2>8, <4>2
                        <5>1. At(i) = n /\ n \in DOMAIN s /\ n < i
                              BY Zenon, <5>0
                        <5>2. NameOf[s[n]] >= c.at /\ NameOf[s[n]] <= c.at
                              BY <2>6, <2>8, <2>11, <5>1
                        <5>3. NameOf[s[n]] = c.at
                              BY <2>4, <2>5, <5>1, <5>2
                        <5> QED BY <2>8, <4>2, <5>1, <5>3
                  <4> QED BY <4>1, <4>2
            <3>2. /\ f \in (2..i) \cup {i}
                  /\ \A m \in f..i : Starts(s[m], c)
                  /\ f > 2 => ~Starts(s[f - 1], c)
                  BY <1>1, <3>1, FirstIs
            <3>3. /\ l \in i..n
                  /\ \A m \in i..l : Starts(s[m], c)
                  /\ l < n => ~Starts(s[l + 1], c)
                  BY <1>1, <3>1, LastIs
            <3>4. r = Span(f - 1, l)
                  BY <2>11
            <3> HIDE DEF f, l, r
            <3>5. f \in 1..n /\ l \in 1..n /\ f <= i /\ i <= l /\ i \in 1..n
                  BY <2>3, <3>1, <3>2, <3>3
            <3>6. KeptOf(w) = f..l
                  <4>1. r # NoRange /\ r.start = f - 1 /\ r.end = l
                        BY <3>4, SpanFields
                  <4>2. KeptOf(w) = (f - 1) + 1 .. l
                        BY <2>2, <4>1 DEF KeptOf
                  <4>3. (f - 1) + 1 = f
                        BY <3>5
                  <4> QED BY <4>2, <4>3
            <3>7. Within(w)
                  <4>1. f - 1 \in Nat /\ l \in Nat /\ f - 1 <= l /\ l <= n
                        BY <2>3, <3>5
                  <4>2. r \in [start : Nat, end : Nat] /\ r.start = f - 1 /\ r.end = l
                        BY <3>4, <4>1, SpanFields
                  <4> QED BY <2>2, <4>1, <4>2 DEF Within
            <3>8. ASSUME NEW j \in DOMAIN s, j \in f..l PROVE Starts(s[j], c)
                  <4>1. j \in f..i \/ j \in i..l
                        BY <3>5, <3>8
                  <4> QED BY <3>2, <3>3, <4>1
            <3>9. ASSUME NEW j \in DOMAIN s, Starts(s[j], c), j \notin f..l
                  PROVE  j = 1 /\ NameOf[s[1]] = c.at /\ 2 \in f..l
                  <4>1. CASE j > l
                        <5>1. l + 1 \in DOMAIN s /\ i <= l + 1 /\ l + 1 <= j /\ l < n
                              BY <2>3, <3>5, <3>9, <4>1
                        <5>2. ~Starts(s[l + 1], c) /\ NameOf[s[l + 1]] >= c.at
                              BY <2>8, <3>3, <5>1
                        <5>3. ~(NameOf[s[l + 1]] <= c.last)
                              BY <2>6, <5>1, <5>2
                        <5>4. NameOf[s[l + 1]] <= NameOf[s[j]] /\ NameOf[s[j]] <= c.last
                              BY <2>6, <2>7, <3>9, <5>1
                        <5>5. /\ NameOf[s[l + 1]] \in Nat /\ NameOf[s[j]] \in Nat
                              BY <2>4, <5>1
                        <5> DEFINE x == NameOf[s[l + 1]]
                                   y == NameOf[s[j]]
                                   z == c.last
                        <5>6. x \in Nat /\ y \in Nat /\ z \in Int /\ x <= y /\ y <= z /\ ~(x <= z)
                              BY <2>5, <5>3, <5>4, <5>5
                        <5> HIDE DEF x, y, z
                        <5> QED BY <5>6
                  <4>2. CASE j < f
                        <5>1. j < i /\ NameOf[s[j]] <= c.at /\ NameOf[s[j]] >= c.at
                              BY <2>3, <2>6, <2>8, <3>5, <3>9, <4>2
                        <5>2. NameOf[s[j]] = c.at
                              BY <2>4, <2>5, <5>1
                        <5>3. ~(f > 2)
                              <6> SUFFICES ASSUME f > 2 PROVE FALSE
                                  OBVIOUS
                              <6>1. f - 1 \in DOMAIN s /\ f - 1 < i /\ j <= f - 1
                                    BY <2>3, <3>5, <4>2
                              <6>2. NameOf[s[f - 1]] <= c.at /\ NameOf[s[j]] <= NameOf[s[f - 1]]
                                    BY <2>7, <2>8, <6>1
                              <6>3. NameOf[s[f - 1]] = c.at
                                    BY <2>4, <2>5, <5>2, <6>1, <6>2
                              <6>4. Starts(s[f - 1], c)
                                    BY <2>6, <3>9, <5>2, <6>1, <6>3
                              <6> QED BY <3>2, <6>4
                        <5>4. f = 2 /\ j = 1
                              BY <2>3, <3>5, <4>2, <5>3
                        <5> QED BY <3>5, <5>2, <5>4
                  <4> QED BY <2>3, <3>5, <3>9, <4>1, <4>2
            <3>10. KeepsMatches(w, c)
                  BY <2>2, <3>6, <3>8, <3>9 DEF KeepsMatches
            <3> QED BY <1>1, <2>2, <3>7, <3>10 DEF WellKept
      <2> QED BY <2>10, <2>11
<1> QED BY <1>2, <1>3

-----------------------------------------------------------------------------
(* The inductive invariant.                                                 *)

IInv == TypeOK /\ RangeInList /\ ListInOrder /\ FilterKeepsMatches

LEMMA ThisIsKept ==
    ASSUME IInv
    PROVE  /\ WellKept(This) /\ Within(This)
           /\ This.list = list /\ This.sorted = sorted /\ This.filter_range = filter_range
<1>1. This.list = list /\ This.filter_range = filter_range
      BY Zenon DEF This, View
<1>2. This.sorted = sorted
      BY Zenon DEF This, View
<1> QED BY <1>1, <1>2 DEF IInv, TypeOK, RangeInList, ListInOrder, WellKept, Within, Distinct, Ordered

\* What is drawn is made of the names.
LEMMA DrawnNames ==
    ASSUME NEW v, WellKept(v), Within(v)
    PROVE  [i \in DOMAIN filtered_list(v) |-> NameOf[filtered_list(v)[i]]]
              \in Seq({NameOf[a] : a \in Accounts})
<1> DEFINE l == filtered_list(v)
<1>1. l \in Seq(Accounts)
      <2>1. CASE v.filter_range = NoRange
            BY <2>1 DEF filtered_list, WellKept
      <2>2. CASE v.filter_range # NoRange
            <3> DEFINE x == v.filter_range.start
                       y == v.filter_range.end
            <3>1. x \in Nat /\ y \in Nat /\ y <= Len(v.list) /\ v.list \in Seq(Accounts)
                  BY <2>2 DEF Within, WellKept
            <3>2. l = SubSeq(v.list, x + 1, y)
                  BY <2>2 DEF filtered_list
            <3> HIDE DEF x, y, l
            <3>3. x + 1 \in Int /\ y \in Int /\ \A i \in (x + 1)..y : v.list[i] \in Accounts
                  BY <3>1
            <3> QED BY <3>2, <3>3, SubSeqProperties
      <2> QED BY <2>1, <2>2
<1> HIDE DEF l
<1>2. DOMAIN l = 1..Len(l) /\ Len(l) \in Nat /\ \A i \in DOMAIN l : l[i] \in Accounts
      BY <1>1
<1> DEFINE d == [i \in DOMAIN l |-> NameOf[l[i]]]
           N == {NameOf[a] : a \in Accounts}
<1>3. d \in [1..Len(l) -> N]
      BY <1>2
<1>4. d \in Seq(N)
      <2> HIDE DEF d, N
      <2> QED BY <1>2, <1>3
<1> QED BY <1>4 DEF l

\* A list that is kept gives a state that is.
LEMMA KeptAfter ==
    ASSUME NEW w, WellKept(w), Within(w), Becomes(w)
    PROVE  /\ list' \in Seq(Accounts) /\ sorted' \in BOOLEAN
           /\ filter_range' = NoRange \/ filter_range' \in [start : Nat, end : Nat]
           /\ RangeInList' /\ ListInOrder'
           /\ Rows(list') = Rows(w.list)
<1>1. list' = w.list /\ (sorted' <=> w.sorted) /\ sorted' = w.sorted /\ filter_range' = w.filter_range
      BY DEF Becomes
<1>2. RangeInList'
      BY <1>1 DEF RangeInList, Within
<1>3. ListInOrder'
      BY <1>1 DEF ListInOrder, WellKept, Distinct, Ordered
<1>4. sorted' \in BOOLEAN
      BY Zenon, <1>1 DEF WellKept
<1> QED BY <1>1, <1>2, <1>3, <1>4 DEF WellKept, Within

LEMMA EmptyIsKept == WellKept(Empty) /\ Within(Empty) /\ Rows(Empty.list) = {}
<1>1. Empty.list = <<>> /\ Empty.filter_range = NoRange
      BY Zenon DEF Empty, View
<1>2. Empty.sorted = FALSE
      BY Zenon DEF Empty, View
<1>3. <<>> \in Seq(Accounts) /\ DOMAIN <<>> = {}
      OBVIOUS
<1>4. Distinct(<<>>) /\ Rows(<<>>) = {}
      BY <1>3 DEF Distinct, Rows
<1> QED BY <1>1, <1>2, <1>3, <1>4 DEF WellKept, Within

\* A range of the whole list lies in it.
LEMMA WholeIsWithin ==
    ASSUME NEW w, WellKept(w), w.filter_range = Span(0, Len(w.list))
    PROVE  Within(w)
<1>1. Len(w.list) \in Nat /\ 0 \in Nat /\ 0 <= Len(w.list)
      BY DEF WellKept
<1> DEFINE n == Len(w.list)
<1> HIDE DEF n
<1>2. n \in Nat /\ 0 \in Nat /\ 0 <= n /\ w.filter_range = Span(0, n)
      BY <1>1 DEF n
<1>3. Span(0, n) \in [start : Nat, end : Nat] /\ Span(0, n).start = 0 /\ Span(0, n).end = n
      BY <1>2, SpanFields
<1> QED BY <1>2, <1>3 DEF Within, n

\* What an operation on the list leaves of the invariant.
ListInv == /\ list \in Seq(Accounts) /\ sorted \in BOOLEAN
           /\ filter_range = NoRange \/ filter_range \in [start : Nat, end : Nat]
           /\ RangeInList /\ ListInOrder

LEMMA ReloadKeeps ==
    ASSUME NEW v, WellKept(v), disk' \in SUBSET Accounts, ReloadFrom(v)
    PROVE  /\ ListInv' /\ display' \in Seq({NameOf[a] : a \in Accounts})
           /\ Rows(list') = Rows(v.list) \cup disk'
<1>1. PICK w \in Loaded(v, disk') : Becomes(w) /\ refresh_draw_list(w)
      BY DEF ReloadFrom
<1>2. /\ WellKept(w) /\ Rows(w.list) = Rows(v.list) \cup disk'
      /\ w.filter_range = Span(0, Len(w.list))
      BY LoadedKeeps
<1>3. Within(w)
      BY <1>2, WholeIsWithin
<1>4. display' \in Seq({NameOf[a] : a \in Accounts})
      BY <1>1, <1>2, <1>3, DrawnNames DEF refresh_draw_list
<1>5. ListInv' /\ Rows(list') = Rows(w.list)
      BY <1>1, <1>2, <1>3, KeptAfter DEF ListInv
<1> QED BY <1>2, <1>4, <1>5

LEMMA SelectedIsRow ==
    ASSUME IInv, NEW row, NEW a \in Selected(row)
    PROVE  a \in Rows(list) /\ a \in Accounts
<1> DEFINE named == {i \in DOMAIN list : NameOf[list[i]] = display[row]}
           First(i) == \A j \in named : i <= j
<1>1. named # {} /\ a \in {list[CHOOSE i \in named : First(i)]}
      BY DEF Selected
<1>2. named \subseteq Nat /\ list \in Seq(Accounts)
      BY DEF IInv, TypeOK
<1>3. \E i \in named : First(i)
      <2> HIDE DEF named
      <2> QED BY <1>1, <1>2, LeastExists
<1>4. (CHOOSE i \in named : First(i)) \in named
      <2> HIDE DEF named, First
      <2> QED BY <1>3
<1>5. \E i \in DOMAIN list : a = list[i]
      BY <1>1, <1>4
<1> QED BY <1>2, <1>5 DEF Rows

LEMMA InitInv == ASSUME Init PROVE IInv /\ Items!Init
<1>1. PICK w \in Loaded(Empty, disk) :
         /\ list = w.list
         /\ sorted = w.sorted
         /\ filter_range = w.filter_range
         /\ display = [i \in DOMAIN filtered_list(w) |-> NameOf[filtered_list(w)[i]]]
      BY DEF Init
<1>2. disk \in SUBSET Accounts /\ asked = NoFilter
      BY DEF Init
<1>3. /\ WellKept(w) /\ Rows(w.list) = Rows(Empty.list) \cup disk
      /\ w.filter_range = Span(0, Len(w.list))
      BY <1>2, EmptyIsKept, LoadedKeeps
<1>4. Within(w)
      BY <1>3, WholeIsWithin
<1>5. display \in Seq({NameOf[a] : a \in Accounts})
      BY <1>1, <1>3, <1>4, DrawnNames
<1>6. (sorted <=> w.sorted) /\ sorted = w.sorted
      BY <1>1
<1>7. sorted \in BOOLEAN
      BY Zenon, <1>3, <1>6 DEF WellKept
<1>8. /\ list \in Seq(Accounts)
      /\ filter_range = NoRange \/ filter_range \in [start : Nat, end : Nat]
      BY <1>1, <1>3, <1>4 DEF WellKept, Within
<1>9. RangeInList
      BY <1>1, <1>4 DEF RangeInList, Within
<1>10. ListInOrder
      BY <1>1, <1>3, <1>6 DEF ListInOrder, WellKept, Distinct, Ordered
<1>11. TypeOK /\ FilterKeepsMatches
      BY <1>2, <1>5, <1>7, <1>8 DEF TypeOK, FilterKeepsMatches
<1>12. Rows(list) = disk
      BY <1>1, <1>3, EmptyIsKept
<1> QED BY <1>2, <1>9, <1>10, <1>11, <1>12 DEF IInv, Items!Init

-----------------------------------------------------------------------------
(* Every step keeps the invariant and is one of ItemSet.                     *)

StepIsSafe == IInv' /\ [Items!Next]_(Items!vars)

\* Steps that end with no filter asked for.
LEMMA NoneAsked ==
    ASSUME ListInv', display' \in Seq({NameOf[a] : a \in Accounts}),
           disk' \in SUBSET Accounts, asked' = NoFilter
    PROVE  IInv'
BY DEF ListInv, IInv, TypeOK, FilterKeepsMatches

LEMMA ReloadIsSafe == ASSUME IInv, Reload PROVE StepIsSafe
<1>1. disk' = disk /\ ReloadFrom(This) /\ asked' = NoFilter
      BY DEF Reload
<1>2. disk' \in SUBSET Accounts
      BY <1>1 DEF IInv, TypeOK
<1>3. /\ ListInv' /\ display' \in Seq({NameOf[a] : a \in Accounts})
      /\ Rows(list') = Rows(list) \cup disk'
      BY <1>1, <1>2, ThisIsKept, ReloadKeeps
<1>4. Items!Reload
      BY <1>1, <1>3 DEF Items!Reload
<1> QED BY <1>1, <1>2, <1>3, <1>4, NoneAsked DEF StepIsSafe, Items!Next

LEMMA ScanIsSafe == ASSUME IInv, Scan PROVE StepIsSafe
<1>1. PICK a \in Accounts : /\ disk' = disk \cup {a}
                            /\ ReloadFrom(insert_unique(This, a))
                            /\ asked' = NoFilter
      BY DEF Scan
<1>2. disk' \in SUBSET Accounts
      BY <1>1 DEF IInv, TypeOK
<1>3. /\ WellKept(insert_unique(This, a))
      /\ Rows(insert_unique(This, a).list) = Rows(list) \cup {a}
      BY ThisIsKept, InsertKeeps
<1>4. /\ ListInv' /\ display' \in Seq({NameOf[x] : x \in Accounts})
      /\ Rows(list') = (Rows(list) \cup {a}) \cup disk'
      BY <1>1, <1>2, <1>3, ReloadKeeps
<1>5. Items!Scan(a)
      BY <1>1, <1>4 DEF Items!Scan
<1> QED BY <1>1, <1>2, <1>4, <1>5, NoneAsked DEF StepIsSafe, Items!Next

LEMMA DeleteIsSafe == ASSUME IInv, Delete PROVE StepIsSafe
<1>1. PICK row \in DOMAIN display : \E a \in Selected(row) :
         /\ a \in disk
         /\ disk' \in {disk, disk \ {a}}
         /\ ReloadFrom(remove(This, a))
         /\ asked' = NoFilter
      BY DEF Delete
<1>2. PICK a \in Selected(row) : /\ a \in disk
                                 /\ disk' \in {disk, disk \ {a}}
                                 /\ ReloadFrom(remove(This, a))
                                 /\ asked' = NoFilter
      BY <1>1
<1>3. a \in Accounts /\ a \in Rows(list)
      BY SelectedIsRow
<1>4. disk' \in SUBSET Accounts
      BY <1>2 DEF IInv, TypeOK
<1>5. WellKept(remove(This, a)) /\ Rows(remove(This, a).list) = Rows(list) \ {a}
      BY <1>3, ThisIsKept, RemoveKeeps
<1>6. /\ ListInv' /\ display' \in Seq({NameOf[x] : x \in Accounts})
      /\ Rows(list') = (Rows(list) \ {a}) \cup disk'
      BY <1>2, <1>4, <1>5, ReloadKeeps
<1>7. Items!Delete(a) /\ a \in Rows(list) \cap disk
      BY <1>2, <1>3, <1>6 DEF Items!Delete
<1> QED BY <1>2, <1>4, <1>6, <1>7, NoneAsked DEF StepIsSafe, Items!Next

LEMMA EditIsSafe == ASSUME IInv, Edit PROVE StepIsSafe
<1>1. PICK row \in DOMAIN display : \E a \in Selected(row), b \in Accounts :
         /\ a \in disk
         /\ \/ /\ disk' = (disk \ {a}) \cup {b}
               /\ Becomes(insert_unique(remove(This, a), b))
            \/ /\ disk' = disk \ {a}
               /\ Becomes(remove(This, a))
         /\ asked' = NoFilter
         /\ UNCHANGED display
      BY DEF Edit
<1>2. PICK a \in Selected(row), b \in Accounts :
         /\ a \in disk
         /\ \/ /\ disk' = (disk \ {a}) \cup {b}
               /\ Becomes(insert_unique(remove(This, a), b))
            \/ /\ disk' = disk \ {a}
               /\ Becomes(remove(This, a))
         /\ asked' = NoFilter
         /\ UNCHANGED display
      BY <1>1
<1>3. a \in Accounts /\ a \in Rows(list) \cap disk
      BY <1>2, SelectedIsRow
<1>4. disk' \in SUBSET Accounts
      BY <1>2 DEF IInv, TypeOK
<1>5. display' \in Seq({NameOf[x] : x \in Accounts})
      BY <1>2 DEF IInv, TypeOK
<1> DEFINE u == remove(This, a)
           w == insert_unique(u, b)
<1>6. WellKept(u) /\ u.filter_range = NoRange /\ Rows(u.list) = Rows(list) \ {a}
      BY <1>3, ThisIsKept, RemoveKeeps
<1>7. \/ disk' = (disk \ {a}) \cup {b} /\ Becomes(w)
      \/ disk' = disk \ {a} /\ Becomes(u)
      BY <1>2
<1> HIDE DEF u
<1>8. WellKept(w) /\ w.filter_range = NoRange /\ Rows(w.list) = Rows(u.list) \cup {b}
      BY <1>6, InsertKeeps
<1> HIDE DEF w
<1>9. Within(u) /\ Within(w)
      BY <1>6, <1>8 DEF Within
<1>10. CASE disk' = (disk \ {a}) \cup {b} /\ Becomes(w)
      <2>1. ListInv' /\ Rows(list') = (Rows(list) \ {a}) \cup {b}
            BY <1>6, <1>8, <1>9, <1>10, KeptAfter DEF ListInv
      <2>2. Items!Move(a, b)
            BY <1>10, <2>1 DEF Items!Move
      <2> QED BY <1>2, <1>3, <1>4, <1>5, <2>1, <2>2, NoneAsked DEF StepIsSafe, Items!Next
<1>11. CASE disk' = disk \ {a} /\ Becomes(u)
      <2>1. ListInv' /\ Rows(list') = Rows(list) \ {a}
            BY <1>6, <1>9, <1>11, KeptAfter DEF ListInv
      <2>2. Items!Lose(a)
            BY <1>11, <2>1 DEF Items!Lose
      <2> QED BY <1>2, <1>3, <1>4, <1>5, <2>1, <2>2, NoneAsked DEF StepIsSafe, Items!Next
<1> QED BY <1>7, <1>10, <1>11

\* filter_reset shows the whole list.
LEMMA ResetKeeps ==
    ASSUME NEW v, WellKept(v)
    PROVE  LET w == filter_reset(v)
           IN  WellKept(w) /\ Within(w) /\ Rows(w.list) = Rows(v.list)
<1> DEFINE w == filter_reset(v)
           f == v.sorted
<1>1. w.list = v.list /\ w.filter_range = Span(0, Len(v.list))
      BY Zenon DEF filter_reset, View
<1>2. w.sorted = f
      BY Zenon DEF filter_reset, View
<1> HIDE DEF w
<1>3. WellKept(w)
      BY <1>1, <1>2 DEF WellKept
<1>4. Within(w)
      BY <1>1, <1>3, WholeIsWithin
<1> QED BY <1>1, <1>3, <1>4 DEF w

LEMMA UnfilterIsSafe == ASSUME IInv, Unfilter PROVE StepIsSafe
<1> DEFINE w == filter_reset(This)
<1>1. WellKept(w) /\ Within(w) /\ Rows(w.list) = Rows(list)
      BY ThisIsKept, ResetKeeps
<1>2. Becomes(w) /\ refresh_draw_list(w) /\ asked' = NoFilter /\ disk' = disk
      BY DEF Unfilter
<1> HIDE DEF w
<1>3. display' \in Seq({NameOf[x] : x \in Accounts})
      BY <1>1, <1>2, DrawnNames DEF refresh_draw_list
<1>4. ListInv' /\ Rows(list') = Rows(list)
      BY <1>1, <1>2, KeptAfter DEF ListInv
<1>5. disk' \in SUBSET Accounts
      BY <1>2 DEF IInv, TypeOK
<1> QED BY <1>2, <1>3, <1>4, <1>5, NoneAsked DEF StepIsSafe, Items!vars

LEMMA MenuDoneIsSafe == ASSUME IInv, MenuDone PROVE StepIsSafe
<1>1. /\ list' = list /\ sorted' = sorted /\ filter_range' = filter_range
      /\ disk' = disk /\ asked' = asked /\ refresh_draw_list(This)
      BY DEF MenuDone, view
<1>2. WellKept(This) /\ Within(This)
      BY ThisIsKept
<1>3. display' \in Seq({NameOf[x] : x \in Accounts})
      BY <1>1, <1>2, DrawnNames DEF refresh_draw_list
<1>4. TypeOK'
      BY <1>1, <1>3 DEF IInv, TypeOK
<1>5. RangeInList' /\ ListInOrder'
      BY <1>1 DEF IInv, RangeInList, ListInOrder
<1>6. FilterKeepsMatches'
      BY <1>1 DEF IInv, FilterKeepsMatches, Kept
<1> QED BY <1>1, <1>4, <1>5, <1>6 DEF IInv, StepIsSafe, Items!vars

LEMMA FilterIsSafe == ASSUME IInv, Filter PROVE StepIsSafe
<1> DEFINE u == filter_reset(This)
<1>1. WellKept(u) /\ Within(u) /\ Rows(u.list) = Rows(list)
      BY ThisIsKept, ResetKeeps
<1>2. PICK c \in Criteria : \E v \in Filtered(u, c) :
         Becomes(v) /\ refresh_draw_list(v) /\ asked' = c /\ UNCHANGED disk
      BY DEF Filter
<1>3. PICK w \in Filtered(u, c) :
         Becomes(w) /\ refresh_draw_list(w) /\ asked' = c /\ UNCHANGED disk
      BY <1>2
<1> HIDE DEF u
<1>4. WellKept(w) /\ Within(w) /\ Rows(w.list) = Rows(u.list) /\ KeepsMatches(w, c)
      BY <1>1, FilteredKeeps
<1>5. display' \in Seq({NameOf[x] : x \in Accounts})
      BY <1>3, <1>4, DrawnNames DEF refresh_draw_list
<1>6. ListInv' /\ Rows(list') = Rows(list)
      BY <1>1, <1>3, <1>4, KeptAfter DEF ListInv
<1>7. FilterKeepsMatches'
      <2>1. list' = w.list /\ filter_range' = w.filter_range /\ asked' = c
            BY <1>3 DEF Becomes
      <2>2. Kept' = KeptOf(w)
            BY <2>1 DEF Kept, KeptOf
      <2> QED BY <1>4, <2>1, <2>2 DEF FilterKeepsMatches, KeepsMatches
<1>8. IInv'
      BY <1>3, <1>5, <1>6, <1>7 DEF IInv, TypeOK, ListInv
<1> QED BY <1>3, <1>6, <1>8 DEF StepIsSafe, Items!vars

LEMMA StillIsSafe == ASSUME IInv, UNCHANGED vars PROVE StepIsSafe
<1>1. /\ list' = list /\ sorted' = sorted /\ filter_range' = filter_range
      /\ disk' = disk /\ display' = display /\ asked' = asked
      BY DEF vars, view
<1>2. TypeOK'
      BY <1>1 DEF IInv, TypeOK
<1>3. RangeInList' /\ ListInOrder'
      BY <1>1 DEF IInv, RangeInList, ListInOrder
<1>4. FilterKeepsMatches'
      BY <1>1 DEF IInv, FilterKeepsMatches, Kept
<1> QED BY <1>1, <1>2, <1>3, <1>4 DEF IInv, StepIsSafe, Items!vars

LEMMA NextIsSafe == ASSUME IInv, [Next]_vars PROVE StepIsSafe
<1>1. \/ Reload \/ Scan \/ Edit \/ Delete \/ MenuDone \/ Unfilter \/ Filter \/ UNCHANGED vars
      BY DEF Next
<1> QED BY <1>1, ReloadIsSafe, ScanIsSafe, EditIsSafe, DeleteIsSafe, MenuDoneIsSafe,
           UnfilterIsSafe, FilterIsSafe, StillIsSafe

LEMMA Invariance == Spec => []IInv
<1>1. Init => IInv
      BY InitInv
<1>2. IInv /\ [Next]_vars => IInv'
      BY NextIsSafe DEF StepIsSafe
<1> QED BY <1>1, <1>2, PTL DEF Spec

-----------------------------------------------------------------------------
(* The theorems.                                                            *)

\* The list, its range and the rows on the screen keep their types, for any records,
\* names and criteria.
THEOREM TypeCorrect == Spec => []TypeOK
<1>1. IInv => TypeOK
      BY DEF IInv
<1> QED BY <1>1, Invariance, PTL

\* The range of the filter lies within the list, whatever edits, deletions and
\* reloads come after the filter: filtered_list never panics.
THEOREM RangesFit == Spec => []RangeInList
<1>1. IInv => RangeInList
      BY DEF IInv
<1> QED BY <1>1, Invariance, PTL

\* No record is twice in the list, and one that is flagged as sorted is in order, so
\* that halving finds what is there.
THEOREM ListsOrdered == Spec => []ListInOrder
<1>1. IInv => ListInOrder
      BY DEF IInv
<1> QED BY <1>1, Invariance, PTL

\* A filter keeps what starts with its criterion, all of it but for the first row
\* of the list, and that only when two records have just the criterion as name.
THEOREM FiltersAreExact == Spec => []FilterKeepsMatches
<1>1. IInv => FilterKeepsMatches
      BY DEF IInv
<1> QED BY <1>1, Invariance, PTL

\* FilteredListView implements a set of items: no sort, search, shift or filter
\* adds an item or loses one.
THEOREM ImplementsSet == Spec => ImplementsItemSet
<1>1. Init => Items!Init
      BY InitInv
<1>2. IInv /\ [Next]_vars => [Items!Next]_(Items!vars)
      BY NextIsSafe DEF StepIsSafe
<1> QED BY <1>1, <1>2, Invariance, PTL DEF Spec, ImplementsItemSet, Items!Spec

\* No item of the list is left without its record, although a reload takes none away.
THEOREM ItemsAreOfRecords == Spec => []Items!ItemsHaveRecords
<1> DEFINE J == Items!ItemsHaveRecords
<1>1. Items!Init => J
      BY DEF Items!Init, Items!ItemsHaveRecords
<1>2. J /\ [Items!Next]_(Items!vars) => J'
      <2> SUFFICES ASSUME J, [Items!Next]_(Items!vars) PROVE J'
          OBVIOUS
      <2>1. CASE UNCHANGED Items!vars
            BY <2>1 DEF Items!vars, Items!ItemsHaveRecords
      <2>2. CASE Items!Reload
            BY <2>2 DEF Items!Reload, Items!ItemsHaveRecords
      <2>3. ASSUME NEW a \in Accounts, Items!Scan(a) PROVE J'
            BY <2>3 DEF Items!Scan, Items!ItemsHaveRecords
      <2>4. ASSUME NEW a, Items!Delete(a) PROVE J'
            BY <2>4 DEF Items!Delete, Items!ItemsHaveRecords
      <2>5. ASSUME NEW a, Items!Lose(a) PROVE J'
            BY <2>5 DEF Items!Lose, Items!ItemsHaveRecords
      <2>6. ASSUME NEW a, NEW b, Items!Move(a, b) PROVE J'
            BY <2>6 DEF Items!Move, Items!ItemsHaveRecords
      <2> QED BY <2>1, <2>2, <2>3, <2>4, <2>5, <2>6 DEF Items!Next
<1> HIDE DEF J
<1>3. Items!Spec => []J
      BY <1>1, <1>2, PTL DEF Items!Spec
<1>4. Spec => Items!Spec
      BY ImplementsSet DEF ImplementsItemSet
<1>5. Spec => []J
      BY <1>3, <1>4
<1> QED BY <1>5 DEF J
=============================================================================
