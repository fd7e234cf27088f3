--------------------------- MODULE ItemListProofs ---------------------------
(***************************************************************************)
(* Lemmas about the body of Items as a sorted list: filtering, sorting,    *)
(* inserting, renaming and merging.  What the commands do is in ItemsProofs.*)
(***************************************************************************)
EXTENDS Items, FiniteSetTheorems, SequenceTheorems, FunctionTheorems, WellFoundedInduction, TLAPS

-----------------------------------------------------------------------------
(* The members of a finite set in the order R                               *)

(* R[j] has j and what comes before j.                                      *)
IsOrder(R, S) ==
  /\ R \in [S -> SUBSET S]
  /\ \A i \in S : i \in R[i]
  /\ \A i, j \in S : i \in R[j] \/ j \in R[i]
  /\ \A i, j \in S : i \in R[j] /\ j \in R[i] => i = j
  /\ \A i, j, k \in S : i \in R[j] /\ j \in R[k] => i \in R[k]

Place(R, j) == Cardinality(R[j])

(* The places of the members are the numbers up to their count.             *)
LEMMA Places ==
  ASSUME NEW S, IsFiniteSet(S), NEW R, IsOrder(R, S)
  PROVE  /\ \A j \in S : Place(R, j) \in 1..Cardinality(S)
         /\ \A j, k \in S : j \in R[k] /\ j # k => Place(R, j) < Place(R, k)
         /\ \A i \in 1..Cardinality(S) : \E j \in S : Place(R, j) = i
<1> DEFINE n == Cardinality(S)
           f == [j \in S |-> Place(R, j)]
<1>1. ASSUME NEW j \in S
      PROVE  IsFiniteSet(R[j]) /\ Place(R, j) = Cardinality(R[j])
             /\ Place(R, j) \in 1..n
  <2>1. R[j] \in SUBSET S /\ j \in R[j]
    BY DEF IsOrder
  <2>2. IsFiniteSet(R[j]) /\ Cardinality(R[j]) <= n
    BY <2>1, FS_Subset
  <2>3. Cardinality(R[j]) \in Nat /\ n \in Nat
    BY <2>2, FS_CardinalityType
  <2>4. Cardinality(R[j]) # 0
    BY <2>1, <2>2, FS_EmptySet
  <2> QED
    BY <2>2, <2>3, <2>4 DEF Place
<1>2. ASSUME NEW j \in S, NEW k \in S, j \in R[k], j # k
      PROVE  Place(R, j) < Place(R, k)
  <2>1. R[j] \in SUBSET R[k] /\ k \in R[k] /\ k \notin R[j]
    BY <1>2 DEF IsOrder
  <2>2. Cardinality(R[j]) <= Cardinality(R[k])
        /\ Cardinality(R[k]) # Cardinality(R[j])
    BY <1>1, <2>1, FS_Subset
  <2>3. Cardinality(R[j]) \in Nat /\ Cardinality(R[k]) \in Nat
    BY <1>1, FS_CardinalityType
  <2> QED
    BY <1>1, <2>2, <2>3
<1>3. n \in Nat /\ IsFiniteSet(1..n) /\ Cardinality(1..n) = n
  BY FS_CardinalityType, FS_Interval
<1>4. f \in Injection(S, 1..n)
  <2>1. f \in [S -> 1..n]
    BY <1>1
  <2>2. \A j, k \in S : f[j] = f[k] => j = k
    <3> SUFFICES ASSUME NEW j \in S, NEW k \in S, j # k  PROVE Place(R, j) # Place(R, k)
      OBVIOUS
    <3>1. Place(R, j) \in Nat /\ Place(R, k) \in Nat
      BY <1>1, FS_CardinalityType
    <3>2. j \in R[k] \/ k \in R[j]
      BY DEF IsOrder
    <3> QED
      BY <1>2, <3>1, <3>2
  <2> QED
    BY <2>1, <2>2, Fun_IsInj
<1>5. f \in Surjection(S, 1..n)
  BY <1>3, <1>4, FS_Injection
<1>6. \A i \in 1..n : \E j \in S : f[j] = i
  <2> HIDE DEF f, n
  <2> QED
    BY <1>5 DEF Surjection
<1> QED
  BY <1>1, <1>2, <1>6

(* p lists the members of S in the order R.                                 *)
InOrder(p, R, S) ==
  /\ p \in [1..Cardinality(S) -> S]
  /\ \A j \in S : \E i \in DOMAIN p : p[i] = j
  /\ \A i, k \in DOMAIN p : i < k => p[i] \in R[p[k]] /\ p[i] # p[k]

LEMMA ListedInOrder ==
  ASSUME NEW S, IsFiniteSet(S), NEW R, IsOrder(R, S)
  PROVE  InOrder([i \in 1..Cardinality(S) |-> CHOOSE j \in S : Place(R, j) = i], R, S)
<1> DEFINE n == Cardinality(S)
           p == [i \in 1..n |-> CHOOSE j \in S : Place(R, j) = i]
<1>1. /\ \A j \in S : Place(R, j) \in 1..n
      /\ \A j, k \in S : j \in R[k] /\ j # k => Place(R, j) < Place(R, k)
      /\ \A i \in 1..n : \E j \in S : Place(R, j) = i
  BY Places
<1>2. n \in Nat
  BY FS_CardinalityType
<1>3. \A i \in 1..n : p[i] \in S /\ Place(R, p[i]) = i
  BY <1>1
<1>4. \A j \in S : p[Place(R, j)] = j
  <2> TAKE j \in S
  <2> DEFINE i == Place(R, j)
             k == p[i]
  <2>1. i \in 1..n /\ k \in S /\ Place(R, k) = i
    BY <1>1, <1>3
  <2>2. j \in R[k] \/ k \in R[j]
    BY <2>1 DEF IsOrder
  <2>3. Place(R, j) \in Nat /\ Place(R, k) = Place(R, j)
    BY <1>2, <2>1
  <2> HIDE DEF i, k
  <2>4. j = k
    BY <1>1, <2>1, <2>2, <2>3
  <2> QED
    BY <2>4 DEF i, k
<1>5. ASSUME NEW i \in 1..n, NEW k \in 1..n, i < k
      PROVE  p[i] \in R[p[k]] /\ p[i] # p[k]
  <2>1. p[i] \in S /\ p[k] \in S /\ Place(R, p[i]) = i /\ Place(R, p[k]) = k
    BY <1>3
  <2> HIDE DEF p
  <2>2. p[i] \in R[p[k]] \/ p[k] \in R[p[i]]
    BY <2>1 DEF IsOrder
  <2>3. ~(Place(R, p[k]) < Place(R, p[i])) /\ p[i] # p[k]
    BY <1>2, <1>5, <2>1
  <2> QED
    BY <1>1, <2>1, <2>2, <2>3
<1>6. p \in [1..n -> S] /\ DOMAIN p = 1..n
  BY <1>3
<1> HIDE DEF p
<1> QED
  BY <1>1, <1>4, <1>5, <1>6 DEF InOrder

-----------------------------------------------------------------------------
(* Items and bodies                                                         *)

Givers == Cmds \cup Origins
Values == [by : Givers, form : Forms, typed : BOOLEAN, binary : BOOLEAN, secret : BOOLEAN]
FieldMaps == UNION {[D -> Values] : D \in SUBSET FieldNames}
Item == [id : Givers, name : AnyName, kind : Kinds, fields : FieldMaps]

(* A body has its items sorted by their names, which are valid and distinct. *)
Body ==
  {b \in Seq(Item) : /\ \A i \in DOMAIN b : b[i].name \in Names
                     /\ \A i, k \in DOMAIN b : i < k => b[i].name < b[k].name}

-----------------------------------------------------------------------------
(* Filtering and sorting                                                    *)

UpTo(S) == [j \in S |-> {k \in S : k <= j}]

(* A filtered list has the items that are kept, in their order.             *)
LEMMA SublistKeepsOrder ==
  ASSUME NEW T, NEW b \in Seq(T), NEW S \in SUBSET DOMAIN b
  PROVE  /\ Sublist(b, S) \in Seq(T) /\ Len(Sublist(b, S)) = Cardinality(S)
         /\ Cardinality(S) \in Nat
         /\ \E p \in [1..Cardinality(S) -> S] :
              /\ \A j \in S : \E i \in DOMAIN p : p[i] = j
              /\ \A i, k \in DOMAIN p : i < k => p[i] < p[k]
              /\ \A i \in DOMAIN p : Sublist(b, S)[i] = b[p[i]]
<1> DEFINE n == Cardinality(S)
           p == [i \in 1..n |-> CHOOSE j \in S : Place(UpTo(S), j) = i]
<1>1. DOMAIN b = 1..Len(b) /\ Len(b) \in Nat
  OBVIOUS
<1>2. IsFiniteSet(S) /\ n \in Nat
  <2>1. IsFiniteSet(1..Len(b)) /\ S \in SUBSET (1..Len(b))
    BY <1>1, FS_Interval
  <2> QED
    BY <2>1, FS_Subset, FS_CardinalityType
<1>3. S \subseteq Nat
  BY <1>1
<1>4. IsOrder(UpTo(S), S)
  BY <1>3 DEF IsOrder, UpTo
<1>5. InOrder(p, UpTo(S), S)
  BY <1>2, <1>4, ListedInOrder
<1>6. p \in [1..n -> S] /\ DOMAIN p = 1..n
  BY <1>5 DEF InOrder
<1>7. \A j \in S : UpTo(S)[j] = {k \in S : k <= j}
  BY <1>3 DEF UpTo
<1>8. \A j \in S : Place(UpTo(S), j) = Cardinality({k \in S : k <= j})
  BY <1>7 DEF Place
<1>9. \A i \in 1..n : p[i] = CHOOSE j \in S : Cardinality({k \in S : k <= j}) = i
  BY <1>8
<1>10. Sublist(b, S) = [i \in 1..n |-> b[p[i]]]
  <2> DEFINE at(i) == CHOOSE j \in S : Cardinality({k \in S : k <= j}) = i
  <2>1. Sublist(b, S) = [i \in 1..n |-> b[at(i)]]
    BY DEF Sublist
  <2> HIDE DEF p, at
  <2>2. \A i \in 1..n : p[i] = at(i)
    BY <1>9 DEF at
  <2> QED
    BY <2>1, <2>2
<1>11. \A i, k \in 1..n : i < k => p[i] < p[k]
  <2> TAKE i \in 1..n, k \in 1..n
  <2> HIDE DEF p
  <2>1. i < k => p[i] \in UpTo(S)[p[k]] /\ p[i] # p[k]
    BY <1>5, <1>6 DEF InOrder
  <2>2. p[i] \in Nat /\ p[k] \in Nat
    BY <1>3, <1>6
  <2>3. UpTo(S)[p[k]] = {x \in S : x <= p[k]}
    BY <1>6 DEF UpTo
  <2> QED
    BY <2>1, <2>2, <2>3
<1> HIDE DEF p
<1>12. \A i \in 1..n : b[p[i]] \in T
  BY <1>1, <1>6
<1>13. Sublist(b, S) \in Seq(T) /\ Len(Sublist(b, S)) = n
  BY <1>2, <1>10, <1>12
<1>14. \A i \in 1..n : Sublist(b, S)[i] = b[p[i]]
  BY <1>10
<1> QED
  BY <1>2, <1>5, <1>6, <1>11, <1>13, <1>14 DEF InOrder

(* A list of items whose names are numbers.                                 *)
Lists == {b \in Seq(Item) : \A i \in DOMAIN b : b[i].name \in Nat}

Before(b) == [j \in DOMAIN b |-> {k \in DOMAIN b : NotAfter(b, k, j)}]

(* A sorted list has the same items, by their names.                        *)
LEMMA SortedByName ==
  ASSUME NEW b \in Lists
  PROVE  /\ WithItems(b) \in Seq(Item) /\ Len(WithItems(b)) = Len(b)
         /\ \E p \in [DOMAIN b -> DOMAIN b] :
              /\ \A j \in DOMAIN b : \E i \in DOMAIN b : p[i] = j
              /\ \A i, k \in DOMAIN b : i < k => p[i] # p[k] /\ b[p[i]].name <= b[p[k]].name
              /\ \A i \in DOMAIN b : WithItems(b)[i] = b[p[i]]
<1> DEFINE S == DOMAIN b
           n == Cardinality(S)
           p == [i \in 1..n |-> CHOOSE j \in S : Place(Before(b), j) = i]
<1>1. b \in Seq(Item) /\ S = 1..Len(b) /\ Len(b) \in Nat /\ S \subseteq Nat
      /\ \A i \in S : b[i].name \in Nat
  BY DEF Lists
<1>2. IsFiniteSet(S) /\ n = Len(b)
  BY <1>1, FS_Interval
<1>3. \A i, k \in S : i \in Before(b)[k] <=> NotAfter(b, i, k)
  BY DEF Before
<1>4. IsOrder(Before(b), S)
  <2>1. Before(b) \in [S -> SUBSET S]
    BY DEF Before
  <2>2. \A i \in S : NotAfter(b, i, i)
    BY <1>1 DEF NotAfter
  <2>3. \A i, j \in S : NotAfter(b, i, j) \/ NotAfter(b, j, i)
    BY <1>1 DEF NotAfter
  <2>4. \A i, j \in S : NotAfter(b, i, j) /\ NotAfter(b, j, i) => i = j
    BY <1>1 DEF NotAfter
  <2>5. \A i, j, k \in S : NotAfter(b, i, j) /\ NotAfter(b, j, k) => NotAfter(b, i, k)
    BY <1>1 DEF NotAfter
  <2> QED
    BY <1>3, <2>1, <2>2, <2>3, <2>4, <2>5 DEF IsOrder
<1>5. InOrder(p, Before(b), S)
  BY <1>2, <1>4, ListedInOrder
<1>6. p \in [S -> S] /\ DOMAIN p = S /\ 1..n = S
  BY <1>1, <1>2, <1>5 DEF InOrder
<1>7. \A j \in S : Before(b)[j] = {k \in S : NotAfter(b, k, j)}
  BY DEF Before
<1>8. \A j \in S : Place(Before(b), j) = Rank(b, j)
  BY <1>7 DEF Place, Rank
<1>9. \A i \in S : p[i] = CHOOSE j \in S : Rank(b, j) = i
  BY <1>6, <1>8
<1>10. WithItems(b) = [i \in S |-> b[p[i]]]
  <2> DEFINE at(i) == CHOOSE j \in S : Rank(b, j) = i
  <2>1. WithItems(b) = [i \in S |-> b[at(i)]]
    BY DEF WithItems
  <2> HIDE DEF p, at
  <2>2. \A i \in S : p[i] = at(i)
    BY <1>9 DEF at
  <2> QED
    BY <2>1, <2>2
<1> HIDE DEF p
<1>11. \A i, k \in S : i < k => p[i] # p[k] /\ b[p[i]].name <= b[p[k]].name
  <2> SUFFICES ASSUME NEW i \in S, NEW k \in S, i < k
               PROVE  p[i] # p[k] /\ b[p[i]].name <= b[p[k]].name
    OBVIOUS
  <2>1. p[i] \in Before(b)[p[k]] /\ p[i] # p[k]
    BY <1>5, <1>6 DEF InOrder
  <2>2. NotAfter(b, p[i], p[k]) /\ p[i] \in S /\ p[k] \in S
    BY <1>3, <1>6, <2>1
  <2> QED
    BY <1>1, <2>1, <2>2 DEF NotAfter
<1>12. \A i \in S : b[p[i]] \in Item
  BY <1>1, <1>6
<1>13. WithItems(b) \in Seq(Item) /\ Len(WithItems(b)) = Len(b)
  BY <1>1, <1>10, <1>12
<1>14. \A i \in S : WithItems(b)[i] = b[p[i]]
  BY <1>10
<1>15. \A j \in S : \E i \in S : p[i] = j
  BY <1>5, <1>6 DEF InOrder
<1> HIDE DEF S
<1>16. \E q \in [S -> S] :
         /\ \A j \in S : \E i \in S : q[i] = j
         /\ \A i, k \in S : i < k => q[i] # q[k] /\ b[q[i]].name <= b[q[k]].name
         /\ \A i \in S : WithItems(b)[i] = b[q[i]]
  BY <1>6, <1>11, <1>14, <1>15, Zenon
<1> QED
  BY <1>13, <1>16 DEF S

-----------------------------------------------------------------------------
(* What is in a body                                                        *)

LEMMA NamesAreNumbers == Names \subseteq Nat /\ BadName \in Nat \ Names /\ AnyName \subseteq Nat
<1> QED
  BY ItemsConstants DEF AnyName

LEMMA BodyItems ==
  ASSUME NEW b \in Body
  PROVE  /\ b \in Seq(Item) /\ b \in Lists /\ Len(b) \in Nat /\ DOMAIN b = 1..Len(b)
         /\ Range(b) \subseteq Item /\ NamesOf(b) \subseteq Names
         /\ NamesOf(b) = {x.name : x \in Range(b)}
         /\ \A i, k \in DOMAIN b : b[i].name = b[k].name => i = k
         /\ \A x, y \in Range(b) : x.name = y.name => x = y
<1>1. /\ b \in Seq(Item) /\ Len(b) \in Nat /\ DOMAIN b = 1..Len(b)
      /\ \A i \in DOMAIN b : b[i] \in Item /\ b[i].name \in Names
      /\ \A i, k \in DOMAIN b : i < k => b[i].name < b[k].name
  BY DEF Body
<1>2. b \in Lists
  BY <1>1, NamesAreNumbers DEF Lists
<1>3. Range(b) = {b[i] : i \in DOMAIN b}
  BY DEF Range
<1>4. \A i, k \in DOMAIN b : b[i].name = b[k].name => i = k
  <2> SUFFICES ASSUME NEW i \in DOMAIN b, NEW k \in DOMAIN b, b[i].name = b[k].name, i # k
               PROVE  FALSE
    OBVIOUS
  <2>1. i < k \/ k < i
    BY <1>1
  <2>2. b[i].name \in Nat /\ b[k].name \in Nat
    BY <1>1, NamesAreNumbers
  <2>3. b[i].name < b[k].name \/ b[k].name < b[i].name
    BY <1>1, <2>1
  <2> QED
    BY <2>2, <2>3
<1> QED
  BY <1>1, <1>2, <1>3, <1>4 DEF NamesOf

LEMMA GetFinds ==
  ASSUME NEW b \in Body
  PROVE  /\ \A n \in NamesOf(b) : /\ Get(b, n) \in Range(b) /\ Get(b, n) \in Item
                                  /\ Get(b, n).name = n /\ n \in Names
         /\ \A x \in Range(b) : x.name \in NamesOf(b) /\ Get(b, x.name) = x
<1>1. Range(b) = {b[i] : i \in DOMAIN b}
  BY DEF Range
<1>2. ASSUME NEW n \in NamesOf(b)
      PROVE  Get(b, n) \in Range(b) /\ Get(b, n).name = n
  <2>1. \E i \in DOMAIN b : b[i].name = n
    BY DEF NamesOf
  <2> DEFINE i == CHOOSE i \in DOMAIN b : b[i].name = n
  <2>2. i \in DOMAIN b /\ b[i].name = n /\ Get(b, n) = b[i]
    BY <2>1 DEF Get
  <2> HIDE DEF i
  <2> QED
    BY <1>1, <2>2
<1> QED
  BY <1>2, BodyItems

(* Bodies of the same items are the same map.                               *)
LEMMA SameItemsSameGet ==
  ASSUME NEW b \in Body, NEW d \in Body, NEW n \in NamesOf(d), Get(d, n) \in Range(b)
  PROVE  n \in NamesOf(b) /\ Get(b, n) = Get(d, n)
<1> QED
  BY GetFinds

LEMMA SublistIsBody ==
  ASSUME NEW b \in Body, NEW S \in SUBSET DOMAIN b
  PROVE  /\ Sublist(b, S) \in Body /\ Len(Sublist(b, S)) = Cardinality(S)
         /\ Range(Sublist(b, S)) = {b[i] : i \in S}
<1>1. b \in Seq(Item)
  BY DEF Body
<1> DEFINE d == Sublist(b, S)
           n == Cardinality(S)
<1>2. d \in Seq(Item) /\ Len(d) = n /\ n \in Nat
  BY <1>1, SublistKeepsOrder
<1>3. PICK p \in [1..n -> S] : /\ \A j \in S : \E i \in DOMAIN p : p[i] = j
                               /\ \A i, k \in DOMAIN p : i < k => p[i] < p[k]
                               /\ \A i \in DOMAIN p : d[i] = b[p[i]]
  BY <1>1, SublistKeepsOrder
<1> HIDE DEF d
<1>4. DOMAIN d = 1..n /\ DOMAIN p = 1..n
  BY <1>2
<1>5. \A i \in DOMAIN d : p[i] \in S /\ d[i] = b[p[i]]
  BY <1>3, <1>4
<1>6. \A i \in DOMAIN d : d[i].name \in Names
  BY <1>5 DEF Body
<1>7. \A i, k \in DOMAIN d : i < k => d[i].name < d[k].name
  BY <1>3, <1>4, <1>5 DEF Body
<1>8. Range(d) = {b[i] : i \in S}
  BY <1>3, <1>4, <1>5 DEF Range
<1> QED
  BY <1>2, <1>6, <1>7, <1>8 DEF Body, d

(* Items whose names are distinct are sorted into a body.                   *)
LEMMA SortedIsBody ==
  ASSUME NEW b \in Seq(Item), \A i \in DOMAIN b : b[i].name \in Names,
         \A i, k \in DOMAIN b : b[i].name = b[k].name => i = k
  PROVE  WithItems(b) \in Body /\ Len(WithItems(b)) = Len(b) /\ Range(WithItems(b)) = Range(b)
<1> DEFINE d == WithItems(b)
<1>1. b \in Lists
  BY NamesAreNumbers DEF Lists
<1>2. d \in Seq(Item) /\ Len(d) = Len(b)
  BY <1>1, SortedByName
<1>3. PICK p \in [DOMAIN b -> DOMAIN b] :
        /\ \A j \in DOMAIN b : \E i \in DOMAIN b : p[i] = j
        /\ \A i, k \in DOMAIN b : i < k => p[i] # p[k] /\ b[p[i]].name <= b[p[k]].name
        /\ \A i \in DOMAIN b : d[i] = b[p[i]]
  BY <1>1, SortedByName
<1> HIDE DEF d
<1>4. DOMAIN d = DOMAIN b
  BY <1>2
<1>5. \A i \in DOMAIN d : d[i].name \in Names
  BY <1>3, <1>4
<1>6. \A i, k \in DOMAIN d : i < k => d[i].name < d[k].name
  <2> SUFFICES ASSUME NEW i \in DOMAIN d, NEW k \in DOMAIN d, i < k
               PROVE  d[i].name < d[k].name
    OBVIOUS
  <2>1. p[i] \in DOMAIN b /\ p[k] \in DOMAIN b /\ p[i] # p[k]
    BY <1>3, <1>4
  <2>2. d[i].name # d[k].name /\ d[i].name <= d[k].name
    BY <1>3, <1>4, <2>1
  <2> QED
    BY <1>5, <2>2, NamesAreNumbers
<1>7. Range(d) = Range(b)
  BY <1>3, <1>4 DEF Range
<1> QED
  BY <1>2, <1>5, <1>6, <1>7 DEF Body, d

(* VaultBody::remove                                                        *)
LEMMA ExceptOne ==
  ASSUME NEW b \in Body, NEW n \in AnyName
  PROVE  /\ Except(b, n) \in Body
         /\ Range(Except(b, n)) = {x \in Range(b) : x.name # n}
         /\ Len(Except(b, n)) = IF n \in NamesOf(b) THEN Len(b) - 1 ELSE Len(b)
<1> DEFINE S == {i \in DOMAIN b : b[i].name # n}
<1>1. /\ Except(b, n) = Sublist(b, S) /\ S \in SUBSET DOMAIN b
  BY DEF Except
<1>2. /\ Except(b, n) \in Body /\ Len(Except(b, n)) = Cardinality(S)
      /\ Range(Except(b, n)) = {b[i] : i \in S}
  BY <1>1, SublistIsBody
<1>3. Range(Except(b, n)) = {x \in Range(b) : x.name # n}
  BY <1>2 DEF Range
<1>4. DOMAIN b = 1..Len(b) /\ Len(b) \in Nat /\ IsFiniteSet(DOMAIN b)
      /\ Cardinality(DOMAIN b) = Len(b)
  BY BodyItems, FS_Interval
<1>5. CASE n \in NamesOf(b)
  <2>1. PICK k \in DOMAIN b : b[k].name = n
    BY <1>5 DEF NamesOf
  <2>2. S = DOMAIN b \ {k}
    BY <2>1, BodyItems
  <2>3. Cardinality(S) = Len(b) - 1
    BY <1>4, <2>2, FS_RemoveElement
  <2> QED
    BY <1>2, <1>3, <1>5, <2>3
<1>6. CASE n \notin NamesOf(b)
  <2>1. S = DOMAIN b
    BY <1>6 DEF NamesOf
  <2> QED
    BY <1>2, <1>3, <1>4, <1>6, <2>1
<1> QED
  BY <1>5, <1>6

(* VaultBody::insert: the item takes the place of the one with its name.    *)
LEMMA InsertPutsOne ==
  ASSUME NEW b \in Body, NEW it \in Item, it.name \in Names
  PROVE  /\ Insert(b, it) \in Body
         /\ Range(Insert(b, it)) = {x \in Range(b) : x.name # it.name} \cup {it}
         /\ Len(Insert(b, it)) = IF it.name \in NamesOf(b) THEN Len(b) ELSE Len(b) + 1
<1> DEFINE e == Except(b, it.name)
           a == Append(e, it)
<1>1. it.name \in AnyName
  BY DEF AnyName
<1>2. /\ e \in Body /\ Range(e) = {x \in Range(b) : x.name # it.name}
      /\ Len(e) = IF it.name \in NamesOf(b) THEN Len(b) - 1 ELSE Len(b)
  BY <1>1, ExceptOne
<1>3. /\ e \in Seq(Item) /\ Len(e) \in Nat /\ DOMAIN e = 1..Len(e)
      /\ \A i \in DOMAIN e : e[i].name \in Names
      /\ \A i, k \in DOMAIN e : e[i].name = e[k].name => i = k
  BY <1>2, BodyItems DEF Body
<1>4. \A i \in DOMAIN e : e[i].name # it.name
  BY <1>2 DEF Range
<1> HIDE DEF e
<1>5. /\ a \in Seq(Item) /\ Len(a) = Len(e) + 1 /\ DOMAIN a = 1..(Len(e) + 1)
      /\ \A i \in DOMAIN e : a[i] = e[i]
      /\ a[Len(e) + 1] = it
  BY <1>3
<1>6. DOMAIN a = DOMAIN e \cup {Len(e) + 1} /\ Len(e) + 1 \notin DOMAIN e
  BY <1>3, <1>5
<1> HIDE DEF a
<1>7. \A i \in DOMAIN a : a[i].name \in Names
  BY <1>3, <1>5, <1>6
<1>8. \A i, k \in DOMAIN a : a[i].name = a[k].name => i = k
  BY <1>3, <1>4, <1>5, <1>6
<1>9. Range(a) = Range(e) \cup {it}
  <2>1. \A i \in DOMAIN a : a[i] \in Range(e) \cup {it}
    BY <1>5, <1>6 DEF Range
  <2>2. \A i \in DOMAIN e : e[i] \in Range(a)
    BY <1>5, <1>6 DEF Range
  <2>3. it \in Range(a)
    BY <1>5, <1>6 DEF Range
  <2> QED
    BY <2>1, <2>2, <2>3 DEF Range
<1>10. Insert(b, it) = WithItems(a)
  BY DEF Insert, a, e
<1>11. /\ WithItems(a) \in Body /\ Len(WithItems(a)) = Len(a)
       /\ Range(WithItems(a)) = Range(a)
  BY <1>5, <1>7, <1>8, SortedIsBody
<1>12. Len(b) \in Nat
  BY BodyItems
<1> QED
  BY <1>2, <1>5, <1>9, <1>10, <1>11, <1>12

LEMMA InsertAsMap ==
  ASSUME NEW b \in Body, NEW it \in Item, it.name \in Names
  PROVE  /\ NamesOf(Insert(b, it)) = NamesOf(b) \cup {it.name}
         /\ \A n \in NamesOf(Insert(b, it)) :
              Get(Insert(b, it), n) = IF n = it.name THEN it ELSE Get(b, n)
<1> DEFINE d == Insert(b, it)
<1>1. d \in Body /\ Range(d) = {x \in Range(b) : x.name # it.name} \cup {it}
  BY InsertPutsOne
<1> HIDE DEF d
<1>2. /\ NamesOf(b) = {x.name : x \in Range(b)}
      /\ NamesOf(d) = {x.name : x \in Range(d)}
  BY <1>1, BodyItems
<1>3. NamesOf(d) = NamesOf(b) \cup {it.name}
  BY <1>1, <1>2
<1>4. it \in Range(d) /\ Get(d, it.name) = it
  BY <1>1, GetFinds
<1>5. ASSUME NEW n \in NamesOf(d), n # it.name
      PROVE  Get(d, n) = Get(b, n)
  <2>1. n \in NamesOf(b)
    BY <1>3, <1>5
  <2>2. Get(b, n) \in Range(b) /\ Get(b, n).name = n
    BY <2>1, GetFinds
  <2>3. Get(b, n) \in Range(d)
    BY <1>1, <1>5, <2>2
  <2> QED
    BY <1>1, <2>2, <2>3, GetFinds
<1>6. d = Insert(b, it)
  BY DEF d
<1> QED
  BY <1>3, <1>4, <1>5, <1>6

(* VaultBody::remove_all                                                    *)
LEMMA RemoveAllAsMap ==
  ASSUME NEW b \in Body, NEW ns
  PROVE  /\ RemoveAll(b, ns) \in Body /\ Range(RemoveAll(b, ns)) \subseteq Range(b)
         /\ NamesOf(RemoveAll(b, ns)) = NamesOf(b) \ Range(ns)
         /\ \A n \in NamesOf(RemoveAll(b, ns)) : Get(RemoveAll(b, ns), n) = Get(b, n)
<1> DEFINE S == {i \in DOMAIN b : b[i].name \notin Range(ns)}
           d == RemoveAll(b, ns)
<1>1. d = Sublist(b, S) /\ S \in SUBSET DOMAIN b
  BY DEF RemoveAll
<1>2. d \in Body /\ Range(d) = {b[i] : i \in S}
  BY <1>1, SublistIsBody
<1>3. Range(d) = {x \in Range(b) : x.name \notin Range(ns)}
  <2> HIDE DEF d
  <2> QED
    BY <1>2 DEF Range
<1> HIDE DEF d
<1>4. /\ NamesOf(b) = {x.name : x \in Range(b)}
      /\ NamesOf(d) = {x.name : x \in Range(d)}
  BY <1>2, BodyItems
<1>5. NamesOf(d) = NamesOf(b) \ Range(ns)
  <2> HIDE DEF S
  <2> QED
    BY <1>3, <1>4
<1>6. \A n \in NamesOf(d) : Get(d, n) = Get(b, n)
  <2> TAKE n \in NamesOf(d)
  <2>1. Get(d, n) \in Range(d) /\ Get(d, n).name = n
    BY <1>2, GetFinds
  <2>2. Get(d, n) \in Range(b)
    BY <1>3, <2>1
  <2> QED
    BY <2>1, <2>2, GetFinds
<1> QED
  BY <1>2, <1>3, <1>5, <1>6 DEF d

(* VaultBody::rename under another name                                     *)
LEMMA RenamedAsMap ==
  ASSUME NEW b \in Body, NEW old \in NamesOf(b), NEW new \in Names, old # new
  PROVE  LET d == Renamed(b, old, new)
             moved == [Get(b, old) EXCEPT !.name = new]
         IN  /\ d \in Body
             /\ Range(d) = {x \in Range(b) : x.name \notin {old, new}} \cup {moved}
             /\ NamesOf(d) = (NamesOf(b) \ {old}) \cup {new}
             /\ Get(d, new) = moved
             /\ \A n \in NamesOf(d) \ {new} : Get(d, n) = Get(b, n)
<1> DEFINE d == Renamed(b, old, new)
           moved == [Get(b, old) EXCEPT !.name = new]
           e == Except(b, new)
           f == Except(e, old)
<1>1. Get(b, old) \in Item /\ old \in AnyName /\ new \in AnyName
  BY GetFinds DEF AnyName
<1>2. moved \in Item /\ moved.name = new
  BY <1>1 DEF Item
<1>3. e \in Body /\ Range(e) = {x \in Range(b) : x.name # new}
  BY <1>1, ExceptOne
<1>4. f \in Body /\ Range(f) = {x \in Range(e) : x.name # old}
  <2> HIDE DEF e
  <2> QED
    BY <1>1, <1>3, ExceptOne
<1>5. d = Insert(f, moved)
  BY DEF Renamed
<1> HIDE DEF moved, e, f, d
<1>6. d \in Body /\ Range(d) = {x \in Range(f) : x.name # new} \cup {moved}
  BY <1>2, <1>4, <1>5, InsertPutsOne
<1>7. Range(d) = {x \in Range(b) : x.name \notin {old, new}} \cup {moved}
  BY <1>3, <1>4, <1>6
<1>8. NamesOf(d) = (NamesOf(b) \ {old}) \cup {new}
  <2>1. /\ NamesOf(b) = {x.name : x \in Range(b)}
        /\ NamesOf(d) = {x.name : x \in Range(d)}
    BY <1>6, BodyItems
  <2> QED
    BY <1>2, <1>7, <2>1
<1>9. Get(d, new) = moved
  BY <1>2, <1>6, GetFinds
<1>10. \A n \in NamesOf(d) \ {new} : Get(d, n) = Get(b, n)
  <2> TAKE n \in NamesOf(d) \ {new}
  <2>1. Get(d, n) \in Range(d) /\ Get(d, n).name = n
    BY <1>6, GetFinds
  <2>2. Get(d, n) \in Range(b)
    BY <1>2, <1>7, <2>1
  <2> QED
    BY <2>1, <2>2, GetFinds
<1> QED
  BY <1>6, <1>7, <1>8, <1>9, <1>10 DEF d, moved

-----------------------------------------------------------------------------
(* Importing item by item                                                   *)

(* A nonempty set of numbers has a least one.                               *)
LEMMA LeastNumber ==
  ASSUME NEW T \in SUBSET Nat, T # {}
  PROVE  \E n \in T : \A m \in T : n <= m
<1>1. PICK n \in T : \A m \in T : <<m, n>> \notin OpToRel(<, Nat)
  BY WFMin, NatLessThanWellFounded, Zenon
<1>2. \A m \in T : ~(m < n)
  BY <1>1 DEF OpToRel
<1> QED
  BY <1>2

(* What holds of 0, and of the number after each of which it holds, holds   *)
(* up to n.                                                                 *)
LEMMA Climb ==
  ASSUME NEW n \in Nat, NEW T \in SUBSET (0..n), 0 \in T,
         \A i \in 0..n : i \in T /\ i # n => i + 1 \in T
  PROVE  T = 0..n
<1> SUFFICES ASSUME T # 0..n  PROVE FALSE
  OBVIOUS
<1> DEFINE L == {i \in 0..n : i \notin T}
<1>1. L \in SUBSET Nat /\ L # {}
  <2>1. \E i \in 0..n : i \notin T
    OBVIOUS
  <2> QED
    BY <2>1
<1>2. PICK k \in L : \A m \in L : k <= m
  BY <1>1, LeastNumber
<1>3. k \in 0..n /\ k # 0 /\ k - 1 \in 0..n /\ k - 1 # n /\ k = (k - 1) + 1
  BY <1>2
<1>4. k - 1 \notin L
  BY <1>2, <1>3
<1> QED
  BY <1>2, <1>3, <1>4

Base(b, mode) == IF mode = "Replace" THEN <<>> ELSE b

(* The function that Merge defines by recursion.                            *)
Accumulates(acc, b, doc, mode, n) ==
  acc = [i \in 0..n |-> IF i = 0 THEN [body |-> Base(b, mode), report |-> NoReport]
                        ELSE MergeItem(acc[i - 1], doc[i], mode)]

LEMMA MergeAccumulates ==
  ASSUME NEW b, NEW doc, Len(doc) \in Nat, NEW mode
  PROVE  \E acc : /\ Accumulates(acc, b, doc, mode, Len(doc))
                  /\ Merge(b, doc, mode) = acc[Len(doc)]
<1> DEFINE n == Len(doc)
           init == [body |-> Base(b, mode), report |-> NoReport]
           T == {k \in 0..n : \E f : Accumulates(f, b, doc, mode, k)}
<1>1. 0 \in T
  <2> DEFINE f == [i \in 0..0 |-> init]
  <2>1. \A i \in 0..0 : i = 0
    OBVIOUS
  <2>2. Accumulates(f, b, doc, mode, 0)
    BY <2>1 DEF Accumulates
  <2> QED
    BY <2>2
<1>2. ASSUME NEW k \in 0..n, k \in T, k # n
      PROVE  k + 1 \in T
  <2>1. PICK f : Accumulates(f, b, doc, mode, k)
    BY <1>2
  <2> DEFINE g == [i \in 0..(k + 1) |-> IF i = 0 THEN init
                                        ELSE MergeItem(f[i - 1], doc[i], mode)]
  <2>2. \A i \in 0..k : f[i] = IF i = 0 THEN init ELSE MergeItem(f[i - 1], doc[i], mode)
    BY <2>1 DEF Accumulates
  <2>3. \A i \in 0..k : i \in 0..(k + 1)
    OBVIOUS
  <2>4. \A i \in 0..k : g[i] = f[i]
    BY <2>2, <2>3
  <2>5. \A i \in 0..(k + 1) : i # 0 => g[i - 1] = f[i - 1]
    <3>1. \A i \in 0..(k + 1) : i # 0 => i - 1 \in 0..k
      BY <1>2
    <3> HIDE DEF g
    <3> QED
      BY <2>4, <3>1
  <2>6. \A i \in 0..(k + 1) : (IF i = 0 THEN init ELSE MergeItem(f[i - 1], doc[i], mode))
                              = IF i = 0 THEN init ELSE MergeItem(g[i - 1], doc[i], mode)
    BY <2>5
  <2>7. g = [i \in 0..(k + 1) |-> IF i = 0 THEN init
                                  ELSE MergeItem(g[i - 1], doc[i], mode)]
    BY <2>6
  <2>8. Accumulates(g, b, doc, mode, k + 1)
    BY <2>7 DEF Accumulates
  <2> QED
    BY <1>2, <2>8
<1>3. n \in T
  <2>1. T \in SUBSET (0..n) /\ n \in 0..n
    OBVIOUS
  <2> HIDE DEF T
  <2> QED
    BY <1>1, <1>2, <2>1, Climb
<1> DEFINE acc == CHOOSE f : Accumulates(f, b, doc, mode, n)
<1>4. Accumulates(acc, b, doc, mode, n)
  BY <1>3
<1>5. Merge(b, doc, mode) = acc[n]
  BY DEF Merge, Accumulates, Base
<1> QED
  BY <1>4, <1>5

Reports == [added : Nat, overwritten : Nat, skipped : Nat]

NamedIn(doc, i) == {doc[k].name : k \in 1..i}

(* What an import has made of the body d when i items of the document are   *)
(* in: a.body.                                                              *)
Gathered(a, d, doc, i, mode) ==
  /\ a = [body |-> a.body, report |-> a.report] /\ a.body \in Body /\ a.report \in Reports
  /\ Range(a.body) \subseteq Range(d) \cup Range(doc)
  /\ NamesOf(a.body) = NamesOf(d) \cup NamedIn(doc, i)
  /\ a.report.added + a.report.overwritten + a.report.skipped = i
  /\ mode # "Replace" => a.report.added + Len(d) = Len(a.body)
  /\ \A n \in NamesOf(d) : mode = "Merge" \/ n \notin NamedIn(doc, i) =>
       Get(a.body, n) = Get(d, n)
  /\ \A n \in NamedIn(doc, i) : ~(mode = "Merge" /\ n \in NamesOf(d)) =>
       \E k \in 1..i : /\ doc[k].name = n /\ Get(a.body, n) = doc[k]
                       /\ \A j \in 1..i : doc[j].name = n =>
                            IF mode = "Merge" THEN k <= j ELSE j <= k

Modes == {"Merge", "Overwrite", "Replace"}

(* How one more item changes what is gathered.                              *)
LEMMA MergeItemCases ==
  ASSUME NEW a, a = [body |-> a.body, report |-> a.report], a.body \in Body,
         a.report \in Reports, NEW it \in Item, it.name \in Names, NEW mode \in Modes
  PROVE  LET m == MergeItem(a, it, mode)
             has == it.name \in NamesOf(a.body)
         IN  /\ m = [body |-> m.body, report |-> m.report] /\ m.report \in Reports
             /\ m.body = IF has /\ mode = "Merge" THEN a.body ELSE Insert(a.body, it)
             /\ m.report.added + m.report.overwritten + m.report.skipped
                  = a.report.added + a.report.overwritten + a.report.skipped + 1
             /\ mode # "Replace" => m.report.added = IF has THEN a.report.added
                                                     ELSE a.report.added + 1
<1> DEFINE m == MergeItem(a, it, mode)
           has == it.name \in NamesOf(a.body)
<1>1. CASE has /\ mode = "Merge"
  <2>1. m = [body |-> a.body, report |-> [a.report EXCEPT !.skipped = @ + 1]]
    BY <1>1 DEF MergeItem
  <2> QED
    BY <1>1, <2>1 DEF Reports
<1>2. CASE has /\ mode = "Overwrite"
  <2>1. m = [body |-> Insert(a.body, it), report |-> [a.report EXCEPT !.overwritten = @ + 1]]
    BY <1>2 DEF MergeItem
  <2> QED
    BY <1>2, <2>1 DEF Reports
<1>3. CASE ~has \/ mode = "Replace"
  <2>1. m = [body |-> Insert(a.body, it), report |-> [a.report EXCEPT !.added = @ + 1]]
    BY <1>3 DEF MergeItem
  <2> QED
    BY <1>3, <2>1 DEF Reports
<1> QED
  BY <1>1, <1>2, <1>3 DEF Modes

LEMMA GatherOne ==
  ASSUME NEW d \in Body, NEW doc \in Seq(Item), NEW mode \in Modes,
         NEW i \in 0..Len(doc), i # Len(doc), doc[i + 1].name \in Names,
         NEW a, Gathered(a, d, doc, i, mode)
  PROVE  Gathered(MergeItem(a, doc[i + 1], mode), d, doc, i + 1, mode)
<1> DEFINE it == doc[i + 1]
           m == MergeItem(a, it, mode)
           has == it.name \in NamesOf(a.body)
           stays == has /\ mode = "Merge"
<1>1. /\ Len(doc) \in Nat /\ i \in Nat /\ i + 1 \in DOMAIN doc /\ it \in Item
      /\ it.name \in Names /\ it \in Range(doc)
  BY DEF Range
<1>2. /\ a = [body |-> a.body, report |-> a.report] /\ a.body \in Body /\ a.report \in Reports
      /\ Range(a.body) \subseteq Range(d) \cup Range(doc)
      /\ NamesOf(a.body) = NamesOf(d) \cup NamedIn(doc, i)
      /\ a.report.added + a.report.overwritten + a.report.skipped = i
      /\ mode # "Replace" => a.report.added + Len(d) = Len(a.body)
  BY DEF Gathered
<1> HIDE DEF it
<1>3. /\ m = [body |-> m.body, report |-> m.report] /\ m.report \in Reports
      /\ m.body = IF stays THEN a.body ELSE Insert(a.body, it)
      /\ m.report.added + m.report.overwritten + m.report.skipped
           = a.report.added + a.report.overwritten + a.report.skipped + 1
      /\ mode # "Replace" => m.report.added = IF has THEN a.report.added ELSE a.report.added + 1
  BY <1>1, <1>2, MergeItemCases
<1>4. /\ Insert(a.body, it) \in Body
      /\ Range(Insert(a.body, it)) = {x \in Range(a.body) : x.name # it.name} \cup {it}
      /\ Len(Insert(a.body, it)) = IF has THEN Len(a.body) ELSE Len(a.body) + 1
      /\ NamesOf(Insert(a.body, it)) = NamesOf(a.body) \cup {it.name}
      /\ \A n \in NamesOf(Insert(a.body, it)) :
           Get(Insert(a.body, it), n) = IF n = it.name THEN it ELSE Get(a.body, n)
  BY <1>1, <1>2, InsertPutsOne, InsertAsMap
<1>5. NamedIn(doc, i + 1) = NamedIn(doc, i) \cup {it.name}
  BY <1>1 DEF NamedIn, it
<1> HIDE DEF m
<1>6. /\ m.body \in Body /\ Range(m.body) \subseteq Range(d) \cup Range(doc)
      /\ NamesOf(m.body) = NamesOf(d) \cup NamedIn(doc, i + 1)
  BY <1>1, <1>2, <1>3, <1>4, <1>5
<1>7. mode # "Replace" => m.report.added + Len(d) = Len(m.body)
  <2>1. Len(d) \in Nat /\ Len(a.body) \in Nat /\ a.report.added \in Nat
    BY <1>2, BodyItems DEF Reports
  <2> SUFFICES ASSUME mode # "Replace"  PROVE m.report.added + Len(d) = Len(m.body)
    OBVIOUS
  <2>2. a.report.added + Len(d) = Len(a.body)
    BY <1>2
  <2>3. CASE has
    <3>1. Len(m.body) = Len(a.body) /\ m.report.added = a.report.added
      BY <1>3, <1>4, <2>3
    <3> QED
      BY <2>2, <3>1
  <2>4. CASE ~has
    <3>1. Len(m.body) = Len(a.body) + 1 /\ m.report.added = a.report.added + 1
      BY <1>3, <1>4, <2>4
    <3>2. \A x, y, z \in Nat : x + y = z => (x + 1) + y = z + 1
      OBVIOUS
    <3>3. (a.report.added + 1) + Len(d) = Len(a.body) + 1
      BY <2>1, <2>2, <3>2
    <3> QED
      BY <3>1, <3>3
  <2> QED
    BY <2>3, <2>4
<1>8. \A n \in NamesOf(a.body) : stays \/ n # it.name => Get(m.body, n) = Get(a.body, n)
  BY <1>3, <1>4
<1>9. ASSUME NEW n \in NamesOf(d), mode = "Merge" \/ n \notin NamedIn(doc, i + 1)
      PROVE  Get(m.body, n) = Get(d, n)
  <2>1. n \in NamesOf(a.body) /\ Get(a.body, n) = Get(d, n)
    BY <1>2, <1>5, <1>9 DEF Gathered
  <2>2. n = it.name => stays
    BY <1>5, <1>9, <2>1
  <2> QED
    BY <1>8, <2>1, <2>2
<1>10. ASSUME NEW n \in NamedIn(doc, i + 1), ~(mode = "Merge" /\ n \in NamesOf(d))
       PROVE  \E k \in 1..(i + 1) :
                /\ doc[k].name = n /\ Get(m.body, n) = doc[k]
                /\ \A j \in 1..(i + 1) : doc[j].name = n =>
                     IF mode = "Merge" THEN k <= j ELSE j <= k
  <2>1. CASE n = it.name /\ ~stays
    <3>1. Get(m.body, n) = it /\ n \in NamesOf(m.body)
      BY <1>3, <1>4, <2>1
    <3>2. mode = "Merge" => n \notin NamedIn(doc, i)
      BY <1>2, <2>1
    <3>3. \A j \in 1..(i + 1) : j \in 1..i \/ j = i + 1
      BY <1>1
    <3>4. \A j \in 1..(i + 1) : doc[j].name = n /\ mode = "Merge" => j = i + 1
      BY <3>2, <3>3 DEF NamedIn
    <3>5. i + 1 \in 1..(i + 1) /\ doc[i + 1].name = n /\ Get(m.body, n) = doc[i + 1]
      BY <1>1, <2>1, <3>1 DEF it
    <3> QED
      BY <1>1, <3>4, <3>5
  <2>2. CASE n # it.name \/ stays
    <3>1. n \in NamedIn(doc, i)
      BY <1>2, <1>5, <1>10, <2>2
    <3>2. PICK k \in 1..i : /\ doc[k].name = n /\ Get(a.body, n) = doc[k]
                            /\ \A j \in 1..i : doc[j].name = n =>
                                 IF mode = "Merge" THEN k <= j ELSE j <= k
      BY <1>10, <3>1 DEF Gathered
    <3>3. Get(m.body, n) = doc[k]
      BY <1>2, <1>8, <2>2, <3>1, <3>2
    <3>4. \A j \in 1..(i + 1) : j \in 1..i \/ j = i + 1
      BY <1>1
    <3>5. ASSUME NEW j \in 1..(i + 1), doc[j].name = n
          PROVE  IF mode = "Merge" THEN k <= j ELSE j <= k
      <4>1. CASE j \in 1..i
        BY <3>2, <3>5, <4>1
      <4>2. CASE j = i + 1
        <5>1. n = it.name /\ mode = "Merge"
          BY <2>2, <3>5, <4>2 DEF it
        <5> QED
          BY <1>1, <4>2, <5>1
      <4> QED
        BY <3>4, <4>1, <4>2
    <3>6. k \in 1..(i + 1)
      BY <1>1
    <3> QED
      BY <3>2, <3>3, <3>5, <3>6
  <2> QED
    BY <2>1, <2>2
<1>11. m.report.added + m.report.overwritten + m.report.skipped = i + 1
  BY <1>2, <1>3
<1> QED
  BY <1>3, <1>6, <1>7, <1>9, <1>10, <1>11 DEF Gathered, m, it

(* An import of documents whose names are valid: merge in export.rs.        *)
LEMMA MergeGathers ==
  ASSUME NEW b \in Body, NEW doc \in Seq(Item), NEW mode \in Modes,
         BadName \notin NamesOf(doc)
  PROVE  Base(b, mode) \in Body
         /\ Gathered(Merge(b, doc, mode), Base(b, mode), doc, Len(doc), mode)
<1> DEFINE n == Len(doc)
           d == Base(b, mode)
<1>1. n \in Nat /\ DOMAIN doc = 1..n
  OBVIOUS
<1>2. PICK acc : Accumulates(acc, b, doc, mode, n) /\ Merge(b, doc, mode) = acc[n]
  BY <1>1, MergeAccumulates
<1> DEFINE T == {i \in 0..n : Gathered(acc[i], d, doc, i, mode)}
<1>3. d \in Body
  BY DEF Body, Base
<1>4. 0 \in T
  <2>1. acc[0] = [body |-> d, report |-> NoReport] /\ 0 \in 0..n
    BY <1>1, <1>2 DEF Accumulates
  <2>2. NamedIn(doc, 0) = {}
    BY DEF NamedIn
  <2>3. Len(d) \in Nat
    BY <1>3, BodyItems
  <2> HIDE DEF d
  <2>4. Gathered(acc[0], d, doc, 0, mode)
    BY <1>3, <2>1, <2>2, <2>3 DEF Gathered, NoReport, Reports
  <2> QED
    BY <2>1, <2>4
<1>5. ASSUME NEW i \in 0..n, i \in T, i # n
      PROVE  i + 1 \in T
  <2>1. i + 1 \in 0..n /\ i + 1 # 0 /\ (i + 1) - 1 = i /\ i + 1 \in DOMAIN doc
    <3> HIDE DEF T, n
    <3> QED
      BY <1>1, <1>5
  <2>2. acc[i + 1] = MergeItem(acc[i], doc[i + 1], mode)
    BY <1>2, <2>1 DEF Accumulates
  <2>3. doc[i + 1].name \in Names
    <3>1. doc[i + 1] \in Item /\ doc[i + 1].name # BadName
      BY <2>1 DEF NamesOf
    <3> QED
      BY <3>1 DEF Item, AnyName
  <2> HIDE DEF d
  <2>4. Gathered(acc[i + 1], d, doc, i + 1, mode)
    BY <1>3, <1>5, <2>2, <2>3, GatherOne
  <2> QED
    BY <2>1, <2>4
<1>6. n \in T
  <2>1. T \in SUBSET (0..n) /\ n \in 0..n
    BY <1>1
  <2> HIDE DEF T
  <2> QED
    BY <1>1, <1>4, <1>5, <2>1, Climb
<1> QED
  BY <1>2, <1>3, <1>6
=============================================================================
