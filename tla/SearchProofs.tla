---------------------------- MODULE SearchProofs ----------------------------
(***************************************************************************)
(* Searches, for any number of them, of threads and of connections, any    *)
(* lists that their queries find, any scores, and any plan: first what     *)
(* fusion, reranking, MMR and the judge keep of a list; then what a search *)
(* may interrupt, the connections and the count of searches in flight, the *)
(* scores it uses, and what it serves while the vault changes.             *)
(***************************************************************************)
EXTENDS Search, FiniteSetTheorems, SequenceTheorems, NaturalsInduction, TLAPS

-----------------------------------------------------------------------------
(* The least of some numbers *)

LEMMA Least ==
  ASSUME NEW S \in SUBSET Nat, S # {}
  PROVE  Min(S) \in S /\ \A y \in S : Min(S) <= y
<1>1. IsWellFoundedOn({ss \in Nat \X Nat : ss[1] < ss[2]}, Nat)
  BY NatLessThanWellFounded DEF OpToRel
<1>2. PICK x \in S : \A y \in S : <<y, x>> \notin {ss \in Nat \X Nat : ss[1] < ss[2]}
  BY <1>1, WFMin
<1>3. \A y \in S : x <= y
  <2> SUFFICES ASSUME NEW y \in S, y < x PROVE FALSE
    BY SMT
  <2>1. <<y, x>> \in {ss \in Nat \X Nat : ss[1] < ss[2]}
    BY SMT
  <2> QED BY <1>2, <2>1
<1> QED BY <1>3 DEF Min

-----------------------------------------------------------------------------
(* Orders of a finite set *)

Before(S, R, x) == {y \in S : <<y, x>> \in R}

\* In a strict total order of a finite set, how many come before each numbers them all.
LEMMA Numbered ==
  ASSUME NEW S, IsFiniteSet(S), NEW R,
         \A x \in S : <<x, x>> \notin R,
         \A x, y \in S : x = y \/ <<x, y>> \in R \/ <<y, x>> \in R,
         \A x, y, z \in S : <<x, y>> \in R /\ <<y, z>> \in R => <<x, z>> \in R
  PROVE  /\ Cardinality(S) \in Nat
         /\ [x \in S |-> Cardinality(Before(S, R, x))] \in Bijection(S, 0..Cardinality(S) - 1)
<1> DEFINE place == [x \in S |-> Cardinality(Before(S, R, x))]
           n == Cardinality(S)
<1>1. n \in Nat
  BY FS_CardinalityType
<1>n. n = Cardinality(S)
  OBVIOUS
<1> HIDE DEF n
<1>2. ASSUME NEW x \in S
      PROVE  IsFiniteSet(Before(S, R, x)) /\ Cardinality(Before(S, R, x)) \in 0..n - 1
  <2>1. Before(S, R, x) \in SUBSET S /\ x \notin Before(S, R, x)
    BY DEF Before
  <2>2. IsFiniteSet(Before(S, R, x)) /\ Cardinality(Before(S, R, x)) <= n
        /\ Cardinality(Before(S, R, x)) # n
    BY <1>n, <2>1, FS_Subset
  <2>3. Cardinality(Before(S, R, x)) \in Nat
    BY <2>2, FS_CardinalityType
  <2> QED BY <1>1, <2>2, <2>3
<1>3. ASSUME NEW x \in S, NEW y \in S, <<x, y>> \in R
      PROVE  place[x] < place[y]
  <2>1. Before(S, R, x) \in SUBSET Before(S, R, y) /\ x \in Before(S, R, y) /\ x \notin Before(S, R, x)
    BY <1>3 DEF Before
  <2>2. /\ Cardinality(Before(S, R, x)) <= Cardinality(Before(S, R, y))
        /\ Cardinality(Before(S, R, x)) # Cardinality(Before(S, R, y))
    BY <1>2, <2>1, FS_Subset
  <2> QED BY <1>2, <2>2
<1>4. place \in Injection(S, 0..n - 1)
  <2>1. place \in [S -> 0..n - 1]
    BY <1>2
  <2>2. ASSUME NEW x \in S, NEW y \in S, place[x] = place[y] PROVE x = y
    <3>1. place[x] \in Int /\ place[y] \in Int
      BY <1>n, <2>1, <1>1
    <3>2. ~ (place[x] < place[y]) /\ ~ (place[y] < place[x])
      BY <2>2, <3>1
    <3> QED BY <1>3, <3>2
  <2> HIDE DEF place
  <2> QED BY <2>1, <2>2 DEF Injection, IsInjective
<1>5. IsFiniteSet(0..n - 1) /\ Cardinality(0..n - 1) = n
  BY <1>1, FS_Interval
<1>6. place \in Surjection(S, 0..n - 1)
  BY <1>n, <1>4, <1>5, FS_Injection
<1> QED BY <1>1, <1>n, <1>4, <1>6 DEF Bijection

\* So what comes at each place is well defined, and everything comes at one place.
LEMMA Placed ==
  ASSUME NEW S, IsFiniteSet(S), NEW R,
         \A x \in S : <<x, x>> \notin R,
         \A x, y \in S : x = y \/ <<x, y>> \in R \/ <<y, x>> \in R,
         \A x, y, z \in S : <<x, y>> \in R /\ <<y, z>> \in R => <<x, z>> \in R,
         NEW at, at = [i \in 1..Cardinality(S) |-> at[i]],
         \A i \in 1..Cardinality(S) :
           (\E x \in S : Cardinality(Before(S, R, x)) = i - 1)
             => at[i] \in S /\ Cardinality(Before(S, R, at[i])) = i - 1
  PROVE  Cardinality(S) \in Nat /\ at \in Bijection(1..Cardinality(S), S)
<1> DEFINE place == [x \in S |-> Cardinality(Before(S, R, x))]
           n == Cardinality(S)
<1>1. n \in Nat /\ place \in Bijection(S, 0..n - 1)
  BY Numbered
<1>n. n = Cardinality(S)
  OBVIOUS
<1> HIDE DEF n
<1>2. ASSUME NEW i \in 1..n
      PROVE  at[i] \in S /\ place[at[i]] = i - 1
  <2>1. i - 1 \in 0..n - 1
    BY <1>1
  <2>2. \E x \in S : place[x] = i - 1
    BY <1>1, <2>1 DEF Bijection, Surjection
  <2>3. \E x \in S : Cardinality(Before(S, R, x)) = i - 1
    BY <2>2
  <2>4. at[i] \in S /\ Cardinality(Before(S, R, at[i])) = i - 1
    BY <1>n, <2>3
  <2> QED BY <2>4
<1>3. ASSUME NEW i \in 1..n, NEW j \in 1..n, at[i] = at[j]
      PROVE  i = j
  <2>1. i - 1 = j - 1
    BY <1>2, <1>3
  <2> QED BY <1>1, <2>1
<1>4. ASSUME NEW x \in S
      PROVE  \E i \in 1..n : at[i] = x
  <2>1. place[x] \in 0..n - 1
    BY <1>1 DEF Bijection, Injection
  <2> DEFINE i == place[x] + 1
  <2> HIDE DEF place
  <2>2. i \in 1..n /\ i - 1 = place[x]
    BY <1>1, <2>1
  <2>3. place[at[i]] = place[x] /\ at[i] \in S
    BY <1>2, <2>2
  <2>4. at[i] = x
    BY <1>1, <2>3 DEF Bijection, Injection, IsInjective
  <2> QED BY <2>2, <2>4
<1>5. at \in [1..n -> S]
  BY <1>n, <1>2
<1>6. at \in Bijection(1..n, S)
  BY <1>3, <1>4, <1>5 DEF Bijection, Injection, Surjection, IsInjective
<1> QED BY <1>1, <1>n, <1>6

-----------------------------------------------------------------------------
(* Lists that hold nothing twice *)

Once(list) == \E n \in Nat : list \in [1..n -> Range(list)] /\ IsInjective(list)

\* A list without repetitions is as long as what it holds is many.
LEMMA OnceLength ==
  ASSUME NEW list, Once(list)
  PROVE  /\ Len(list) \in Nat /\ list \in [1..Len(list) -> Range(list)]
         /\ DOMAIN list = 1..Len(list) /\ list \in Seq(Range(list))
         /\ IsFiniteSet(Range(list)) /\ Cardinality(Range(list)) = Len(list)
<1>1. PICK n \in Nat : list \in [1..n -> Range(list)] /\ IsInjective(list)
  BY DEF Once
<1>2. list \in Seq(Range(list)) /\ Len(list) = n
  BY <1>1
<1>3. list \in Surjection(1..n, Range(list)) /\ list \in Injection(1..n, Range(list))
  BY <1>1 DEF Surjection, Injection, Range
<1>4. IsFiniteSet(1..n) /\ Cardinality(1..n) = n
  BY <1>1, FS_Interval
<1>5. IsFiniteSet(Range(list)) /\ Cardinality(Range(list)) = n
  BY <1>3, <1>4, FS_Surjection
<1> QED BY <1>1, <1>2, <1>5

\* What a list holds at some places.
Held(list, places) == {list[i] : i \in places}

\* What a list is when its places are put in another order.
Moved(list, n, f) == [i \in 1..n |-> list[f[i]]]

LEMMA OnceMoved ==
  ASSUME NEW list, NEW n \in Nat, NEW places, places \subseteq DOMAIN list,
         NEW f, f \in Bijection(1..n, places),
         \A i, j \in places : list[i] = list[j] => i = j
  PROVE  /\ Once(Moved(list, n, f)) /\ Len(Moved(list, n, f)) = n
         /\ Range(Moved(list, n, f)) = Held(list, places)
<1> DEFINE moved == Moved(list, n, f)
<1>m. moved = [i \in 1..n |-> list[f[i]]]
  BY DEF Moved
<1> HIDE DEF moved
<1>1. /\ f \in [1..n -> places] /\ \A i, j \in 1..n : f[i] = f[j] => i = j
      /\ \A p \in places : \E i \in 1..n : f[i] = p
  BY DEF Bijection, Injection, Surjection, IsInjective
<1>2. Range(moved) = Held(list, places)
  BY <1>1, <1>m DEF Range, Held
<1>3. moved \in [1..n -> Range(moved)]
  BY <1>m DEF Range
<1>4. IsInjective(moved)
  BY <1>1, <1>m DEF IsInjective
<1>5. Len(moved) = n
  BY <1>3
<1>6. Once(moved)
  BY <1>3, <1>4 DEF Once
<1> QED BY <1>2, <1>5, <1>6 DEF moved

LEMMA Extracted ==
  ASSUME NEW n \in Nat, NEW S, NEW list \in [1..n -> S], NEW places \in SUBSET (1..n),
         \A i, j \in places : list[i] = list[j] => i = j
  PROVE  /\ Once(Extract(list, places)) /\ Range(Extract(list, places)) = Held(list, places)
         /\ Len(Extract(list, places)) = Cardinality(places)
<1> DEFINE R == {jk \in places \X places : jk[1] < jk[2]}
           at(i) == CHOOSE j \in places : Cardinality({k \in places : k < j}) = i - 1
           f == [i \in 1..Cardinality(places) |-> at(i)]
<1>1. IsFiniteSet(places)
  <2>1. IsFiniteSet(1..n)
    BY FS_Interval
  <2> QED BY <2>1, FS_Subset
<1>2. \A x, y \in places : <<x, y>> \in R <=> x < y
  OBVIOUS
<1>3. /\ \A x \in places : <<x, x>> \notin R
      /\ \A x, y \in places : x = y \/ <<x, y>> \in R \/ <<y, x>> \in R
      /\ \A x, y, z \in places : <<x, y>> \in R /\ <<y, z>> \in R => <<x, z>> \in R
  BY <1>2
<1>4. \A x \in places : Before(places, R, x) = {y \in places : y < x}
  BY <1>2 DEF Before
<1>5. f = [i \in 1..Cardinality(places) |-> f[i]]
  <2> HIDE DEF at
  <2> QED OBVIOUS
<1>6. ASSUME NEW i \in 1..Cardinality(places), NEW x \in places,
             Cardinality(Before(places, R, x)) = i - 1
      PROVE  f[i] \in places /\ Cardinality(Before(places, R, f[i])) = i - 1
  <2> HIDE DEF R
  <2>1. Cardinality({k \in places : k < x}) = i - 1
    BY <1>4, <1>6
  <2>2. f[i] \in places /\ Cardinality({k \in places : k < f[i]}) = i - 1
    BY <2>1
  <2> HIDE DEF f
  <2> QED BY <1>4, <2>2
<1>7. Extract(list, places) = Moved(list, Cardinality(places), f)
  BY DEF Extract, Moved
<1> HIDE DEF f
<1>8. Cardinality(places) \in Nat /\ f \in Bijection(1..Cardinality(places), places)
  <2> HIDE DEF R
  <2> QED BY <1>1, <1>3, <1>5, <1>6, Placed
<1>9. places \subseteq DOMAIN list
  OBVIOUS
<1>10. \A i, j \in places : list[i] = list[j] => i = j
  OBVIOUS
<1> HIDE DEF at
<1>11. /\ Once(Moved(list, Cardinality(places), f))
       /\ Len(Moved(list, Cardinality(places), f)) = Cardinality(places)
       /\ Range(Moved(list, Cardinality(places), f)) = Held(list, places)
  BY <1>8, <1>9, <1>10, OnceMoved
<1> QED BY <1>7, <1>11

\* Sorting a list keeps what it holds.
LEMMA Sorted ==
  ASSUME NEW list, Once(list), NEW key, \A x \in Range(list) : key[x] \in Int
  PROVE  /\ Once(SortedBy(list, key)) /\ Range(SortedBy(list, key)) = Range(list)
         /\ Len(SortedBy(list, key)) = Len(list)
<1> DEFINE D == DOMAIN list
           n == Len(list)
           before(j, k) == key[list[j]] > key[list[k]] \/ (key[list[j]] = key[list[k]] /\ j < k)
           R == {jk \in D \X D : before(jk[1], jk[2])}
           at(i) == CHOOSE j \in D : Cardinality({k \in D : before(k, j)}) = i - 1
           f == [i \in D |-> at(i)]
<1>1. n \in Nat /\ D = 1..n /\ list \in [1..n -> Range(list)]
  BY OnceLength
<1>2. \A j \in D : key[list[j]] \in Int
  BY <1>1
<1> HIDE DEF D, n
<1>3. \A x, y \in D : <<x, y>> \in R <=> before(x, y)
  OBVIOUS
<1>4. /\ \A x \in D : <<x, x>> \notin R
      /\ \A x, y \in D : x = y \/ <<x, y>> \in R \/ <<y, x>> \in R
      /\ \A x, y, z \in D : <<x, y>> \in R /\ <<y, z>> \in R => <<x, z>> \in R
  <2> HIDE DEF R
  <2> QED BY <1>1, <1>2, <1>3
<1>5. \A x \in D : Before(D, R, x) = {k \in D : before(k, x)}
  <2> HIDE DEF R, before
  <2> QED BY <1>3 DEF Before
<1>6. IsFiniteSet(D) /\ Cardinality(D) = n
  BY <1>1, FS_Interval
<1>7. f = [i \in 1..Cardinality(D) |-> f[i]]
  <2> HIDE DEF at
  <2> QED BY <1>1, <1>6
<1>8. ASSUME NEW i \in 1..Cardinality(D), NEW x \in D, Cardinality(Before(D, R, x)) = i - 1
      PROVE  f[i] \in D /\ Cardinality(Before(D, R, f[i])) = i - 1
  <2> HIDE DEF R
  <2> DEFINE nth(j) == Cardinality({k \in D : before(k, j)}) = i - 1
  <2>1. nth(x)
    BY <1>5, <1>8
  <2>2. f[i] = CHOOSE j \in D : nth(j)
    BY <1>1, <1>6
  <2> HIDE DEF nth, f
  <2>3. f[i] \in D /\ nth(f[i])
    BY <2>1, <2>2
  <2> QED BY <1>5, <2>3 DEF nth
<1>9. SortedBy(list, key) = Moved(list, n, f)
  <2>1. SortedBy(list, key) = [i \in D |-> list[at(i)]]
    BY DEF SortedBy, D
  <2> HIDE DEF at
  <2> QED BY <1>1, <2>1 DEF Moved
<1> HIDE DEF R, f, at, before
<1>10. f \in Bijection(1..n, D)
  BY <1>4, <1>6, <1>7, <1>8, Placed
<1>11. /\ Once(Moved(list, n, f)) /\ Len(Moved(list, n, f)) = n
       /\ Range(Moved(list, n, f)) = Held(list, D)
  <2>1. \A i, j \in D : list[i] = list[j] => i = j
    BY <1>1 DEF Once, IsInjective, D
  <2>2. D \subseteq DOMAIN list
    BY DEF D
  <2> QED BY <1>1, <1>10, <2>1, <2>2, OnceMoved
<1>12. Held(list, D) = Range(list)
  BY DEF Held, Range, D
<1> QED BY <1>9, <1>11, <1>12 DEF n

\* The records of a list, each at its first place.
LEMMA FirstsOnce ==
  ASSUME NEW S, NEW list \in Seq(S)
  PROVE  Once(Firsts(list)) /\ Range(Firsts(list)) = Range(list)
<1> DEFINE places == {i \in DOMAIN list : \A j \in 1..i - 1 : list[j] # list[i]}
<1>1. Len(list) \in Nat /\ list \in [1..Len(list) -> S] /\ DOMAIN list = 1..Len(list)
  OBVIOUS
<1>2. \A i, j \in places : list[i] = list[j] => i = j
  BY <1>1
<1>3. ASSUME NEW k \in DOMAIN list PROVE \E i \in places : list[i] = list[k]
  <2> DEFINE same == {i \in DOMAIN list : list[i] = list[k]}
  <2>1. same \in SUBSET Nat /\ same # {}
    BY <1>1
  <2>2. Min(same) \in same /\ \A y \in same : Min(same) <= y
    BY <2>1, Least
  <2> DEFINE i == Min(same)
  <2> HIDE DEF i
  <2>3. i \in DOMAIN list /\ list[i] = list[k]
    BY <2>2 DEF i
  <2>4. ASSUME NEW j \in 1..i - 1, list[j] = list[i] PROVE FALSE
    <3>1. j \in DOMAIN list /\ i \in Nat /\ j < i
      BY <1>1, <2>3
    <3>2. j \in same
      BY <2>3, <2>4, <3>1
    <3>3. i <= j
      BY <2>2, <3>2 DEF i
    <3> QED BY <3>1, <3>3
  <2> QED BY <2>3, <2>4
<1>4. Held(list, places) = Range(list)
  BY <1>3 DEF Held, Range
<1>5. places \in SUBSET (1..Len(list))
  BY <1>1
<1>6. Firsts(list) = Extract(list, places)
  BY DEF Firsts
<1> HIDE DEF places
<1>7. Once(Extract(list, places)) /\ Range(Extract(list, places)) = Held(list, places)
  <2> DEFINE n == Len(list)
  <2>1. n \in Nat /\ list \in [1..n -> S] /\ places \in SUBSET (1..n)
    BY <1>1, <1>5
  <2> HIDE DEF n
  <2> QED BY <1>2, <2>1, Extracted
<1> QED BY <1>4, <1>6, <1>7

\* Those of a list that are in a set.
LEMMA OnlyOnce ==
  ASSUME NEW list, Once(list), NEW S
  PROVE  Once(Only(list, S)) /\ Range(Only(list, S)) = Range(list) \cap S
<1> DEFINE places == {i \in DOMAIN list : list[i] \in S}
<1>1. Len(list) \in Nat /\ list \in [1..Len(list) -> Range(list)] /\ DOMAIN list = 1..Len(list)
  BY OnceLength
<1>2. \A i, j \in places : list[i] = list[j] => i = j
  BY DEF Once, IsInjective
<1>3. Held(list, places) = Range(list) \cap S
  BY DEF Held, Range
<1>4. places \in SUBSET (1..Len(list))
  BY <1>1
<1>5. Only(list, S) = Extract(list, places)
  BY DEF Only
<1> HIDE DEF places
<1> QED BY <1>1, <1>2, <1>3, <1>4, <1>5, Extracted

LEMMA MinOfTwo ==
  ASSUME NEW a \in Nat, NEW b \in Nat
  PROVE  Min({a, b}) = IF a <= b THEN a ELSE b
<1>1. Min({a, b}) \in {a, b} /\ \A y \in {a, b} : Min({a, b}) <= y
  BY Least
<1> QED BY <1>1

\* The head of a list; it is the whole list when it is shorter than asked for.
LEMMA TakeOnce ==
  ASSUME NEW list, Once(list), NEW n \in Nat
  PROVE  /\ Once(Take(list, n)) /\ Len(Take(list, n)) = Min({n, Len(list)})
         /\ Range(Take(list, n)) \subseteq Range(list)
         /\ Len(Take(list, n)) <= n
         /\ Len(Take(list, n)) < n => Take(list, n) = list
<1>1. Len(list) \in Nat /\ list \in [1..Len(list) -> Range(list)] /\ list \in Seq(Range(list))
  BY OnceLength
<1> DEFINE k == Min({n, Len(list)})
           head == SubSeq(list, 1, k)
<1>2. k \in Nat /\ k <= n /\ k <= Len(list) /\ (k < n => k = Len(list))
  BY <1>1, MinOfTwo
<1>3. Take(list, n) = head
  BY DEF Take
<1> HIDE DEF k
<1>4. Len(head) = k /\ head = [i \in 1..k |-> list[i]]
  <2>1. \A i \in 1..k : list[i] \in Range(list)
    BY <1>1, <1>2
  <2>2. /\ head \in Seq(Range(list)) /\ Len(head) = k
        /\ \A i \in 1..k - 1 + 1 : head[i] = list[1 + i - 1]
    BY <1>2, <2>1, SubSeqProperties
  <2>3. \A i \in 1..k : i \in 1..k - 1 + 1 /\ 1 + i - 1 = i
    BY <1>2
  <2> HIDE DEF head
  <2>4. head = [i \in 1..k |-> head[i]]
    BY <2>2
  <2> QED BY <2>2, <2>3, <2>4
<1> HIDE DEF head
<1>5. Range(head) \subseteq Range(list)
  BY <1>1, <1>2, <1>4 DEF Range
<1>6. head \in [1..k -> Range(head)]
  BY <1>4 DEF Range
<1>7. IsInjective(head)
  BY <1>1, <1>2, <1>4 DEF IsInjective, Once
<1>8. k = Len(list) => head = list
  BY <1>1, <1>4
<1>9. Once(head)
  BY <1>2, <1>6, <1>7 DEF Once
<1> QED BY <1>2, <1>3, <1>4, <1>5, <1>8, <1>9 DEF k

\* One list behind another that has none of its records.
LEMMA JoinOnce ==
  ASSUME NEW a, Once(a), NEW b, Once(b), Range(a) \cap Range(b) = {}
  PROVE  /\ Once(a \o b) /\ Range(a \o b) = Range(a) \cup Range(b)
         /\ Len(a \o b) = Len(a) + Len(b)
<1> DEFINE S == Range(a) \cup Range(b)
           n == Len(a) + Len(b)
           join == a \o b
<1>1. Len(a) \in Nat /\ a \in [1..Len(a) -> Range(a)] /\ a \in Seq(S) /\ IsInjective(a)
  BY OnceLength DEF Once
<1>2. Len(b) \in Nat /\ b \in [1..Len(b) -> Range(b)] /\ b \in Seq(S) /\ IsInjective(b)
  BY OnceLength DEF Once
<1>3. /\ n \in Nat /\ Len(join) = n /\ join \in [1..n -> S]
      /\ \A i \in 1..n : join[i] = IF i <= Len(a) THEN a[i] ELSE b[i - Len(a)]
  <2>1. /\ join \in Seq(S) /\ Len(join) = n
        /\ \A i \in 1..n : join[i] = IF i <= Len(a) THEN a[i] ELSE b[i - Len(a)]
    BY <1>1, <1>2, ConcatProperties
  <2> HIDE DEF join
  <2>2. join \in [1..n -> S]
    BY <2>1
  <2> QED BY <1>1, <1>2, <2>1, <2>2
<1> HIDE DEF join
<1>4. \A x \in Range(a) : \E i \in 1..n : join[i] = x
  BY <1>1, <1>2, <1>3 DEF Range
<1>5. ASSUME NEW x \in Range(b) PROVE \E i \in 1..n : join[i] = x
  <2>1. PICK j \in 1..Len(b) : b[j] = x
    BY <1>2 DEF Range
  <2>2. j + Len(a) \in 1..n /\ ~ (j + Len(a) <= Len(a)) /\ (j + Len(a)) - Len(a) = j
    BY <1>1, <1>2
  <2> QED BY <1>3, <2>1, <2>2
<1>6. Range(join) = S
  <2>1. Range(join) = {join[i] : i \in 1..n}
    BY <1>3 DEF Range
  <2>2. \A i \in 1..n : join[i] \in S
    BY <1>3
  <2> QED BY <1>4, <1>5, <2>1, <2>2
<1>7. ASSUME NEW i \in 1..n, NEW j \in 1..n, join[i] = join[j] PROVE i = j
  <2>1. \A k \in 1..n : k <= Len(a) => k \in 1..Len(a) /\ join[k] = a[k] /\ a[k] \in Range(a)
    BY <1>1, <1>3
  <2>2. ASSUME NEW k \in 1..n, ~ (k <= Len(a))
        PROVE  k - Len(a) \in 1..Len(b) /\ join[k] = b[k - Len(a)] /\ b[k - Len(a)] \in Range(b)
    <3>1. k - Len(a) \in 1..Len(b)
      BY <1>1, <1>2, <2>2
    <3> QED BY <1>2, <1>3, <2>2, <3>1
  <2>3. CASE i <= Len(a) /\ j <= Len(a)
    BY <1>1, <1>7, <2>1, <2>3 DEF IsInjective
  <2>4. CASE ~ (i <= Len(a)) /\ ~ (j <= Len(a))
    <3>1. i - Len(a) = j - Len(a)
      BY <1>2, <1>7, <2>2, <2>4 DEF IsInjective
    <3> QED BY <1>1, <1>2, <3>1
  <2>5. CASE (i <= Len(a)) # (j <= Len(a))
    BY <1>7, <2>1, <2>2, <2>5
  <2> QED BY <2>3, <2>4, <2>5
<1>8. Once(join)
  BY <1>3, <1>6, <1>7 DEF Once, IsInjective
<1> QED BY <1>3, <1>6, <1>8 DEF join

\* The greatest of finitely many numbers.
LEMMA Greatest ==
  ASSUME NEW S \in SUBSET Int, IsFiniteSet(S), S # {}
  PROVE  Max(S) \in S
<1> DEFINE R == {xy \in S \X S : xy[1] < xy[2]}
           place == [x \in S |-> Cardinality(Before(S, R, x))]
           n == Cardinality(S)
<1>1. \A x, y \in S : <<x, y>> \in R <=> x < y
  OBVIOUS
<1>2. /\ \A x \in S : <<x, x>> \notin R
      /\ \A x, y \in S : x = y \/ <<x, y>> \in R \/ <<y, x>> \in R
      /\ \A x, y, z \in S : <<x, y>> \in R /\ <<y, z>> \in R => <<x, z>> \in R
  BY <1>1
<1>3. n \in Nat /\ n # 0
  BY FS_EmptySet, FS_CardinalityType
<1>4. place \in Bijection(S, 0..n - 1)
  <2> HIDE DEF R
  <2> QED BY <1>2, Numbered
<1>5. PICK x \in S : place[x] = n - 1
  <2>1. n - 1 \in 0..n - 1
    BY <1>3
  <2> HIDE DEF place, n
  <2> QED BY <1>4, <2>1 DEF Bijection, Surjection
<1>6. ASSUME NEW y \in S, ~ (x >= y) PROVE FALSE
  <2>1. Before(S, R, x) \in SUBSET Before(S, R, y) /\ x \in Before(S, R, y) /\ x \notin Before(S, R, x)
    <3>1. x < y /\ \A z \in S : z < x => z < y
      BY <1>6
    <3> HIDE DEF R, place, n
    <3>2. \A w \in S : Before(S, R, w) = {z \in S : z < w}
      BY <1>1 DEF Before
    <3>3. x \in S /\ y \in S /\ ~ (x < x)
      BY <1>5, <1>6
    <3> QED BY <3>1, <3>2, <3>3
  <2>2. Before(S, R, y) \in SUBSET (S \ {y})
    BY <1>1 DEF Before
  <2> HIDE DEF R
  <2>3. IsFiniteSet(S \ {y}) /\ Cardinality(S \ {y}) = n - 1
    BY FS_RemoveElement
  <2>4. IsFiniteSet(Before(S, R, y)) /\ Cardinality(Before(S, R, y)) <= n - 1
    BY <2>2, <2>3, FS_Subset
  <2>5. /\ Cardinality(Before(S, R, x)) <= Cardinality(Before(S, R, y))
        /\ Cardinality(Before(S, R, x)) # Cardinality(Before(S, R, y))
    BY <2>1, <2>4, FS_Subset
  <2>6. Cardinality(Before(S, R, x)) = n - 1 /\ Cardinality(Before(S, R, y)) \in Nat
    BY <1>5, <2>4, FS_CardinalityType
  <2> HIDE DEF n
  <2> QED BY <1>3, <2>4, <2>5, <2>6
<1> QED BY <1>6 DEF Max

\* The reranker only puts what is found in another order.
LEMMA RerankedOnce ==
  ASSUME NEW list, Once(list), NEW scores \in Seq(Int), Len(scores) <= Len(list)
  PROVE  Once(Reranked(list, scores)) /\ Range(Reranked(list, scores)) = Range(list)
<1> DEFINE n == Len(scores)
           l == Len(list)
           ids == [i \in 1..n |-> i]
           order == SortedBy(ids, scores)
           shift == [i \in 1..l - n |-> n + i]
           tail == SubSeq(list, n + 1, l)
<1>1. /\ l \in Nat /\ list \in [1..l -> Range(list)] /\ DOMAIN list = 1..l
      /\ \A i, j \in 1..l : list[i] = list[j] => i = j
  BY OnceLength DEF Once, IsInjective
<1>2. n \in Nat /\ n <= l /\ \A i \in 1..n : scores[i] \in Int
  OBVIOUS
<1>r. Reranked(list, scores) = Moved(list, n, order) \o tail
  BY DEF Reranked, Moved
<1> HIDE DEF n, l
<1>3. Once(ids) /\ Range(ids) = 1..n /\ Len(ids) = n
  <2>1. ids \in [1..n -> 1..n] /\ \A x \in 1..n : ids[x] = x
    OBVIOUS
  <2> HIDE DEF ids
  <2>2. Range(ids) = 1..n
    BY <2>1 DEF Range
  <2> QED BY <1>2, <2>1, <2>2, SMTT(30) DEF Once, IsInjective
<1> HIDE DEF ids
<1>4. Once(order) /\ Range(order) = 1..n /\ Len(order) = n
  BY <1>2, <1>3, Sorted
<1> HIDE DEF order
<1>5. order \in Bijection(1..n, 1..n)
  <2>1. order \in [1..n -> 1..n] /\ IsInjective(order) /\ DOMAIN order = 1..n
    BY <1>4, OnceLength DEF Once
  <2> QED BY <1>4, <2>1 DEF Bijection, Injection, Surjection, Range
<1>6. Once(Moved(list, n, order)) /\ Range(Moved(list, n, order)) = Held(list, 1..n)
  <2>1. 1..n \subseteq DOMAIN list /\ \A i, j \in 1..n : list[i] = list[j] => i = j
    BY <1>1, <1>2
  <2> QED BY <1>2, <1>5, <2>1, OnceMoved
<1>7. shift \in Bijection(1..l - n, n + 1..l)
  <2>1. shift \in [1..l - n -> n + 1..l] /\ \A i \in 1..l - n : shift[i] = n + i
    BY <1>1, <1>2
  <2>2. \A p \in n + 1..l : p - n \in 1..l - n /\ n + (p - n) = p
    BY <1>1, <1>2
  <2> HIDE DEF shift
  <2>3. \A p \in n + 1..l : \E i \in 1..l - n : shift[i] = p
    BY <2>1, <2>2
  <2>4. \A i, j \in 1..l - n : shift[i] = shift[j] => i = j
    BY <1>2, <2>1
  <2> QED BY <2>1, <2>3, <2>4 DEF Bijection, Injection, Surjection, IsInjective
<1>8. tail = Moved(list, l - n, shift)
  <2>1. \A i \in n + 1..l : list[i] \in Range(list)
    BY <1>1, <1>2
  <2>2. /\ tail \in Seq(Range(list)) /\ Len(tail) = l - n
        /\ \A i \in 1..l - (n + 1) + 1 : tail[i] = list[n + 1 + i - 1]
    <3>1. /\ tail \in Seq(Range(list)) /\ Len(tail) = IF n + 1 <= l THEN l - (n + 1) + 1 ELSE 0
          /\ \A i \in 1..l - (n + 1) + 1 : tail[i] = list[n + 1 + i - 1]
      <4>1. n + 1 \in Int /\ l \in Int
        BY <1>1, <1>2
      <4> QED BY <2>1, <4>1, SubSeqProperties
    <3> HIDE DEF tail
    <3> QED BY <1>1, <1>2, <3>1
  <2>3. \A i \in 1..l - n : /\ i \in 1..l - (n + 1) + 1 /\ n + 1 + i - 1 = n + i
                            /\ list[shift[i]] = list[n + i]
    BY <1>1, <1>2
  <2> HIDE DEF tail, shift
  <2>4. tail = [i \in 1..l - n |-> tail[i]]
    BY <2>2
  <2>5. \A i \in 1..l - n : tail[i] = list[shift[i]]
    BY <2>2, <2>3
  <2> QED BY <2>4, <2>5 DEF Moved
<1> HIDE DEF tail, shift
<1>9. Once(tail) /\ Range(tail) = Held(list, n + 1..l)
  <2>1. l - n \in Nat /\ n + 1..l \subseteq DOMAIN list
        /\ \A i, j \in n + 1..l : list[i] = list[j] => i = j
    BY <1>1, <1>2
  <2> QED BY <1>7, <1>8, <2>1, OnceMoved
<1>10. Held(list, 1..n) \cap Held(list, n + 1..l) = {}
  BY <1>1, <1>2 DEF Held
<1>11. Held(list, 1..n) \cup Held(list, n + 1..l) = Range(list)
  BY <1>1, <1>2 DEF Held, Range
<1> DEFINE head == Moved(list, n, order)
<1>12. Once(head) /\ Once(tail) /\ Range(head) \cap Range(tail) = {} /\ Range(head) \cup Range(tail) = Range(list)
  BY <1>6, <1>9, <1>10, <1>11
<1>13. Reranked(list, scores) = head \o tail
  BY <1>r
<1> HIDE DEF head
<1>14. Once(head \o tail) /\ Range(head \o tail) = Range(head) \cup Range(tail)
  BY <1>12, JoinOnce
<1> QED BY <1>12, <1>13, <1>14

-----------------------------------------------------------------------------
(* What a selection of up to k records keeps of a list *)

\* It has records of the list, each once, and all of them if it is not full.
Selects(chosen, list, k) ==
  /\ Once(chosen) /\ Range(chosen) \subseteq Range(list)
  /\ Len(chosen) < k => Range(list) \subseteq Range(chosen)

LEMMA TakeSelects ==
  ASSUME NEW list, Once(list), NEW k \in Nat
  PROVE  Selects(Take(list, k), list, k)
BY TakeOnce DEF Selects

\* A list of the same records selects from either.
LEMMA SelectsSame ==
  ASSUME NEW chosen, NEW list, NEW other, NEW k, Selects(chosen, list, k), Range(other) = Range(list)
  PROVE  Selects(chosen, other, k)
BY DEF Selects

\* A list that has a part of another's records, and no fewer, has all of them.
LEMMA AllOfThem ==
  ASSUME NEW a, Once(a), NEW b, Once(b), Range(a) \subseteq Range(b), Len(a) >= Len(b)
  PROVE  Range(a) = Range(b)
<1>1. /\ IsFiniteSet(Range(a)) /\ Cardinality(Range(a)) = Len(a) /\ Len(a) \in Nat
      /\ IsFiniteSet(Range(b)) /\ Cardinality(Range(b)) = Len(b) /\ Len(b) \in Nat
  BY OnceLength
<1>2. Cardinality(Range(a)) <= Cardinality(Range(b))
  BY <1>1, FS_Subset
<1> QED BY <1>1, <1>2, FS_Subset

\* Two lists with the same records are as long as each other.
LEMMA NoShorter ==
  ASSUME NEW a, Once(a), NEW b, Once(b), Range(a) \subseteq Range(b)
  PROVE  Len(a) <= Len(b)
BY OnceLength, FS_Subset

\* The Jev judge may put others first than were to be served, but of what was found.
LEMMA JevSelects ==
  ASSUME NEW found, Once(found), Range(found) \subseteq Memories,
         NEW size \in Nat, NEW limit \in Nat, NEW served, Selects(served, found, limit),
         NEW scores \in [Memories -> Int]
  PROVE  Selects(JevOrdered(served, found, size, limit, scores), found, limit)
<1> DEFINE first == Firsts(served \o found)
           asked == Take(first, size)
           ranked == SortedBy(asked, scores)
           order == Take(ranked, limit)
           rest == Only(served, Memories \ Range(asked))
           left == limit - Len(order)
           tail == Take(rest, left)
           chosen == order \o tail
<1>0. JevOrdered(served, found, size, limit, scores) = chosen
  BY DEF JevOrdered, JevPool, JevRanked
<1>1. Once(served) /\ Range(served) \subseteq Range(found)
  BY DEF Selects
<1>2. Once(first) /\ Range(first) = Range(found)
  <2>1. /\ served \in Seq(Range(found)) /\ found \in Seq(Range(found))
        /\ Len(served) \in Nat /\ Len(found) \in Nat
    BY <1>1, OnceLength
  <2>2. /\ served \o found \in Seq(Range(found)) /\ Len(served \o found) = Len(served) + Len(found)
        /\ \A i \in 1..Len(served) + Len(found) :
             (served \o found)[i] = IF i <= Len(served) THEN served[i] ELSE found[i - Len(served)]
    BY <2>1, ConcatProperties
  <2>3. \A i \in 1..Len(found) : /\ i + Len(served) \in 1..Len(served) + Len(found)
                                 /\ ~ (i + Len(served) <= Len(served)) /\ (i + Len(served)) - Len(served) = i
    BY <2>1
  <2> DEFINE both == served \o found
  <2> HIDE DEF both
  <2>4. Range(both) = Range(found)
    <3>1. Range(both) \subseteq Range(found)
      BY <2>2 DEF both, Range
    <3>2. ASSUME NEW x \in Range(found) PROVE x \in Range(both)
      <4>1. PICK i \in 1..Len(found) : found[i] = x
        BY <2>1 DEF Range
      <4>2. both[i + Len(served)] = x /\ i + Len(served) \in DOMAIN both
        BY <2>1, <2>2, <2>3, <4>1 DEF both
      <4> QED BY <4>2 DEF Range
    <3> QED BY <3>1, <3>2
  <2> QED BY <2>2, <2>4, FirstsOnce DEF both
<1> HIDE DEF first
<1>3. Once(asked) /\ Range(asked) \subseteq Range(found)
  BY <1>2, TakeOnce
<1> HIDE DEF asked
<1>4. Once(ranked) /\ Range(ranked) = Range(asked)
  BY <1>3, Sorted
<1> HIDE DEF ranked
<1>5. /\ Once(order) /\ Range(order) \subseteq Range(asked) /\ Len(order) <= limit
      /\ Len(order) < limit => Range(order) = Range(asked)
  BY <1>4, TakeOnce
<1> HIDE DEF order
<1>6. Once(rest) /\ Range(rest) = Range(served) \ Range(asked)
  <2>1. Once(rest) /\ Range(rest) = Range(served) \cap (Memories \ Range(asked))
    BY <1>1, OnlyOnce
  <2> HIDE DEF rest
  <2> QED BY <1>1, <2>1
<1> HIDE DEF rest
<1>7. Len(order) \in Nat /\ left \in Nat
  BY <1>5, OnceLength
<1>8. left = limit - Len(order)
  OBVIOUS
<1> HIDE DEF left
<1>9. /\ Once(tail) /\ Range(tail) \subseteq Range(rest) /\ Len(tail) <= left /\ Len(tail) \in Nat
      /\ Len(tail) < left => tail = rest
  BY <1>6, <1>7, TakeOnce, OnceLength
<1> HIDE DEF tail
<1>10. /\ Once(chosen) /\ Range(chosen) = Range(order) \cup Range(tail)
       /\ Len(chosen) = Len(order) + Len(tail)
  BY <1>5, <1>6, <1>9, JoinOnce
<1> HIDE DEF chosen
<1>11. Range(chosen) \subseteq Range(found)
  BY <1>1, <1>3, <1>5, <1>6, <1>9, <1>10
<1>12. ASSUME Len(chosen) < limit PROVE Range(found) \subseteq Range(chosen)
  <2>1. Len(order) < limit /\ Len(tail) < left
    BY <1>7, <1>8, <1>9, <1>10, <1>12
  <2>2. Range(served) \subseteq Range(chosen)
    BY <1>5, <1>6, <1>9, <1>10, <2>1
  <2>3. Len(served) <= Len(chosen) /\ Len(served) \in Nat /\ Len(chosen) \in Nat
    BY <1>1, <1>10, <2>2, NoShorter, OnceLength
  <2>4. Len(served) < limit
    BY <1>12, <2>3
  <2> QED BY <2>2, <2>4 DEF Selects
<1> QED BY <1>0, <1>10, <1>11, <1>12 DEF Selects

-----------------------------------------------------------------------------
(* Maximal marginal relevance *)

\* What MMR weighs is a number, whatever has been picked.
LEMMA Redundant ==
  ASSUME NEW m \in Memories, NEW picked \in SUBSET Memories, picked # {}
  PROVE  Max({PairSim[m][n] : n \in picked}) \in Int
<1> DEFINE S == {PairSim[m][n] : n \in picked}
           f == [n \in picked |-> PairSim[m][n]]
<1>1. S \in SUBSET Int /\ S # {}
  BY RankingAssumption
<1>2. IsFiniteSet(picked)
  BY RankingAssumption, FS_Subset
<1>3. f \in Surjection(picked, S)
  BY DEF Surjection
<1>4. IsFiniteSet(S)
  <2> HIDE DEF f, S
  <2> QED BY <1>2, <1>3, FS_Surjection
<1> HIDE DEF S
<1>5. Max(S) \in Int
  BY <1>1, <1>4, Greatest
<1> QED BY <1>5 DEF S

\* The next it picks from a list.
Next1(list, picked) == Pick(picked, Only(list, Vectored \ picked))

LEMMA PicksAnother ==
  ASSUME NEW list, Once(list), Range(list) \subseteq Vectored,
         NEW picked \in SUBSET Range(list), picked # Range(list)
  PROVE  Next1(list, picked) \in Range(list) \ picked
<1> DEFINE remaining == Only(list, Vectored \ picked)
           redundancy(m) == IF picked = {} THEN 0 ELSE Max({PairSim[m][n] : n \in picked})
           value == [m \in Vectored |->
                       LambdaTenths * QuerySim[m] - (10 - LambdaTenths) * redundancy(m)]
           order == SortedBy(remaining, value)
<1>1. Once(remaining) /\ Range(remaining) = Range(list) \ picked
  <2>1. Once(remaining) /\ Range(remaining) = Range(list) \cap (Vectored \ picked)
    BY OnlyOnce
  <2> HIDE DEF remaining
  <2> QED BY <2>1
<1>2. Next1(list, picked) = order[1]
  BY DEF Next1, Pick
<1> HIDE DEF remaining
<1>3. \A x \in Range(remaining) : value[x] \in Int
  <2> TAKE x \in Range(remaining)
  <2>1. x \in Vectored /\ x \in Memories /\ picked \in SUBSET Memories
    BY <1>1 DEF Vectored
  <2>2. redundancy(x) \in Int
    BY <2>1, Redundant
  <2>3. QuerySim[x] \in Int /\ LambdaTenths \in Nat
    BY <2>1, RankingAssumption DEF Vectored
  <2>4. value[x] = LambdaTenths * QuerySim[x] - (10 - LambdaTenths) * redundancy(x)
    BY <2>1
  <2> HIDE DEF redundancy, value
  <2> QED BY <2>2, <2>3, <2>4
<1> HIDE DEF value
<1>4. Once(order) /\ Range(order) = Range(list) \ picked
  BY <1>1, <1>3, Sorted
<1> HIDE DEF order
<1>5. /\ Len(order) \in Nat /\ order \in [1..Len(order) -> Range(order)]
      /\ IsFiniteSet(Range(order)) /\ Cardinality(Range(order)) = Len(order)
  BY <1>4, OnceLength
<1>6. Len(order) # 0
  BY <1>4, <1>5, FS_EmptySet
<1>7. order[1] \in Range(order)
  BY <1>5, <1>6
<1> QED BY <1>2, <1>4, <1>7

\* What it has picked before the i-th.
Already(picked, i) == {picked[j] : j \in 1..i - 1}

Greedy(picked, list, n) ==
  picked \in [1..n -> Range(list)] /\ \A i \in 1..n : picked[i] = Next1(list, Already(picked, i))

\* While there is another to pick, those already picked are not all.
LEMMA NotAll ==
  ASSUME NEW list, Once(list), NEW n \in Nat, NEW i \in 1..n + 1, NEW picked \in [1..n -> Range(list)],
         i <= Len(list)
  PROVE  Already(picked, i) \in SUBSET Range(list) /\ Already(picked, i) # Range(list)
<1> DEFINE f == [j \in 1..i - 1 |-> picked[j]]
           S == Already(picked, i)
<1>1. \A j \in 1..i - 1 : j \in 1..n
  OBVIOUS
<1>2. S \in SUBSET Range(list)
  BY <1>1 DEF Already
<1>3. f \in Surjection(1..i - 1, S)
  BY DEF Surjection, Already
<1> HIDE DEF f, S
<1>4. IsFiniteSet(1..i - 1) /\ Cardinality(1..i - 1) = i - 1
  BY FS_Interval
<1>5. Cardinality(S) <= i - 1
  BY <1>3, <1>4, FS_Surjection
<1>6. Cardinality(Range(list)) = Len(list) /\ Len(list) \in Nat
  BY OnceLength
<1>7. S # Range(list)
  BY <1>5, <1>6
<1> QED BY <1>2, <1>7 DEF S

LEMMA GreedyExists ==
  ASSUME NEW list, Once(list), Range(list) \subseteq Vectored, NEW n \in Nat, n <= Len(list)
  PROVE  \E picked : Greedy(picked, list, n)
<1> DEFINE bad == {k \in 0..n : ~ \E picked : Greedy(picked, list, k)}
<1>l. Len(list) \in Nat
  BY OnceLength
<1> SUFFICES ASSUME bad # {} PROVE FALSE
  OBVIOUS
<1>1. Min(bad) \in bad /\ \A y \in bad : Min(bad) <= y
  <2>1. bad \in SUBSET Nat
    OBVIOUS
  <2> HIDE DEF bad
  <2> QED BY <2>1, Least
<1> DEFINE k == Min(bad)
<1>2. k \in 0..n /\ (~ \E picked : Greedy(picked, list, k)) /\ \A y \in bad : k <= y
  BY <1>1
<1> HIDE DEF k
<1>3. k # 0
  <2>1. Greedy([i \in 1..0 |-> 0], list, 0)
    BY DEF Greedy
  <2> QED BY <1>2, <2>1
<1>4. k - 1 \in 0..n /\ k - 1 \notin bad
  BY <1>2, <1>3
<1>5. PICK picked : Greedy(picked, list, k - 1)
  BY <1>4
<1> HIDE DEF bad
<1> DEFINE more == [i \in 1..k |-> IF i = k THEN Next1(list, Already(picked, k)) ELSE picked[i]]
<1>6. k \in Nat /\ k - 1 \in Nat /\ k \in 1..(k - 1) + 1 /\ k <= Len(list)
  BY <1>l, <1>2, <1>3
<1>7. Already(picked, k) \in SUBSET Range(list) /\ Already(picked, k) # Range(list)
  BY <1>5, <1>6, NotAll DEF Greedy
<1>8. Next1(list, Already(picked, k)) \in Range(list)
  BY <1>7, PicksAnother
<1>9. more \in [1..k -> Range(list)]
  BY <1>5, <1>6, <1>8 DEF Greedy
<1>10. ASSUME NEW i \in 1..k PROVE Already(more, i) = Already(picked, i)
  <2>1. \A j \in 1..i - 1 : j \in 1..k /\ j # k
    BY <1>6
  <2>2. \A j \in 1..i - 1 : more[j] = picked[j]
    BY <2>1
  <2> HIDE DEF more
  <2> QED BY <2>2 DEF Already
<1>11. ASSUME NEW i \in 1..k PROVE more[i] = Next1(list, Already(more, i))
  <2>1. i # k => i \in 1..k - 1
    BY <1>6
  <2>2. more[i] = Next1(list, Already(picked, i))
    BY <1>5, <2>1 DEF Greedy
  <2> QED BY <1>10, <2>2
<1>12. Greedy(more, list, k)
  <2> HIDE DEF more
  <2> QED BY <1>9, <1>11 DEF Greedy
<1> QED BY <1>2, <1>12

LEMMA PicksOnce ==
  ASSUME NEW list, Once(list), Range(list) \subseteq Vectored, NEW n \in Nat, n <= Len(list)
  PROVE  /\ Once(Picks(list, n)) /\ Len(Picks(list, n)) = n
         /\ Range(Picks(list, n)) \subseteq Range(list)
<1> DEFINE greedy(picked) == \A i \in 1..n : LET before == {picked[j] : j \in 1..i - 1}
                                             IN picked[i] = Pick(before, Only(list, Vectored \ before))
           p == Picks(list, n)
<1>1. \A picked : greedy(picked) <=> \A i \in 1..n : picked[i] = Next1(list, Already(picked, i))
  BY DEF Next1, Already
<1>2. p = CHOOSE picked \in [1..n -> Range(list)] : greedy(picked)
  BY DEF Picks
<1> HIDE DEF greedy, p
<1>3. \E picked \in [1..n -> Range(list)] : greedy(picked)
  BY <1>1, GreedyExists DEF Greedy
<1>4. p \in [1..n -> Range(list)] /\ greedy(p)
  BY <1>2, <1>3
<1>5. ASSUME NEW i \in 1..n PROVE p[i] \notin Already(p, i)
  <2>1. i \in 1..n + 1 /\ i <= Len(list)
    BY OnceLength
  <2>2. Already(p, i) \in SUBSET Range(list) /\ Already(p, i) # Range(list)
    BY <1>4, <2>1, NotAll
  <2>3. Next1(list, Already(p, i)) \notin Already(p, i)
    BY <2>2, PicksAnother
  <2> QED BY <1>1, <1>4, <2>3
<1>6. ASSUME NEW i \in 1..n, NEW j \in 1..n, p[i] = p[j] PROVE i = j
  <2>1. i < j => p[i] \in Already(p, j)
    BY DEF Already
  <2>2. j < i => p[j] \in Already(p, i)
    BY DEF Already
  <2> QED BY <1>5, <1>6, <2>1, <2>2
<1>7. Range(p) \subseteq Range(list) /\ p \in [1..n -> Range(p)]
  BY <1>4 DEF Range
<1>8. Once(p) /\ Len(p) = n
  BY <1>4, <1>6, <1>7 DEF Once, IsInjective
<1> QED BY <1>7, <1>8 DEF p

\* MMR takes up to k records of what is found: those with a vector first, but those
\* without when there is room.
LEMMA DiversifiedSelects ==
  ASSUME NEW list, Once(list), Range(list) \subseteq Memories, NEW k \in Nat
  PROVE  Selects(Diversified(list, k), list, k)
<1> DEFINE with == Only(list, Vectored)
           without == Only(list, Memories \ Vectored)
           n == Min({k, Len(with)})
           picks == Picks(with, n)
           all == picks \o without
           chosen == Take(all, k)
<1>1. Diversified(list, k) = IF with = << >> THEN Take(list, k) ELSE chosen
  BY DEF Diversified
<1>2. Once(with) /\ Range(with) = Range(list) \cap Vectored
  BY OnlyOnce
<1>3. Once(without) /\ Range(without) = Range(list) \cap (Memories \ Vectored)
  BY OnlyOnce
<1> HIDE DEF with, without
<1>4. Len(with) \in Nat /\ n \in Nat /\ n <= Len(with) /\ n <= k /\ (n < k => n = Len(with))
  BY <1>2, OnceLength, MinOfTwo
<1> HIDE DEF n
<1>5. Once(picks) /\ Len(picks) = n /\ Range(picks) \subseteq Range(with)
  <2>1. Range(with) \subseteq Vectored
    BY <1>2
  <2> QED BY <1>2, <1>4, <2>1, PicksOnce
<1> HIDE DEF picks
<1>6. Once(all) /\ Range(all) = Range(picks) \cup Range(without) /\ Len(all) = n + Len(without)
  <2>1. Range(picks) \cap Range(without) = {}
    BY <1>2, <1>3, <1>5
  <2> QED BY <1>3, <1>5, <2>1, JoinOnce
<1> HIDE DEF all
<1>7. Once(chosen) /\ Range(chosen) \subseteq Range(all) /\ (Len(chosen) < k => chosen = all)
  BY <1>6, TakeOnce
<1> HIDE DEF chosen
<1>8. Range(chosen) \subseteq Range(list)
  BY <1>2, <1>3, <1>5, <1>6, <1>7
<1>9. ASSUME Len(chosen) < k PROVE Range(list) \subseteq Range(chosen)
  <2>1. chosen = all /\ Len(without) \in Nat
    BY <1>3, <1>7, <1>9, OnceLength
  <2>2. n < k
    BY <1>4, <1>6, <1>9, <2>1
  <2>3. Range(picks) = Range(with)
    BY <1>2, <1>4, <1>5, <2>2, AllOfThem
  <2> QED BY <1>2, <1>3, <1>6, <2>1, <2>3
<1>10. Selects(chosen, list, k)
  BY <1>7, <1>8, <1>9 DEF Selects
<1> QED BY <1>1, <1>10, TakeSelects

-----------------------------------------------------------------------------
(* The leg *)

LegPcs == {"none", "queued", "call", "attach", "wait", "scan", "return", "ok", "err"}

Legs == [pc : LegPcs, conn : Conns \cup {Shared, None}, attached : Conns \cup {Shared, None},
         abandoned : BOOLEAN, hits : QueryVec \cup {<< >>}]

LegTyped == leg \in [Callers -> Legs]

\* A connection is known to the search for no longer than the scan on it, which is
\* why it cannot be one that has been given back.
OwnWhileScanning(job) ==
  job.attached # None => /\ job.pc = "scan"
                         /\ job.attached = job.conn
                         /\ job.conn # Shared

InterruptInv == LegTyped /\ \A s \in Callers : OwnWhileScanning(leg[s])

-----------------------------------------------------------------------------

LEMMA NoLegIsLeg == NoLeg \in Legs /\ OwnWhileScanning(NoLeg)
BY DEF NoLeg, Legs, LegPcs, OwnWhileScanning

\* A leg that ends is known to hold nothing, if it was known to hold nothing or is
\* given up.
LEMMA EndedIsLeg ==
  ASSUME NEW job \in Legs, NEW how \in LegPcs, job.attached = None
  PROVE  Ended(job, how) \in Legs /\ OwnWhileScanning(Ended(job, how))
<1>1. CASE job.abandoned
  BY <1>1, NoLegIsLeg DEF Ended
<1>2. CASE ~ job.abandoned
  BY <1>2 DEF Ended, Legs, LegPcs, OwnWhileScanning
<1> QED BY <1>1, <1>2

\* The other legs are as they were.
LEMMA OneLeg ==
  ASSUME InterruptInv, NEW s \in Callers, NEW job \in Legs, OwnWhileScanning(job),
         leg' = [leg EXCEPT ![s] = job]
  PROVE  InterruptInv'
<1>1. LegTyped'
  BY DEF InterruptInv, LegTyped
<1>2. \A t \in Callers : leg'[t] = IF t = s THEN job ELSE leg[t]
  BY DEF InterruptInv, LegTyped
<1>3. \A t \in Callers : OwnWhileScanning(leg'[t])
  BY <1>2 DEF InterruptInv
<1>4. \A t \in Callers : OwnWhileScanning(leg[t])'
  BY <1>3 DEF OwnWhileScanning
<1> QED BY <1>1, <1>4 DEF InterruptInv

-----------------------------------------------------------------------------

LEMMA InterruptInit == Init => InterruptInv
<1> SUFFICES ASSUME Init PROVE InterruptInv
  OBVIOUS
<1>1. LegTyped
  BY NoLegIsLeg DEF Init, LegTyped
<1>2. \A s \in Callers : leg[s] = NoLeg
  BY DEF Init
<1> QED BY <1>1, <1>2, NoLegIsLeg DEF InterruptInv

\* What a search does to its leg: it starts it, takes it, or gives it up.
LEMMA InterruptSearch ==
  ASSUME InterruptInv, NEW s \in Callers, Start(s) \/ SearchStep(s)
  PROVE  InterruptInv'
<1>1. leg[s] \in Legs /\ OwnWhileScanning(leg[s])
  BY DEF InterruptInv, LegTyped
<1>2. CASE Start(s)
  <2> DEFINE job == [NoLeg EXCEPT !.pc = "queued"]
  <2>1. job \in Legs /\ OwnWhileScanning(job)
    BY DEF NoLeg, Legs, LegPcs, OwnWhileScanning
  <2>2. leg' = [leg EXCEPT ![s] = job]
    BY <1>2 DEF Start
  <2> QED BY <2>1, <2>2, OneLeg
<1>3. CASE TakeLeg(s)
  BY <1>3, NoLegIsLeg, OneLeg DEF TakeLeg
<1>4. CASE Abandon(s)
  <2> DEFINE job == IF leg[s].pc \in {"ok", "err"} THEN NoLeg
                    ELSE [leg[s] EXCEPT !.abandoned = TRUE]
  <2>1. job \in Legs /\ OwnWhileScanning(job)
    BY <1>1, NoLegIsLeg DEF Legs, LegPcs, OwnWhileScanning
  <2>2. leg' = [leg EXCEPT ![s] = job]
    BY <1>4 DEF Abandon
  <2> HIDE DEF job
  <2> QED BY <2>1, <2>2, OneLeg
<1>5. CASE leg' = leg
  BY <1>5 DEF InterruptInv, LegTyped, OwnWhileScanning
<1>6. Keywords(s) \/ TimeOut(s) \/ ReadHit(s) \/ Raise(s) \/ Collect(s) \/ LookUp(s)
        \/ Score(s) \/ Finish(s) \/ Judged(s) \/ Return(s) => leg' = leg
  BY DEF Keywords, TimeOut, ReadHit, Raise, Collect, LookUp, Score, Finish, Judged, Return
<1> QED BY <1>2, <1>3, <1>4, <1>5, <1>6 DEF SearchStep

\* What a leg does: only Attach makes a connection known, and every way out of the
\* scan takes it back.
LEMMA InterruptLeg ==
  ASSUME InterruptInv, NEW s \in Callers, LegStep(s)
  PROVE  InterruptInv'
<1>1. leg[s] \in Legs /\ OwnWhileScanning(leg[s])
  BY DEF InterruptInv, LegTyped
<1>2. leg[s].pc # "scan" => leg[s].attached = None
  BY <1>1 DEF OwnWhileScanning
<1>3. ASSUME leg[s].pc # "scan", NEW how \in LegPcs, LegEnds(s, how)
      PROVE  InterruptInv'
  <2>1. Ended(leg[s], how) \in Legs /\ OwnWhileScanning(Ended(leg[s], how))
    BY <1>1, <1>2, <1>3, EndedIsLeg
  <2>2. leg' = [leg EXCEPT ![s] = Ended(leg[s], how)]
    BY <1>3 DEF LegEnds
  <2> QED BY <2>1, <2>2, OneLeg
<1>4. CASE LegStart(s)
  <2>1. leg[s].pc # "scan"
    BY <1>4 DEF LegStart, LegAt
  <2>2. CASE LegEnds(s, "err")
    BY <1>3, <2>1, <2>2 DEF LegPcs
  <2>3. CASE LegGoes(s, "call")
    <3> DEFINE job == [leg[s] EXCEPT !.pc = "call"]
    <3>1. job \in Legs /\ OwnWhileScanning(job)
      BY <1>1, <1>2, <2>1 DEF Legs, LegPcs, OwnWhileScanning
    <3>2. leg' = [leg EXCEPT ![s] = job]
      BY <2>3 DEF LegGoes
    <3> QED BY <3>1, <3>2, OneLeg
  <2> QED BY <1>4, <2>2, <2>3 DEF LegStart, BreakerOpen
<1>5. CASE Answer(s)
  <2>1. leg[s].pc # "scan"
    BY <1>5 DEF Answer, LegAt
  <2>2. CASE LegEnds(s, "err")
    BY <1>3, <2>1, <2>2 DEF LegPcs
  <2>3. ASSUME NEW c \in Conns \cup {Shared},
               leg' = [leg EXCEPT ![s].pc = "attach", ![s].conn = c]
        PROVE  InterruptInv'
    <3> DEFINE job == [leg[s] EXCEPT !.pc = "attach", !.conn = c]
    <3>1. job \in Legs /\ OwnWhileScanning(job)
      BY <1>1, <1>2, <2>1 DEF Legs, LegPcs, OwnWhileScanning
    <3>2. leg' = [leg EXCEPT ![s] = job]
      BY <2>3 DEF InterruptInv, LegTyped
    <3> QED BY <3>1, <3>2, OneLeg
  <2> QED BY <1>5, <2>2, <2>3 DEF Answer, EmbedFails
<1>6. CASE Attach(s)
  <2>1. leg[s].pc # "scan"
    BY <1>6 DEF Attach, LegAt
  <2>2. CASE leg[s].abandoned
    BY <1>3, <1>6, <2>1, <2>2 DEF Attach, LegPcs
  <2>3. CASE ~ leg[s].abandoned /\ leg[s].conn # Shared
    <3> DEFINE job == [leg[s] EXCEPT !.pc = "scan", !.attached = leg[s].conn]
    <3>1. job \in Legs /\ OwnWhileScanning(job)
      BY <1>1, <2>3 DEF Legs, LegPcs, OwnWhileScanning
    <3>2. leg' = [leg EXCEPT ![s] = job]
      BY <1>6, <2>3 DEF Attach, InterruptInv, LegTyped
    <3> HIDE DEF job
    <3> QED BY <3>1, <3>2, OneLeg
  <2>4. CASE ~ leg[s].abandoned /\ leg[s].conn = Shared
    <3> DEFINE job == [leg[s] EXCEPT !.pc = "wait"]
    <3>1. job \in Legs /\ OwnWhileScanning(job)
      BY <1>1, <1>2, <2>1 DEF Legs, LegPcs, OwnWhileScanning
    <3>2. leg' = [leg EXCEPT ![s] = job]
      BY <1>6, <2>4 DEF Attach, LegGoes
    <3> QED BY <3>1, <3>2, OneLeg
  <2> QED BY <2>2, <2>3, <2>4
<1>7. CASE Scan(s)
  <2>1. PICK hits \in QueryVec :
          leg' = [leg EXCEPT ![s].pc = "return", ![s].attached = None, ![s].hits = hits]
    BY <1>7 DEF Scan
  <2> DEFINE job == [leg[s] EXCEPT !.pc = "return", !.attached = None, !.hits = hits]
  <2>2. job \in Legs /\ OwnWhileScanning(job)
    BY <1>1 DEF Legs, LegPcs, OwnWhileScanning
  <2>3. leg' = [leg EXCEPT ![s] = job]
    BY <2>1 DEF InterruptInv, LegTyped
  <2> HIDE DEF job
  <2> QED BY <2>2, <2>3, OneLeg
<1>8. CASE ScanFails(s)
  <2> DEFINE released == [leg[s] EXCEPT !.attached = None]
  <2>1. released \in Legs /\ released.attached = None
    BY <1>1 DEF Legs
  <2>2. Ended(released, "err") \in Legs /\ OwnWhileScanning(Ended(released, "err"))
    BY <2>1, EndedIsLeg DEF LegPcs
  <2>3. leg' = [leg EXCEPT ![s] = Ended(released, "err")]
    BY <1>8 DEF ScanFails
  <2> HIDE DEF released
  <2> QED BY <2>2, <2>3, OneLeg
<1>9. CASE LegReturn(s)
  BY <1>3, <1>9 DEF LegReturn, LegAt, LegPcs
<1>10. CASE TakeIndexLock(s)
  <2> DEFINE job == [leg[s] EXCEPT !.pc = "scan"]
  <2>1. job \in Legs /\ OwnWhileScanning(job)
    BY <1>1, <1>2, <1>10 DEF TakeIndexLock, LegAt, Legs, LegPcs, OwnWhileScanning
  <2>2. leg' = [leg EXCEPT ![s] = job]
    BY <1>10 DEF TakeIndexLock, LegGoes
  <2> QED BY <2>1, <2>2, OneLeg
<1> QED BY <1>4, <1>5, <1>6, <1>7, <1>8, <1>9, <1>10 DEF LegStep

LEMMA InterruptStep == InterruptInv /\ [Next]_vars => InterruptInv'
<1> SUFFICES ASSUME InterruptInv, [Next]_vars PROVE InterruptInv'
  OBVIOUS
<1>1. CASE leg' = leg
  BY <1>1 DEF InterruptInv, LegTyped, OwnWhileScanning
<1>2. CASE \E s \in Callers : Start(s) \/ SearchStep(s) \/ LegStep(s)
  BY <1>2, InterruptSearch, InterruptLeg
<1>3. Ingest \/ (\E m \in Memories : Change(m)) \/ UNCHANGED vars => leg' = leg
  BY DEF Ingest, Lull, Process, Change, vars
<1> QED BY <1>1, <1>2, <1>3 DEF Next

\* _SemanticLeg.attach, detach and abandon: a search whose time is over never
\* interrupts a connection that has gone back to the pool, which another search may
\* have, nor the shared one that ingest writes on.
THEOREM OwnScanInterrupted == Spec => []InterruptsOwnScan
<1>1. InterruptInv => InterruptsOwnScan
  BY DEF InterruptInv, OwnWhileScanning, InterruptsOwnScan
<1> QED BY <1>1, InterruptInit, InterruptStep, PTL DEF Spec

-----------------------------------------------------------------------------
(* The read connections and the searches in flight *)

JobOK(job) ==
  /\ {"pc", "rdb"} \subseteq DOMAIN job
  /\ job.rdb \in Conns \cup {Shared, None}
  /\ job.rdb # None <=> job.pc \in InCode

LegOK(job) ==
  job \in Legs /\ (job.conn # None <=> job.pc \in {"attach", "wait", "scan", "return"})

CallersOK ==
  /\ search = [s \in Callers |-> search[s]] /\ \A s \in Callers : JobOK(search[s])
  /\ leg = [s \in Callers |-> leg[s]] /\ \A s \in Callers : LegOK(leg[s])

\* The connection that each search holds, and each leg.
Read == [s \in Callers |-> search[s].rdb]
Scanned == [s \in Callers |-> leg[s].conn]

InFlight == {s \in Callers : search[s].pc \in InCode}

\* No connection is in two of: a search's hands, a leg's, the pool.
Apart(read, scanned, free) ==
  /\ free \subseteq Conns /\ Cardinality(free) <= PoolMax
  /\ \A s \in Callers : read[s] \notin free /\ scanned[s] \notin free
  /\ \A s, t \in Callers :
       /\ read[s] \in Conns /\ read[s] = read[t] => s = t
       /\ scanned[s] \in Conns /\ scanned[s] = scanned[t] => s = t
       /\ read[s] \in Conns => read[s] # scanned[t]

LeakInv ==
  /\ CallersOK
  /\ Apart(Read, Scanned, pool)
  /\ inflight = Cardinality(InFlight)

-----------------------------------------------------------------------------
(* Connections *)

LEMMA ConnsFinite ==
  /\ Cardinality(Callers) \in Nat /\ Conns \subseteq Nat /\ IsFiniteSet(Conns)
  /\ Cardinality(Conns) = 2 * Cardinality(Callers)
<1>1. Cardinality(Callers) \in Nat
  BY FS_CardinalityType, SearchAssumption
<1> DEFINE n == 2 * Cardinality(Callers)
<1>2. n \in Nat
  BY <1>1
<1>3. IsFiniteSet(1..n) /\ Cardinality(1..n) = n
  BY <1>2, FS_Interval
<1> QED BY <1>1, <1>2, <1>3 DEF Conns

LEMMA NotConns == Shared \notin Conns /\ None \notin Conns /\ Shared # None
BY ConnsFinite, SearchAssumption

\* There are two connections for each caller: one that holds less than two of
\* them leaves a connection for it.
LEMMA OneIsFree ==
  ASSUME CallersOK, NEW s \in Callers, search[s].rdb = None \/ leg[s].conn = None
  PROVE  Conns \ InUse # {}
<1> DEFINE hands == Callers \X {"search", "leg"}
           mine == IF search[s].rdb = None THEN <<s, "search">> ELSE <<s, "leg">>
           others == hands \ {mine}
           held == [h \in others |-> IF h[2] = "search" THEN search[h[1]].rdb ELSE leg[h[1]].conn]
           holder == [c \in InUse |-> CHOOSE h \in Holders(c) : TRUE]
<1>1. IsFiniteSet({"search", "leg"}) /\ Cardinality({"search", "leg"}) = 2
  <2> DEFINE one == {"search"}
  <2>1. IsFiniteSet(one) /\ Cardinality(one) = 1
    BY FS_Singleton
  <2>2. one \cup {"leg"} = {"search", "leg"} /\ "leg" \notin one
    OBVIOUS
  <2> HIDE DEF one
  <2>3. IsFiniteSet(one \cup {"leg"}) /\ Cardinality(one \cup {"leg"}) = Cardinality(one) + 1
    BY <2>1, <2>2, FS_AddElement
  <2> QED BY <2>1, <2>2, <2>3
<1>2. IsFiniteSet(hands) /\ Cardinality(hands) = 2 * Cardinality(Callers)
  <2>1. IsFiniteSet(Callers) /\ Cardinality(Callers) \in Nat
    BY SearchAssumption, FS_CardinalityType
  <2> DEFINE two == {"search", "leg"}
  <2>2. IsFiniteSet(two) /\ Cardinality(two) = 2 /\ hands = Callers \X two
    BY <1>1
  <2> HIDE DEF two, hands
  <2>3. IsFiniteSet(Callers \X two)
        /\ Cardinality(Callers \X two) = Cardinality(Callers) * Cardinality(two)
    BY <2>1, <2>2, FS_Product
  <2> QED BY <2>1, <2>2, <2>3
<1>3. IsFiniteSet(others) /\ Cardinality(others) = 2 * Cardinality(Callers) - 1
  <2>1. mine \in hands
    OBVIOUS
  <2> HIDE DEF mine, hands
  <2> QED BY <1>2, <2>1, FS_RemoveElement, ConnsFinite
<1>4. \A c \in InUse : Holders(c) # {} /\ c # None
  BY NotConns DEF InUse
<1>5. \A c \in InUse : holder[c] \in Holders(c)
  <2> SUFFICES ASSUME NEW c \in InUse PROVE holder[c] \in Holders(c)
    OBVIOUS
  <2>1. PICK h : h \in Holders(c)
    BY <1>4
  <2>2. holder[c] = CHOOSE h1 \in Holders(c) : TRUE
    OBVIOUS
  <2> HIDE DEF holder, others, held
  <2> QED BY <2>1, <2>2
<1>6. \A c \in InUse : holder[c] \in others /\ held[holder[c]] = c
  <2> SUFFICES ASSUME NEW c \in InUse PROVE holder[c] \in others /\ held[holder[c]] = c
    OBVIOUS
  <2>1. holder[c] \in Holders(c) /\ c # None
    BY <1>4, <1>5
  <2> HIDE DEF holder
  <2>2. \/ \E t \in Callers : holder[c] = <<t, "search">> /\ search[t].rdb = c
        \/ \E t \in Callers : holder[c] = <<t, "leg">> /\ leg[t].conn = c
    BY <2>1 DEF Holders
  <2>3. ASSUME NEW t \in Callers, holder[c] = <<t, "search">>, search[t].rdb = c
        PROVE  holder[c] \in others /\ held[holder[c]] = c
    <3>1. <<t, "search">> # mine
      BY <2>1, <2>3
    <3> QED BY <2>3, <3>1
  <2>4. ASSUME NEW t \in Callers, holder[c] = <<t, "leg">>, leg[t].conn = c
        PROVE  holder[c] \in others /\ held[holder[c]] = c
    <3>1. <<t, "leg">> # mine
      BY <2>1, <2>4
    <3> QED BY <2>4, <3>1
  <2> QED BY <2>2, <2>3, <2>4
<1> HIDE DEF others, held
<1>7. holder \in Injection(InUse, others)
  <2>1. holder \in [InUse -> others]
    BY <1>6
  <2>2. \A c, d \in InUse : holder[c] = holder[d] => c = d
    BY <1>6
  <2> HIDE DEF holder
  <2> QED BY <2>1, <2>2 DEF Injection, IsInjective
<1>8. Cardinality(InUse) <= 2 * Cardinality(Callers) - 1
  BY <1>3, <1>7, FS_Injection
<1>9. Cardinality(InUse) # Cardinality(Conns)
  <2>1. IsFiniteSet(InUse)
    BY <1>3, <1>7, FS_Injection
  <2> QED BY <1>8, <2>1, ConnsFinite, FS_CardinalityType
<1>10. InUse \subseteq Conns
  BY DEF InUse
<1> QED BY <1>9, <1>10

\* What is borrowed was in nobody's hands.
LEMMA BorrowedIsFree ==
  ASSUME CallersOK, Apart(Read, Scanned, pool), NEW c, Borrow(c),
         NEW s \in Callers, search[s].rdb = None \/ leg[s].conn = None
  PROVE  /\ c \in Conns \cup {Shared} /\ pool' \subseteq pool
         /\ c \in Conns =>
              c \notin pool' /\ \A t \in Callers : Read[t] # c /\ Scanned[t] # c
<1>1. CASE c \in pool /\ pool' = pool \ {c}
  BY <1>1 DEF Apart
<1>2. CASE pool = {} /\ c = Min(Conns \ InUse) /\ pool' = pool
  <2>1. c \in Conns \ InUse
    <3> DEFINE S == Conns \ InUse
    <3>1. S \in SUBSET Nat /\ S # {}
      BY OneIsFree, ConnsFinite
    <3> HIDE DEF S
    <3>2. Min(S) \in S
      BY <3>1, Least
    <3> QED BY <1>2, <3>2 DEF S
  <2>2. Holders(c) = {}
    BY <2>1 DEF InUse
  <2>3. \A t \in Callers : search[t].rdb # c /\ leg[t].conn # c
    BY <2>2 DEF Holders
  <2> QED BY <1>2, <2>1, <2>3 DEF Read, Scanned
<1>3. CASE c = Shared /\ pool' = pool
  BY <1>3, NotConns
<1> QED BY <1>1, <1>2, <1>3 DEF Borrow

LEMMA Returned ==
  ASSUME Apart(Read, Scanned, pool), NEW c, GiveBack(c)
  PROVE  /\ pool' \subseteq Conns /\ Cardinality(pool') <= PoolMax
         /\ pool' \subseteq pool \cup {c}
<1>1. IsFiniteSet(pool) /\ Cardinality(pool) \in Nat
  BY ConnsFinite, FS_Subset, FS_CardinalityType DEF Apart
<1>2. Cardinality(pool \cup {c}) <= Cardinality(pool) + 1
  BY <1>1, FS_AddElement
<1>3. PoolMax \in Nat
  BY SearchAssumption
<1>4. Cardinality(pool \cup {c}) \in Nat
  BY <1>1, FS_AddElement, FS_CardinalityType
<1>5. CASE c \in Conns /\ Cardinality(pool) < PoolMax
  BY <1>1, <1>2, <1>3, <1>4, <1>5 DEF GiveBack, Apart
<1>6. CASE ~ (c \in Conns /\ Cardinality(pool) < PoolMax)
  BY <1>6 DEF GiveBack, Apart
<1> QED BY <1>5, <1>6

LEMMA Lent ==
  ASSUME NEW read, NEW scanned, NEW free, NEW rest, NEW c, NEW s \in Callers,
         DOMAIN read = Callers, DOMAIN scanned = Callers,
         Apart(read, scanned, free), rest \subseteq free,
         c \in Conns => c \notin rest /\ \A t \in Callers : read[t] # c /\ scanned[t] # c,
         c \notin Conns => c \notin rest
  PROVE  /\ Apart([read EXCEPT ![s] = c], scanned, rest)
         /\ Apart(read, [scanned EXCEPT ![s] = c], rest)
<1>1. Cardinality(rest) <= PoolMax
  <2>1. IsFiniteSet(free) /\ Cardinality(free) \in Nat /\ Cardinality(rest) \in Nat
        /\ Cardinality(rest) <= Cardinality(free)
    BY ConnsFinite, FS_Subset, FS_CardinalityType DEF Apart
  <2> QED BY <2>1, SearchAssumption DEF Apart
<1> QED BY <1>1 DEF Apart

LEMMA HandedBack ==
  ASSUME NEW read, NEW scanned, NEW free, NEW rest, NEW s \in Callers,
         DOMAIN read = Callers, DOMAIN scanned = Callers,
         Apart(read, scanned, free),
         rest \subseteq Conns, Cardinality(rest) <= PoolMax
  PROVE  /\ rest \subseteq free \cup {read[s]} =>
              Apart([read EXCEPT ![s] = None], scanned, rest)
         /\ rest \subseteq free \cup {scanned[s]} =>
              Apart(read, [scanned EXCEPT ![s] = None], rest)
BY NotConns DEF Apart

-----------------------------------------------------------------------------
(* Steps *)

\* What a step of one caller does to what it holds and to the count.
LEMMA OneCaller ==
  ASSUME CallersOK, NEW s \in Callers, NEW job, NEW task, JobOK(job), LegOK(task),
         search' = [search EXCEPT ![s] = job], leg' = [leg EXCEPT ![s] = task]
  PROVE  /\ CallersOK'
         /\ Read' = [Read EXCEPT ![s] = job.rdb]
         /\ Scanned' = [Scanned EXCEPT ![s] = task.conn]
         /\ InFlight' = IF job.pc \in InCode THEN InFlight \cup {s} ELSE InFlight \ {s}
<1>1. /\ \A t \in Callers : search'[t] = IF t = s THEN job ELSE search[t]
      /\ \A t \in Callers : leg'[t] = IF t = s THEN task ELSE leg[t]
  BY DEF CallersOK
<1>2. CallersOK'
  <2>1. \A t \in Callers : JobOK(search'[t]) /\ LegOK(leg'[t])
    BY <1>1 DEF CallersOK
  <2>2. \A t \in Callers : JobOK(search[t])' /\ LegOK(leg[t])'
    BY <2>1 DEF JobOK, LegOK, Legs, LegPcs, Conns, QueryVec
  <2> QED BY <1>1, <2>2 DEF CallersOK
<1>3. Read' = [Read EXCEPT ![s] = job.rdb]
  <2>1. Read' = [t \in Callers |-> search'[t].rdb]
    BY DEF Read
  <2>2. [Read EXCEPT ![s] = job.rdb] = [t \in Callers |-> IF t = s THEN job.rdb ELSE search[t].rdb]
    BY DEF Read
  <2>3. \A t \in Callers : search'[t].rdb = IF t = s THEN job.rdb ELSE search[t].rdb
    BY <1>1
  <2> QED BY <2>1, <2>2, <2>3
<1>4. Scanned' = [Scanned EXCEPT ![s] = task.conn]
  <2>1. Scanned' = [t \in Callers |-> leg'[t].conn]
    BY DEF Scanned
  <2>2. [Scanned EXCEPT ![s] = task.conn] = [t \in Callers |-> IF t = s THEN task.conn ELSE leg[t].conn]
    BY DEF Scanned
  <2>3. \A t \in Callers : leg'[t].conn = IF t = s THEN task.conn ELSE leg[t].conn
    BY <1>1
  <2> QED BY <2>1, <2>2, <2>3
<1>5. InFlight' = IF job.pc \in InCode THEN InFlight \cup {s} ELSE InFlight \ {s}
  BY <1>1 DEF InFlight
<1> QED BY <1>2, <1>3, <1>4, <1>5

LEMMA InFlightFinite == IsFiniteSet(InFlight) /\ Cardinality(InFlight) \in Nat
BY FS_Subset, FS_CardinalityType, SearchAssumption DEF InFlight

\* A step that borrows nothing and gives nothing back.
LEMMA Keeps ==
  ASSUME LeakInv, NEW s \in Callers, NEW job, NEW task, JobOK(job), LegOK(task),
         search' = [search EXCEPT ![s] = job], leg' = [leg EXCEPT ![s] = task],
         job.rdb = search[s].rdb, task.conn = leg[s].conn,
         UNCHANGED <<pool, inflight>>
  PROVE  LeakInv'
<1>1. /\ CallersOK'
      /\ Read' = [Read EXCEPT ![s] = job.rdb] /\ Scanned' = [Scanned EXCEPT ![s] = task.conn]
      /\ InFlight' = IF job.pc \in InCode THEN InFlight \cup {s} ELSE InFlight \ {s}
  BY OneCaller DEF LeakInv
<1>2. Read' = Read /\ Scanned' = Scanned
  BY <1>1 DEF Read, Scanned
<1>3. job.pc \in InCode <=> search[s].pc \in InCode
  BY DEF LeakInv, CallersOK, JobOK
<1>4. InFlight' = InFlight
  BY <1>1, <1>3 DEF InFlight
<1> QED BY <1>1, <1>2, <1>4 DEF LeakInv, Apart, Conns

\* A step of the leg, which the count does not know of.
LEMMA LegKeepsCount ==
  ASSUME LeakInv, NEW s \in Callers, NEW task, LegOK(task), UNCHANGED <<search, inflight>>,
         leg' = [leg EXCEPT ![s] = task]
  PROVE  /\ CallersOK' /\ Read' = Read /\ Scanned' = [Scanned EXCEPT ![s] = task.conn]
         /\ inflight' = Cardinality(InFlight')
<1>1. JobOK(search[s]) /\ search' = [search EXCEPT ![s] = search[s]]
  BY DEF LeakInv, CallersOK
<1>2. CallersOK' /\ Scanned' = [Scanned EXCEPT ![s] = task.conn]
  BY <1>1, OneCaller DEF LeakInv
<1>3. Read' = Read /\ InFlight' = InFlight
  BY DEF Read, InFlight
<1> QED BY <1>2, <1>3 DEF LeakInv

LEMMA EndedOK ==
  ASSUME NEW job \in Legs, NEW how \in {"ok", "err"}
  PROVE  LegOK(Ended(job, how)) /\ Ended(job, how).conn = None
BY DEF LegOK, Ended, Legs, LegPcs, NoLeg

LEMMA LeakStart ==
  ASSUME LeakInv, NEW s \in Callers, Start(s)
  PROVE  LeakInv'
<1>1. PICK c \in Conns \cup {Shared} :
        /\ Borrow(c)
        /\ search' = [search EXCEPT ![s] = [Quiet EXCEPT !.pc = "keywords", !.rdb = c]]
  BY DEF Start
<1> DEFINE job == [Quiet EXCEPT !.pc = "keywords", !.rdb = c]
           task == [NoLeg EXCEPT !.pc = "queued"]
<1>2. JobOK(job) /\ job.rdb = c /\ job.pc \in InCode
  BY NotConns DEF JobOK, Quiet, InCode
<1>3. LegOK(task) /\ task.conn = None
  BY DEF LegOK, NoLeg, Legs, LegPcs
<1>4. search' = [search EXCEPT ![s] = job] /\ leg' = [leg EXCEPT ![s] = task]
  BY <1>1 DEF Start
<1> HIDE DEF job, task
<1>5. /\ CallersOK'
      /\ Read' = [Read EXCEPT ![s] = c] /\ Scanned' = [Scanned EXCEPT ![s] = None]
      /\ InFlight' = InFlight \cup {s}
  BY <1>2, <1>3, <1>4, OneCaller DEF LeakInv
<1>6. search[s].rdb = None /\ leg[s].conn = None /\ s \notin InFlight
  BY DEF Start, At, LeakInv, CallersOK, JobOK, LegOK, InCode, InFlight
<1>7. /\ pool' \subseteq pool
      /\ c \in Conns => c \notin pool' /\ \A t \in Callers : Read[t] # c /\ Scanned[t] # c
  BY <1>1, <1>6, BorrowedIsFree DEF LeakInv
<1>8. Scanned' = Scanned
  BY <1>5, <1>6 DEF Scanned
<1>9. c \notin Conns => c \notin pool'
  BY <1>7 DEF LeakInv, Apart
<1>10. DOMAIN Read = Callers /\ DOMAIN Scanned = Callers
  BY DEF Read, Scanned
<1>11. Apart([Read EXCEPT ![s] = c], Scanned, pool')
  BY <1>7, <1>9, <1>10, Lent DEF LeakInv
<1>12. Apart(Read, Scanned, pool)'
  BY <1>5, <1>8, <1>11 DEF Apart, Conns
<1>13. inflight' = Cardinality(InFlight')
  <2>1. Cardinality(InFlight \cup {s}) = Cardinality(InFlight) + 1
    BY <1>6, InFlightFinite, FS_AddElement
  <2> QED BY <1>5, <2>1 DEF Start, SearchStarted, LeakInv
<1> QED BY <1>5, <1>12, <1>13 DEF LeakInv

\* A search ends, by its connection's going back or not, and is no longer counted.
LEMMA LeakEnd ==
  ASSUME LeakInv, NEW s \in Callers, NEW job, JobOK(job), job.rdb = None,
         search' = [search EXCEPT ![s] = job], leg' = leg,
         search[s].pc \in InCode, SearchFinished,
         GiveBack(search[s].rdb) \/ pool' = pool
  PROVE  LeakInv'
<1>1. LegOK(leg[s]) /\ leg' = [leg EXCEPT ![s] = leg[s]]
  BY DEF LeakInv, CallersOK
<1>2. job.pc \notin InCode
  BY DEF JobOK
<1>3. /\ CallersOK' /\ Read' = [Read EXCEPT ![s] = None]
      /\ InFlight' = InFlight \ {s}
  BY <1>1, <1>2, OneCaller DEF LeakInv
<1>4. Scanned' = Scanned
  BY DEF Scanned
<1>5. /\ pool' \subseteq Conns /\ Cardinality(pool') <= PoolMax
      /\ pool' \subseteq pool \cup {Read[s]}
  BY Returned DEF LeakInv, Apart, Read
<1>6. DOMAIN Read = Callers /\ DOMAIN Scanned = Callers
  BY DEF Read, Scanned
<1>7. Apart([Read EXCEPT ![s] = None], Scanned, pool')
  BY <1>5, <1>6, HandedBack DEF LeakInv
<1>8. Apart(Read, Scanned, pool)'
  BY <1>3, <1>4, <1>7 DEF Apart, Conns
<1>9. inflight' = Cardinality(InFlight')
  <2>1. s \in InFlight
    BY DEF InFlight
  <2>2. /\ Cardinality(InFlight) \in Nat /\ Cardinality(InFlight \ {s}) \in Nat
        /\ Cardinality(InFlight \ {s}) = Cardinality(InFlight) - 1
    BY <2>1, InFlightFinite, FS_RemoveElement, FS_CardinalityType
  <2>3. inflight - 1 \in Nat => Max({0, inflight - 1}) = inflight - 1
    BY DEF Max
  <2> QED BY <1>3, <2>2, <2>3 DEF SearchFinished, LeakInv
<1> QED BY <1>3, <1>8, <1>9 DEF LeakInv

\* Raise closes the connection, Finish gives it back.
LEMMA LeakSearch ==
  ASSUME LeakInv, NEW s \in Callers, SearchStep(s)
  PROVE  LeakInv'
<1>1. /\ JobOK(search[s]) /\ LegOK(leg[s])
      /\ search' = search => search' = [search EXCEPT ![s] = search[s]]
      /\ leg' = leg => leg' = [leg EXCEPT ![s] = leg[s]]
  BY DEF LeakInv, CallersOK
<1>2. ASSUME NEW job, JobOK(job), job.rdb = search[s].rdb,
             search' = [search EXCEPT ![s] = job], leg' = leg, UNCHANGED <<pool, inflight>>
      PROVE  LeakInv'
  BY <1>1, <1>2, Keeps
<1>3. CASE TakeLeg(s)
  <2> DEFINE job == IF leg[s].pc = "ok" THEN WithHits(search[s], leg[s].hits, TRUE)
                    ELSE WithHits(search[s], << >>, FALSE)
  <2>1. JobOK(job) /\ job.rdb = search[s].rdb
    BY <1>1, <1>3 DEF TakeLeg, At, JobOK, WithHits, InCode
  <2>2. LegOK(NoLeg) /\ NoLeg.conn = leg[s].conn
    BY <1>1, <1>3 DEF TakeLeg, LegOK, NoLeg, Legs, LegPcs
  <2>3. search' = [search EXCEPT ![s] = job] /\ leg' = [leg EXCEPT ![s] = NoLeg]
    BY <1>3 DEF TakeLeg, LeakInv, CallersOK
  <2>4. UNCHANGED <<pool, inflight>>
    BY <1>3 DEF TakeLeg
  <2> HIDE DEF job
  <2> QED BY <2>1, <2>2, <2>3, <2>4, Keeps
<1>4. CASE TimeOut(s)
  <2> DEFINE job == [search[s] EXCEPT !.pc = "abandon"]
  <2>1. JobOK(job) /\ job.rdb = search[s].rdb
    BY <1>1, <1>4 DEF TimeOut, At, JobOK, InCode
  <2>2. search' = [search EXCEPT ![s] = job] /\ leg' = leg /\ UNCHANGED <<pool, inflight>>
    BY <1>4 DEF TimeOut
  <2> QED BY <1>2, <2>1, <2>2
<1>5. CASE Abandon(s)
  <2> DEFINE job == WithHits(search[s], << >>, FALSE)
             task == IF leg[s].pc \in {"ok", "err"} THEN NoLeg
                     ELSE [leg[s] EXCEPT !.abandoned = TRUE]
  <2>1. JobOK(job) /\ job.rdb = search[s].rdb
    BY <1>1, <1>5 DEF Abandon, At, JobOK, WithHits, InCode
  <2>2. LegOK(task) /\ task.conn = leg[s].conn
    BY <1>1 DEF LegOK, NoLeg, Legs, LegPcs
  <2>3. search' = [search EXCEPT ![s] = job] /\ leg' = [leg EXCEPT ![s] = task]
    BY <1>5 DEF Abandon
  <2>4. UNCHANGED <<pool, inflight>>
    BY <1>5 DEF Abandon
  <2> HIDE DEF job, task
  <2> QED BY <2>1, <2>2, <2>3, <2>4, Keeps
<1>6. CASE ReadHit(s)
  <2>1. PICK found : search' = [search EXCEPT ![s] = [search[s] EXCEPT !.ahead = Tail(@), !.found = found]]
    BY <1>6 DEF ReadHit, LeakInv, CallersOK
  <2> DEFINE job == [search[s] EXCEPT !.ahead = Tail(@), !.found = found]
  <2>2. JobOK(job) /\ job.rdb = search[s].rdb
    BY <1>1 DEF JobOK
  <2>3. leg' = leg /\ UNCHANGED <<pool, inflight>>
    BY <1>6 DEF ReadHit
  <2> QED BY <1>2, <2>1, <2>2, <2>3
<1>7. CASE Raise(s)
  <2>1. JobOK(Quiet) /\ Quiet.rdb = None
    BY DEF JobOK, Quiet, InCode
  <2>2. search[s].pc \in InCode
    BY <1>7 DEF Raise, Reading, Diversifying, At, InCode
  <2>3. /\ search' = [search EXCEPT ![s] = Quiet] /\ leg' = leg /\ pool' = pool
        /\ SearchFinished
    BY <1>7 DEF Raise
  <2> QED BY <2>1, <2>2, <2>3, LeakEnd
<1>8. CASE Collect(s)
  <2>1. PICK found : search' = [search EXCEPT ![s] = [search[s] EXCEPT !.pc = "rerank", !.ahead = << >>, !.found = found]]
    BY <1>8 DEF Collect, LeakInv, CallersOK
  <2> DEFINE job == [search[s] EXCEPT !.pc = "rerank", !.ahead = << >>, !.found = found]
  <2>2. JobOK(job) /\ job.rdb = search[s].rdb
    BY <1>1, <1>8 DEF Collect, At, JobOK, InCode
  <2>3. leg' = leg /\ UNCHANGED <<pool, inflight>>
    BY <1>8 DEF Collect
  <2> QED BY <1>2, <2>1, <2>2, <2>3
<1>9. CASE LookUp(s) \/ Score(s)
  <2>1. search[s].pc \in {"rerank", "ask"} /\ leg' = leg /\ UNCHANGED <<pool, inflight>>
    BY <1>9 DEF LookUp, Score, At
  <2>2. CASE search' = [search EXCEPT ![s].pc = "ask"]
    <3> DEFINE job == [search[s] EXCEPT !.pc = "ask"]
    <3>1. JobOK(job) /\ job.rdb = search[s].rdb
      BY <1>1, <2>1 DEF JobOK, InCode
    <3>2. search' = [search EXCEPT ![s] = job]
      BY <2>2
    <3> QED BY <1>2, <2>1, <3>1, <3>2
  <2>3. ASSUME NEW score, Scored(s, score)
        PROVE  LeakInv'
    <3> DEFINE job == [search[s] EXCEPT !.pc = "rerank", !.scores = Append(@, score)]
    <3>1. JobOK(job) /\ job.rdb = search[s].rdb
      BY <1>1, <2>1 DEF JobOK, InCode
    <3>2. search' = [search EXCEPT ![s] = job]
      BY <2>3 DEF Scored, LeakInv, CallersOK
    <3> QED BY <1>2, <2>1, <3>1, <3>2
  <2> QED BY <1>9, <2>2, <2>3 DEF LookUp, Score
<1>10. CASE Finish(s)
  <2>1. PICK ranked, served :
          search' = [search EXCEPT ![s] =
            [search[s] EXCEPT !.pc = "ranked", !.rdb = None, !.found = << >>, !.scores = << >>,
                              !.pool = ranked, !.served = served]]
    BY <1>10 DEF Finish
  <2> DEFINE job == [search[s] EXCEPT !.pc = "ranked", !.rdb = None, !.found = << >>,
                                      !.scores = << >>, !.pool = ranked, !.served = served]
  <2>2. JobOK(job) /\ job.rdb = None
    BY <1>1 DEF JobOK, InCode
  <2>3. /\ leg' = leg /\ GiveBack(search[s].rdb) /\ SearchFinished
        /\ search[s].pc \in InCode
    BY <1>10 DEF Finish, At, InCode
  <2> HIDE DEF job
  <2> QED BY <2>1, <2>2, <2>3, LeakEnd DEF job
<1>11. CASE Judged(s)
  <2>1. PICK served :
          \/ search' = [search EXCEPT ![s] = [search[s] EXCEPT !.pc = "judged", !.served = served]]
          \/ search' = [search EXCEPT ![s] = [search[s] EXCEPT !.pc = "judged"]]
    BY <1>11 DEF Judged, JevFails, LeakInv, CallersOK
  <2>2. /\ JobOK([search[s] EXCEPT !.pc = "judged", !.served = served])
        /\ [search[s] EXCEPT !.pc = "judged", !.served = served].rdb = search[s].rdb
        /\ JobOK([search[s] EXCEPT !.pc = "judged"])
        /\ [search[s] EXCEPT !.pc = "judged"].rdb = search[s].rdb
    BY <1>1, <1>11 DEF Judged, At, JobOK, InCode
  <2>3. leg' = leg /\ UNCHANGED <<pool, inflight>>
    BY <1>11 DEF Judged
  <2> QED BY <1>2, <2>1, <2>2, <2>3
<1>12. CASE Return(s)
  <2>1. JobOK(Quiet) /\ Quiet.rdb = search[s].rdb
    BY <1>1, <1>12 DEF Return, At, JobOK, Quiet, InCode
  <2> QED BY <1>2, <1>12, <2>1 DEF Return
<1>13. CASE Keywords(s)
  <2>1. PICK found : search' = [search EXCEPT ![s] = [search[s] EXCEPT !.pc = "await", !.bm25 = found]]
    BY <1>13 DEF Keywords, LeakInv, CallersOK
  <2> DEFINE job == [search[s] EXCEPT !.pc = "await", !.bm25 = found]
  <2>2. JobOK(job) /\ job.rdb = search[s].rdb
    BY <1>1, <1>13 DEF Keywords, At, JobOK, InCode
  <2>3. leg' = leg /\ UNCHANGED <<pool, inflight>>
    BY <1>13 DEF Keywords
  <2> QED BY <1>2, <2>1, <2>2, <2>3
<1> QED BY <1>3, <1>4, <1>5, <1>6, <1>7, <1>8, <1>9, <1>10, <1>11, <1>12, <1>13 DEF SearchStep

\* A leg whose connection is closed, given back, or that had none.
LEMMA LegLetsGo ==
  ASSUME LeakInv, NEW s \in Callers, NEW task, LegOK(task), task.conn = None,
         leg' = [leg EXCEPT ![s] = task], UNCHANGED <<search, inflight>>,
         GiveBack(leg[s].conn) \/ pool' = pool
  PROVE  LeakInv'
<1>1. /\ CallersOK' /\ Read' = Read /\ Scanned' = [Scanned EXCEPT ![s] = None]
      /\ inflight' = Cardinality(InFlight')
  BY LegKeepsCount
<1>2. /\ pool' \subseteq Conns /\ Cardinality(pool') <= PoolMax
      /\ pool' \subseteq pool \cup {Scanned[s]}
  BY Returned DEF LeakInv, Apart, Scanned
<1>3. DOMAIN Read = Callers /\ DOMAIN Scanned = Callers
  BY DEF Read, Scanned
<1>4. Apart(Read, [Scanned EXCEPT ![s] = None], pool')
  BY <1>2, <1>3, HandedBack DEF LeakInv
<1>5. Apart(Read, Scanned, pool)'
  BY <1>1, <1>4 DEF Apart, Conns
<1> QED BY <1>1, <1>5 DEF LeakInv

LEMMA LegBorrows ==
  ASSUME LeakInv, NEW s \in Callers, leg[s].pc = "call", UNCHANGED <<search, inflight>>,
         NEW c \in Conns \cup {Shared}, Borrow(c),
         leg' = [leg EXCEPT ![s].pc = "attach", ![s].conn = c]
  PROVE  LeakInv'
<1> DEFINE task == [leg[s] EXCEPT !.pc = "attach", !.conn = c]
<1>1. LegOK(leg[s]) /\ leg[s].conn = None
  BY DEF LeakInv, CallersOK, LegOK
<1>2. LegOK(task) /\ task.conn = c
  BY <1>1, NotConns DEF LegOK, Legs, LegPcs
<1>3. leg' = [leg EXCEPT ![s] = task]
  BY DEF LeakInv, CallersOK
<1> HIDE DEF task
<1>4. /\ CallersOK' /\ Read' = Read /\ Scanned' = [Scanned EXCEPT ![s] = c]
      /\ inflight' = Cardinality(InFlight')
  BY <1>2, <1>3, LegKeepsCount
<1>5. /\ pool' \subseteq pool
      /\ c \in Conns => c \notin pool' /\ \A t \in Callers : Read[t] # c /\ Scanned[t] # c
  BY <1>1, BorrowedIsFree DEF LeakInv
<1>6. c \notin Conns => c \notin pool'
  BY <1>5 DEF LeakInv, Apart
<1>7. DOMAIN Read = Callers /\ DOMAIN Scanned = Callers
  BY DEF Read, Scanned
<1>8. Apart(Read, [Scanned EXCEPT ![s] = c], pool')
  BY <1>5, <1>6, <1>7, Lent DEF LeakInv
<1>9. Apart(Read, Scanned, pool)'
  BY <1>4, <1>8 DEF Apart, Conns
<1> QED BY <1>4, <1>9 DEF LeakInv

\* LegReturn gives the connection back; Attach, when the leg is given up, and ScanFails
\* close it.
LEMMA LeakLeg ==
  ASSUME LeakInv, NEW s \in Callers, LegStep(s)
  PROVE  LeakInv'
<1>1. LegOK(leg[s]) /\ leg[s] \in Legs
  BY DEF LeakInv, CallersOK, LegOK
<1>2. UNCHANGED <<search, inflight>>
  BY DEF LegStep, LegStart, Answer, Attach, TakeIndexLock, Scan, ScanFails, LegReturn
<1>3. ASSUME NEW how \in {"ok", "err"}, LegEnds(s, how), GiveBack(leg[s].conn) \/ pool' = pool
      PROVE  LeakInv'
  <2>1. LegOK(Ended(leg[s], how)) /\ Ended(leg[s], how).conn = None
    BY <1>1, EndedOK
  <2>2. leg' = [leg EXCEPT ![s] = Ended(leg[s], how)]
    BY <1>3 DEF LegEnds
  <2> QED BY <1>2, <1>3, <2>1, <2>2, LegLetsGo
<1>4. ASSUME NEW task, LegOK(task), task.conn = leg[s].conn,
             leg' = [leg EXCEPT ![s] = task], pool' = pool
      PROVE  LeakInv'
  <2>1. JobOK(search[s]) /\ search' = [search EXCEPT ![s] = search[s]]
    BY <1>2 DEF LeakInv, CallersOK
  <2> QED BY <1>2, <1>4, <2>1, Keeps
<1>5. CASE LegStart(s)
  <2>1. CASE LegEnds(s, "err")
    BY <1>3, <1>5, <2>1 DEF LegStart
  <2>2. CASE LegGoes(s, "call")
    <3> DEFINE task == [leg[s] EXCEPT !.pc = "call"]
    <3>1. LegOK(task) /\ task.conn = leg[s].conn
      BY <1>1, <1>5 DEF LegStart, LegAt, LegOK, Legs, LegPcs
    <3>2. leg' = [leg EXCEPT ![s] = task] /\ pool' = pool
      BY <1>5, <2>2 DEF LegStart, LegGoes
    <3> QED BY <1>4, <3>1, <3>2
  <2> QED BY <1>5, <2>1, <2>2 DEF LegStart, BreakerOpen
<1>6. CASE Answer(s)
  <2>1. CASE LegEnds(s, "err") /\ pool' = pool
    BY <1>3, <2>1
  <2>2. ASSUME NEW c \in Conns \cup {Shared}, Borrow(c),
               leg' = [leg EXCEPT ![s].pc = "attach", ![s].conn = c]
        PROVE  LeakInv'
    BY <1>2, <1>6, <2>2, LegBorrows DEF Answer, LegAt
  <2> QED BY <1>6, <2>1, <2>2 DEF Answer, EmbedFails
<1>7. CASE Attach(s)
  <2>1. CASE leg[s].abandoned
    BY <1>3, <1>7, <2>1 DEF Attach
  <2>2. CASE ~ leg[s].abandoned /\ leg[s].conn # Shared
    <3> DEFINE task == [leg[s] EXCEPT !.pc = "scan", !.attached = leg[s].conn]
    <3>1. LegOK(task) /\ task.conn = leg[s].conn
      BY <1>1, <1>7 DEF Attach, LegAt, LegOK, Legs, LegPcs
    <3>2. leg' = [leg EXCEPT ![s] = task] /\ pool' = pool
      BY <1>7, <2>2 DEF Attach, LeakInv, CallersOK
    <3> HIDE DEF task
    <3> QED BY <1>4, <3>1, <3>2
  <2>3. CASE ~ leg[s].abandoned /\ leg[s].conn = Shared
    <3> DEFINE task == [leg[s] EXCEPT !.pc = "wait"]
    <3>1. LegOK(task) /\ task.conn = leg[s].conn
      BY <1>1, <1>7 DEF Attach, LegAt, LegOK, Legs, LegPcs
    <3>2. leg' = [leg EXCEPT ![s] = task] /\ pool' = pool
      BY <1>7, <2>3 DEF Attach, LegGoes
    <3> HIDE DEF task
    <3> QED BY <1>4, <3>1, <3>2
  <2> QED BY <2>1, <2>2, <2>3
<1>8. CASE Scan(s)
  <2>1. PICK hits \in QueryVec :
          leg' = [leg EXCEPT ![s].pc = "return", ![s].attached = None, ![s].hits = hits]
    BY <1>8 DEF Scan
  <2> DEFINE task == [leg[s] EXCEPT !.pc = "return", !.attached = None, !.hits = hits]
  <2>2. LegOK(task) /\ task.conn = leg[s].conn
    BY <1>1, <1>8 DEF Scan, LegAt, LegOK, Legs, LegPcs
  <2>3. leg' = [leg EXCEPT ![s] = task] /\ pool' = pool
    BY <1>8, <2>1 DEF Scan, LeakInv, CallersOK
  <2> HIDE DEF task
  <2> QED BY <1>4, <2>2, <2>3
<1>9. CASE ScanFails(s)
  <2> DEFINE released == [leg[s] EXCEPT !.attached = None]
  <2>1. released \in Legs
    BY <1>1 DEF Legs
  <2>2. LegOK(Ended(released, "err")) /\ Ended(released, "err").conn = None
    BY <2>1, EndedOK
  <2>3. leg' = [leg EXCEPT ![s] = Ended(released, "err")] /\ pool' = pool
    BY <1>9 DEF ScanFails
  <2> HIDE DEF released
  <2> QED BY <1>2, <2>2, <2>3, LegLetsGo
<1>10. CASE LegReturn(s)
  BY <1>3, <1>10 DEF LegReturn
<1>11. CASE TakeIndexLock(s)
  <2> DEFINE task == [leg[s] EXCEPT !.pc = "scan"]
  <2>1. LegOK(task) /\ task.conn = leg[s].conn
    BY <1>1, <1>11 DEF TakeIndexLock, LegAt, LegOK, Legs, LegPcs
  <2>2. leg' = [leg EXCEPT ![s] = task] /\ pool' = pool
    BY <1>11 DEF TakeIndexLock, LegGoes
  <2> QED BY <1>4, <2>1, <2>2
<1> QED BY <1>5, <1>6, <1>7, <1>8, <1>9, <1>10, <1>11 DEF LegStep

-----------------------------------------------------------------------------

LEMMA LeakInit == Init => LeakInv
<1> SUFFICES ASSUME Init PROVE LeakInv
  OBVIOUS
<1>1. \A s \in Callers : search[s] = Quiet /\ leg[s] = NoLeg
  BY DEF Init
<1>2. JobOK(Quiet) /\ LegOK(NoLeg) /\ Quiet.rdb = None /\ NoLeg.conn = None /\ Quiet.pc \notin InCode
  BY DEF JobOK, LegOK, Quiet, NoLeg, Legs, LegPcs, InCode
<1>3. CallersOK
  BY <1>1, <1>2 DEF CallersOK, Init
<1>4. \A s \in Callers : Read[s] = None /\ Scanned[s] = None
  BY <1>1, <1>2 DEF Read, Scanned
<1>5. InFlight = {}
  BY <1>1, <1>2 DEF InFlight
<1>6. Cardinality({}) = 0 /\ PoolMax \in Nat
  BY FS_EmptySet, SearchAssumption
<1>7. Apart(Read, Scanned, pool)
  BY <1>4, <1>6, NotConns DEF Apart, Init
<1> QED BY <1>3, <1>5, <1>6, <1>7 DEF LeakInv, Init

LEMMA LeakStep == LeakInv /\ [Next]_vars => LeakInv'
<1> SUFFICES ASSUME LeakInv, [Next]_vars PROVE LeakInv'
  OBVIOUS
<1>1. CASE \E s \in Callers : Start(s) \/ SearchStep(s) \/ LegStep(s)
  BY <1>1, LeakStart, LeakSearch, LeakLeg
<1>2. CASE UNCHANGED <<search, leg, pool, inflight>>
  BY <1>2 DEF LeakInv, CallersOK, LegOK, Legs, LegPcs, QueryVec, JobOK, Apart, Read, Scanned, InFlight, Conns
<1>3. Ingest \/ (\E m \in Memories : Change(m)) \/ UNCHANGED vars
        => UNCHANGED <<search, leg, pool, inflight>>
  BY DEF Ingest, Lull, Process, Change, vars
<1> QED BY <1>1, <1>2, <1>3 DEF Next

LEMMA OneHolder ==
  ASSUME LeakInv, NEW c \in Conns
  PROVE  Cardinality(Holders(c)) <= 1
<1>1. \A h, k \in Holders(c) : h = k
  BY DEF LeakInv, Apart, Holders, Read, Scanned
<1>2. CASE Holders(c) = {}
  BY <1>2, FS_EmptySet
<1>3. ASSUME NEW h \in Holders(c)
      PROVE  Cardinality(Holders(c)) <= 1
  <2>1. Holders(c) = {h}
    BY <1>1
  <2> QED BY <2>1, FS_Singleton
<1> QED BY <1>2, <1>3

\* Index.reader and search_started/search_finished: whatever way searches and their legs
\* end, the wait of bulk ingest counts the searches under way, no connection is used by
\* two or is used while it is in the pool, and the pool keeps its size.
THEOREM NothingIsLeaked == Spec => []NothingLeaks
<1>1. LeakInv => NothingLeaks
  <2> SUFFICES ASSUME LeakInv PROVE NothingLeaks
    OBVIOUS
  <2>1. inflight = Cardinality({s \in Callers : search[s].pc \in InCode})
    BY DEF LeakInv, InFlight
  <2>2. Cardinality(pool) <= PoolMax
    BY DEF LeakInv, Apart
  <2>3. pool \cap InUse = {}
    BY DEF LeakInv, Apart, InUse, Holders, Read, Scanned
  <2> QED BY <2>1, <2>2, <2>3, OneHolder DEF NothingLeaks
<1> QED BY <1>1, LeakInit, LeakStep, PTL DEF Spec

-----------------------------------------------------------------------------
(* The reranker's scores *)

\* A search has scores only while it reranks, when what it found is settled: each was
\* given for the body at its place, or is 0.
RightScores(job) ==
  /\ {"pc", "found", "scores"} \subseteq DOMAIN job
  /\ \E S : job.scores \in Seq(S)
  /\ job.pc \notin {"rerank", "ask"} => job.scores = << >>
  /\ \A i \in DOMAIN job.scores : job.scores[i] \in {0} \cup ScoresOf(job.found[i])

\* The rows of the cache: each was given for its body, which has no other.
RightRows ==
  /\ \A row \in judged : row.score \in ScoresOf(<<row.mem, row.body>>)
  /\ \A row, other \in judged : row.mem = other.mem /\ row.body = other.body => row = other

ScoreInv ==
  /\ RightRows
  /\ search = [s \in Callers |-> search[s]]
  /\ \A s \in Callers : RightScores(search[s])

\* A search that is not reranking, whatever it has found.
LEMMA Unranked ==
  ASSUME NEW job, {"pc", "found", "scores"} \subseteq DOMAIN job, job.scores = << >>
  PROVE  RightScores(job)
<1>1. << >> \in Seq({})
  OBVIOUS
<1> QED BY <1>1 DEF RightScores

LEMMA OneScored ==
  ASSUME ScoreInv, NEW s \in Callers, NEW job, RightScores(job),
         search' = [search EXCEPT ![s] = job], judged' = judged
  PROVE  ScoreInv'
<1>1. \A t \in Callers : search'[t] = IF t = s THEN job ELSE search[t]
  BY DEF ScoreInv
<1>2. \A t \in Callers : RightScores(search'[t])
  BY <1>1 DEF ScoreInv
<1>3. search' = [t \in Callers |-> search'[t]]
  BY DEF ScoreInv
<1>4. RightRows'
  BY DEF ScoreInv, RightRows
<1> QED BY <1>2, <1>3, <1>4 DEF ScoreInv, RightScores

LEMMA ScoresTyped ==
  ASSUME NEW r \in Pair
  PROVE  ScoresOf(r) \subseteq Nat
<1>1. r[1] \in Memories /\ r[2] \in 1..NBodies
  BY DEF Pair
<1>2. Judge[r[1]] \in [1..NBodies -> SUBSET (Nat \cup {None}) \ {{}}]
  BY <1>1, SearchAssumption
<1>3. Judge[r[1]][r[2]] \subseteq Nat \cup {None}
  BY <1>1, <1>2
<1>4. \A answer \in Nat \cup {None} : Parsed(answer) \in Nat
  BY DEF Parsed
<1> QED BY <1>3, <1>4 DEF ScoresOf

\* A score that is read from the cache, or that is put into it.
LEMMA RowsWritten ==
  ASSUME RightRows, NEW r, NEW score \in ScoresOf(r), WriteScore(r, score)
  PROVE  RightRows'
<1> DEFINE new == [mem |-> r[1], body |-> r[2], score |-> score]
           old == {row \in judged : row.mem # r[1] \/ row.body # r[2]}
<1>1. judged' = old \cup {new}
  BY DEF WriteScore
<1>2. new.score \in ScoresOf(<<new.mem, new.body>>)
  BY DEF ScoresOf
<1>3. \A row \in judged' : row.score \in ScoresOf(<<row.mem, row.body>>)
  BY <1>1, <1>2 DEF RightRows
<1>4. \A row \in old : row.mem # new.mem \/ row.body # new.body
  OBVIOUS
<1>5. \A row, other \in judged' : row.mem = other.mem /\ row.body = other.body => row = other
  BY <1>1, <1>4 DEF RightRows
<1> QED BY <1>3, <1>5 DEF RightRows, ScoresOf

LEMMA CachedIsRight ==
  ASSUME RightRows, NEW r, NEW score \in CachedScores(r)
  PROVE  score \in ScoresOf(r)
<1>1. PICK row \in judged : row.mem = r[1] /\ row.body = r[2] /\ score = row.score
  BY DEF CachedScores
<1> QED BY <1>1 DEF RightRows, ScoresOf

\* A search goes through the candidates in the order they were found in.
LEMMA ScoreAdded ==
  ASSUME ScoreInv, NEW s \in Callers, search[s].pc \in {"rerank", "ask"},
         NEW v \in {0} \cup ScoresOf(Candidate(s)), Scored(s, v), RightRows'
  PROVE  ScoreInv'
<1> DEFINE job == [search[s] EXCEPT !.pc = "rerank", !.scores = Append(search[s].scores, v)]
<1>1. search' = [search EXCEPT ![s] = job]
  BY DEF Scored, ScoreInv
<1>2. RightScores(search[s])
  BY DEF ScoreInv
<1>3. RightScores(job)
  <2>1. PICK S : search[s].scores \in Seq(S)
    BY <1>2 DEF RightScores
  <2>2. /\ Append(search[s].scores, v) \in Seq(S \cup {v})
        /\ DOMAIN Append(search[s].scores, v) = 1..Len(search[s].scores) + 1
        /\ \A i \in DOMAIN Append(search[s].scores, v) :
             Append(search[s].scores, v)[i] =
               IF i \in DOMAIN search[s].scores THEN search[s].scores[i] ELSE v
        /\ \A i \in DOMAIN Append(search[s].scores, v) \ DOMAIN search[s].scores :
             i = Len(search[s].scores) + 1
    BY <2>1
  <2>3. /\ job.pc = "rerank" /\ job.found = search[s].found
        /\ job.scores = Append(search[s].scores, v) /\ DOMAIN job = DOMAIN search[s]
    BY <1>2 DEF RightScores
  <2>4. \A i \in DOMAIN job.scores : job.scores[i] \in {0} \cup ScoresOf(job.found[i])
    BY <1>2, <2>2, <2>3 DEF RightScores, Candidate
  <2> HIDE DEF job
  <2> QED BY <1>2, <2>2, <2>3, <2>4, ZenonT(30) DEF RightScores
<1> HIDE DEF job
<1>4. \A t \in Callers : search'[t] = IF t = s THEN job ELSE search[t]
  BY <1>1 DEF ScoreInv
<1>5. \A t \in Callers : RightScores(search'[t])
  BY <1>3, <1>4 DEF ScoreInv
<1>6. search' = [t \in Callers |-> search'[t]]
  BY <1>1 DEF ScoreInv
<1> QED BY <1>5, <1>6 DEF ScoreInv, RightScores

\* From the cache, from the model, or for a call that fails.
LEMMA ScoreAsked ==
  ASSUME ScoreInv, NEW s \in Callers, LookUp(s) \/ Score(s)
  PROVE  ScoreInv'
<1>1. search[s].pc \in {"rerank", "ask"} /\ RightRows /\ RightScores(search[s])
  BY DEF LookUp, Score, At, ScoreInv
<1>2. judged' = judged => RightRows'
  BY <1>1 DEF RightRows, ScoresOf
<1>3. CASE LookUp(s)
  <2>1. judged' = judged
    BY <1>3 DEF LookUp
  <2>2. ASSUME NEW score \in CachedScores(Candidate(s)), Scored(s, score)
        PROVE  ScoreInv'
    <3>1. score \in ScoresOf(Candidate(s))
      BY <1>1, CachedIsRight
    <3> QED BY <1>1, <1>2, <2>1, <2>2, <3>1, ScoreAdded
  <2>3. CASE search' = [search EXCEPT ![s].pc = "ask"]
    <3> DEFINE job == [search[s] EXCEPT !.pc = "ask"]
    <3>1. search' = [search EXCEPT ![s] = job]
      BY <2>3 DEF ScoreInv
    <3>2. /\ job.pc = "ask" /\ job.found = search[s].found /\ job.scores = search[s].scores
          /\ DOMAIN job = DOMAIN search[s]
      BY <1>1 DEF RightScores
    <3> HIDE DEF job
    <3>3. RightScores(job)
      BY <1>1, <3>2 DEF RightScores
    <3> QED BY <2>1, <3>1, <3>3, OneScored
  <2> QED BY <1>3, <2>2, <2>3 DEF LookUp
<1>4. CASE Score(s)
  <2>1. ASSUME NEW score \in ScoresOf(Candidate(s)), Scored(s, score), WriteScore(Candidate(s), score)
        PROVE  ScoreInv'
    <3>1. RightRows'
      BY <1>1, <2>1, RowsWritten
    <3> QED BY <1>1, <2>1, <3>1, ScoreAdded
  <2>2. CASE Scored(s, 0) /\ judged' = judged
    BY <1>1, <1>2, <2>2, ScoreAdded
  <2> QED BY <1>4, <2>1, <2>2 DEF Score
<1> QED BY <1>3, <1>4

\* Every other step of a search leaves it without scores.
LEMMA ScoreSearch ==
  ASSUME ScoreInv, NEW s \in Callers, Start(s) \/ SearchStep(s)
  PROVE  ScoreInv'
<1>1. /\ {"pc", "found", "scores"} \subseteq DOMAIN search[s]
      /\ search[s].pc \notin {"rerank", "ask"} => search[s].scores = << >>
  BY DEF ScoreInv, RightScores
<1>2. ASSUME NEW job, {"pc", "found", "scores"} \subseteq DOMAIN job, job.scores = << >>,
             search' = [search EXCEPT ![s] = job], judged' = judged
      PROVE  ScoreInv'
  BY <1>2, Unranked, OneScored
<1>3. CASE Start(s)
  <2>1. PICK c : search' = [search EXCEPT ![s] = [Quiet EXCEPT !.pc = "keywords", !.rdb = c]]
    BY <1>3 DEF Start
  <2> QED BY <1>2, <1>3, <2>1 DEF Start, Quiet
<1>4. CASE TakeLeg(s) \/ Abandon(s)
  <2>1. PICK vec, embedded : search' = [search EXCEPT ![s] = WithHits(search[s], vec, embedded)]
    BY <1>4 DEF TakeLeg, Abandon, ScoreInv
  <2>2. search[s].scores = << >>
    BY <1>1, <1>4 DEF TakeLeg, Abandon, At
  <2>3. judged' = judged
    BY <1>4 DEF TakeLeg, Abandon
  <2> QED BY <1>1, <1>2, <2>1, <2>2, <2>3 DEF WithHits
<1>5. CASE TimeOut(s)
  <2>1. search' = [search EXCEPT ![s] = [search[s] EXCEPT !.pc = "abandon"]]
    BY <1>5 DEF TimeOut
  <2> QED BY <1>1, <1>2, <1>5, <2>1 DEF TimeOut, At
<1>6. CASE ReadHit(s)
  <2>1. PICK found : search' = [search EXCEPT ![s] =
          [search[s] EXCEPT !.ahead = Tail(@), !.found = found]]
    BY <1>6 DEF ReadHit, ScoreInv
  <2> QED BY <1>1, <1>2, <1>6, <2>1 DEF ReadHit, Reading, At
<1>7. CASE Collect(s)
  <2>1. PICK found : search' = [search EXCEPT ![s] =
          [search[s] EXCEPT !.pc = "rerank", !.ahead = << >>, !.found = found]]
    BY <1>7 DEF Collect, ScoreInv
  <2> QED BY <1>1, <1>2, <1>7, <2>1 DEF Collect, At
<1>8. CASE LookUp(s) \/ Score(s)
  BY <1>8, ScoreAsked
<1>9. CASE Finish(s)
  <2>1. PICK ranked, served : search' = [search EXCEPT ![s] =
          [search[s] EXCEPT !.pc = "ranked", !.rdb = None, !.found = << >>, !.scores = << >>,
                            !.pool = ranked, !.served = served]]
    BY <1>9 DEF Finish
  <2> QED BY <1>1, <1>2, <1>9, <2>1 DEF Finish
<1>10. CASE Judged(s)
  <2>1. PICK served :
          \/ search' = [search EXCEPT ![s] = [search[s] EXCEPT !.pc = "judged", !.served = served]]
          \/ search' = [search EXCEPT ![s] = [search[s] EXCEPT !.pc = "judged"]]
    BY <1>10 DEF Judged, JevFails, ScoreInv
  <2> QED BY <1>1, <1>2, <1>10, <2>1 DEF Judged, At
<1>11. CASE Return(s) \/ Raise(s)
  BY <1>2, <1>11 DEF Return, Raise, Quiet
<1>12. CASE Keywords(s)
  <2>1. PICK found : search' = [search EXCEPT ![s] =
          [search[s] EXCEPT !.pc = "await", !.bm25 = found]]
    BY <1>12 DEF Keywords, ScoreInv
  <2> QED BY <1>1, <1>2, <1>12, <2>1 DEF Keywords, At
<1> QED BY <1>3, <1>4, <1>5, <1>6, <1>7, <1>8, <1>9, <1>10, <1>11, <1>12 DEF SearchStep

LEMMA ScoreStep == ScoreInv /\ [Next]_vars => ScoreInv'
<1> SUFFICES ASSUME ScoreInv, [Next]_vars PROVE ScoreInv'
  OBVIOUS
<1>1. CASE \E s \in Callers : Start(s) \/ SearchStep(s)
  BY <1>1, ScoreSearch
<1>2. CASE UNCHANGED <<search, judged>>
  BY <1>2 DEF ScoreInv, RightScores, RightRows, ScoresOf
<1>3. (\E s \in Callers : LegStep(s)) \/ Ingest \/ (\E m \in Memories : Change(m)) \/ UNCHANGED vars
        => UNCHANGED <<search, judged>>
  BY DEF LegStep, LegStart, Answer, Attach, TakeIndexLock, Scan, ScanFails, LegReturn,
         Ingest, Lull, Process, Change, vars
<1> QED BY <1>1, <1>2, <1>3 DEF Next

LEMMA ScoreInit == Init => ScoreInv
<1> SUFFICES ASSUME Init PROVE ScoreInv
  OBVIOUS
<1>1. RightScores(Quiet)
  BY Unranked DEF Quiet
<1>2. \A s \in Callers : search[s] = Quiet
  BY DEF Init
<1>3. RightRows
  BY DEF RightRows, Init
<1> QED BY <1>1, <1>2, <1>3 DEF ScoreInv, Init

\* Reranker.score_candidates and its cache: whatever the model answers, whichever of its
\* calls fail, however many searches ask at once, and however the vault changes between
\* the reading of a body, its scoring and the next search, the cache has one score of a
\* body, which the model gave for that very body and not a failed call, and a search uses
\* only such scores for the bodies it has read.
THEOREM ScoresFit == Spec => []ScoresFitBodies
<1>1. ScoreInv => ScoresFitBodies
  BY DEF ScoreInv, RightRows, RightScores, ScoresFitBodies
<1> QED BY <1>1, ScoreInit, ScoreStep, PTL DEF Spec

-----------------------------------------------------------------------------
(* Scores are numbers, so the orders they give are orders *)

LEMMA ShareIsInt ==
  ASSUME NEW S, NEW list \in Seq(S), NEW m
  PROVE  Share(list, m) \in Int
<1>1. CASE m \in Range(list)
  <2> DEFINE i == CHOOSE i \in DOMAIN list : list[i] = m
  <2>1. \E j \in DOMAIN list : list[j] = m
    BY <1>1 DEF Range
  <2>2. i \in DOMAIN list
    BY <2>1
  <2>3. Share(list, m) = Unit \div (RrfK + i)
    BY <1>1 DEF Share
  <2> HIDE DEF i
  <2>4. RrfK + i \in Nat \ {0} /\ Unit \in Int
    BY <2>2, RankingAssumption
  <2> QED BY <2>3, <2>4
<1>2. CASE m \notin Range(list)
  BY <1>2 DEF Share
<1> QED BY <1>1, <1>2

LEMMA FusedScoreIsInt ==
  ASSUME NEW bm25 \in Seq(Memories), NEW vec \in Seq(Memories), NEW m
  PROVE  FusedScore(bm25, vec, m) \in Int
<1>1. Once(Firsts(vec))
  BY FirstsOnce
<1>2. Firsts(vec) \in Seq(Range(Firsts(vec)))
  BY <1>1, OnceLength
<1>3. Share(bm25, m) \in Int /\ Share(Firsts(vec), m) \in Int
  BY <1>2, ShareIsInt
<1> QED BY <1>3 DEF FusedScore

LEMMA FinalScoreIsInt ==
  ASSUME NEW bm25 \in Seq(Memories), NEW vec \in Seq(Memories), NEW m \in Memories,
         NEW historical \in BOOLEAN
  PROVE  FinalScore(bm25, vec, m, historical) \in Int
<1>1. FusedScore(bm25, vec, m) \in Int
  BY FusedScoreIsInt
<1>2. Traits[m] \in [importance : Nat, bias : Nat, age : Nat, timeless : BOOLEAN]
  BY RankingAssumption
<1>3. ImportanceBoost(m) \in Int /\ TypeBias(m) \in Int
  BY <1>2 DEF ImportanceBoost, TypeBias
<1>4. \A halves \in Nat : Decayed(halves) \in Int
  <2> TAKE halves \in Nat
  <2>1. CASE halves > 4
    BY <2>1 DEF Decayed
  <2>2. CASE ~ (halves > 4)
    <3>1. halves + 1 \in 1..5
      BY <2>2
    <3>2. \A i \in 1..5 : <<16, 8, 4, 2, 1>>[i] \in Int
      OBVIOUS
    <3> QED BY <2>2, <3>1, <3>2 DEF Decayed
  <2> QED BY <2>1, <2>2
<1>5. RecencyBoost(m, historical) \in Int
  <2> DEFINE halves == IF Traits[m].timeless THEN 0 ELSE Traits[m].age
  <2>1. halves \in Nat
    BY <1>2
  <2>2. RecencyBoost(m, historical) = 160 + IF historical THEN 0 ELSE RecencyTenths * Decayed(halves)
    BY DEF RecencyBoost
  <2>3. RecencyTenths \in Int
    BY RankingAssumption
  <2> HIDE DEF halves
  <2> QED BY <1>4, <2>1, <2>2, <2>3
<1> QED BY <1>1, <1>3, <1>5 DEF FinalScore

LEMMA RangeTyped ==
  ASSUME NEW S, NEW list \in Seq(S)
  PROVE  Range(list) \subseteq S
<1>1. Len(list) \in Nat /\ list \in [1..Len(list) -> S] /\ DOMAIN list = 1..Len(list)
  OBVIOUS
<1> QED BY <1>1 DEF Range

\* Fusion has every record of either list, once, however many of its chunks were found.
LEMMA FusedOnce ==
  ASSUME NEW bm25 \in Seq(Memories), NEW vec \in Seq(Memories)
  PROVE  Once(Fused(bm25, vec)) /\ Range(Fused(bm25, vec)) = Range(bm25) \cup Range(vec)
<1> DEFINE key == [m \in Memories |-> FusedScore(bm25, vec, m)]
           both == bm25 \o vec
<1>1. both \in Seq(Memories)
  OBVIOUS
<1>2. Range(both) = Range(bm25) \cup Range(vec)
  <2>1. /\ Len(both) = Len(bm25) + Len(vec) /\ Len(bm25) \in Nat /\ Len(vec) \in Nat
        /\ \A i \in 1..Len(bm25) + Len(vec) :
             both[i] = IF i <= Len(bm25) THEN bm25[i] ELSE vec[i - Len(bm25)]
    BY ConcatProperties
  <2>2. /\ DOMAIN both = 1..Len(bm25) + Len(vec)
        /\ DOMAIN bm25 = 1..Len(bm25) /\ DOMAIN vec = 1..Len(vec)
    BY <1>1, <2>1
  <2> HIDE DEF both
  <2>3. \A i \in DOMAIN bm25 : i \in DOMAIN both /\ both[i] = bm25[i]
    BY <2>1, <2>2
  <2>4. \A i \in DOMAIN vec : i + Len(bm25) \in DOMAIN both /\ both[i + Len(bm25)] = vec[i]
    BY <2>1, <2>2
  <2>5. \A i \in DOMAIN both : \/ i \in DOMAIN bm25 /\ both[i] = bm25[i]
                               \/ i - Len(bm25) \in DOMAIN vec /\ both[i] = vec[i - Len(bm25)]
    BY <2>1, <2>2
  <2> QED BY <2>3, <2>4, <2>5 DEF Range
<1> HIDE DEF both
<1>3. Once(Firsts(both)) /\ Range(Firsts(both)) = Range(both) /\ Range(both) \subseteq Memories
  BY <1>1, FirstsOnce, RangeTyped
<1>4. \A x \in Range(Firsts(both)) : key[x] \in Int
  BY <1>3, FusedScoreIsInt
<1>5. Fused(bm25, vec) = SortedBy(Firsts(both), key)
  BY DEF Fused, both
<1> HIDE DEF key
<1> QED BY <1>2, <1>3, <1>4, <1>5, Sorted

-----------------------------------------------------------------------------
(* What a search shows *)

LEMMA WantedEnough ==
  ASSUME NEW s \in Callers
  PROVE  Wanted(s) \in Nat /\ Limit <= Wanted(s) /\ Wanted(s) <= Wanted(s) * Overfetch
<1> DEFINE most == IF Diversifies(s) THEN Limit * Overfetch ELSE Limit
<1>1. Limit \in Nat /\ Asks[s].rerank \in Nat /\ Limit * Overfetch \in Nat
  BY SearchAssumption
<1>2. most \in Nat
  BY <1>1
<1> HIDE DEF most
<1>3. \E x \in {Limit, Asks[s].rerank, most} : \A y \in {Limit, Asks[s].rerank, most} : x >= y
  BY <1>1, <1>2
<1>4. Wanted(s) \in {Limit, Asks[s].rerank, most} /\ Wanted(s) >= Limit
  BY <1>3 DEF Wanted, Max, most
<1>5. Wanted(s) \in Nat /\ Limit <= Wanted(s)
  BY <1>1, <1>2, <1>4
<1>6. \A w, o \in Nat : o # 0 => w <= w * o
  <2> TAKE w, o \in Nat
  <2>1. o # 0 => \E p \in Nat : o = p + 1
    <3>1. o # 0 => o - 1 \in Nat /\ o = (o - 1) + 1
      OBVIOUS
    <3> QED BY <3>1
  <2>2. \A p \in Nat : w * (p + 1) = w * p + w /\ w * p \in Nat
    OBVIOUS
  <2> QED BY <2>1, <2>2
<1> QED BY <1>5, <1>6, SearchAssumption

\* Records with their bodies, each record once.
LEMMA NamesOf ==
  ASSUME NEW found \in Seq(Pair)
  PROVE  /\ Names(found) \in Seq(Memories) /\ Len(Names(found)) = Len(found)
         /\ DOMAIN Names(found) = DOMAIN found /\ Range(Names(found)) = {r[1] : r \in Range(found)}
<1>1. Len(found) \in Nat /\ found \in [1..Len(found) -> Pair] /\ DOMAIN found = 1..Len(found)
  OBVIOUS
<1>2. \A r \in Pair : r[1] \in Memories
  BY DEF Pair
<1>3. Names(found) \in [1..Len(found) -> Memories] /\ \A i \in 1..Len(found) : Names(found)[i] = found[i][1]
  BY <1>1, <1>2 DEF Names
<1>4. Range(Names(found)) = {r[1] : r \in Range(found)}
  BY <1>1, <1>3 DEF Range
<1> QED BY <1>1, <1>3, <1>4

\* Any list of what was found that has none of it twice names no record twice.
LEMMA Renamed ==
  ASSUME NEW found \in Seq(Pair), Once(Names(found)),
         NEW other, Once(other), Range(other) \subseteq Range(found)
  PROVE  /\ other \in Seq(Pair) /\ Once(Names(other)) /\ Len(Names(other)) = Len(other)
         /\ Range(Names(other)) = {r[1] : r \in Range(other)}
<1>1. Range(found) \subseteq Pair
  BY DEF Range
<1>2. Len(other) \in Nat /\ other \in [1..Len(other) -> Range(other)]
  BY OnceLength
<1>3. other \in Seq(Pair)
  BY <1>1, <1>2
<1>4. \A q, r \in Range(found) : q[1] = r[1] => q = r
  BY DEF Range, Names, Once, IsInjective
<1>5. /\ Names(other) \in Seq(Memories) /\ Len(Names(other)) = Len(other)
      /\ DOMAIN Names(other) = DOMAIN other /\ Range(Names(other)) = {r[1] : r \in Range(other)}
  BY <1>3, NamesOf
<1>6. IsInjective(Names(other))
  <2> SUFFICES ASSUME NEW i \in DOMAIN other, NEW j \in DOMAIN other, other[i][1] = other[j][1]
               PROVE  i = j
    BY <1>5 DEF IsInjective, Names
  <2>1. other[i] = other[j]
    BY <1>4 DEF Range
  <2> QED BY <2>1 DEF Once, IsInjective
<1>7. Names(other) \in [1..Len(other) -> Range(Names(other))]
  BY <1>5 DEF Range
<1> QED BY <1>2, <1>3, <1>5, <1>6, <1>7 DEF Once

\* The rows that a list of names stands for.
LEMMA BodiedNames ==
  ASSUME NEW found \in Seq(Pair), NEW list, Once(list), Range(list) \subseteq Range(Names(found))
  PROVE  /\ Bodied(found, list) \in Seq(Pair) /\ Names(Bodied(found, list)) = list
         /\ Len(Bodied(found, list)) = Len(list)
<1>1. Len(list) \in Nat /\ list \in [1..Len(list) -> Range(list)] /\ DOMAIN list = 1..Len(list)
  BY OnceLength
<1>2. ASSUME NEW i \in 1..Len(list)
      PROVE  Bodied(found, list)[i] \in Range(found) /\ Bodied(found, list)[i][1] = list[i]
  <2>1. list[i] \in {r[1] : r \in Range(found)}
    BY <1>1, NamesOf
  <2>2. \E r \in Range(found) : r[1] = list[i]
    BY <2>1
  <2>3. Bodied(found, list)[i] = CHOOSE r \in Range(found) : r[1] = list[i]
    BY <1>1 DEF Bodied
  <2> QED BY <2>2, <2>3
<1>3. Range(found) \subseteq Pair
  BY DEF Range
<1>4. Bodied(found, list) \in [1..Len(list) -> Pair]
  <2>1. Bodied(found, list) = [i \in 1..Len(list) |-> Bodied(found, list)[i]]
    BY <1>1 DEF Bodied
  <2> QED BY <1>2, <1>3, <2>1
<1>5. Names(Bodied(found, list)) = [i \in 1..Len(list) |-> list[i]]
  BY <1>1, <1>2, <1>4 DEF Names
<1> QED BY <1>1, <1>4, <1>5

LEMMA QueriesTyped == QueryFts \cup QueryVec \cup {<< >>} \subseteq Seq(Memories)
<1>1. ASSUME NEW list \in Seq(Memories) PROVE Take(list, Limit * Overfetch) \in Seq(Memories)
  <2> DEFINE k == Min({Limit * Overfetch, Len(list)})
  <2>1. Limit * Overfetch \in Nat /\ Len(list) \in Nat
    BY SearchAssumption
  <2>2. k \in Nat /\ k <= Len(list)
    BY <2>1, MinOfTwo
  <2>3. \A i \in 1..k : list[i] \in Memories
    BY <2>2
  <2>4. Take(list, Limit * Overfetch) = SubSeq(list, 1, k)
    BY DEF Take
  <2> HIDE DEF k
  <2> QED BY <2>2, <2>3, <2>4, SubSeqProperties
<1>2. QueryFts \subseteq Seq(Memories) /\ QueryVec \subseteq Seq(Memories)
  BY <1>1, SearchAssumption DEF QueryFts, QueryVec
<1>3. << >> \in Seq(Memories)
  OBVIOUS
<1> QED BY <1>2, <1>3

\* What is read is all ranked, and cut only where more than enough is there.
LEMMA InOrderKeeps ==
  ASSUME NEW s \in Callers, NEW found \in Seq(Pair), Once(Names(found)),
         search[s].bm25 \in QueryFts \cup {<< >>}, search[s].vec \in QueryVec \cup {<< >>}
  PROVE  /\ InOrder(s, found) \in Seq(Pair) /\ Once(Names(InOrder(s, found)))
         /\ Range(Names(InOrder(s, found))) \subseteq Range(Names(found))
         /\ Len(InOrder(s, found)) < Limit =>
              Len(found) < Wanted(s) /\ Range(Names(InOrder(s, found))) = Range(Names(found))
<1> DEFINE scores == FinalScores[search[s].bm25][search[s].vec][Asks[s].historical]
           score == [r \in Range(found) |-> scores[r[1]]]
           sorted == SortedBy(found, score)
           ordered == Take(sorted, Wanted(s))
<1>1. InOrder(s, found) = ordered
  BY DEF InOrder
<1>2. Range(found) \subseteq Pair /\ \A r \in Pair : r[1] \in Memories
  BY DEF Range, Pair
<1>3. \A r \in Range(found) : score[r] \in Int
  <2> TAKE r \in Range(found)
  <2>1. r[1] \in Memories /\ Asks[s].historical \in BOOLEAN
    BY <1>2, SearchAssumption
  <2>2. search[s].bm25 \in Seq(Memories) /\ search[s].vec \in Seq(Memories)
    BY QueriesTyped
  <2>3. FinalScores[search[s].bm25][search[s].vec][Asks[s].historical][r[1]]
          = FinalScore(search[s].bm25, search[s].vec, r[1], Asks[s].historical)
    BY <2>1 DEF FinalScores
  <2>4. FinalScore(search[s].bm25, search[s].vec, r[1], Asks[s].historical) \in Int
    BY <2>1, <2>2, FinalScoreIsInt
  <2> QED BY <2>3, <2>4
<1>4. Once(found)
  <2>1. /\ Len(found) \in Nat /\ found \in [1..Len(found) -> Range(found)] /\ DOMAIN found = 1..Len(found)
    BY DEF Range
  <2>2. IsInjective(found)
    BY DEF Once, IsInjective, Names
  <2> QED BY <2>1, <2>2 DEF Once
<1> HIDE DEF score
<1>5. Once(sorted) /\ Range(sorted) = Range(found) /\ Len(sorted) = Len(found)
  BY <1>3, <1>4, Sorted
<1> HIDE DEF sorted
<1>6. /\ Once(ordered) /\ Range(ordered) \subseteq Range(found)
      /\ Len(ordered) < Wanted(s) => ordered = sorted
  BY <1>5, WantedEnough, TakeOnce
<1> HIDE DEF ordered
<1>7. /\ ordered \in Seq(Pair) /\ Once(Names(ordered)) /\ Len(ordered) \in Nat
      /\ Range(Names(ordered)) = {r[1] : r \in Range(ordered)}
  BY <1>6, Renamed
<1>8. Range(Names(found)) = {r[1] : r \in Range(found)}
  BY NamesOf
<1>9. ASSUME Len(ordered) < Limit
      PROVE  Len(found) < Wanted(s) /\ Range(Names(ordered)) = Range(Names(found))
  <2>1. Len(ordered) < Wanted(s)
    BY <1>7, <1>9, WantedEnough, SearchAssumption
  <2> QED BY <1>5, <1>6, <1>7, <1>8, <2>1
<1> QED BY <1>1, <1>6, <1>7, <1>8, <1>9

LEMMA InLists ==
  ASSUME NEW list, Once(list), Range(list) \subseteq Memories
  PROVE  list \in Lists
<1>1. /\ Len(list) \in Nat /\ list \in [1..Len(list) -> Range(list)] /\ IsInjective(list)
      /\ IsFiniteSet(Range(list)) /\ Cardinality(Range(list)) = Len(list)
  BY OnceLength DEF Once
<1>2. Len(list) <= Cardinality(Memories) /\ Cardinality(Memories) \in Nat
  BY <1>1, RankingAssumption, FS_Subset, FS_CardinalityType
<1>3. Len(list) \in 0..Cardinality(Memories)
  BY <1>1, <1>2
<1>4. list \in {l \in [1..Len(list) -> Memories] : IsInjective(l)}
  BY <1>1
<1> QED BY <1>3, <1>4 DEF Lists

LEMMA DiverseIs ==
  ASSUME NEW list, Once(list), Range(list) \subseteq Memories
  PROVE  Diverse(list) = Diversified(list, Limit)
<1>1. list \in Lists
  BY InLists
<1> DEFINE rows == {row \in DiverseOrders : row.of = list}
<1>2. [of |-> list, order |-> Diversified(list, Limit)] \in DiverseOrders
  BY <1>1 DEF DiverseOrders
<1>3. \A row \in DiverseOrders : row.of = list => row.order = Diversified(list, Limit)
  BY DEF DiverseOrders
<1>4. \E row \in DiverseOrders : row.of = list
  BY <1>2
<1> QED BY <1>3, <1>4 DEF Diverse

\* Records with their bodies, each record once, all of them shown at some time, and,
\* when they are fewer than the limit, every match that is due.
Kept(found, seen, due) ==
  /\ found \in Seq(Pair) /\ Once(Names(found)) /\ Range(Names(found)) \subseteq seen
  /\ Len(found) < Limit => due \subseteq Range(Names(found))

\* The matches that could be shown all along.
Due(job, still) == (Range(job.bm25) \cup Range(job.vec)) \cap still

\* Halfway through the vault, a match that is due has been read or is ahead.
Halfway(job, seen, still) ==
  /\ job.found \in Seq(Pair) /\ Once(Names(job.found)) /\ Range(Names(job.found)) \subseteq seen
  /\ Once(job.ahead) /\ Range(job.ahead) \subseteq Memories \ Range(Names(job.found))
  /\ Due(job, still) \subseteq Range(Names(job.found)) \cup Range(job.ahead)

Shows(job, seen, still) ==
  /\ {"pc", "bm25", "vec", "embedded", "ahead", "found", "scores", "pool", "served"} \subseteq DOMAIN job
  /\ job.bm25 \in QueryFts \cup {<< >>} /\ job.vec \in QueryVec \cup {<< >>}
  /\ job.pc \in {"idle", "keywords", "await", "abandon"} => job.found = << >>
  /\ job.pc = "read" => Halfway(job, seen, still)
  /\ job.pc \in {"rerank", "ask"} =>
       Kept(job.found, seen, Due(job, still)) /\ Len(job.scores) <= Len(job.found)
  /\ job.pc = "ask" => Len(job.scores) < Len(job.found)
  /\ job.pc \in {"ranked", "judged"} =>
       /\ Kept(job.pool, seen, Due(job, still))
       /\ job.served \in Seq(Pair) /\ Selects(Names(job.served), Names(job.pool), Limit)

\* What could be shown all along can be shown now, and what can be shown now could be
\* shown at some time.
ShowInv ==
  /\ vault \in [Memories -> [body : 1..NBodies, is : Standings]]
  /\ search = [s \in Callers |-> search[s]]
  /\ shown = [s \in Callers |-> shown[s]] /\ steady = [s \in Callers |-> steady[s]]
  /\ \A s \in Callers :
       /\ search[s].pc # "idle" => steady[s] \subseteq Showable /\ Showable \subseteq shown[s]
       /\ Shows(search[s], shown[s], steady[s])

LEMMA OneShows ==
  ASSUME ShowInv, NEW s \in Callers, NEW job, search' = [search EXCEPT ![s] = job], vault' = vault,
         NEW seen, NEW still, shown' = [shown EXCEPT ![s] = seen], steady' = [steady EXCEPT ![s] = still],
         job.pc # "idle" => still \subseteq Showable /\ Showable \subseteq seen,
         Shows(job, seen, still)
  PROVE  ShowInv'
<1>1. /\ \A t \in Callers : /\ search'[t] = IF t = s THEN job ELSE search[t]
                            /\ shown'[t] = IF t = s THEN seen ELSE shown[t]
                            /\ steady'[t] = IF t = s THEN still ELSE steady[t]
      /\ search' = [t \in Callers |-> search'[t]]
      /\ shown' = [t \in Callers |-> shown'[t]] /\ steady' = [t \in Callers |-> steady'[t]]
  BY DEF ShowInv
<1>2. Showable' = Showable
  BY DEF Showable
<1>3. \A t \in Callers : Shows(search'[t], shown'[t], steady'[t])
  BY <1>1 DEF ShowInv
<1>4. \A t \in Callers : search'[t].pc # "idle" => steady'[t] \subseteq Showable /\ Showable \subseteq shown'[t]
  BY <1>1 DEF ShowInv
<1> QED BY <1>1, <1>2, <1>3, <1>4 DEF ShowInv

\* A step of a search under way leaves the history alone.
LEMMA StillShows ==
  ASSUME ShowInv, NEW s \in Callers, NEW job, search' = [search EXCEPT ![s] = job],
         UNCHANGED <<vault, shown, steady>>, search[s].pc # "idle",
         Shows(job, shown[s], steady[s])
  PROVE  ShowInv'
<1>1. shown' = [shown EXCEPT ![s] = shown[s]] /\ steady' = [steady EXCEPT ![s] = steady[s]]
  BY DEF ShowInv
<1>2. steady[s] \subseteq Showable /\ Showable \subseteq shown[s]
  BY DEF ShowInv
<1> QED BY <1>1, <1>2, OneShows

LEMMA ShowsQuiet ==
  ASSUME NEW pc \in {"idle", "keywords"}, NEW rdb, NEW seen, NEW still
  PROVE  Shows([Quiet EXCEPT !.pc = pc, !.rdb = rdb], seen, still)
BY DEF Shows, Quiet

LEMMA QuietShows == \A seen, still : Shows(Quiet, seen, still)
BY DEF Shows, Quiet

LEMMA NothingOnce == << >> \in Seq(Pair) /\ Names(<< >>) = << >> /\ Once(<< >>) /\ Range(<< >>) = {}
<1>1. << >> \in [1..0 -> {}] /\ DOMAIN << >> = {} /\ Range(<< >>) = {}
  BY DEF Range
<1> QED BY <1>1 DEF Once, IsInjective, Names

\* Fusion puts every match ahead.
LEMMA ShowsHits ==
  ASSUME NEW job, NEW seen, NEW still, Shows(job, seen, still), job.pc \in {"await", "abandon"},
         NEW vec \in QueryVec \cup {<< >>}, NEW embedded \in BOOLEAN
  PROVE  Shows(WithHits(job, vec, embedded), seen, still)
<1> DEFINE next == WithHits(job, vec, embedded)
<1>1. /\ DOMAIN next = DOMAIN job /\ next.pc = "read" /\ next.vec = vec
      /\ next.bm25 = job.bm25 /\ next.found = << >> /\ next.ahead = FusedLists[job.bm25][vec]
  BY DEF WithHits, Shows
<1>2. job.bm25 \in QueryFts \cup {<< >>} /\ job.bm25 \in Seq(Memories) /\ vec \in Seq(Memories)
  BY QueriesTyped DEF Shows
<1>3. next.ahead = Fused(job.bm25, vec)
  BY <1>1, <1>2 DEF FusedLists
<1> HIDE DEF next
<1>4. Once(next.ahead) /\ Range(next.ahead) = Range(job.bm25) \cup Range(vec)
  BY <1>2, <1>3, FusedOnce
<1>5. Range(next.ahead) \subseteq Memories
  BY <1>2, <1>4, RangeTyped
<1>6. Halfway(next, seen, still)
  BY <1>1, <1>4, <1>5, NothingOnce DEF Halfway, Due
<1>7. {"pc", "bm25", "vec", "embedded", "ahead", "found", "scores", "pool", "served"} \subseteq DOMAIN next
  BY <1>1 DEF Shows
<1>8. Shows(next, seen, still)
  BY <1>1, <1>2, <1>6, <1>7 DEF Shows
<1> QED BY <1>8 DEF next

LEMMA TailOnce ==
  ASSUME NEW list, Once(list), list # << >>
  PROVE  /\ Once(Tail(list)) /\ Head(list) \in Range(list)
         /\ Range(Tail(list)) = Range(list) \ {Head(list)}
<1>1. /\ Len(list) \in Nat /\ list \in [1..Len(list) -> Range(list)] /\ list \in Seq(Range(list))
      /\ \A i, j \in 1..Len(list) : list[i] = list[j] => i = j
  BY OnceLength DEF Once, IsInjective
<1> DEFINE n == Len(list) - 1
           tail == Tail(list)
<1>2. n \in Nat /\ Head(list) = list[1] /\ Len(list) = n + 1
  BY <1>1
<1>3. tail \in [1..n -> Range(list)] /\ \A i \in 1..n : tail[i] = list[i + 1]
  <2>1. tail \in Seq(Range(list)) /\ Len(tail) = n /\ \A i \in 1..Len(tail) : tail[i] = list[i + 1]
    BY <1>1, HeadTailProperties
  <2> HIDE DEF tail
  <2> QED BY <2>1
<1> HIDE DEF tail, n
<1>4. \A i \in 1..n : i + 1 \in 1..Len(list) /\ i + 1 # 1
  BY <1>2
<1>5. IsInjective(tail)
  BY <1>1, <1>2, <1>3, <1>4 DEF IsInjective
<1>6. Range(tail) = Range(list) \ {Head(list)}
  <2>1. \A i \in 1..n : tail[i] \in Range(list) \ {Head(list)}
    BY <1>1, <1>2, <1>3, <1>4
  <2>2. ASSUME NEW x \in Range(list) \ {Head(list)} PROVE \E i \in 1..n : tail[i] = x
    <3>1. PICK j \in 1..Len(list) : list[j] = x
      BY <1>1 DEF Range
    <3>2. j # 1 /\ j - 1 \in 1..n /\ (j - 1) + 1 = j
      BY <1>2, <3>1
    <3> QED BY <1>3, <3>1, <3>2
  <2>3. Range(tail) = {tail[i] : i \in 1..n}
    BY <1>3 DEF Range
  <2> QED BY <2>1, <2>2, <2>3
<1>7. tail \in [1..n -> Range(tail)]
  BY <1>3 DEF Range
<1>8. 1 \in DOMAIN list
  BY <1>1, <1>2
<1> QED BY <1>2, <1>5, <1>6, <1>7, <1>8 DEF Once, Range, tail

LEMMA AppendName ==
  ASSUME NEW found \in Seq(Pair), Once(Names(found)), NEW r \in Pair, r[1] \notin Range(Names(found))
  PROVE  /\ Append(found, r) \in Seq(Pair) /\ Once(Names(Append(found, r)))
         /\ Range(Names(Append(found, r))) = Range(Names(found)) \cup {r[1]}
<1> DEFINE more == Append(found, r)
           n == Len(found)
<1>1. /\ more \in Seq(Pair) /\ Len(more) = n + 1 /\ n \in Nat
      /\ \A i \in 1..n : more[i] = found[i]
      /\ more[n + 1] = r
  OBVIOUS
<1> HIDE DEF more
<1>2. /\ Names(found) \in [1..n -> Memories] /\ DOMAIN found = 1..n
      /\ Range(Names(found)) = {q[1] : q \in Range(found)}
  BY NamesOf
<1>3. Names(more) \in [1..n + 1 -> Memories] /\ DOMAIN more = 1..n + 1
  BY <1>1, NamesOf
<1>4. /\ \A i \in 1..n : Names(more)[i] = Names(found)[i]
      /\ Names(more)[n + 1] = r[1]
  BY <1>1, <1>2, <1>3 DEF Names
<1>5. \A i \in 1..n + 1 : i \in 1..n \/ i = n + 1
  BY <1>1
<1>6. \A i \in 1..n : Names(found)[i] \in Range(Names(found)) /\ i \in 1..n + 1
  BY <1>1, <1>2 DEF Range
<1>7. n + 1 \in 1..n + 1
  BY <1>1
<1>8. Range(Names(more)) = Range(Names(found)) \cup {r[1]}
  <2>1. Range(Names(more)) = {Names(more)[i] : i \in 1..n + 1}
    BY <1>3 DEF Range
  <2>2. Range(Names(found)) = {Names(found)[i] : i \in 1..n}
    BY <1>2 DEF Range
  <2> QED BY <1>4, <1>5, <1>6, <1>7, <2>1, <2>2
<1>9. IsInjective(Names(more))
  <2> SUFFICES ASSUME NEW i \in 1..n + 1, NEW j \in 1..n + 1, Names(more)[i] = Names(more)[j]
               PROVE  i = j
    BY <1>3 DEF IsInjective
  <2>1. \A k, l \in 1..n : Names(found)[k] = Names(found)[l] => k = l
    BY <1>2 DEF Once, IsInjective
  <2> QED BY <1>4, <1>5, <1>6, <2>1
<1>10. Names(more) \in [1..n + 1 -> Range(Names(more))]
  BY <1>3 DEF Range
<1> QED BY <1>1, <1>8, <1>9, <1>10 DEF Once, more

\* One hit more: read when it can be shown, and passed over only when it cannot.
LEMMA ShowsRead ==
  ASSUME ShowInv, NEW s \in Callers, ReadHit(s)
  PROVE  ShowInv'
<1> DEFINE job == search[s]
           m == Head(job.ahead)
           row == <<m, vault[m].body>>
           next == [job EXCEPT !.ahead = Tail(job.ahead),
                               !.found = IF vault[m].is = "shown" THEN Append(job.found, row) ELSE job.found]
<1>1. /\ job.pc = "read" /\ job.ahead # << >> /\ UNCHANGED <<vault, shown, steady>>
      /\ search' = [search EXCEPT ![s] = next]
  BY DEF ReadHit, Reading, At, world, ShowInv
<1>2. /\ Shows(job, shown[s], steady[s]) /\ Halfway(job, shown[s], steady[s])
      /\ steady[s] \subseteq Showable /\ Showable \subseteq shown[s]
  BY <1>1 DEF ShowInv, Shows
<1> DEFINE found == job.found
           ahead == job.ahead
           due == Due(job, steady[s])
<1>3. /\ found \in Seq(Pair) /\ Once(Names(found)) /\ Range(Names(found)) \subseteq shown[s]
      /\ Once(ahead) /\ Range(ahead) \subseteq Memories \ Range(Names(found))
      /\ due \subseteq Range(Names(found)) \cup Range(ahead)
  BY <1>2 DEF Halfway
<1>4. due \subseteq steady[s]
  BY DEF Due
<1>5. /\ DOMAIN next = DOMAIN job /\ next.pc = "read" /\ next.bm25 = job.bm25 /\ next.vec = job.vec
      /\ next.ahead = Tail(ahead)
      /\ next.found = IF vault[m].is = "shown" THEN Append(found, row) ELSE found
  BY <1>1, <1>2 DEF Shows
<1>6. Due(next, steady[s]) = due
  BY <1>5 DEF Due
<1> HIDE DEF next, found, ahead, due
<1>7. m \in Memories /\ m \in Range(ahead) /\ Once(Tail(ahead)) /\ Range(Tail(ahead)) = Range(ahead) \ {m}
  BY <1>1, <1>3, TailOnce DEF ahead
<1>8. row \in Pair /\ row[1] = m
  BY <1>7 DEF ShowInv, Pair
<1>9. m \in Showable <=> vault[m].is = "shown"
  BY <1>7 DEF Showable
<1> HIDE DEF m, row
<1>10. CASE vault[m].is = "shown"
  <2>1. /\ next.found \in Seq(Pair) /\ Once(Names(next.found))
        /\ Range(Names(next.found)) = Range(Names(found)) \cup {m}
    BY <1>3, <1>5, <1>7, <1>8, <1>10, AppendName
  <2>2. m \in shown[s]
    BY <1>2, <1>9, <1>10
  <2> QED BY <1>1, <1>2, <1>3, <1>5, <1>6, <1>7, <2>1, <2>2, StillShows DEF Halfway, Shows
<1>11. CASE vault[m].is # "shown"
  <2>1. next.found = found /\ m \notin due
    BY <1>2, <1>4, <1>5, <1>9, <1>11
  <2> QED BY <1>1, <1>2, <1>3, <1>5, <1>6, <1>7, <2>1, StillShows DEF Halfway, Shows
<1> QED BY <1>10, <1>11

\* When enough has been read, or all, it is put in order.
LEMMA ShowsCollected ==
  ASSUME ShowInv, ScoreInv, NEW s \in Callers, Collect(s)
  PROVE  ShowInv'
<1> DEFINE job == search[s]
           next == [job EXCEPT !.pc = "rerank", !.ahead = << >>, !.found = InOrder(s, job.found)]
<1>1. /\ job.pc = "read" /\ UNCHANGED <<vault, shown, steady>>
      /\ job.ahead = << >> \/ Len(job.found) >= Wanted(s) * Overfetch
      /\ search' = [search EXCEPT ![s] = next]
  BY DEF Collect, At, world, ShowInv
<1>2. Shows(job, shown[s], steady[s]) /\ Halfway(job, shown[s], steady[s]) /\ job.scores = << >>
  BY <1>1 DEF ShowInv, Shows, ScoreInv, RightScores
<1> DEFINE due == Due(job, steady[s])
           found == InOrder(s, job.found)
<1>3. /\ DOMAIN next = DOMAIN job /\ next.pc = "rerank" /\ next.bm25 = job.bm25 /\ next.vec = job.vec
      /\ next.found = found /\ next.scores = << >> /\ Due(next, steady[s]) = due
  BY <1>2 DEF Shows, Due
<1> HIDE DEF next
<1>4. /\ found \in Seq(Pair) /\ Once(Names(found)) /\ Range(Names(found)) \subseteq Range(Names(job.found))
      /\ Len(found) < Limit =>
           Len(job.found) < Wanted(s) /\ Range(Names(found)) = Range(Names(job.found))
  BY <1>2, InOrderKeeps DEF Halfway, Shows
<1> HIDE DEF found
<1>5. ASSUME Len(found) < Limit PROVE due \subseteq Range(Names(found))
  <2>1. job.ahead = << >>
    BY <1>1, <1>2, <1>4, <1>5, WantedEnough, SearchAssumption DEF Halfway
  <2>2. Range(job.ahead) = {}
    BY <2>1, NothingOnce
  <2> QED BY <1>2, <1>4, <1>5, <2>2 DEF Halfway
<1>6. Kept(found, shown[s], due)
  BY <1>2, <1>4, <1>5 DEF Kept, Halfway
<1>7. Len(next.scores) <= Len(next.found)
  BY <1>3, <1>4
<1>8. Shows(next, shown[s], steady[s])
  BY <1>2, <1>3, <1>6, <1>7 DEF Shows
<1> QED BY <1>1, <1>8, StillShows

LEMMA Head1IsLess ==
  ASSUME NEW s \in Callers, search[s].found \in Seq(Pair)
  PROVE  Head1(s) \in Nat /\ Head1(s) <= Len(search[s].found)
<1>1. Asks[s].rerank \in Nat /\ Len(search[s].found) \in Nat
  BY SearchAssumption
<1> QED BY <1>1, MinOfTwo DEF Head1

\* A candidate is scored, or turns out to have no score yet.
LEMMA ShowsScored ==
  ASSUME ShowInv, ScoreInv, NEW s \in Callers, LookUp(s) \/ Score(s)
  PROVE  ShowInv'
<1> DEFINE job == search[s]
<1>1. job.pc \in {"rerank", "ask"} /\ UNCHANGED <<vault, shown, steady>>
  BY DEF LookUp, Score, At, world
<1>2. Shows(job, shown[s], steady[s]) /\ Kept(job.found, shown[s], Due(job, steady[s])) /\ RightScores(job)
  BY <1>1 DEF ShowInv, Shows, ScoreInv
<1>3. PICK S : job.scores \in Seq(S)
  BY <1>2 DEF RightScores
<1>4. Len(job.scores) < Len(job.found) /\ Len(job.found) \in Nat /\ Len(job.scores) \in Nat
  <2>1. Len(job.found) \in Nat /\ Len(job.scores) \in Nat
    BY <1>2, <1>3 DEF Kept
  <2>2. LookUp(s) => Len(job.scores) < Len(job.found)
    BY <1>2, <2>1, Head1IsLess DEF LookUp, Unscored, Kept
  <2>3. Score(s) => Len(job.scores) < Len(job.found)
    BY <1>2 DEF Score, At, Shows
  <2> QED BY <2>1, <2>2, <2>3
<1>5. CASE search' = [search EXCEPT ![s].pc = "ask"]
  <2> DEFINE next == [job EXCEPT !.pc = "ask"]
  <2>1. search' = [search EXCEPT ![s] = next]
    BY <1>5 DEF ShowInv
  <2>2. /\ DOMAIN next = DOMAIN job /\ next.pc = "ask" /\ next.bm25 = job.bm25 /\ next.vec = job.vec
        /\ next.found = job.found /\ next.scores = job.scores
        /\ Due(next, steady[s]) = Due(job, steady[s])
    BY <1>2 DEF Shows, Due
  <2> HIDE DEF next
  <2>3. Shows(next, shown[s], steady[s])
    BY <1>2, <1>4, <2>2 DEF Shows
  <2> QED BY <1>1, <2>1, <2>3, StillShows
<1>6. ASSUME NEW v, Scored(s, v)
      PROVE  ShowInv'
  <2> DEFINE next == [job EXCEPT !.pc = "rerank", !.scores = Append(job.scores, v)]
  <2>1. search' = [search EXCEPT ![s] = next]
    BY <1>6 DEF Scored, ShowInv
  <2>2. Len(Append(job.scores, v)) = Len(job.scores) + 1
    <3>1. job.scores \in Seq(S \cup {v})
      BY <1>3
    <3> QED BY <3>1
  <2>3. /\ DOMAIN next = DOMAIN job /\ next.pc = "rerank" /\ next.bm25 = job.bm25 /\ next.vec = job.vec
        /\ next.found = job.found /\ next.scores = Append(job.scores, v)
        /\ Due(next, steady[s]) = Due(job, steady[s])
    BY <1>2 DEF Shows, Due
  <2> HIDE DEF next
  <2>4. Shows(next, shown[s], steady[s])
    BY <1>2, <1>4, <2>2, <2>3 DEF Shows
  <2> QED BY <1>1, <2>1, <2>4, StillShows
<1> QED BY <1>5, <1>6 DEF LookUp, Score

\* Ranking loses none of what was found, and what is served is selected from it.
LEMMA ShowsFinished ==
  ASSUME ShowInv, ScoreInv, NEW s \in Callers, Finish(s)
  PROVE  ShowInv'
<1> DEFINE job == search[s]
           ranked == IF job.scores = << >> THEN job.found ELSE Reranked(job.found, job.scores)
           served == IF Diversifies(s)
                     THEN Bodied(ranked, Diverse(Names(ranked))) ELSE Take(ranked, Limit)
           next == [job EXCEPT !.pc = "ranked", !.rdb = None, !.found = << >>, !.scores = << >>,
                               !.pool = ranked, !.served = served]
<1>1. /\ job.pc = "rerank" /\ UNCHANGED <<vault, shown, steady>>
      /\ search' = [search EXCEPT ![s] = next]
  BY DEF Finish, At, world
<1> DEFINE due == Due(job, steady[s])
<1>2. /\ Shows(job, shown[s], steady[s]) /\ Kept(job.found, shown[s], due)
      /\ Len(job.scores) <= Len(job.found) /\ RightScores(job)
  BY <1>1 DEF ShowInv, Shows, ScoreInv
<1>3. /\ DOMAIN next = DOMAIN job /\ next.pc = "ranked" /\ next.bm25 = job.bm25 /\ next.vec = job.vec
      /\ next.pool = ranked /\ next.served = served /\ Due(next, steady[s]) = due
  BY <1>2 DEF Shows, Due
<1> HIDE DEF next
<1>4. job.scores \in Seq(Int)
  <2>1. PICK S : job.scores \in Seq(S)
    BY <1>2 DEF RightScores
  <2>2. /\ Len(job.scores) \in Nat /\ DOMAIN job.scores = 1..Len(job.scores)
        /\ job.scores \in [1..Len(job.scores) -> S]
    BY <2>1
  <2>3. ASSUME NEW i \in 1..Len(job.scores) PROVE job.scores[i] \in Int
    <3>1. i \in 1..Len(job.found) /\ job.found \in Seq(Pair)
      BY <1>2, <2>2 DEF Kept
    <3>2. job.found[i] \in Pair
      BY <3>1
    <3> QED BY <1>2, <2>2, <3>2, ScoresTyped DEF RightScores
  <2>4. job.scores \in [1..Len(job.scores) -> Int]
    BY <2>2, <2>3
  <2> QED BY <2>2, <2>4
<1>5. Once(job.found)
  <2>1. /\ Len(job.found) \in Nat /\ job.found \in [1..Len(job.found) -> Range(job.found)]
        /\ job.found \in Seq(Pair) /\ Once(Names(job.found))
    BY <1>2 DEF Kept, Range
  <2>2. IsInjective(job.found)
    BY <2>1 DEF Once, IsInjective, Names
  <2> QED BY <2>1, <2>2 DEF Once
<1>6. Once(ranked) /\ Range(ranked) = Range(job.found)
  BY <1>2, <1>4, <1>5, RerankedOnce
<1> HIDE DEF ranked
<1>7. /\ ranked \in Seq(Pair) /\ Once(Names(ranked)) /\ Len(Names(ranked)) = Len(ranked)
      /\ Range(Names(ranked)) = Range(Names(job.found))
  BY <1>2, <1>6, Renamed, NamesOf DEF Kept
<1>8. Len(ranked) = Len(job.found)
  BY <1>5, <1>6, OnceLength
<1>9. Kept(ranked, shown[s], due)
  BY <1>2, <1>7, <1>8 DEF Kept
<1>10. Range(Names(ranked)) \subseteq Memories
  BY <1>7, NamesOf DEF Range
<1>11. Limit \in Nat
  BY SearchAssumption
<1>12. served \in Seq(Pair) /\ Selects(Names(served), Names(ranked), Limit)
  <2>1. CASE Diversifies(s)
    <3> DEFINE list == Diverse(Names(ranked))
    <3>1. Selects(list, Names(ranked), Limit)
      BY <1>7, <1>10, <1>11, DiverseIs, DiversifiedSelects
    <3>2. served = Bodied(ranked, list)
      BY <2>1
    <3> HIDE DEF list, served
    <3>3. served \in Seq(Pair) /\ Names(served) = list
      BY <1>7, <3>1, <3>2, BodiedNames DEF Selects
    <3> QED BY <3>1, <3>3
  <2>2. CASE ~ Diversifies(s)
    <3>1. served = Take(ranked, Limit)
      BY <2>2
    <3> HIDE DEF served
    <3>2. /\ Once(served) /\ Range(served) \subseteq Range(ranked)
          /\ Len(served) < Limit => served = ranked
      BY <1>6, <1>11, <3>1, TakeOnce
    <3>3. /\ served \in Seq(Pair) /\ Once(Names(served)) /\ Len(Names(served)) = Len(served)
          /\ Range(Names(served)) = {r[1] : r \in Range(served)}
      BY <1>7, <3>2, Renamed
    <3>4. Range(Names(ranked)) = {r[1] : r \in Range(ranked)}
      BY <1>7, NamesOf
    <3> QED BY <3>2, <3>3, <3>4 DEF Selects
  <2> QED BY <2>1, <2>2
<1> HIDE DEF served
<1>13. Shows(next, shown[s], steady[s])
  BY <1>2, <1>3, <1>9, <1>12 DEF Shows
<1> QED BY <1>1, <1>13, StillShows DEF next

LEMMA ShowsJudged ==
  ASSUME ShowInv, NEW s \in Callers, Judged(s)
  PROVE  ShowInv'
<1> DEFINE job == search[s]
           due == Due(job, steady[s])
<1>1. job.pc = "ranked" /\ UNCHANGED <<vault, shown, steady>>
  BY DEF Judged, At, world
<1>2. /\ Shows(job, shown[s], steady[s]) /\ Kept(job.pool, shown[s], due)
      /\ job.served \in Seq(Pair) /\ Selects(Names(job.served), Names(job.pool), Limit)
  BY <1>1 DEF ShowInv, Shows
<1>3. CASE JevFails(s)
  <2> DEFINE next == [job EXCEPT !.pc = "judged"]
  <2>1. search' = [search EXCEPT ![s] = next]
    BY <1>3 DEF JevFails, ShowInv
  <2>2. /\ DOMAIN next = DOMAIN job /\ next.pc = "judged" /\ next.bm25 = job.bm25 /\ next.vec = job.vec
        /\ next.pool = job.pool /\ next.served = job.served /\ Due(next, steady[s]) = due
    BY <1>2 DEF Shows, Due
  <2> HIDE DEF next
  <2>3. Shows(next, shown[s], steady[s])
    BY <1>2, <2>2 DEF Shows
  <2> QED BY <1>1, <2>1, <2>3, StillShows
<1>4. CASE ~ JevFails(s)
  <2>1. PICK scores \in ValidScores :
          search' = [search EXCEPT ![s].pc = "judged",
                       ![s].served = Bodied(job.pool,
                         JevOrdered(Names(job.served), Names(job.pool), PoolSize, Limit, scores))]
    BY <1>4 DEF Judged, ShowInv
  <2> DEFINE list == JevOrdered(Names(job.served), Names(job.pool), PoolSize, Limit, scores)
             served == Bodied(job.pool, list)
             next == [job EXCEPT !.pc = "judged", !.served = served]
  <2>2. search' = [search EXCEPT ![s] = next]
    BY <2>1 DEF ShowInv
  <2>3. /\ DOMAIN next = DOMAIN job /\ next.pc = "judged" /\ next.bm25 = job.bm25 /\ next.vec = job.vec
        /\ next.pool = job.pool /\ next.served = served /\ Due(next, steady[s]) = due
    BY <1>2 DEF Shows, Due
  <2> HIDE DEF next
  <2>4. Selects(list, Names(job.pool), Limit)
    <3>1. scores \in [Memories -> Int]
      BY DEF ValidScores
    <3>2. PoolSize \in Nat /\ Limit \in Nat
      BY SearchAssumption
    <3>3. Once(Names(job.pool)) /\ Range(Names(job.pool)) \subseteq Memories
      BY <1>2, NamesOf DEF Kept, Range
    <3> QED BY <1>2, <3>1, <3>2, <3>3, JevSelects
  <2> HIDE DEF list
  <2>5. served \in Seq(Pair) /\ Names(served) = list
    BY <1>2, <2>4, BodiedNames DEF Selects, Kept
  <2> HIDE DEF served
  <2>6. Shows(next, shown[s], steady[s])
    BY <1>2, <2>3, <2>4, <2>5 DEF Shows
  <2> QED BY <1>1, <2>2, <2>6, StillShows
<1> QED BY <1>3, <1>4

LEMMA ShowsSearch ==
  ASSUME ShowInv, ScoreInv, LegTyped, NEW s \in Callers, Start(s) \/ SearchStep(s)
  PROVE  ShowInv'
<1> DEFINE job == search[s]
<1>1. Shows(job, shown[s], steady[s])
  BY DEF ShowInv
<1>2. CASE Start(s)
  <2>1. PICK c \in Conns \cup {Shared} :
          search' = [search EXCEPT ![s] = [Quiet EXCEPT !.pc = "keywords", !.rdb = c]]
    BY <1>2 DEF Start
  <2>2. UNCHANGED vault /\ shown' = [shown EXCEPT ![s] = Showable] /\ steady' = [steady EXCEPT ![s] = Showable]
    BY <1>2 DEF Start
  <2> QED BY <2>1, <2>2, ShowsQuiet, OneShows
<1>3. CASE TakeLeg(s) \/ Abandon(s)
  <2>1. job.pc \in {"await", "abandon"} /\ UNCHANGED <<vault, shown, steady>>
    BY <1>3 DEF TakeLeg, Abandon, At, world
  <2>2. leg[s].hits \in QueryVec \cup {<< >>}
    BY DEF LegTyped, Legs
  <2>3. \/ search' = [search EXCEPT ![s] = WithHits(job, leg[s].hits, TRUE)]
        \/ search' = [search EXCEPT ![s] = WithHits(job, << >>, FALSE)]
    BY <1>3 DEF TakeLeg, Abandon
  <2>4. CASE search' = [search EXCEPT ![s] = WithHits(job, leg[s].hits, TRUE)]
    <3>1. Shows(WithHits(job, leg[s].hits, TRUE), shown[s], steady[s])
      BY <1>1, <2>1, <2>2, ShowsHits
    <3> QED BY <2>1, <2>4, <3>1, StillShows
  <2>5. CASE search' = [search EXCEPT ![s] = WithHits(job, << >>, FALSE)]
    <3>1. Shows(WithHits(job, << >>, FALSE), shown[s], steady[s])
      BY <1>1, <2>1, ShowsHits
    <3> QED BY <2>1, <2>5, <3>1, StillShows
  <2> QED BY <2>3, <2>4, <2>5
<1>4. CASE TimeOut(s)
  <2> DEFINE next == [job EXCEPT !.pc = "abandon"]
  <2>1. search' = [search EXCEPT ![s] = next]
    BY <1>4 DEF TimeOut, ShowInv
  <2>2. job.pc = "await" /\ UNCHANGED <<vault, shown, steady>>
    BY <1>4 DEF TimeOut, At, world
  <2>3. Shows(next, shown[s], steady[s])
    BY <1>1, <2>2 DEF Shows
  <2> HIDE DEF next
  <2> QED BY <2>1, <2>2, <2>3, StillShows
<1>5. CASE Return(s) \/ Raise(s)
  <2>1. search' = [search EXCEPT ![s] = Quiet] /\ vault' = vault
        /\ shown' = [shown EXCEPT ![s] = {}] /\ steady' = [steady EXCEPT ![s] = {}]
    BY <1>5 DEF Return, Raise, Forget
  <2>2. Quiet.pc = "idle"
    BY DEF Quiet
  <2> QED BY <2>1, <2>2, QuietShows, OneShows
<1>6. CASE Keywords(s)
  <2>1. PICK found \in QueryBm25 : search' = [search EXCEPT ![s].pc = "await", ![s].bm25 = found]
    BY <1>6 DEF Keywords
  <2> DEFINE next == [job EXCEPT !.pc = "await", !.bm25 = found]
  <2>2. search' = [search EXCEPT ![s] = next]
    BY <2>1 DEF ShowInv
  <2>3. job.pc = "keywords" /\ UNCHANGED <<vault, shown, steady>>
    BY <1>6 DEF Keywords, At, world
  <2>4. found \in QueryFts \cup {<< >>}
    BY DEF QueryBm25
  <2>5. Shows(next, shown[s], steady[s])
    BY <1>1, <2>3, <2>4 DEF Shows
  <2> HIDE DEF next
  <2> QED BY <2>2, <2>3, <2>5, StillShows
<1> QED BY <1>2, <1>3, <1>4, <1>5, <1>6, ShowsRead, ShowsCollected, ShowsScored, ShowsFinished, ShowsJudged
        DEF SearchStep

\* A change of the vault takes from what was shown all along and adds to what was ever.
LEMMA ShowsChanged ==
  ASSUME ShowInv, NEW m \in Memories, Change(m)
  PROVE  ShowInv'
<1>1. /\ search' = search
      /\ shown' = [s \in Callers |-> IF At(s, "idle") THEN {} ELSE shown[s] \cup Showable']
      /\ steady' = [s \in Callers |-> steady[s] \cap Showable']
  BY DEF Change
<1>2. vault' \in [Memories -> [body : 1..NBodies, is : Standings]]
  <2>1. CASE \E b \in 1..NBodies \ {vault[m].body} : vault' = [vault EXCEPT ![m].body = b]
    BY <2>1 DEF ShowInv
  <2>2. CASE \E is \in Standings \ {vault[m].is} : vault' = [vault EXCEPT ![m].is = is]
    BY <2>2 DEF ShowInv
  <2> QED BY <2>1, <2>2 DEF Change
<1>3. \A s \in Callers : steady'[s] \subseteq steady[s] /\ (search[s].pc # "idle" => shown[s] \subseteq shown'[s])
  BY <1>1 DEF At
<1>4. ASSUME NEW s \in Callers PROVE Shows(search[s], shown'[s], steady'[s])
  <2>1. Shows(search[s], shown[s], steady[s])
    BY DEF ShowInv
  <2>2. Due(search[s], steady'[s]) \subseteq Due(search[s], steady[s])
    BY <1>3 DEF Due
  <2>3. search[s].pc = "read" => Halfway(search[s], shown'[s], steady'[s])
    BY <1>3, <2>1, <2>2 DEF Shows, Halfway
  <2>4. \A found : search[s].pc # "idle" /\ Kept(found, shown[s], Due(search[s], steady[s]))
                     => Kept(found, shown'[s], Due(search[s], steady'[s]))
    BY <1>3, <2>2 DEF Kept
  <2> QED BY <2>1, <2>3, <2>4 DEF Shows
<1>5. \A s \in Callers : search[s].pc # "idle" => steady'[s] \subseteq Showable' /\ Showable' \subseteq shown'[s]
  BY <1>1 DEF At
<1>6. shown' = [s \in Callers |-> shown'[s]] /\ steady' = [s \in Callers |-> steady'[s]]
  BY <1>1
<1> QED BY <1>1, <1>2, <1>4, <1>5, <1>6 DEF ShowInv

LEMMA ShowStep == ShowInv /\ ScoreInv /\ LegTyped /\ [Next]_vars => ShowInv'
<1> SUFFICES ASSUME ShowInv, ScoreInv, LegTyped, [Next]_vars PROVE ShowInv'
  OBVIOUS
<1>1. CASE \E s \in Callers : Start(s) \/ SearchStep(s)
  BY <1>1, ShowsSearch
<1>2. CASE \E m \in Memories : Change(m)
  BY <1>2, ShowsChanged
<1>3. CASE UNCHANGED <<search, vault, shown, steady>>
  BY <1>3 DEF ShowInv, Showable
<1>4. (\E s \in Callers : LegStep(s)) \/ Ingest \/ UNCHANGED vars
        => UNCHANGED <<search, vault, shown, steady>>
  BY DEF LegStep, LegStart, Answer, Attach, TakeIndexLock, Scan, ScanFails, LegReturn, Ingest, Lull, Process, vars, world
<1> QED BY <1>1, <1>2, <1>3, <1>4 DEF Next

LEMMA ShowInit == Init => ShowInv
<1> SUFFICES ASSUME Init PROVE ShowInv
  OBVIOUS
<1>1. Shows(Quiet, {}, {}) /\ Quiet.pc = "idle"
  BY QuietShows DEF Quiet
<1>2. vault \in [Memories -> [body : 1..NBodies, is : Standings]]
  BY SearchAssumption DEF Init, Standings
<1> QED BY <1>1, <1>2 DEF Init, ShowInv

\* HybridSearcher.search, and the Jev judge over it: for any lists that the queries find,
\* any scores, and any changes of the vault under a search, fusion, the cut after
\* reading, the reranker, MMR and the judge neither repeat a record nor serve one that
\* could not be shown at some time of the search, and none of them drops a match that
\* could be shown all along while there is room for it.
THEOREM ServedIsTrue == Spec => []ServedMatchesVault
<1>1. ShowInv => ServedMatchesVault
  <2> SUFFICES ASSUME ShowInv, NEW s \in Callers, search[s].pc \in {"ranked", "judged"}
               PROVE  LET served == search[s].served
                          matched == Range(search[s].bm25) \cup Range(search[s].vec)
                      IN /\ Range(Names(served)) \subseteq shown[s] /\ IsInjective(Names(served))
                         /\ Len(served) < Limit => matched \cap steady[s] \subseteq Range(Names(served))
    BY DEF ServedMatchesVault
  <2> DEFINE job == search[s]
             names == Names(job.served)
             found == Names(job.pool)
             due == Due(job, steady[s])
  <2>1. /\ Kept(job.pool, shown[s], due)
        /\ job.served \in Seq(Pair) /\ Selects(names, found, Limit)
    BY DEF ShowInv, Shows
  <2>2. Once(names) /\ Once(found) /\ Range(names) \subseteq Range(found)
        /\ Len(names) = Len(job.served) /\ Len(found) = Len(job.pool)
    BY <2>1, NamesOf DEF Selects, Kept
  <2>3. ASSUME Len(job.served) < Limit PROVE due \subseteq Range(names)
    <3>1. Range(found) \subseteq Range(names)
      BY <2>1, <2>2, <2>3 DEF Selects
    <3>2. Len(found) <= Len(names) /\ Len(found) \in Nat /\ Len(names) \in Nat
      BY <2>2, <3>1, NoShorter, OnceLength
    <3>3. Len(job.pool) < Limit
      BY <2>2, <2>3, <3>2, SearchAssumption
    <3> QED BY <2>1, <3>1, <3>3 DEF Kept
  <2> QED BY <2>1, <2>2, <2>3 DEF Kept, Once, Due
<1>2. Init => ShowInv /\ ScoreInv /\ InterruptInv
  BY ShowInit, ScoreInit, InterruptInit
<1>3. ShowInv /\ ScoreInv /\ InterruptInv /\ [Next]_vars => (ShowInv /\ ScoreInv /\ InterruptInv)'
  BY ShowStep, ScoreStep, InterruptStep DEF InterruptInv
<1> QED BY <1>1, <1>2, <1>3, PTL DEF Spec
=============================================================================
