------------------------ MODULE PortfolioEntryProofs ------------------------
(***************************************************************************)
(* The limits of the portfolio, for any number of symbols and any limits:  *)
(* the laws of the sums that the exposure limit is about, the inductive    *)
(* invariant of PortfolioEntry, and what follows from it.                  *)
(***************************************************************************)
EXTENDS PortfolioEntry, SequenceTheorems, FiniteSetTheorems,
        WellFoundedInduction, TLAPS

-----------------------------------------------------------------------------
(* Sums.  A fold adds up the values of f over the subsets of its domain, in *)
(* an order that depends on the subset alone.                               *)

\* g holds the sum of f over each subset of S.
Sums(f, S, g) ==
    g = [T \in SUBSET S |->
            IF T = {} THEN 0
            ELSE LET x == CHOOSE x \in T : TRUE IN f[x] + g[T \ {x}]]

\* The fold, unfolded.
LEMMA SumIs ==
    ASSUME NEW f
    PROVE  Sum(f) = (CHOOSE g : Sums(f, DOMAIN f, g))[DOMAIN f]
  BY DEF Sum, FoldFunction, FoldFunctionOnSet, MapThenFoldSet, Sums

\* Induction over the subsets of a finite set, for a property given by the
\* set of the subsets that have it.
LEMMA SubsetInduction ==
    ASSUME NEW S, IsFiniteSet(S), NEW P,
           \A T \in SUBSET S :
               (\A U \in SUBSET T : U # T => U \in P) => T \in P
    PROVE  SUBSET S \subseteq P
  <1> DEFINE bad == (SUBSET S) \ P
  <1>1. IsWellFoundedOn(StrictSubsetOrdering(S), SUBSET S)
    BY FS_StrictSubsetOrderingWellFounded, FS_FiniteSubsetsOfFinite
  <1> SUFFICES ASSUME bad # {} PROVE FALSE
    OBVIOUS
  <1>2. bad \subseteq SUBSET S
    OBVIOUS
  <1>3. PICK T \in bad : \A U \in bad : <<U, T>> \notin StrictSubsetOrdering(S)
    <2> HIDE DEF bad
    <2> QED BY <1>1, <1>2, WFMin
  <1>4. \A U \in SUBSET T : U # T => U \in P
    BY <1>3 DEF StrictSubsetOrdering
  <1>5. T \in P
    BY <1>4
  <1> QED BY <1>3, <1>5

\* Two tables agree where both are defined.
LEMMA SumsAgree ==
    ASSUME NEW f, NEW V, NEW W, NEW g, NEW h, IsFiniteSet(V),
           Sums(f, V, g), Sums(f, W, h), V \subseteq W
    PROVE  \A T \in SUBSET V : g[T] = h[T]
  <1> DEFINE P == {T \in SUBSET V : g[T] = h[T]}
  <1>1. ASSUME NEW T \in SUBSET V, \A U \in SUBSET T : U # T => U \in P
        PROVE  T \in P
    <2>1. CASE T = {}
      BY <2>1 DEF Sums
    <2>2. CASE T # {}
      <3> DEFINE x == CHOOSE x \in T : TRUE
      <3>1. x \in T
        BY <2>2
      <3>2. g[T \ {x}] = h[T \ {x}]
        BY <1>1, <3>1
      <3>3. g[T] = f[x] + g[T \ {x}]
        BY <2>2 DEF Sums
      <3>4. h[T] = f[x] + h[T \ {x}]
        BY <2>2 DEF Sums
      <3> QED BY <3>2, <3>3, <3>4
    <2> QED BY <2>1, <2>2
  <1>2. SUBSET V \subseteq P
    <2> HIDE DEF P
    <2> QED BY <1>1, SubsetInduction
  <1> QED BY <1>2

\* The table exists.
LEMMA SumsExist ==
    ASSUME NEW f, NEW S, IsFiniteSet(S)
    PROVE  \E g : Sums(f, S, g)
  <1> DEFINE P == {T \in SUBSET S : \E g : Sums(f, T, g)}
  <1>1. ASSUME NEW T \in SUBSET S, \A U \in SUBSET T : U # T => U \in P
        PROVE  T \in P
    <2> DEFINE table(U) == CHOOSE g : Sums(f, U, g)
               pick(U) == CHOOSE x \in U : TRUE
               rest(U) == U \ {pick(U)}
               g == [U \in SUBSET T |->
                        IF U = {} THEN 0
                        ELSE f[pick(U)] + table(rest(U))[rest(U)]]
    <2>1. ASSUME NEW U \in SUBSET T, U # {}
          PROVE  rest(U) \in SUBSET T /\ rest(U) # T
      <3>1. pick(U) \in U
        BY <2>1
      <3> QED BY <3>1
    <2>2. ASSUME NEW U \in SUBSET T, U # T
          PROVE  Sums(f, U, table(U)) /\ IsFiniteSet(U)
      <3>1. \E h : Sums(f, U, h)
        BY <1>1, <2>2
      <3> QED BY <3>1, FS_Subset
    <2>3. ASSUME NEW U \in SUBSET T, U # T
          PROVE  g[U] = table(U)[U]
      <3>1. CASE U = {}
        <4>1. Sums(f, U, table(U))
          BY <2>2, <2>3
        <4>2. table(U)[U] = 0
          <5> HIDE DEF table
          <5> QED BY <3>1, <4>1 DEF Sums
        <4>3. g[U] = 0
          BY <3>1
        <4> QED BY <4>2, <4>3
      <3>2. CASE U # {}
        <4>1. rest(U) \in SUBSET U /\ rest(U) \in SUBSET T /\ rest(U) # T
          BY <2>1, <3>2
        <4>2. /\ Sums(f, rest(U), table(rest(U))) /\ IsFiniteSet(rest(U))
              /\ Sums(f, U, table(U))
          <5> HIDE DEF rest, table
          <5> QED BY <2>2, <2>3, <4>1
        <4>3. table(rest(U))[rest(U)] = table(U)[rest(U)]
          <5> HIDE DEF rest, table
          <5> QED BY <4>1, <4>2, SumsAgree
        <4>4. table(U)[U] = f[pick(U)] + table(U)[rest(U)]
          <5> HIDE DEF table
          <5> QED BY <3>2, <4>2 DEF Sums
        <4>5. g[U] = f[pick(U)] + table(rest(U))[rest(U)]
          <5> HIDE DEF rest, table, pick
          <5> QED BY <3>2
        <4> QED BY <4>3, <4>4, <4>5
      <3> QED BY <3>1, <3>2
    <2>4. ASSUME NEW U \in SUBSET T, U # {}
          PROVE  table(rest(U))[rest(U)] = g[rest(U)]
      <3> HIDE DEF rest, table, g
      <3> QED BY <2>1, <2>3, <2>4
    <2>5. Sums(f, T, g)
      <3>1. g = [U \in SUBSET T |->
                    IF U = {} THEN 0 ELSE f[pick(U)] + g[rest(U)]]
        <4>1. \A U \in SUBSET T :
                (IF U = {} THEN 0 ELSE f[pick(U)] + table(rest(U))[rest(U)])
                  = IF U = {} THEN 0 ELSE f[pick(U)] + g[rest(U)]
          <5> HIDE DEF rest, table, g, pick
          <5> QED BY <2>4
        <4> HIDE DEF rest, table, pick
        <4> QED BY <4>1
      <3> HIDE DEF g, table
      <3> QED BY <3>1 DEF Sums
    <2> HIDE DEF g
    <2> QED BY <2>5
  <1>2. SUBSET S \subseteq P
    <2> HIDE DEF P
    <2> QED BY <1>1, SubsetInduction
  <1> QED BY <1>2

\* The sum of f is the entry for all of its domain in such a table.
LEMMA SumTable ==
    ASSUME NEW S, IsFiniteSet(S), NEW f, DOMAIN f = S
    PROVE  \E g : Sums(f, S, g) /\ Sum(f) = g[S]
  BY SumIs, SumsExist

\* One step of the recursion.
LEMMA SumsStep ==
    ASSUME NEW f, NEW S, NEW g, Sums(f, S, g), NEW T \in SUBSET S
    PROVE  /\ T = {} => g[T] = 0
           /\ T # {} => LET x == CHOOSE x \in T : TRUE
                        IN /\ x \in T
                           /\ T \ {x} \in SUBSET T /\ T \ {x} # T
                           /\ g[T] = f[x] + g[T \ {x}]
  <1>1. CASE T = {}
    BY <1>1 DEF Sums
  <1>2. CASE T # {}
    <2> DEFINE x == CHOOSE x \in T : TRUE
    <2>1. x \in T
      BY <1>2
    <2>2. g[T] = f[x] + g[T \ {x}]
      BY <1>2 DEF Sums
    <2> QED BY <1>2, <2>1, <2>2
  <1> QED BY <1>1, <1>2

\* A sum is a number, and no less than another one that is no less anywhere.
LEMMA SumMono ==
    ASSUME NEW S, IsFiniteSet(S), NEW f \in [S -> Int], NEW h \in [S -> Int],
           \A s \in S : f[s] <= h[s]
    PROVE  Sum(f) \in Int /\ Sum(h) \in Int /\ Sum(f) <= Sum(h)
  <1>1. PICK F : Sums(f, S, F) /\ Sum(f) = F[S]
    BY SumTable
  <1>2. PICK H : Sums(h, S, H) /\ Sum(h) = H[S]
    BY SumTable
  <1> DEFINE P == {T \in SUBSET S : F[T] \in Int /\ H[T] \in Int /\ F[T] <= H[T]}
  <1>3. ASSUME NEW T \in SUBSET S, \A U \in SUBSET T : U # T => U \in P
        PROVE  T \in P
    <2>1. CASE T = {}
      BY <1>1, <1>2, <2>1, SumsStep
    <2>2. CASE T # {}
      <3> DEFINE x == CHOOSE x \in T : TRUE
      <3>1. /\ x \in T /\ T \ {x} \in SUBSET T /\ T \ {x} # T
            /\ F[T] = f[x] + F[T \ {x}]
        BY <1>1, <2>2, SumsStep
      <3>2. H[T] = h[x] + H[T \ {x}]
        BY <1>2, <2>2, SumsStep
      <3>3. T \ {x} \in P
        BY <1>3, <3>1
      <3> HIDE DEF x
      <3> QED BY <3>1, <3>2, <3>3
    <2> QED BY <2>1, <2>2
  <1>4. SUBSET S \subseteq P
    <2> HIDE DEF P
    <2> QED BY <1>3, SubsetInduction
  <1>5. S \in P
    BY <1>4
  <1> QED BY <1>1, <1>2, <1>5

\* A sum grows by as much as one of its terms.
LEMMA SumAdd ==
    ASSUME NEW S, IsFiniteSet(S), NEW f \in [S -> Int], NEW h \in [S -> Int],
           NEW s \in S, NEW q \in Int,
           \A x \in S : h[x] = IF x = s THEN f[x] + q ELSE f[x]
    PROVE  Sum(h) = Sum(f) + q
  <1>1. PICK F : Sums(f, S, F) /\ Sum(f) = F[S]
    BY SumTable
  <1>2. PICK H : Sums(h, S, H) /\ Sum(h) = H[S]
    BY SumTable
  <1> DEFINE P == {T \in SUBSET S :
                     F[T] \in Int /\ H[T] = F[T] + (IF s \in T THEN q ELSE 0)}
  <1>3. ASSUME NEW T \in SUBSET S, \A U \in SUBSET T : U # T => U \in P
        PROVE  T \in P
    <2>1. CASE T = {}
      BY <1>1, <1>2, <2>1 DEF Sums
    <2>2. CASE T # {}
      <3> DEFINE x == CHOOSE x \in T : TRUE
      <3>1. /\ x \in T /\ T \ {x} \in SUBSET T /\ T \ {x} # T
            /\ F[T] = f[x] + F[T \ {x}]
        BY <1>1, <2>2, SumsStep
      <3>2. H[T] = h[x] + H[T \ {x}]
        BY <1>2, <2>2, SumsStep
      <3>3. T \ {x} \in P
        BY <1>3, <3>1
      <3>4. h[x] = IF x = s THEN f[x] + q ELSE f[x]
        BY <3>1
      <3> HIDE DEF x
      <3>5. F[T \ {x}] \in Int /\ f[x] \in Int
        BY <3>1, <3>3
      <3>6. CASE x = s
        <4>1. s \notin T \ {x} /\ s \in T
          BY <3>1, <3>6
        <4> QED BY <3>1, <3>2, <3>3, <3>4, <3>5, <3>6, <4>1
      <3>7. CASE x # s
        <4>1. s \in T \ {x} <=> s \in T
          BY <3>7
        <4> QED BY <3>1, <3>2, <3>3, <3>4, <3>5, <3>7, <4>1
      <3> QED BY <3>6, <3>7
    <2> QED BY <2>1, <2>2
  <1>4. SUBSET S \subseteq P
    <2> HIDE DEF P
    <2> QED BY <1>3, SubsetInduction
  <1>5. S \in P
    BY <1>4
  <1> QED BY <1>1, <1>2, <1>5

\* Nothing adds up to nothing.
LEMMA SumZero ==
    ASSUME NEW S, IsFiniteSet(S), NEW f, f = [s \in S |-> 0]
    PROVE  Sum(f) = 0
  <1>1. PICK F : Sums(f, S, F) /\ Sum(f) = F[S]
    BY SumTable
  <1> DEFINE P == {T \in SUBSET S : F[T] = 0}
  <1>2. ASSUME NEW T \in SUBSET S, \A U \in SUBSET T : U # T => U \in P
        PROVE  T \in P
    <2>1. CASE T = {}
      BY <1>1, <2>1 DEF Sums
    <2>2. CASE T # {}
      <3> DEFINE x == CHOOSE x \in T : TRUE
      <3>1. /\ x \in T /\ T \ {x} \in SUBSET T /\ T \ {x} # T
            /\ F[T] = f[x] + F[T \ {x}]
        BY <1>1, <2>2, SumsStep
      <3>2. T \ {x} \in P /\ f[x] = 0
        BY <1>2, <3>1
      <3> HIDE DEF x
      <3> QED BY <3>1, <3>2
    <2> QED BY <2>1, <2>2
  <1>3. SUBSET S \subseteq P
    <2> HIDE DEF P
    <2> QED BY <1>2, SubsetInduction
  <1> QED BY <1>1, <1>3

-----------------------------------------------------------------------------
(* The lock and who waits for it. *)

\* The sequence q has each symbol of W once, and no other.
Queue(q, W) ==
    /\ q \in Seq(Symbols)
    /\ \A i, j \in DOMAIN q : q[i] = q[j] => i = j
    /\ W = {q[i] : i \in DOMAIN q}

\* A symbol that was not in line joins it, behind whoever holds the lock.
LEMMA QueueAppend ==
    ASSUME NEW q, NEW W, NEW s \in Symbols, Queue(q, W), s \notin W
    PROVE  /\ Queue(Append(q, s), W \cup {s})
           /\ q # <<>> => Append(q, s) # <<>> /\ Head(Append(q, s)) = Head(q)
  <1> DEFINE r == Append(q, s)
  <1>1. /\ q \in Seq(Symbols) /\ r \in Seq(Symbols) /\ Len(q) \in Nat
        /\ Len(r) = Len(q) + 1
        /\ \A i \in 1 .. Len(q) : r[i] = q[i]
        /\ r[Len(q) + 1] = s
        /\ DOMAIN q = 1 .. Len(q) /\ DOMAIN r = 1 .. Len(q) + 1
    BY DEF Queue
  <1>2. \A i \in DOMAIN q : q[i] \in W
    BY DEF Queue
  <1> HIDE DEF r
  <1>3. \A i, j \in DOMAIN r : r[i] = r[j] => i = j
    <2> SUFFICES ASSUME NEW i \in DOMAIN r, NEW j \in DOMAIN r, r[i] = r[j]
                 PROVE  i = j
      OBVIOUS
    <2>1. CASE i \in DOMAIN q /\ j \in DOMAIN q
      BY <1>1, <2>1 DEF Queue
    <2>2. CASE i = Len(q) + 1 \/ j = Len(q) + 1
      BY <1>1, <1>2, <2>2
    <2> QED BY <1>1, <2>1, <2>2
  <1>4. W \cup {s} = {r[i] : i \in DOMAIN r}
    <2>1. \A i \in DOMAIN r : r[i] \in W \cup {s}
      BY <1>1, <1>2
    <2>2. \A x \in W : \E i \in DOMAIN r : r[i] = x
      BY <1>1 DEF Queue
    <2>3. \E i \in DOMAIN r : r[i] = s
      BY <1>1
    <2> QED BY <2>1, <2>2, <2>3
  <1>5. q # <<>> => r # <<>> /\ Head(r) = Head(q)
    BY <1>1
  <1> QED BY <1>1, <1>3, <1>4, <1>5 DEF Queue, r

\* The elements of a sequence without its i-th one.
LEMMA Removed ==
    ASSUME NEW S, NEW q \in Seq(S), NEW i \in DOMAIN q
    PROVE  LET r == RemoveAt(q, i) IN
           /\ r \in Seq(S) /\ Len(r) = Len(q) - 1
           /\ \A j \in 1 .. i - 1 : r[j] = q[j]
           /\ \A j \in i .. Len(q) - 1 : r[j] = q[j + 1]
  <1> DEFINE a == SubSeq(q, 1, i - 1)
             b == SubSeq(q, i + 1, Len(q))
  <1>1. /\ Len(q) \in Nat /\ i \in 1 .. Len(q) /\ DOMAIN q = 1 .. Len(q)
        /\ \A j \in 1 .. Len(q) : q[j] \in S
    OBVIOUS
  <1>2. /\ a \in Seq(S) /\ Len(a) = i - 1
        /\ \A j \in 1 .. i - 1 : a[j] = q[j]
    BY <1>1
  <1>3. /\ b \in Seq(S) /\ Len(b) = Len(q) - i
        /\ \A j \in 1 .. Len(q) - i : b[j] = q[i + j]
    <2>1. /\ b \in Seq(S)
          /\ Len(b) = IF i + 1 <= Len(q) THEN Len(q) - (i + 1) + 1 ELSE 0
          /\ \A j \in 1 .. Len(q) - (i + 1) + 1 : b[j] = q[(i + 1) + j - 1]
      <3>1. i + 1 \in Int /\ Len(q) \in Int /\ \A j \in i + 1 .. Len(q) : q[j] \in S
        BY <1>1
      <3> QED BY <3>1, SubSeqProperties
    <2> HIDE DEF b
    <2>2. Len(q) - (i + 1) + 1 = Len(q) - i
      BY <1>1
    <2>3. \A j \in 1 .. Len(q) - i : (i + 1) + j - 1 = i + j
      BY <1>1
    <2>4. Len(b) = Len(q) - i
      BY <1>1, <2>1, <2>2
    <2>5. \A j \in 1 .. Len(q) - i : b[j] = q[i + j]
      BY <2>1, <2>2, <2>3
    <2> QED BY <2>1, <2>4, <2>5
  <1> HIDE DEF a, b
  <1> DEFINE r == a \o b
  <1>4. /\ r \in Seq(S) /\ Len(r) = Len(q) - 1
        /\ \A j \in 1 .. i - 1 : r[j] = a[j]
        /\ \A j \in i .. Len(q) - 1 : r[j] = b[j - (i - 1)]
    <2>1. /\ r \in Seq(S) /\ Len(r) = Len(a) + Len(b)
          /\ \A j \in 1 .. Len(a) + Len(b) :
                r[j] = IF j <= Len(a) THEN a[j] ELSE b[j - Len(a)]
      BY <1>2, <1>3, ConcatProperties
    <2>2. Len(a) + Len(b) = Len(q) - 1
      BY <1>1, <1>2, <1>3
    <2> HIDE DEF r
    <2>3. /\ \A j \in 1 .. i - 1 : j \in 1 .. Len(q) - 1 /\ j <= Len(a)
          /\ \A j \in i .. Len(q) - 1 : j \in 1 .. Len(q) - 1 /\ ~ (j <= Len(a))
      BY <1>1, <1>2
    <2> QED BY <1>2, <2>1, <2>2, <2>3
  <1>5. \A j \in i .. Len(q) - 1 : b[j - (i - 1)] = q[j + 1]
    <2> TAKE j \in i .. Len(q) - 1
    <2>1. j - (i - 1) \in 1 .. Len(q) - i /\ i + (j - (i - 1)) = j + 1
      BY <1>1
    <2> QED BY <1>3, <2>1
  <1>6. r = RemoveAt(q, i)
    BY DEF RemoveAt, a, b
  <1> HIDE DEF r
  <1> QED BY <1>2, <1>4, <1>5, <1>6

\* A symbol leaves the line; the holder keeps the lock unless it is the one.
LEMMA QueueRemove ==
    ASSUME NEW q, NEW W, NEW i \in DOMAIN q, Queue(q, W)
    PROVE  /\ Queue(RemoveAt(q, i), W \ {q[i]})
           /\ q[i] # Head(q) => /\ RemoveAt(q, i) # <<>>
                                /\ Head(RemoveAt(q, i)) = Head(q)
  <1> DEFINE r == RemoveAt(q, i)
             \* where what is left was before
             old(j) == IF j < i THEN j ELSE j + 1
  <1>1. /\ q \in Seq(Symbols) /\ Len(q) \in Nat
        /\ DOMAIN q = 1 .. Len(q) /\ i \in 1 .. Len(q)
    BY DEF Queue
  <1>2. /\ r \in Seq(Symbols) /\ Len(r) = Len(q) - 1
        /\ \A j \in 1 .. i - 1 : r[j] = q[j]
        /\ \A j \in i .. Len(q) - 1 : r[j] = q[j + 1]
    BY <1>1, Removed
  <1> HIDE DEF r
  <1>3. DOMAIN r = 1 .. Len(q) - 1
    BY <1>2
  <1>4. \A j \in DOMAIN r : /\ old(j) \in DOMAIN q /\ old(j) # i
                            /\ r[j] = q[old(j)]
    BY <1>1, <1>2, <1>3
  <1>5. \A k \in DOMAIN q \ {i} : \E j \in DOMAIN r : old(j) = k
    <2> TAKE k \in DOMAIN q \ {i}
    <2>1. CASE k < i
      BY <1>1, <1>3, <2>1
    <2>2. CASE k > i
      <3>1. k - 1 \in DOMAIN r /\ old(k - 1) = k
        BY <1>1, <1>3, <2>2
      <3> QED BY <3>1
    <2> QED BY <1>1, <2>1, <2>2
  <1>6. \A j, k \in DOMAIN r : old(j) = old(k) => j = k
    BY <1>1, <1>3
  <1> HIDE DEF old
  <1>7. \A j, k \in DOMAIN q : q[j] = q[k] => j = k
    BY DEF Queue
  <1>8. \A j, k \in DOMAIN r : r[j] = r[k] => j = k
    BY <1>4, <1>6, <1>7
  <1>9. W \ {q[i]} = {r[j] : j \in DOMAIN r}
    <2>1. \A j \in DOMAIN r : r[j] \in W \ {q[i]}
      BY <1>4, <1>7 DEF Queue
    <2>2. ASSUME NEW x \in W \ {q[i]} PROVE \E j \in DOMAIN r : r[j] = x
      <3>1. PICK k \in DOMAIN q : q[k] = x
        BY DEF Queue
      <3>2. k # i
        BY <3>1
      <3> QED BY <1>4, <1>5, <3>1, <3>2
    <2> QED BY <2>1, <2>2
  <1>10. q[i] # Head(q) => r # <<>> /\ Head(r) = Head(q)
    <2> HAVE q[i] # Head(q)
    <2>1. i # 1
      BY <1>1
    <2>2. 1 \in 1 .. i - 1 /\ 1 \in DOMAIN r /\ Len(r) > 0
      BY <1>1, <1>2, <1>3, <2>1
    <2>3. r[1] = q[1]
      BY <1>2, <2>2
    <2> QED BY <1>1, <1>2, <2>2, <2>3
  <1> QED BY <1>2, <1>8, <1>9, <1>10 DEF Queue, r

\* Who has the lock or waits for it.
InLine == {s \in Symbols : pc[s] \in {"asking"} \cup Admitted}

\* What LockHeldByCycle says of the line.
LockOK ==
    /\ Queue(line, InLine)
    /\ \A s \in Symbols : pc[s] \in Admitted => HasLock(s)

\* LockHeldByCycle, without its cardinalities.
LEMMA LockParts == ASSUME TypeOK PROVE LockHeldByCycle <=> LockOK
  <1> DEFINE at(s) == {i \in DOMAIN line : line[i] = s}
  <1>1. /\ line \in Seq(Symbols) /\ DOMAIN line = 1 .. Len(line) /\ Len(line) \in Nat
        /\ \A i \in DOMAIN line : line[i] \in Symbols
    BY DEF TypeOK
  <1>2. ASSUME NEW s \in Symbols PROVE IsFiniteSet(at(s))
    <2>1. IsFiniteSet(1 .. Len(line))
      BY <1>1, FS_Interval
    <2> QED BY <1>1, <2>1, FS_Subset
  <1>3. ASSUME NEW s \in Symbols
        PROVE  /\ Cardinality(at(s)) = 1 <=> \E i : at(s) = {i}
               /\ Cardinality(at(s)) = 0 <=> at(s) = {}
    BY <1>2, FS_Singleton, FS_EmptySet
  <1>4. ASSUME LockHeldByCycle PROVE Queue(line, InLine)
    <2>1. ASSUME NEW s \in Symbols
          PROVE  IF s \in InLine THEN \E i : at(s) = {i} ELSE at(s) = {}
      BY <1>3, <1>4 DEF LockHeldByCycle, InLine
    <2>2. \A i, j \in DOMAIN line : line[i] = line[j] => i = j
      <3> TAKE i, j \in DOMAIN line
      <3> HAVE line[i] = line[j]
      <3>1. i \in at(line[i]) /\ j \in at(line[i]) /\ line[i] \in Symbols
        BY <1>1
      <3> HIDE DEF at
      <3> QED BY <2>1, <3>1
    <2>3. ASSUME NEW s \in Symbols
          PROVE  s \in InLine <=> \E i \in DOMAIN line : line[i] = s
      <3>1. at(s) # {} <=> \E i \in DOMAIN line : line[i] = s
        OBVIOUS
      <3> HIDE DEF at
      <3> QED BY <2>1, <3>1
    <2>4. InLine = {line[i] : i \in DOMAIN line}
      BY <1>1, <2>3 DEF InLine
    <2> QED BY <1>1, <2>2, <2>4 DEF Queue
  <1>5. ASSUME Queue(line, InLine), NEW s \in Symbols
        PROVE  Cardinality(at(s)) = IF s \in InLine THEN 1 ELSE 0
    <2>1. CASE s \in InLine
      <3>1. PICK i \in DOMAIN line : line[i] = s
        BY <1>5, <2>1 DEF Queue
      <3>2. at(s) = {i}
        BY <1>5, <3>1 DEF Queue
      <3> HIDE DEF at
      <3> QED BY <1>3, <2>1, <3>2
    <2>2. CASE s \notin InLine
      <3>1. at(s) = {}
        BY <1>5, <2>2 DEF Queue
      <3> HIDE DEF at
      <3> QED BY <1>3, <2>2, <3>1
    <2> QED BY <2>1, <2>2
  <1>6. ASSUME NEW s \in Symbols
        PROVE  (IF s \in InLine THEN 1 ELSE 0)
                 = IF pc[s] \in {"asking"} \cup Admitted THEN 1 ELSE 0
    BY DEF InLine
  <1> QED BY <1>4, <1>5, <1>6 DEF LockHeldByCycle, LockOK

-----------------------------------------------------------------------------
(* The inductive invariant, without the limits. *)

Core ==
    /\ TypeOK /\ LockOK
    /\ BuyIsAlone
    /\ \A s \in Symbols : CycleOK(s) /\ OrderOK(s)

\* The cache keeps its type through a poll.
LEMMA AccountTypes ==
    ASSUME TypeOK
    PROVE  NoAccount \in Accounts /\ Polled(account) \in Accounts
  <1> USE LimitsAssumption DEF Accounts, Qty
  <1>1. Nothing \in [Symbols -> Qty]
    BY DEF Nothing
  <1>2. NoAccount \in Accounts
    BY <1>1 DEF NoAccount
  <1>3. account \in Accounts
    BY DEF TypeOK
  <1> DEFINE a == TakeValuation(account)
  <1>4. a \in Accounts
    BY <1>3 DEF TakeValuation
  <1> HIDE DEF a
  <1>5. TakeBalances(a) \in Accounts
    BY <1>1, <1>2, <1>4 DEF TakeBalances
  <1> QED BY <1>2, <1>5 DEF Polled, a

\* The line stays one of symbols.
LEMMA LeaveType ==
    ASSUME TypeOK, NEW s \in Symbols, LeaveLine(s)
    PROVE  line' \in Seq(Symbols)
  BY Removed DEF LeaveLine, TypeOK

\* A new order, and none, are orders.
LEMMA OrderTypes ==
    ASSUME NEW q \in Qty
    PROVE  /\ Sent("BUY", q) \in Orders /\ Sent("SELL", q) \in Orders
           /\ NoOrder \in Orders
  BY LimitsAssumption DEF Sent, NoOrder, Orders, Qty

\* What a decided order leaves in its row is a number of lots.
LEMMA BookedType ==
    ASSUME TypeOK, NEW s \in Symbols, OrderOK(s), order[s].state = "DECIDED"
    PROVE  Booked(s) \in Qty /\ Booked(s) <= trade[s] + order[s].exec
  <1>1. order[s] \in Orders /\ trade[s] \in Qty /\ held[s] \in Qty
    BY DEF TypeOK
  <1> QED BY <1>1, LimitsAssumption DEF OrderOK, Booked, Orders, Qty

\* Every step keeps the types; a SELL never executes more than its row has.
LEMMA TypeStep == Core /\ Next => TypeOK'
  <1> SUFFICES ASSUME Core, Next PROVE TypeOK'
    OBVIOUS
  <1> USE LimitsAssumption
  <1>0. TypeOK /\ \A s \in Symbols : OrderOK(s)
    BY DEF Core
  <1>a. NoAccount \in Accounts /\ Polled(account) \in Accounts /\ NoOrder \in Orders
    BY <1>0, AccountTypes, OrderTypes DEF Qty
  <1>q. 0 \in Qty
    BY DEF Qty
  <1>1. ASSUME NEW s \in Symbols,
               \/ Refuse(s) \/ AbandonEntry(s) \/ BuyUncertain(s) \/ EntryReturns(s)
               \/ CancelAsking(s) \/ CancelSubmit(s)
        PROVE  TypeOK'
    <2>1. line' \in Seq(Symbols)
      BY <1>0, <1>1, LeaveType DEF Refuse, AbandonEntry, BuyUncertain,
         EntryReturns, CancelAsking, CancelSubmit, EndSubmit
    <2>2. /\ UNCHANGED <<trade, order, held, validated>>
          /\ pc' = [pc EXCEPT ![s] = "idle"]
          /\ asked' \in {asked, [asked EXCEPT ![s] = 0]}
          /\ account' \in {account, NoAccount}
      BY <1>1 DEF Refuse, AbandonEntry, BuyUncertain, EntryReturns,
         CancelAsking, CancelSubmit, EndSubmit, Goto, InvalidateAccount
    <2> QED BY <1>0, <1>a, <1>q, <2>1, <2>2 DEF TypeOK
  <1>2. ASSUME NEW s \in Symbols, Ask(s) PROVE TypeOK'
    BY <1>0, <1>2 DEF Ask, Goto, TypeOK
  <1>3. ASSUME NEW s \in Symbols, NEW q \in Qty \ {0}, Approve(s, q) PROVE TypeOK'
    BY <1>0, <1>3 DEF Approve, Goto, TypeOK
  <1>4. ASSUME NEW s \in Symbols, SubmitBuy(s) PROVE TypeOK'
    <2>1. asked[s] \in Qty /\ Sent("BUY", asked[s]) \in Orders
      BY <1>0, OrderTypes DEF TypeOK
    <2> QED BY <1>0, <1>4, <1>q, <2>1 DEF SubmitBuy, Goto, TypeOK
  <1>5. ASSUME NEW s \in Symbols, BuyRecorded(s) \/ BuyUnfilled(s) \/ SellRecorded(s)
        PROVE  TypeOK'
    <2>1. Booked(s) \in Qty
      BY <1>0, <1>5, BookedType DEF BuyRecorded, BuyUnfilled, SellRecorded
    <2>2. line' \in Seq(Symbols)
      <3>1. CASE BuyUnfilled(s)
        BY <1>0, <3>1, LeaveType DEF BuyUnfilled, EndSubmit
      <3>2. CASE BuyRecorded(s) \/ SellRecorded(s)
        BY <1>0, <3>2 DEF BuyRecorded, SellRecorded, TypeOK
      <3> QED BY <1>5, <3>1, <3>2
    <2>3. /\ trade' = [trade EXCEPT ![s] = Booked(s)]
          /\ order' = [order EXCEPT ![s] = NoOrder]
          /\ UNCHANGED <<held, validated>>
          /\ pc' \in {[pc EXCEPT ![s] = "idle"], [pc EXCEPT ![s] = "protecting"]}
          /\ asked' \in {asked, [asked EXCEPT ![s] = 0]}
          /\ account' \in {account, NoAccount}
      BY <1>5 DEF BuyRecorded, BuyUnfilled, SellRecorded, EndSubmit, Goto,
         Resolve, InvalidateAccount
    <2> QED BY <1>0, <1>a, <1>q, <2>1, <2>2, <2>3 DEF TypeOK
  <1>6. ASSUME NEW s \in Symbols, SubmitSell(s) PROVE TypeOK'
    <2>1. trade[s] \in Qty /\ Sent("SELL", trade[s]) \in Orders
      BY <1>0, OrderTypes DEF TypeOK
    <2> QED BY <1>0, <1>6, <2>1 DEF SubmitSell, Goto, TypeOK
  <1>7. ASSUME NEW s \in Symbols, SellUncertain(s) \/ CancelSell(s) PROVE TypeOK'
    BY <1>0, <1>7 DEF SellUncertain, CancelSell, Goto, TypeOK
  <1>8. ASSUME NEW s \in Symbols, ListRecorded(s) PROVE TypeOK'
    BY <1>0, <1>a, <1>8 DEF ListRecorded, InvalidateAccount, TypeOK
  <1>9. ASSUME NEW s \in Symbols, Validate(s) PROVE TypeOK'
    <2>1. order[s].state = "DECIDED" => Booked(s) \in Qty
      BY <1>0, BookedType
    <2>2. /\ \/ /\ order[s].state = "DECIDED"
                /\ trade' = [trade EXCEPT ![s] = Booked(s)]
                /\ order' = [order EXCEPT ![s] = NoOrder]
             \/ trade' = [trade EXCEPT ![s] = held[s]] /\ UNCHANGED order
             \/ UNCHANGED <<trade, order>>
          /\ \E ok \in BOOLEAN : validated' = [validated EXCEPT ![s] = ok]
          /\ UNCHANGED <<held, pc, asked, line, account>>
      BY <1>9 DEF Validate, Resolve
    <2> QED BY <1>0, <1>a, <2>1, <2>2 DEF TypeOK
  <1>10. ASSUME NEW s \in Symbols, Decide(s) PROVE TypeOK'
    <2>1. PICK n \in 0 .. order[s].qty :
            /\ order' = [order EXCEPT ![s].state = "DECIDED", ![s].exec = n]
            /\ IF order[s].side = "BUY"
               THEN held' = [held EXCEPT ![s] = @ + n]
               ELSE n <= held[s] /\ held' = [held EXCEPT ![s] = @ - n]
      BY <1>10 DEF Decide
    <2>a. order[s] \in Orders /\ trade[s] \in Qty /\ held[s] \in Qty
      BY <1>0 DEF TypeOK
    <2>b. OrderOK(s) /\ order[s].state = "INFLIGHT"
      BY <1>0, <1>10 DEF Decide
    <2>2. order[s].side = "BUY" => held[s] = 0
      BY <2>a, <2>b DEF OrderOK, Qty
    <2>c. n \in Qty /\ n \in Int
      BY <2>a DEF Orders, Qty
    <2>d. [order[s] EXCEPT !.state = "DECIDED", !.exec = n] \in Orders
      BY <2>a, <2>c DEF Orders
    <2>3. /\ [order[s] EXCEPT !.state = "DECIDED", !.exec = n] \in Orders
          /\ order[s].side = "BUY" => held[s] + n \in Qty
          /\ n <= held[s] => held[s] - n \in Qty
      BY <2>a, <2>2, <2>c, <2>d DEF Qty
    <2>4. held' \in [Symbols -> Qty]
      BY <1>0, <2>1, <2>3 DEF TypeOK
    <2>5. order' \in [Symbols -> Orders]
      BY <1>0, <2>1, <2>3 DEF TypeOK
    <2> QED BY <1>0, <1>10, <2>4, <2>5 DEF Decide, TypeOK
  <1>11. ASSUME NEW s \in Symbols, ListFills(s) PROVE TypeOK'
    <2>1. PICK n \in 1 .. held[s] : held' = [held EXCEPT ![s] = @ - n]
      BY <1>11 DEF ListFills
    <2>2. held[s] \in Qty /\ held[s] - n \in Qty
      BY <1>0, <2>1 DEF TypeOK, Qty
    <2> QED BY <1>0, <1>11, <2>1, <2>2 DEF ListFills, TypeOK
  <1>12. ASSUME Poll \/ AccountAnswers \/ ValuationEnds \/ Close PROVE TypeOK'
    <2>1. account' \in Accounts
      <3>0. account \in Accounts /\ held \in [Symbols -> Qty]
        BY <1>0 DEF TypeOK
      <3>1. CASE Poll
        BY <1>a, <3>1 DEF Poll, Accounts
      <3>2. CASE AccountAnswers
        BY <3>0, <3>2 DEF AccountAnswers, Accounts
      <3>3. CASE ValuationEnds
        BY <3>0, <3>3 DEF ValuationEnds, Accounts
      <3>4. CASE Close
        BY <1>a, <3>4 DEF Close, InvalidateAccount
      <3> QED BY <1>12, <3>1, <3>2, <3>3, <3>4
    <2> QED BY <1>0, <1>12, <2>1 DEF Poll, AccountAnswers, ValuationEnds, Close, TypeOK
  <1>13. ASSUME Crash PROVE TypeOK'
    BY <1>0, <1>a, <1>q, <1>13 DEF Crash, Nothing, TypeOK
  <1> QED BY <1>1, <1>2, <1>3, <1>4, <1>5, <1>6, <1>7, <1>8, <1>9, <1>10,
             <1>11, <1>12, <1>13 DEF Next, EntryStep, ExitStep, Stop

\* Nobody else is past its approval.
LEMMA OneInside ==
    ASSUME LockOK, NEW s \in Symbols, NEW t \in Symbols, HasLock(s), pc[t] \in Admitted
    PROVE  s = t
  BY DEF LockOK, HasLock

\* A step that leaves the line alone.
LEMMA LockQuiet ==
    ASSUME TypeOK, LockOK, line' = line,
           \A t \in Symbols :
               /\ pc'[t] \in {"asking"} \cup Admitted
                    <=> pc[t] \in {"asking"} \cup Admitted
               /\ pc'[t] \in Admitted => pc[t] \in Admitted \/ HasLock(t)
    PROVE  LockOK'
  <1>1. InLine' = InLine
    BY DEF InLine
  <1> QED BY <1>1 DEF LockOK, HasLock, Queue

\* A cycle leaves the line: it had the lock, or it only waited.
LEMMA LockLeft ==
    ASSUME TypeOK, LockOK, NEW s \in Symbols, LeaveLine(s),
           pc' = [pc EXCEPT ![s] = "idle"]
    PROVE  LockOK'
  <1>1. PICK i \in DOMAIN line : line[i] = s /\ line' = RemoveAt(line, i)
    BY DEF LeaveLine
  <1>2. \A t \in Symbols : pc'[t] = IF t = s THEN "idle" ELSE pc[t]
    BY DEF TypeOK
  <1>3. InLine' = InLine \ {s}
    BY <1>2 DEF InLine, Admitted
  <1>4. /\ Queue(line', InLine \ {s})
        /\ s # Head(line) => line' # <<>> /\ Head(line') = Head(line)
    BY <1>1, QueueRemove DEF LockOK
  <1>5. ASSUME NEW t \in Symbols, pc'[t] \in Admitted PROVE HasLock(t)'
    <2>1. t # s /\ pc[t] \in Admitted
      BY <1>2, <1>5 DEF Admitted
    <2> QED BY <1>4, <2>1 DEF LockOK, HasLock
  <1> QED BY <1>3, <1>4, <1>5 DEF LockOK

\* No step leaves the lock to a cycle that has ended.
LEMMA LockStep == Core /\ Next => LockOK'
  <1> SUFFICES ASSUME Core, Next PROVE LockOK'
    OBVIOUS
  <1>0. TypeOK /\ LockOK
    BY DEF Core
  <1>1. ASSUME NEW s \in Symbols,
               \/ Refuse(s) \/ AbandonEntry(s) \/ BuyUnfilled(s) \/ BuyUncertain(s)
               \/ EntryReturns(s) \/ CancelAsking(s) \/ CancelSubmit(s)
        PROVE  LockOK'
    <2>1. LeaveLine(s) /\ pc' = [pc EXCEPT ![s] = "idle"]
      BY <1>1 DEF Refuse, AbandonEntry, BuyUnfilled, BuyUncertain,
         EntryReturns, CancelAsking, CancelSubmit, EndSubmit, Goto
    <2> QED BY <1>0, <2>1, LockLeft
  <1>2. ASSUME NEW s \in Symbols, Ask(s) PROVE LockOK'
    <2>1. /\ line' = Append(line, s) /\ pc[s] = "idle"
          /\ \A t \in Symbols : pc'[t] = IF t = s THEN "asking" ELSE pc[t]
      BY <1>0, <1>2 DEF Ask, Goto, TypeOK
    <2>2. s \notin InLine /\ InLine' = InLine \cup {s}
      BY <2>1 DEF InLine, Admitted
    <2>3. /\ Queue(line', InLine')
          /\ line # <<>> => line' # <<>> /\ Head(line') = Head(line)
      BY <1>0, <2>1, <2>2, QueueAppend DEF LockOK
    <2> QED BY <1>0, <2>1, <2>3 DEF LockOK, HasLock, Admitted
  <1>3. ASSUME NEW s \in Symbols,
               \/ \E q \in Qty \ {0} : Approve(s, q)
               \/ SubmitBuy(s) \/ BuyRecorded(s) \/ SubmitSell(s)
               \/ SellRecorded(s) \/ SellUncertain(s) \/ CancelSell(s)
        PROVE  LockOK'
    <2>1. /\ line' = line
          /\ \/ pc[s] = "asking" /\ HasLock(s) /\ pc' = [pc EXCEPT ![s] = "entering"]
             \/ pc[s] = "entering" /\ pc' = [pc EXCEPT ![s] = "sent"]
             \/ pc[s] = "sent" /\ pc' = [pc EXCEPT ![s] = "protecting"]
             \/ pc[s] = "idle" /\ pc' = [pc EXCEPT ![s] = "selling"]
             \/ pc[s] = "selling" /\ pc' = [pc EXCEPT ![s] = "idle"]
      BY <1>3 DEF Approve, SubmitBuy, BuyRecorded, SubmitSell, SellRecorded,
         SellUncertain, CancelSell, Goto
    <2>2. \A t \in Symbols :
            /\ pc'[t] \in {"asking"} \cup Admitted
                 <=> pc[t] \in {"asking"} \cup Admitted
            /\ pc'[t] \in Admitted => pc[t] \in Admitted \/ HasLock(t)
      BY <1>0, <2>1 DEF TypeOK, Admitted
    <2> QED BY <1>0, <2>1, <2>2, LockQuiet
  <1>4. ASSUME NEW s \in Symbols,
               ListRecorded(s) \/ Validate(s) \/ Decide(s) \/ ListFills(s)
        PROVE  LockOK'
    <2>1. UNCHANGED <<pc, line>>
      BY <1>4 DEF ListRecorded, Validate, Decide, ListFills
    <2> QED BY <1>0, <2>1, LockQuiet
  <1>5. ASSUME Poll \/ AccountAnswers \/ ValuationEnds \/ Close PROVE LockOK'
    <2>1. UNCHANGED <<pc, line>>
      BY <1>5 DEF Poll, AccountAnswers, ValuationEnds, Close
    <2> QED BY <1>0, <2>1, LockQuiet
  <1>6. ASSUME Crash PROVE LockOK'
    <2>1. line' = <<>> /\ \A s \in Symbols : pc'[s] = "idle"
      BY <1>6 DEF Crash
    <2>2. InLine' = {}
      BY <2>1 DEF InLine, Admitted
    <2>3. Queue(<<>>, {})
      BY DEF Queue
    <2> QED BY <2>1, <2>2, <2>3 DEF LockOK, Admitted
  <1> QED BY <1>1, <1>2, <1>3, <1>4, <1>5, <1>6 DEF Next, EntryStep, ExitStep, Stop

\* A step that neither grants an entry nor sends a BUY.
LEMMA NoNewBuy ==
    ASSUME Core,
           \A t \in Symbols :
               /\ pc'[t] # "idle" => validated'[t]
               /\ asked'[t] > 0 => asked[t] > 0 /\ pc'[t] = pc[t]
               /\ pc'[t] = "entering" => pc[t] = "entering"
               /\ order'[t].side = "BUY" => order[t].side = "BUY"
    PROVE  BuyIsAlone' /\ \A t \in Symbols : CycleOK(t)'
  <1>1. BuyIsAlone'
    BY DEF Core, BuyIsAlone, Buys
  <1>2. ASSUME NEW t \in Symbols PROVE CycleOK(t)'
    BY DEF Core, CycleOK
  <1> QED BY <1>1, <1>2

\* Whoever is approved or sends a BUY is alone with it.
LEMMA CycleStep == Core /\ Next => BuyIsAlone' /\ \A t \in Symbols : CycleOK(t)'
  <1> SUFFICES ASSUME Core, Next
               PROVE  BuyIsAlone' /\ \A t \in Symbols : CycleOK(t)'
    OBVIOUS
  <1>0. /\ TypeOK /\ LockOK /\ BuyIsAlone
        /\ \A t \in Symbols : CycleOK(t)
    BY DEF Core
  <1>v. \A t \in Symbols : pc[t] # "idle" => validated[t]
    BY <1>0 DEF CycleOK
  <1>1. ASSUME NEW s \in Symbols, NEW q \in Qty \ {0}, Approve(s, q)
        PROVE  BuyIsAlone' /\ \A t \in Symbols : CycleOK(t)'
    <2>1. /\ \A t \in Symbols : order[t] = NoOrder
          /\ UNCHANGED <<order, validated>>
          /\ \A t \in Symbols : pc'[t] = IF t = s THEN "entering" ELSE pc[t]
          /\ \A t \in Symbols : asked'[t] = IF t = s THEN q ELSE asked[t]
          /\ pc[s] = "asking" /\ HasLock(s)
      BY <1>0, <1>1 DEF Approve, Goto, TypeOK, PortfolioSettled
    <2>2. \A t \in Symbols : pc[t] # "entering"
      BY <1>0, <2>1, OneInside DEF Admitted
    <2>3. \A t \in Symbols : Buys(t)' => t = s
      BY <1>0, <2>1, <2>2 DEF Buys, CycleOK, NoOrder
    <2>4. BuyIsAlone'
      BY <2>3 DEF BuyIsAlone
    <2>5. ASSUME NEW t \in Symbols PROVE CycleOK(t)'
      BY <1>0, <1>v, <2>1 DEF CycleOK, NoOrder
    <2> QED BY <2>4, <2>5
  <1>2. ASSUME NEW s \in Symbols, SubmitBuy(s)
        PROVE  BuyIsAlone' /\ \A t \in Symbols : CycleOK(t)'
    <2>1. /\ \A t \in Symbols : t # s => order'[t] = order[t]
          /\ UNCHANGED validated
          /\ \A t \in Symbols : pc'[t] = IF t = s THEN "sent" ELSE pc[t]
          /\ \A t \in Symbols : asked'[t] = IF t = s THEN 0 ELSE asked[t]
          /\ pc[s] = "entering" /\ HasLock(s)
      BY <1>0, <1>2 DEF SubmitBuy, Goto, TypeOK, LockOK, Admitted
    <2>2. \A t \in Symbols : pc[t] = "entering" => t = s
      BY <1>0, <2>1, OneInside DEF Admitted
    <2>3. \A t \in Symbols : Buys(t)' => t = s
      BY <1>0, <2>1, <2>2 DEF Buys, CycleOK
    <2>4. BuyIsAlone'
      BY <2>3 DEF BuyIsAlone
    <2>5. ASSUME NEW t \in Symbols PROVE CycleOK(t)'
      BY <1>0, <1>v, <2>1, <2>2 DEF CycleOK
    <2> QED BY <2>4, <2>5
  <1>3. ASSUME NEW s \in Symbols,
               \/ Refuse(s) \/ AbandonEntry(s) \/ BuyUncertain(s)
               \/ EntryReturns(s) \/ CancelAsking(s) \/ CancelSubmit(s)
               \/ SellUncertain(s) \/ CancelSell(s) \/ Ask(s)
        PROVE  BuyIsAlone' /\ \A t \in Symbols : CycleOK(t)'
    <2>1. /\ UNCHANGED <<order, validated>>
          /\ asked' \in {asked, [asked EXCEPT ![s] = 0]}
          /\ \/ /\ pc[s] # "entering" \/ asked' = [asked EXCEPT ![s] = 0]
                /\ pc' = [pc EXCEPT ![s] = "idle"]
             \/ /\ pc[s] = "idle" /\ validated[s]
                /\ pc' = [pc EXCEPT ![s] = "asking"]
      BY <1>3 DEF Refuse, AbandonEntry, BuyUncertain, EntryReturns, CancelAsking,
         CancelSubmit, SellUncertain, CancelSell, Ask, EndSubmit, Goto
    <2>2. \A t \in Symbols : asked[t] > 0 => pc[t] = "entering"
      BY <1>0 DEF CycleOK
    <2>3. \A t \in Symbols :
            /\ pc'[t] # "idle" => validated'[t]
            /\ asked'[t] > 0 => asked[t] > 0 /\ pc'[t] = pc[t]
            /\ pc'[t] = "entering" => pc[t] = "entering"
      BY <1>0, <1>v, <2>1, <2>2 DEF TypeOK
    <2> QED BY <2>1, <2>3, NoNewBuy
  <1>4. ASSUME NEW s \in Symbols, BuyRecorded(s) \/ BuyUnfilled(s) \/ SellRecorded(s)
        PROVE  BuyIsAlone' /\ \A t \in Symbols : CycleOK(t)'
    <2>1. /\ order' = [order EXCEPT ![s] = NoOrder]
          /\ asked' \in {asked, [asked EXCEPT ![s] = 0]}
          /\ UNCHANGED validated
          /\ pc[s] \in {"sent", "selling"}
          /\ pc' \in {[pc EXCEPT ![s] = "idle"], [pc EXCEPT ![s] = "protecting"]}
      BY <1>4 DEF BuyRecorded, BuyUnfilled, SellRecorded, Resolve, EndSubmit, Goto
    <2>2. \A t \in Symbols : asked[t] > 0 => pc[t] = "entering"
      BY <1>0 DEF CycleOK
    <2>3. \A t \in Symbols :
            /\ pc'[t] # "idle" => validated'[t]
            /\ asked'[t] > 0 => asked[t] > 0 /\ pc'[t] = pc[t]
            /\ pc'[t] = "entering" => pc[t] = "entering"
      BY <1>0, <1>v, <2>1, <2>2 DEF TypeOK
    <2>4. \A t \in Symbols : order'[t].side = "BUY" => order[t].side = "BUY"
      BY <1>0, <2>1 DEF TypeOK, NoOrder
    <2> QED BY <2>3, <2>4, NoNewBuy
  <1>5. ASSUME NEW s \in Symbols, SubmitSell(s)
        PROVE  BuyIsAlone' /\ \A t \in Symbols : CycleOK(t)'
    <2>1. \A t \in Symbols :
            /\ pc'[t] = IF t = s THEN "selling" ELSE pc[t]
            /\ order'[t].side = "BUY" => order[t].side = "BUY"
            /\ validated' = validated /\ asked' = asked
            /\ pc[s] = "idle" /\ validated[s]
      BY <1>0, <1>5 DEF SubmitSell, Goto, TypeOK, Sent
    <2>2. ~(asked[s] > 0)
      BY <1>0, <2>1 DEF CycleOK
    <2> QED BY <1>v, <2>1, <2>2, NoNewBuy
  <1>6. ASSUME NEW s \in Symbols,
               ListRecorded(s) \/ Validate(s) \/ Decide(s) \/ ListFills(s)
        PROVE  BuyIsAlone' /\ \A t \in Symbols : CycleOK(t)'
    <2>1. UNCHANGED <<pc, asked>> /\ \A t \in Symbols : validated[t] => validated'[t]
      BY <1>0, <1>6 DEF ListRecorded, Validate, Decide, ListFills, TypeOK
    <2>2. \A t \in Symbols : order'[t].side = "BUY" => order[t].side = "BUY"
      <3>1. CASE ListRecorded(s) \/ ListFills(s)
        BY <3>1 DEF ListRecorded, ListFills
      <3>2. CASE Validate(s)
        BY <1>0, <3>2 DEF Validate, Resolve, NoOrder, TypeOK
      <3>3. CASE Decide(s)
        <4>1. PICK n : order' = [order EXCEPT ![s].state = "DECIDED", ![s].exec = n]
          BY <3>3 DEF Decide
        <4> QED BY <1>0, <4>1 DEF TypeOK, Orders
      <3> QED BY <1>6, <3>1, <3>2, <3>3
    <2>3. \A t \in Symbols : pc'[t] # "idle" => validated'[t]
      BY <1>0, <1>v, <2>1 DEF TypeOK
    <2> QED BY <2>1, <2>2, <2>3, NoNewBuy
  <1>7. ASSUME Poll \/ AccountAnswers \/ ValuationEnds \/ Close
        PROVE  BuyIsAlone' /\ \A t \in Symbols : CycleOK(t)'
    <2>1. UNCHANGED <<pc, asked, validated, order>>
      BY <1>7 DEF Poll, AccountAnswers, ValuationEnds, Close
    <2> QED BY <1>v, <2>1, NoNewBuy
  <1>8. ASSUME Crash PROVE BuyIsAlone' /\ \A t \in Symbols : CycleOK(t)'
    <2>1. \A t \in Symbols : pc'[t] = "idle" /\ asked'[t] = 0 /\ order'[t] = order[t]
      BY <1>8 DEF Crash, Nothing
    <2> QED BY <2>1, NoNewBuy
  <1> QED BY <1>1, <1>2, <1>3, <1>4, <1>5, <1>6, <1>7, <1>8
          DEF Next, EntryStep, ExitStep, Stop

\* A row and its order that are left alone, by all or by all but one symbol.
LEMMA OrderSame ==
    ASSUME NEW t \in Symbols, OrderOK(t),
           order'[t] = order[t], trade'[t] = trade[t], held'[t] = held[t]
    PROVE  OrderOK(t)'
  BY DEF OrderOK, Booked

\* The end of an order becomes known.
LEMMA ResolveOK ==
    ASSUME Core, NEW s \in Symbols, order[s].state = "DECIDED", Resolve(s), held' = held
    PROVE  \A t \in Symbols : OrderOK(t)'
  <1>0. TypeOK /\ \A t \in Symbols : OrderOK(t)
    BY DEF Core
  <1>1. /\ \A t \in Symbols : trade'[t] = IF t = s THEN Booked(s) ELSE trade[t]
        /\ \A t \in Symbols : order'[t] = IF t = s THEN NoOrder ELSE order[t]
    BY <1>0 DEF Resolve, TypeOK
  <1>2. held[s] <= Booked(s)
    BY <1>0 DEF OrderOK
  <1>3. OrderOK(s)'
    BY <1>1, <1>2 DEF OrderOK, NoOrder
  <1>4. ASSUME NEW t \in Symbols, t # s PROVE OrderOK(t)'
    BY <1>0, <1>1, <1>4, OrderSame
  <1> QED BY <1>3, <1>4

\* An order is sent about a symbol that has none.
LEMMA SentOK ==
    ASSUME Core, NEW s \in Symbols, NEW q \in Qty, NEW side \in {"BUY", "SELL"},
           order[s] = NoOrder, order' = [order EXCEPT ![s] = Sent(side, q)],
           side = "BUY" => trade[s] = 0, side = "SELL" => q = trade[s],
           UNCHANGED <<trade, held>>
    PROVE  \A t \in Symbols : OrderOK(t)'
  <1>0. TypeOK /\ \A t \in Symbols : OrderOK(t)
    BY DEF Core
  <1>1. \A t \in Symbols : order'[t] = IF t = s THEN Sent(side, q) ELSE order[t]
    BY <1>0 DEF TypeOK
  <1>2. held[s] <= trade[s]
    BY <1>0 DEF OrderOK, NoOrder
  <1>3. OrderOK(s)'
    BY <1>1, <1>2 DEF OrderOK, Sent, Qty
  <1>4. ASSUME NEW t \in Symbols, t # s PROVE OrderOK(t)'
    BY <1>0, <1>1, <1>4, OrderSame
  <1> QED BY <1>3, <1>4

\* What Decide does to the order and the account, in plain terms.
DecidedWith(s, n) ==
    /\ order[s].state = "INFLIGHT" /\ order'[s].state = "DECIDED"
    /\ order'[s].side = order[s].side /\ order'[s].qty = order[s].qty
    /\ order'[s].exec = n
    /\ order[s].side = "BUY" =>
         held[s] = 0 /\ trade[s] = 0 /\ held' = [held EXCEPT ![s] = n]
    /\ order[s].side # "BUY" =>
         /\ order[s].side = "SELL" /\ n <= held[s] /\ order[s].qty = trade[s]
         /\ held' = [held EXCEPT ![s] = @ - n]
    /\ \A t \in Symbols \ {s} : order'[t] = order[t]
    /\ UNCHANGED <<trade, validated, pc, asked, line, account>>

\* OrderOK says what the account held of a symbol before its BUY executes.
LEMMA Decided ==
    ASSUME Core, NEW s \in Symbols, Decide(s)
    PROVE  \E n \in 0 .. order[s].qty : DecidedWith(s, n)
  <1>1. PICK n \in 0 .. order[s].qty :
            /\ order' = [order EXCEPT ![s].state = "DECIDED", ![s].exec = n]
            /\ IF order[s].side = "BUY"
               THEN held' = [held EXCEPT ![s] = @ + n]
               ELSE n <= held[s] /\ held' = [held EXCEPT ![s] = @ - n]
    BY DEF Decide
  <1>2. /\ order \in [Symbols -> Orders] /\ order[s] \in Orders
        /\ trade[s] \in Qty /\ held[s] \in Qty
        /\ OrderOK(s) /\ order[s].state = "INFLIGHT"
    BY DEF Core, TypeOK, Decide
  <1>3. order[s].side = "BUY" => trade[s] = 0 /\ held[s] = 0
    BY <1>2 DEF OrderOK, Qty
  <1>4. order[s].side # "BUY" => order[s].side = "SELL" /\ order[s].qty = trade[s]
    BY <1>2 DEF OrderOK, Orders
  <1>5. /\ order'[s] = [order[s] EXCEPT !.state = "DECIDED", !.exec = n]
        /\ \A t \in Symbols \ {s} : order'[t] = order[t]
    BY <1>1, <1>2
  <1>6. /\ order'[s].state = "DECIDED" /\ order'[s].exec = n
        /\ order'[s].side = order[s].side /\ order'[s].qty = order[s].qty
    BY <1>2, <1>5 DEF Orders
  <1>7. order[s].side = "BUY" => held' = [held EXCEPT ![s] = n]
    BY <1>1, <1>3
  <1>8. UNCHANGED <<trade, validated, pc, asked, line, account>>
    BY DEF Decide
  <1> QED BY <1>1, <1>2, <1>3, <1>4, <1>5, <1>6, <1>7, <1>8 DEF DecidedWith

\* No step leaves a row short of what the account holds.
LEMMA OrderStep == Core /\ Next => \A t \in Symbols : OrderOK(t)'
  <1> SUFFICES ASSUME Core, Next PROVE \A t \in Symbols : OrderOK(t)'
    OBVIOUS
  <1>0. /\ TypeOK /\ \A t \in Symbols : OrderOK(t)
    BY DEF Core
  <1>t. \A t \in Symbols : trade[t] \in Qty /\ held[t] \in Qty /\ asked[t] \in Qty
    BY <1>0 DEF TypeOK
  <1>1. ASSUME NEW s \in Symbols, SubmitBuy(s) PROVE \A t \in Symbols : OrderOK(t)'
    BY <1>1, <1>t, SentOK DEF SubmitBuy
  <1>2. ASSUME NEW s \in Symbols, SubmitSell(s) PROVE \A t \in Symbols : OrderOK(t)'
    BY <1>2, <1>t, SentOK DEF SubmitSell
  <1>3. ASSUME NEW s \in Symbols, BuyRecorded(s) \/ BuyUnfilled(s) \/ SellRecorded(s)
        PROVE  \A t \in Symbols : OrderOK(t)'
    <2>1. order[s].state = "DECIDED" /\ Resolve(s) /\ held' = held
      BY <1>3 DEF BuyRecorded, BuyUnfilled, SellRecorded
    <2> QED BY <2>1, ResolveOK
  <1>4. ASSUME NEW s \in Symbols, order[s] = NoOrder, UNCHANGED <<order, held>>,
               trade' = [trade EXCEPT ![s] = held[s]]
        PROVE  \A t \in Symbols : OrderOK(t)'
    <2>1. OrderOK(s)'
      BY <1>0, <1>4, <1>t DEF OrderOK, NoOrder, TypeOK, Qty
    <2>2. ASSUME NEW t \in Symbols, t # s PROVE OrderOK(t)'
      BY <1>0, <1>4, <2>2, OrderSame DEF TypeOK
    <2> QED BY <2>1, <2>2
  <1>5. ASSUME NEW s \in Symbols, ListRecorded(s) PROVE \A t \in Symbols : OrderOK(t)'
    BY <1>4, <1>5 DEF ListRecorded
  <1>6. ASSUME NEW s \in Symbols, Validate(s) PROVE \A t \in Symbols : OrderOK(t)'
    <2>0. held' = held
      BY <1>6 DEF Validate
    <2>1. CASE order[s].state = "DECIDED" /\ Resolve(s)
      BY <2>0, <2>1, ResolveOK
    <2>2. CASE order[s] = NoOrder /\ trade' = [trade EXCEPT ![s] = held[s]] /\ UNCHANGED order
      BY <1>4, <2>0, <2>2
    <2>3. CASE UNCHANGED <<trade, order>>
      BY <1>0, <2>0, <2>3, OrderSame
    <2> QED BY <1>6, <2>1, <2>2, <2>3 DEF Validate
  <1>7. ASSUME NEW s \in Symbols, Decide(s) PROVE \A t \in Symbols : OrderOK(t)'
    <2>1. PICK n \in 0 .. order[s].qty : DecidedWith(s, n)
      BY <1>7, Decided
    <2> USE DEF DecidedWith
    <2>2. order[s].qty \in Qty /\ n \in Int /\ n <= order[s].qty
      BY <1>0 DEF TypeOK, Orders, Qty
    <2>3. OrderOK(s)'
      <3>1. CASE order[s].side = "BUY"
        BY <1>0, <2>1, <2>2, <3>1 DEF OrderOK, Booked, TypeOK, Qty
      <3>2. CASE order[s].side = "SELL"
        <4>1. held[s] <= trade[s] /\ held'[s] = held[s] - n
          BY <1>0, <2>1, <3>2 DEF OrderOK, TypeOK
        <4>2. held'[s] <= trade[s] - n
          BY <1>t, <2>2, <4>1 DEF Qty
        <4> QED BY <2>1, <2>2, <3>2, <4>2 DEF OrderOK, Booked, Qty
      <3> QED BY <2>1, <3>1, <3>2
    <2>4. ASSUME NEW t \in Symbols, t # s PROVE OrderOK(t)'
      <3>1. held'[t] = held[t]
        BY <1>0, <2>1, <2>4 DEF TypeOK
      <3> QED BY <1>0, <2>1, <2>4, <3>1, OrderSame
    <2> QED BY <2>3, <2>4
  <1>8. ASSUME NEW s \in Symbols, ListFills(s) PROVE \A t \in Symbols : OrderOK(t)'
    <2>1. PICK n \in 1 .. held[s] : held' = [held EXCEPT ![s] = @ - n]
      BY <1>8 DEF ListFills
    <2>2. UNCHANGED <<trade, order>> /\ order[s] = NoOrder
      BY <1>8 DEF ListFills
    <2>3. held'[s] = held[s] - n /\ held[s] <= trade[s]
      BY <1>0, <2>1, <2>2 DEF OrderOK, NoOrder, TypeOK
    <2>4. OrderOK(s)'
      BY <1>t, <2>1, <2>2, <2>3 DEF OrderOK, NoOrder, Qty
    <2>5. ASSUME NEW t \in Symbols, t # s PROVE OrderOK(t)'
      BY <1>0, <2>1, <2>2, <2>5, OrderSame DEF TypeOK
    <2> QED BY <2>4, <2>5
  <1>9. ASSUME UNCHANGED <<trade, order, held>> PROVE \A t \in Symbols : OrderOK(t)'
    BY <1>0, <1>9, OrderSame
  <1>10. ASSUME NEW s \in Symbols,
                \/ Ask(s) \/ \E q \in Qty \ {0} : Approve(s, q)
                \/ Refuse(s) \/ AbandonEntry(s) \/ BuyUncertain(s) \/ EntryReturns(s)
                \/ SellUncertain(s) \/ CancelAsking(s) \/ CancelSubmit(s) \/ CancelSell(s)
         PROVE  UNCHANGED <<trade, order, held>>
    BY <1>10 DEF Ask, Approve, Refuse, AbandonEntry, BuyUncertain, EntryReturns,
       SellUncertain, CancelAsking, CancelSubmit, CancelSell
  <1>11. ASSUME Poll \/ AccountAnswers \/ ValuationEnds \/ Close \/ Crash
         PROVE  UNCHANGED <<trade, order, held>>
    BY <1>11 DEF Poll, AccountAnswers, ValuationEnds, Close, Crash
  <1> QED BY <1>1, <1>2, <1>3, <1>5, <1>6, <1>7, <1>8, <1>9, <1>10, <1>11
          DEF Next, EntryStep, ExitStep, Stop

-----------------------------------------------------------------------------
(* What a step is to the abstract guard. *)

\* The state of EntryAdmission, beside held.
Grants == [s \in Symbols |-> Pending(s)]

Taken(s) == trade[s] > 0 \/ (order[s].side = "BUY" /\ order[s].exec > 0)

Open == {s \in Symbols : Taken(s)}

\* EntryAdmission counts and adds as this module does.
LEMMA AdmissionCounts ==
    /\ \A S : Admission!Cardinality(S) = Cardinality(S)
    /\ \A f : Admission!Sum(f) = Sum(f)
  <1>1. ASSUME NEW S PROVE Admission!Cardinality(S) = Cardinality(S)
    BY DEF Admission!Cardinality, Cardinality
  <1>2. ASSUME NEW f PROVE Admission!Sum(f) = Sum(f)
    BY DEF Admission!Sum, Sum, FoldFunction, FoldFunctionOnSet, MapThenFoldSet,
       Admission!FoldFunction, Admission!FoldFunctionOnSet, Admission!MapThenFoldSet
  <1> QED BY <1>1, <1>2

\* The actions of EntryAdmission in terms of held, Grants and Open.
LEMMA AdmissionIs ==
    ASSUME NEW s \in Symbols
    PROVE  /\ \A q : Admission!Grant(s, q) <=>
                /\ \A t \in Symbols : Grants[t] = 0
                /\ s \notin Open /\ Cardinality(Open) < MaxPositions
                /\ Outside + Sum(held) + q <= MaxExposure
                /\ Grants' = [Grants EXCEPT ![s] = q]
                /\ held' = held /\ Open' = Open
           /\ Admission!Buy(s) <=>
                /\ \E n \in 1 .. Grants[s] : held' = [held EXCEPT ![s] = @ + n]
                /\ Grants' = [Grants EXCEPT ![s] = 0]
                /\ Open' = Open \cup {s}
           /\ Admission!Lapse(s) <=>
                Grants' = [Grants EXCEPT ![s] = 0] /\ held' = held /\ Open' = Open
           /\ Admission!Sell(s) <=>
                /\ \E n \in 1 .. held[s] : held' = [held EXCEPT ![s] = @ - n]
                /\ Grants' = Grants /\ Open' = Open
           /\ Admission!Close(s) <=>
                /\ held[s] = 0 /\ Open' = Open \ {s}
                /\ held' = held /\ Grants' = Grants
  <1>1. \A q : Admission!Grant(s, q) <=>
                /\ \A t \in Symbols : Grants[t] = 0
                /\ s \notin Open /\ Cardinality(Open) < MaxPositions
                /\ Outside + Sum(held) + q <= MaxExposure
                /\ Grants' = [Grants EXCEPT ![s] = q]
                /\ held' = held /\ Open' = Open
    BY AdmissionCounts DEF Admission!Grant, Grants, Open, Taken
  <1>2. Admission!Buy(s) <=>
                /\ \E n \in 1 .. Grants[s] : held' = [held EXCEPT ![s] = @ + n]
                /\ Grants' = [Grants EXCEPT ![s] = 0]
                /\ Open' = Open \cup {s}
    BY DEF Admission!Buy, Grants, Open, Taken
  <1>3. Admission!Lapse(s) <=>
                Grants' = [Grants EXCEPT ![s] = 0] /\ held' = held /\ Open' = Open
    BY DEF Admission!Lapse, Grants, Open, Taken
  <1>4. Admission!Sell(s) <=>
                /\ \E n \in 1 .. held[s] : held' = [held EXCEPT ![s] = @ - n]
                /\ Grants' = Grants /\ Open' = Open
    BY DEF Admission!Sell, Grants, Open, Taken
  <1>5. Admission!Close(s) <=>
                /\ held[s] = 0 /\ Open' = Open \ {s}
                /\ held' = held /\ Grants' = Grants
    BY DEF Admission!Close, Grants, Open, Taken
  <1> QED BY <1>1, <1>2, <1>3, <1>4, <1>5

\* A step in which nothing is granted.
NoGrant ==
    \/ \E s \in Symbols : \/ Admission!Buy(s) \/ Admission!Lapse(s)
                          \/ Admission!Sell(s) \/ Admission!Close(s)
    \/ UNCHANGED <<held, Grants, Open>>

\* A step that changes the row, order and grant of no symbol but s.
OnlyAbout(s) ==
    \A t \in Symbols \ {s} :
        order'[t] = order[t] /\ asked'[t] = asked[t] /\ trade'[t] = trade[t]

\* What becomes of Grants and Open is decided by that symbol.
LEMMA AtOne ==
    ASSUME NEW s \in Symbols,
           OnlyAbout(s)
    PROVE  /\ Grants' = [Grants EXCEPT ![s] = Pending(s)']
           /\ Pending(s)' = Pending(s) => Grants' = Grants
           /\ Open' = IF Taken(s)' THEN Open \cup {s} ELSE Open \ {s}
           /\ (Taken(s)' <=> Taken(s)) => Open' = Open
  <1>1. \A t \in Symbols \ {s} : /\ Pending(t)' = Pending(t)
                                 /\ Taken(t)' <=> Taken(t)
    BY DEF Pending, Taken, OnlyAbout
  <1>2. Grants' = [t \in Symbols |-> Pending(t)']
    BY DEF Grants
  <1>3. Open' = {t \in Symbols : Taken(t)'}
    BY DEF Open
  <1>4. Grants' = [Grants EXCEPT ![s] = Pending(s)']
    BY <1>1, <1>2 DEF Grants
  <1>5. Pending(s)' = Pending(s) => Grants' = Grants
    BY <1>1, <1>2 DEF Grants
  <1>6. Open' = IF Taken(s)' THEN Open \cup {s} ELSE Open \ {s}
    BY <1>1, <1>3 DEF Open
  <1>7. (Taken(s)' <=> Taken(s)) => Open' = Open
    BY <1>1, <1>3 DEF Open
  <1> QED BY <1>4, <1>5, <1>6, <1>7

\* Rows and grants as they were, or a grant given up.
LEMMA Lapses ==
    ASSUME Core, NEW s \in Symbols, UNCHANGED <<trade, order, held>>,
           asked' = asked \/ asked' = [asked EXCEPT ![s] = 0]
    PROVE  NoGrant
  <1>1. /\ OnlyAbout(s)
        /\ Pending(s)' \in {Pending(s), 0}
        /\ Taken(s)' <=> Taken(s)
    BY DEF Core, TypeOK, Pending, Taken, OnlyAbout
  <1>2. Open' = Open /\ Grants' \in {Grants, [Grants EXCEPT ![s] = 0]}
    BY <1>1, AtOne
  <1> QED BY <1>2, AdmissionIs DEF NoGrant

\* A row is written down to what is there; it is closed when nothing is.
LEMMA Booking ==
    ASSUME Core, NEW s \in Symbols, held' = held, asked'[s] = 0, asked[s] = 0,
           OnlyAbout(s),
           order[s].state # "INFLIGHT", order'[s] = NoOrder, held[s] <= trade'[s],
           trade'[s] \in Nat, trade'[s] > 0 => Taken(s)
    PROVE  NoGrant
  <1>1. Pending(s) = 0 /\ Pending(s)' = 0
    BY DEF Pending, NoOrder
  <1>2. Taken(s)' <=> trade'[s] > 0
    BY DEF Taken, NoOrder
  <1>3. CASE Taken(s)' <=> Taken(s)
    BY <1>1, <1>3, AtOne DEF NoGrant
  <1>4. CASE Taken(s) /\ ~Taken(s)'
    <2>1. held[s] = 0
      BY <1>2, <1>4 DEF Core, TypeOK, Qty
    <2>2. Open' = Open \ {s} /\ Grants' = Grants
      BY <1>1, <1>4, AtOne
    <2> QED BY <2>1, <2>2, AdmissionIs DEF NoGrant
  <1> QED BY <1>2, <1>3, <1>4

\* The end of an order is booked.
LEMMA ResolveBooks ==
    ASSUME Core, NEW s \in Symbols, pc[s] # "entering", order[s].state = "DECIDED",
           Resolve(s), held' = held, asked' = asked \/ asked' = [asked EXCEPT ![s] = 0]
    PROVE  NoGrant
  <1>0. /\ TypeOK /\ OrderOK(s) /\ trade[s] \in Qty /\ order[s] \in Orders
        /\ asked[s] = 0 /\ asked \in [Symbols -> Qty]
    BY DEF Core, CycleOK, TypeOK, Qty
  <1>1. /\ \A t \in Symbols : trade'[t] = IF t = s THEN Booked(s) ELSE trade[t]
        /\ \A t \in Symbols : order'[t] = IF t = s THEN NoOrder ELSE order[t]
    BY <1>0 DEF Resolve, TypeOK
  <1>2. held[s] <= Booked(s) /\ Booked(s) \in Nat
    BY <1>0, BookedType, LimitsAssumption DEF OrderOK, Qty
  <1>3. Booked(s) > 0 => Taken(s)
    BY <1>0, LimitsAssumption DEF Booked, Taken, OrderOK, Orders, Qty
  <1>4. asked'[s] = 0 /\ \A t \in Symbols \ {s} : asked'[t] = asked[t]
    BY <1>0
  <1> QED BY <1>0, <1>1, <1>2, <1>3, <1>4, Booking DEF OnlyAbout

\* Every step but an approval grants nothing.
LEMMA AdmissionStep ==
    Core /\ Next => \/ \E s \in Symbols, q \in Qty \ {0} : Approve(s, q)
                    \/ NoGrant
  <1> SUFFICES ASSUME Core, Next,
                      ~ \E s \in Symbols, q \in Qty \ {0} : Approve(s, q)
               PROVE  NoGrant
    OBVIOUS
  <1>0. /\ TypeOK /\ \A t \in Symbols : CycleOK(t) /\ OrderOK(t)
        /\ \A t \in Symbols : /\ trade[t] \in Qty /\ held[t] \in Qty
                              /\ asked[t] \in Qty /\ order[t] \in Orders
    BY DEF Core, TypeOK
  <1>a. \A t \in Symbols : pc[t] # "entering" \/ order[t].side = "BUY" => asked[t] = 0
    BY <1>0 DEF CycleOK, Qty
  <1>1. ASSUME NEW s \in Symbols,
               \/ Ask(s) \/ Refuse(s) \/ AbandonEntry(s) \/ BuyUncertain(s)
               \/ EntryReturns(s) \/ SellUncertain(s)
               \/ CancelAsking(s) \/ CancelSubmit(s) \/ CancelSell(s)
        PROVE  NoGrant
    <2>1. UNCHANGED <<trade, order, held>> /\ asked' \in {asked, [asked EXCEPT ![s] = 0]}
      BY <1>1 DEF Ask, Refuse, AbandonEntry, BuyUncertain, EntryReturns,
         SellUncertain, CancelAsking, CancelSubmit, CancelSell, EndSubmit
    <2> QED BY <2>1, Lapses
  <1>2. ASSUME NEW s \in Symbols, SubmitBuy(s) PROVE NoGrant
    <2>1. /\ OnlyAbout(s)
          /\ order[s] = NoOrder /\ order'[s] = Sent("BUY", asked[s])
          /\ trade'[s] = trade[s] /\ held' = held
      BY <1>0, <1>2 DEF SubmitBuy, TypeOK, OnlyAbout
    <2>2. Pending(s)' = Pending(s) /\ (Taken(s)' <=> Taken(s))
      BY <2>1 DEF Pending, Taken, NoOrder, Sent
    <2> QED BY <2>1, <2>2, AtOne DEF NoGrant
  <1>3. ASSUME NEW s \in Symbols, SubmitSell(s) PROVE NoGrant
    <2>1. /\ OnlyAbout(s)
          /\ order[s] = NoOrder /\ order'[s] = Sent("SELL", trade[s])
          /\ trade'[s] = trade[s] /\ asked' = asked /\ held' = held
      BY <1>0, <1>3 DEF SubmitSell, TypeOK, OnlyAbout
    <2>2. Pending(s)' = Pending(s) /\ (Taken(s)' <=> Taken(s))
      BY <2>1 DEF Pending, Taken, NoOrder, Sent
    <2> QED BY <2>1, <2>2, AtOne DEF NoGrant
  <1>4. ASSUME NEW s \in Symbols, BuyRecorded(s) \/ BuyUnfilled(s) \/ SellRecorded(s)
        PROVE  NoGrant
    <2>1. /\ order[s].state = "DECIDED" /\ Resolve(s) /\ held' = held
          /\ pc[s] # "entering" /\ asked' \in {asked, [asked EXCEPT ![s] = 0]}
      BY <1>4 DEF BuyRecorded, BuyUnfilled, SellRecorded, EndSubmit
    <2> QED BY <2>1, ResolveBooks
  <1>5. ASSUME NEW s \in Symbols, pc[s] = "idle", order[s] = NoOrder,
               trade' = [trade EXCEPT ![s] = held[s]], UNCHANGED <<order, held, asked>>
        PROVE  NoGrant
    <2>1. /\ OnlyAbout(s)
          /\ trade'[s] = held[s] /\ asked[s] = 0 /\ held[s] <= trade[s]
      BY <1>0, <1>a, <1>5 DEF TypeOK, OrderOK, NoOrder, OnlyAbout
    <2>2. held[s] \in Nat /\ held[s] <= held[s] /\ (held[s] > 0 => Taken(s))
      BY <1>0, <2>1 DEF Taken, Qty
    <2> QED BY <1>5, <2>1, <2>2, Booking DEF NoOrder
  <1>6. ASSUME NEW s \in Symbols, ListRecorded(s) PROVE NoGrant
    BY <1>5, <1>6 DEF ListRecorded
  <1>7. ASSUME NEW s \in Symbols, Validate(s) PROVE NoGrant
    <2>1. pc[s] = "idle" /\ UNCHANGED <<held, asked>>
      BY <1>7 DEF Validate
    <2>2. CASE order[s].state = "DECIDED" /\ Resolve(s)
      BY <2>1, <2>2, ResolveBooks
    <2>3. CASE order[s] = NoOrder /\ trade' = [trade EXCEPT ![s] = held[s]] /\ UNCHANGED order
      BY <1>5, <2>1, <2>3
    <2>4. CASE UNCHANGED <<trade, order>>
      BY <2>1, <2>4, Lapses
    <2> QED BY <1>7, <2>2, <2>3, <2>4 DEF Validate
  <1>8. ASSUME NEW s \in Symbols, Decide(s) PROVE NoGrant
    <2>1. PICK n \in 0 .. order[s].qty : DecidedWith(s, n)
      BY <1>8, Decided
    <2> USE DEF DecidedWith
    <2>2. order[s].exec = 0
      BY <1>0, <2>1 DEF OrderOK
    <2>3. OnlyAbout(s)
      BY <2>1 DEF OnlyAbout
    <2>n. n \in Int /\ (n = 0 \/ n >= 1) /\ order[s].qty \in Qty
      BY <1>0, <2>1 DEF Orders, Qty
    <2>4. CASE order[s].side = "BUY"
      <3>1. Pending(s) = order[s].qty /\ Pending(s)' = 0 /\ Grants[s] = order[s].qty
        BY <1>a, <2>1, <2>4 DEF Pending, Grants
      <3>2. Grants' = [Grants EXCEPT ![s] = 0]
        BY <2>3, <3>1, AtOne
      <3>3. CASE n = 0
        <4>1. Taken(s)' <=> Taken(s)
          BY <2>1, <2>2, <3>3 DEF Taken
        <4>2. held' = held
          BY <1>0, <2>1, <2>4, <3>3 DEF TypeOK
        <4> QED BY <2>3, <3>2, <4>1, <4>2, AtOne, AdmissionIs DEF NoGrant
      <3>4. CASE n >= 1
        <4>1. Taken(s)'
          BY <2>1, <2>4, <2>n, <3>4 DEF Taken
        <4>2. n \in 1 .. Grants[s] /\ held' = [held EXCEPT ![s] = @ + n]
          BY <2>1, <2>4, <2>n, <3>1, <3>4
        <4>3. Open' = Open \cup {s}
          BY <2>3, <4>1, AtOne
        <4> QED BY <3>2, <4>2, <4>3, AdmissionIs DEF NoGrant
      <3> QED BY <2>n, <3>3, <3>4
    <2>5. CASE order[s].side # "BUY"
      <3>1. Pending(s)' = Pending(s) /\ (Taken(s)' <=> Taken(s))
        BY <2>1, <2>5 DEF Pending, Taken
      <3>2. Grants' = Grants /\ Open' = Open
        BY <2>3, <3>1, AtOne
      <3>3. CASE n = 0
        <4>1. held' = held
          BY <1>0, <2>1, <2>5, <3>3 DEF TypeOK, Qty
        <4> QED BY <3>2, <4>1 DEF NoGrant
      <3>4. CASE n >= 1
        <4>1. n \in 1 .. held[s] /\ held' = [held EXCEPT ![s] = @ - n]
          BY <1>0, <2>1, <2>5, <2>n, <3>4 DEF Qty
        <4> QED BY <3>2, <4>1, AdmissionIs DEF NoGrant
      <3> QED BY <2>n, <3>3, <3>4
    <2> QED BY <2>4, <2>5
  <1>9. ASSUME NEW s \in Symbols, ListFills(s) PROVE NoGrant
    <2>1. /\ UNCHANGED <<trade, order, asked>>
          /\ \E n \in 1 .. held[s] : held' = [held EXCEPT ![s] = @ - n]
      BY <1>9 DEF ListFills
    <2>2. Grants' = Grants /\ Open' = Open
      BY <2>1 DEF Grants, Open, Pending, Taken
    <2> QED BY <2>1, <2>2, AdmissionIs DEF NoGrant
  <1>10. ASSUME Poll \/ AccountAnswers \/ ValuationEnds \/ Close PROVE NoGrant
    <2>1. UNCHANGED <<trade, order, held, asked>>
      BY <1>10 DEF Poll, AccountAnswers, ValuationEnds, Close
    <2> QED BY <2>1 DEF NoGrant, Grants, Open, Pending, Taken
  <1>11. ASSUME Crash PROVE NoGrant
    <2>1. UNCHANGED <<trade, order, held>> /\ \A t \in Symbols : asked'[t] = 0
      BY <1>11 DEF Crash, Nothing
    <2>2. \A s, t \in Symbols : asked[s] > 0 /\ asked[t] > 0 => s = t
      BY DEF Core, BuyIsAlone, Buys
    <2>3. CASE \E s \in Symbols : asked[s] > 0
      <3>1. PICK s \in Symbols : asked[s] > 0
        BY <2>3
      <3>2. \A t \in Symbols \ {s} : asked[t] = 0
        BY <1>0, <2>2, <3>1 DEF Qty
      <3>3. OnlyAbout(s)
        BY <2>1, <3>2 DEF OnlyAbout
      <3>4. Pending(s)' = 0 /\ (Taken(s)' <=> Taken(s))
        BY <1>0, <2>1, <3>1 DEF Pending, Taken, CycleOK
      <3> QED BY <2>1, <3>3, <3>4, AtOne, AdmissionIs DEF NoGrant
    <2>4. CASE \A t \in Symbols : asked[t] = 0
      BY <2>1, <2>4 DEF NoGrant, Grants, Open, Pending, Taken
    <2> QED BY <1>0, <2>3, <2>4 DEF Qty
  <1> QED BY <1>1, <1>2, <1>3, <1>4, <1>6, <1>7, <1>8, <1>9, <1>10, <1>11
          DEF Next, EntryStep, ExitStep, Stop

-----------------------------------------------------------------------------
(* The snapshot. *)

\* A symbol whose BUY the snapshot need not know of.
Excused(s) == (order[s].side = "BUY" /\ validated[s]) \/ pc[s] = "protecting"

\* A snapshot that knew enough still does: what is bought is excused first,
\* and nobody who was excused is held to it again.
StillCovers ==
    \A b \in [Symbols -> Qty] : Covers(b) =>
        \A s \in Symbols : held'[s] > b[s] => Excused(s)'

\* SnapshotOK in terms of Excused.
LEMMA SnapshotIs ==
    SnapshotOK <=>
        /\ \A s \in Symbols : order[s].state = "INFLIGHT" => validated[s]
        /\ account.known =>
             \A s \in Symbols : held[s] > account.balances[s] => Excused(s)
        /\ account.request = "DONE" =>
             \A s \in Symbols : held[s] > account.answer[s] => Excused(s)
  BY DEF SnapshotOK, Covers, Excused

\* A step that leaves the cache alone.
LEMMA SnapshotKept ==
    ASSUME TypeOK, SnapshotOK, StillCovers, account' = account,
           \A s \in Symbols : order'[s].state = "INFLIGHT" => validated'[s]
    PROVE  SnapshotOK'
  <1>0. /\ account.balances \in [Symbols -> Qty]
        /\ account.answer \in [Symbols -> Qty]
    BY DEF TypeOK, Accounts
  <1>1. account.known =>
           \A s \in Symbols : held'[s] > account.balances[s] => Excused(s)'
    BY <1>0 DEF SnapshotOK, StillCovers
  <1>2. account.request = "DONE" =>
           \A s \in Symbols : held'[s] > account.answer[s] => Excused(s)'
    BY <1>0 DEF SnapshotOK, StillCovers
  <1> QED BY <1>1, <1>2 DEF SnapshotOK, Covers, Excused

\* A step that drops the cache.
LEMMA SnapshotDropped ==
    ASSUME account' = NoAccount,
           \A s \in Symbols : order'[s].state = "INFLIGHT" => validated'[s]
    PROVE  SnapshotOK'
  BY DEF SnapshotOK, NoAccount

\* It suffices that what grows is excused, and that no excuse ends.
LEMMA StillCoversIf ==
    ASSUME TypeOK, TypeOK',
           \A t \in Symbols :
               \/ Excused(t)'
               \/ ~Excused(t) /\ held'[t] <= held[t]
    PROVE  StillCovers
  <1> SUFFICES ASSUME NEW b \in [Symbols -> Qty], Covers(b), NEW t \in Symbols, ~Excused(t)'
               PROVE  ~(held'[t] > b[t])
    BY DEF StillCovers
  <1>1. ~(held[t] > b[t]) /\ held'[t] <= held[t]
    BY DEF Covers, Excused
  <1>2. held[t] \in Int /\ held'[t] \in Int /\ b[t] \in Int
    BY DEF TypeOK, Qty
  <1> QED BY <1>1, <1>2

\* A poll takes over an answer that covers, or keeps what did.
LEMMA PolledCovers ==
    ASSUME account \in Accounts, SnapshotOK
    PROVE  /\ Polled(account).known => Covers(Polled(account).balances)
           /\ Polled(account).request # "DONE"
  <1> DEFINE a == TakeValuation(account)
  <1>1. /\ a \in Accounts
        /\ a.known = account.known /\ a.balances = account.balances
        /\ a.request = account.request /\ a.answer = account.answer
    BY DEF TakeValuation, Accounts
  <1> HIDE DEF a
  <1>2. CASE a.request = "DONE"
    BY <1>1, <1>2 DEF SnapshotOK, TakeBalances, Polled, a
  <1>3. CASE a.request = "FAILED"
    <2>1. TakeBalances(a) = [NoAccount EXCEPT !.valuation = a.valuation]
      BY <1>3 DEF TakeBalances
    <2>2. TakeBalances(a).known = FALSE /\ TakeBalances(a).request = "NONE"
      BY <2>1 DEF NoAccount
    <2> QED BY <2>2 DEF Polled, a
  <1>4. CASE a.request \notin {"DONE", "FAILED"}
    <2>1. TakeBalances(a) = a
      BY <1>4 DEF TakeBalances
    <2> QED BY <1>1, <1>4, <2>1 DEF SnapshotOK, Polled, a
  <1> QED BY <1>2, <1>3, <1>4

\* No answer from before a BUY outlives the entry that made it.
LEMMA SnapshotStep == Core /\ RestartSettles /\ SnapshotOK /\ Next => SnapshotOK'
  <1> SUFFICES ASSUME Core, RestartSettles, SnapshotOK, Next PROVE SnapshotOK'
    OBVIOUS
  <1>0. /\ TypeOK /\ TypeOK'
        /\ \A t \in Symbols : CycleOK(t) /\ OrderOK(t)
        /\ \A t \in Symbols : order[t].state = "INFLIGHT" => validated[t]
        /\ \A t \in Symbols : pc[t] # "idle" => validated[t]
        /\ account \in Accounts
    BY TypeStep DEF Core, SnapshotOK, CycleOK, TypeOK
  <1>i. \A t \in Symbols : held[t] \in Int /\ held[t] <= held[t]
    BY <1>0 DEF TypeOK, Qty
  <1>1. ASSUME NEW s \in Symbols,
               \/ Ask(s) \/ \E q \in Qty \ {0} : Approve(s, q)
               \/ Refuse(s) \/ SellUncertain(s) \/ CancelAsking(s) \/ CancelSell(s)
        PROVE  SnapshotOK'
    <2>1. /\ UNCHANGED <<order, held, validated, account>>
          /\ pc[s] # "protecting"
          /\ \/ pc' = [pc EXCEPT ![s] = "asking"] \/ pc' = [pc EXCEPT ![s] = "entering"]
             \/ pc' = [pc EXCEPT ![s] = "idle"]
      BY <1>1 DEF Ask, Approve, Refuse, SellUncertain, CancelAsking, CancelSell, Goto
    <2>2. \A t \in Symbols : Excused(t)' <=> Excused(t)
      BY <1>0, <2>1 DEF Excused, TypeOK
    <2>3. StillCovers
      BY <1>0, <1>i, <2>1, <2>2, StillCoversIf
    <2> QED BY <1>0, <2>1, <2>3, SnapshotKept
  <1>2. ASSUME NEW s \in Symbols,
               \/ AbandonEntry(s) \/ BuyUncertain(s) \/ EntryReturns(s)
               \/ ListRecorded(s) \/ CancelSubmit(s)
        PROVE  SnapshotOK'
    <2>1. account' = NoAccount /\ UNCHANGED <<order, validated>>
      BY <1>2 DEF AbandonEntry, BuyUncertain, EntryReturns, ListRecorded,
         CancelSubmit, EndSubmit, InvalidateAccount
    <2> QED BY <1>0, <2>1, SnapshotDropped
  <1>3. ASSUME NEW s \in Symbols, BuyUnfilled(s) \/ SellRecorded(s) PROVE SnapshotOK'
    <2>1. /\ account' = NoAccount /\ order' = [order EXCEPT ![s] = NoOrder]
          /\ validated' = validated
      BY <1>3 DEF BuyUnfilled, SellRecorded, EndSubmit, InvalidateAccount, Resolve
    <2>2. \A t \in Symbols : order'[t].state = "INFLIGHT" => validated'[t]
      BY <1>0, <2>1 DEF NoOrder, TypeOK
    <2> QED BY <2>1, <2>2, SnapshotDropped
  <1>4. ASSUME NEW s \in Symbols, SubmitBuy(s) \/ SubmitSell(s) PROVE SnapshotOK'
    <2>1. /\ \A t \in Symbols \ {s} : order'[t] = order[t] /\ pc'[t] = pc[t]
          /\ pc[s] # "protecting" /\ order[s] = NoOrder /\ validated[s]
          /\ UNCHANGED <<held, validated, account>>
      BY <1>0, <1>4 DEF SubmitBuy, SubmitSell, Goto, TypeOK
    <2>2. \A t \in Symbols \ {s} : Excused(t)' <=> Excused(t)
      BY <2>1 DEF Excused
    <2>3. ~Excused(s)
      BY <2>1 DEF Excused, NoOrder
    <2>4. StillCovers
      BY <1>0, <1>i, <2>1, <2>2, <2>3, StillCoversIf
    <2>5. \A t \in Symbols : order'[t].state = "INFLIGHT" => validated'[t]
      BY <1>0, <2>1
    <2> QED BY <1>0, <2>1, <2>4, <2>5, SnapshotKept
  <1>5. ASSUME NEW s \in Symbols, BuyRecorded(s) PROVE SnapshotOK'
    <2>1. /\ \A t \in Symbols \ {s} : order'[t] = order[t] /\ pc'[t] = pc[t]
          /\ pc'[s] = "protecting" /\ order'[s] = NoOrder
          /\ UNCHANGED <<held, validated, account>>
      BY <1>0, <1>5 DEF BuyRecorded, Resolve, Goto, TypeOK
    <2>2. \A t \in Symbols \ {s} : Excused(t)' <=> Excused(t)
      BY <2>1 DEF Excused
    <2>3. Excused(s)'
      BY <2>1 DEF Excused
    <2>4. StillCovers
      BY <1>0, <1>i, <2>1, <2>2, <2>3, StillCoversIf
    <2>5. \A t \in Symbols : order'[t].state = "INFLIGHT" => validated'[t]
      BY <1>0, <2>1 DEF NoOrder
    <2> QED BY <1>0, <2>1, <2>4, <2>5, SnapshotKept
  <1>6. ASSUME NEW s \in Symbols, Validate(s) PROVE SnapshotOK'
    <2>1. /\ \A t \in Symbols \ {s} : order'[t] = order[t] /\ validated'[t] = validated[t]
          /\ ~validated[s] /\ pc[s] = "idle"
          /\ UNCHANGED <<held, pc, account>>
          /\ order'[s] = NoOrder \/ order'[s] = order[s]
      BY <1>0, <1>6 DEF Validate, Resolve, TypeOK
    <2>2. \A t \in Symbols \ {s} : Excused(t)' <=> Excused(t)
      BY <2>1 DEF Excused
    <2>3. ~Excused(s)
      BY <2>1 DEF Excused
    <2>4. StillCovers
      BY <1>0, <1>i, <2>1, <2>2, <2>3, StillCoversIf
    <2>5. \A t \in Symbols : order'[t].state = "INFLIGHT" => validated'[t]
      BY <1>0, <1>i, <2>1 DEF NoOrder, SnapshotOK
    <2> QED BY <1>0, <2>1, <2>4, <2>5, SnapshotKept
  <1>7. ASSUME NEW s \in Symbols, Decide(s) PROVE SnapshotOK'
    <2>1. PICK n \in 0 .. order[s].qty : DecidedWith(s, n)
      BY <1>7, Decided
    <2> USE DEF DecidedWith
    <2>2. /\ \A t \in Symbols : Excused(t)' <=> Excused(t)
          /\ \A t \in Symbols \ {s} : held'[t] = held[t]
      BY <1>0, <2>1 DEF Excused, TypeOK
    <2>3. order[s].side = "BUY" => Excused(s)'
      BY <1>0, <2>1, <2>2 DEF Excused
    <2>n. order[s] \in Orders /\ n \in Nat
      BY <1>0, <2>1 DEF TypeOK, Orders, Qty
    <2>4. order[s].side # "BUY" => held'[s] <= held[s]
      <3>1. order[s].side # "BUY" => held'[s] = held[s] - n
        BY <1>0, <2>1 DEF TypeOK
      <3> QED BY <1>i, <2>n, <3>1
    <2>5. StillCovers
      BY <1>0, <1>i, <2>2, <2>3, <2>4, StillCoversIf
    <2>6. \A t \in Symbols : order'[t].state = "INFLIGHT" => validated'[t]
      BY <1>0, <2>1
    <2> QED BY <1>0, <2>1, <2>5, <2>6, SnapshotKept
  <1>8. ASSUME NEW s \in Symbols, ListFills(s) PROVE SnapshotOK'
    <2>1. PICK n \in 1 .. held[s] : held' = [held EXCEPT ![s] = @ - n]
      BY <1>8 DEF ListFills
    <2>2. UNCHANGED <<order, validated, pc, account>>
      BY <1>8 DEF ListFills
    <2>3. \A t \in Symbols : held'[t] = IF t = s THEN held[t] - n ELSE held[t]
      BY <1>0, <2>1 DEF TypeOK
    <2>4. \A t \in Symbols : held'[t] <= held[t]
      BY <1>i, <2>1, <2>3
    <2>5. \A t \in Symbols : Excused(t)' <=> Excused(t)
      BY <2>2 DEF Excused
    <2>6. StillCovers
      BY <1>0, <2>4, <2>5, StillCoversIf
    <2> QED BY <1>0, <2>2, <2>6, SnapshotKept
  <1>9. ASSUME Poll \/ AccountAnswers \/ ValuationEnds PROVE SnapshotOK'
    <2>1. UNCHANGED <<order, held, validated, pc>>
      BY <1>9 DEF Poll, AccountAnswers, ValuationEnds
    <2>2. \A t \in Symbols : (Excused(t)' <=> Excused(t)) /\ held'[t] = held[t]
      BY <2>1 DEF Excused
    <2>3. /\ account'.known =>
                \A t \in Symbols : held[t] > account'.balances[t] => Excused(t)
          /\ account'.request = "DONE" =>
                \A t \in Symbols : held[t] > account'.answer[t] => Excused(t)
      <3>1. CASE Poll
        <4>1. /\ account'.known = Polled(account).known
              /\ account'.balances = Polled(account).balances
              /\ account'.request \in {Polled(account).request, "PENDING"}
          BY <1>0, <3>1, AccountTypes DEF Poll, Accounts
        <4> QED BY <1>0, <4>1, PolledCovers DEF Covers, Excused
      <3>2. CASE AccountAnswers
        <4>1. /\ account'.known = account.known /\ account'.balances = account.balances
              /\ account'.request = "DONE" => account'.answer = held
          BY <1>0, <3>2 DEF AccountAnswers, Accounts
        <4> QED BY <1>i, <4>1, SnapshotIs
      <3>3. CASE ValuationEnds
        <4>1. /\ account'.known = account.known /\ account'.balances = account.balances
              /\ account'.request = account.request /\ account'.answer = account.answer
          BY <1>0, <3>3 DEF ValuationEnds, Accounts
        <4> QED BY <4>1, SnapshotIs
      <3> QED BY <1>9, <3>1, <3>2, <3>3
    <2> QED BY <1>0, <2>1, <2>2, <2>3 DEF SnapshotOK, Covers, Excused
  <1>10. ASSUME Close PROVE SnapshotOK'
    BY <1>0, <1>10, SnapshotDropped DEF Close, InvalidateAccount
  <1>11. ASSUME Crash PROVE SnapshotOK'
    BY <1>11, SnapshotDropped DEF Crash
  <1> QED BY <1>1, <1>2, <1>3, <1>4, <1>5, <1>6, <1>7, <1>8, <1>9, <1>10, <1>11
          DEF Next, EntryStep, ExitStep, Stop

-----------------------------------------------------------------------------
(* The limits. *)

\* Lots that are held, granted and committed.
Counts ==
    /\ held \in [Symbols -> Int] /\ Committed \in [Symbols -> Int]
    /\ \A s \in Symbols : /\ held[s] \in Nat /\ Grants[s] \in Nat
                          /\ Committed[s] = held[s] + Grants[s]

\* All of these are numbers of lots.
LEMMA Numbers == TypeOK => Counts
  <1> SUFFICES ASSUME TypeOK PROVE Counts
    OBVIOUS
  <1>1. ASSUME NEW s \in Symbols
        PROVE  held[s] \in Nat /\ Pending(s) \in Nat
    BY LimitsAssumption DEF TypeOK, Pending, Orders, Qty
  <1> QED BY <1>1 DEF TypeOK, Qty, Committed, Grants, Counts

\* Without a grant neither what is committed nor who has a slot grows.
LEMMA NoGrantShrinks ==
    ASSUME TypeOK, TypeOK', NoGrant, NEW t \in Symbols
    PROVE  /\ TakesSlot(t)' => TakesSlot(t)
           /\ Committed'[t] <= Committed[t]
  <1>0. /\ TakesSlot(t) <=> t \in Open \/ Grants[t] > 0
        /\ TakesSlot(t)' <=> t \in Open' \/ Grants'[t] > 0
    BY DEF TakesSlot, Open, Taken, Grants
  <1>1. /\ Committed[t] = held[t] + Grants[t] /\ held[t] \in Nat /\ Grants[t] \in Nat
        /\ Committed'[t] = held'[t] + Grants'[t] /\ held'[t] \in Nat /\ Grants'[t] \in Nat
    <2>1. Counts /\ Counts'
      BY Numbers, PTL
    <2> QED BY <2>1 DEF Counts
  <1>2. \A s \in Symbols : Grants[s] \in Nat /\ held[s] \in Nat
    BY Numbers DEF Counts
  <1>3. held \in [Symbols -> Int] /\ DOMAIN Grants = Symbols
    BY Numbers DEF Grants, Counts
  <1>4. ASSUME NEW s \in Symbols, Admission!Buy(s)
        PROVE  /\ t \in Open' \/ Grants'[t] > 0 => t \in Open \/ Grants[t] > 0
               /\ held'[t] + Grants'[t] <= held[t] + Grants[t]
    <2>1. PICK n \in 1 .. Grants[s] : held' = [held EXCEPT ![s] = @ + n]
      BY <1>4, AdmissionIs
    <2>2. /\ Grants' = [Grants EXCEPT ![s] = 0] /\ Open' = Open \cup {s}
      BY <1>4, AdmissionIs
    <2>3. CASE t = s
      BY <1>2, <1>3, <2>1, <2>2, <2>3
    <2>4. CASE t # s
      BY <1>2, <1>3, <2>1, <2>2, <2>4
    <2> QED BY <2>3, <2>4
  <1>5. ASSUME NEW s \in Symbols, Admission!Lapse(s)
        PROVE  /\ t \in Open' \/ Grants'[t] > 0 => t \in Open \/ Grants[t] > 0
               /\ held'[t] + Grants'[t] <= held[t] + Grants[t]
    BY <1>2, <1>3, <1>5, AdmissionIs
  <1>6. ASSUME NEW s \in Symbols, Admission!Sell(s)
        PROVE  /\ t \in Open' \/ Grants'[t] > 0 => t \in Open \/ Grants[t] > 0
               /\ held'[t] + Grants'[t] <= held[t] + Grants[t]
    <2>1. PICK n \in 1 .. held[s] : held' = [held EXCEPT ![s] = @ - n]
      BY <1>6, AdmissionIs
    <2>2. Grants' = Grants /\ Open' = Open
      BY <1>6, AdmissionIs
    <2> QED BY <1>2, <1>3, <2>1, <2>2
  <1>7. ASSUME NEW s \in Symbols, Admission!Close(s)
        PROVE  /\ t \in Open' \/ Grants'[t] > 0 => t \in Open \/ Grants[t] > 0
               /\ held'[t] + Grants'[t] <= held[t] + Grants[t]
    BY <1>2, <1>3, <1>7, AdmissionIs
  <1>8. ASSUME UNCHANGED <<held, Grants, Open>>
        PROVE  /\ t \in Open' \/ Grants'[t] > 0 => t \in Open \/ Grants[t] > 0
               /\ held'[t] + Grants'[t] <= held[t] + Grants[t]
    BY <1>2, <1>8
  <1> QED BY <1>0, <1>1, <1>4, <1>5, <1>6, <1>7, <1>8 DEF NoGrant

\* What is true when an entry is approved: nothing else is under way.
LEMMA Approved ==
    ASSUME Core, NEW s \in Symbols, NEW q \in Qty \ {0}, Approve(s, q)
    PROVE  /\ \A t \in Symbols : Grants[t] = 0 /\ (Taken(t) <=> trade[t] > 0)
           /\ s \notin Open /\ Open = {t \in Symbols : trade[t] > 0}
           /\ Grants' = [Grants EXCEPT ![s] = q]
           /\ held' = held /\ Open' = Open
           /\ \A t \in Symbols : ~Excused(t)
  <1>0. /\ TypeOK /\ LockOK /\ \A t \in Symbols : CycleOK(t)
        /\ \A t \in Symbols : asked[t] \in Qty
    BY DEF Core, TypeOK
  <1>1. /\ pc[s] = "asking" /\ HasLock(s) /\ trade[s] = 0
        /\ \A t \in Symbols : order[t] = NoOrder
        /\ UNCHANGED <<trade, order, held>>
        /\ \A t \in Symbols : asked'[t] = IF t = s THEN q ELSE asked[t]
    BY <1>0 DEF Approve, PortfolioSettled, TypeOK
  <1>2. \A t \in Symbols : pc[t] \notin Admitted
    BY <1>0, <1>1, OneInside DEF Admitted
  <1>3. \A t \in Symbols : asked[t] = 0
    BY <1>0, <1>2 DEF CycleOK, Admitted, Qty
  <1>4. \A t \in Symbols : Pending(t) = 0 /\ (Taken(t) <=> trade[t] > 0)
    BY <1>1, <1>3 DEF Pending, Taken, NoOrder
  <1>5. \A t \in Symbols : Pending(t)' = IF t = s THEN q ELSE 0
    BY <1>1, <1>3 DEF Pending, NoOrder
  <1>6. \A t \in Symbols : Grants[t] = 0
    BY <1>4 DEF Grants
  <1>7. Grants' = [Grants EXCEPT ![s] = q]
    BY <1>4, <1>5 DEF Grants
  <1>8. Open = {t \in Symbols : trade[t] > 0} /\ Open' = Open
    BY <1>1, <1>4 DEF Open, Taken
  <1>9. s \notin Open
    BY <1>1, <1>8
  <1>10. \A t \in Symbols : ~Excused(t)
    BY <1>1, <1>2 DEF Excused, NoOrder, Admitted
  <1> QED BY <1>1, <1>4, <1>6, <1>7, <1>8, <1>9, <1>10

\* The symbols that SlotsKept counts.
Slots == {s \in Symbols : TakesSlot(s)}

\* A grant takes a slot that is free; nothing else takes one.
LEMMA SlotsStep == Core /\ SlotsKept /\ Next => SlotsKept'
  <1> SUFFICES ASSUME Core, SlotsKept, Next PROVE SlotsKept'
    OBVIOUS
  <1> USE LimitsAssumption
  <1>0. TypeOK /\ TypeOK'
    BY TypeStep DEF Core
  <1>1. /\ IsFiniteSet(Slots) /\ Slots' = {s \in Symbols : TakesSlot(s)'}
        /\ Cardinality(Slots) \in Nat /\ Cardinality(Slots) <= MaxPositions
    BY FS_Subset, FS_CardinalityType DEF Slots, SlotsKept
  <1>2. ASSUME NoGrant PROVE SlotsKept'
    <2>1. Slots' \subseteq Slots
      BY <1>0, <1>1, <1>2, NoGrantShrinks DEF Slots
    <2>2. Cardinality(Slots') <= Cardinality(Slots) /\ Cardinality(Slots') \in Nat
      BY <1>1, <2>1, FS_Subset, FS_CardinalityType
    <2>3. Cardinality(Slots') <= MaxPositions
      BY <1>1, <2>2
    <2> QED BY <2>3 DEF SlotsKept, Slots
  <1>3. ASSUME NEW s \in Symbols, NEW q \in Qty \ {0}, Approve(s, q) PROVE SlotsKept'
    <2>1. /\ Open = {t \in Symbols : trade[t] > 0} /\ s \notin Open /\ Open' = Open
          /\ Grants' = [Grants EXCEPT ![s] = q] /\ \A t \in Symbols : Grants[t] = 0
      BY <1>3, Approved
    <2>2. \A t \in Symbols : TakesSlot(t)' <=> t \in Open' \/ Grants'[t] > 0
      BY DEF TakesSlot, Open, Taken, Grants
    <2>g. \A t \in Symbols : Grants'[t] = IF t = s THEN q ELSE 0
      BY <2>1 DEF Grants
    <2>a. \A t \in Symbols : TakesSlot(t)' => t \in Open \cup {s}
      BY <2>1, <2>2, <2>g
    <2>3. Slots' \subseteq Open \cup {s}
      BY <1>1, <2>a
    <2>4. IsFiniteSet(Open) /\ Cardinality(Open) < MaxPositions /\ Cardinality(Open) \in Nat
      BY <1>3, <2>1, FS_Subset, FS_CardinalityType DEF Approve, SlotFree
    <2>5. IsFiniteSet(Open \cup {s}) /\ Cardinality(Open \cup {s}) = Cardinality(Open) + 1
      BY <2>1, <2>4, FS_AddElement
    <2>6. Cardinality(Slots') <= Cardinality(Open \cup {s}) /\ Cardinality(Slots') \in Nat
      BY <2>3, <2>5, FS_Subset, FS_CardinalityType
    <2>7. Cardinality(Slots') <= MaxPositions
      BY <2>4, <2>5, <2>6
    <2> QED BY <2>7 DEF SlotsKept, Slots
  <1> QED BY <1>2, <1>3, AdmissionStep

\* The snapshot that an approval reads shows no less than what is there.
LEMMA ApprovedWithin ==
    ASSUME Core, SnapshotOK, NEW s \in Symbols, NEW q \in Qty \ {0}, Approve(s, q)
    PROVE  Sum(held) \in Int /\ Outside + Sum(held) + q <= MaxExposure
  <1>0. TypeOK /\ held \in [Symbols -> Int] /\ Outside \in Int /\ q \in Int /\ MaxExposure \in Int
    BY Numbers, LimitsAssumption DEF Core, Qty, Counts
  <1>1. account.balances \in [Symbols -> Int] /\ account.balances \in [Symbols -> Qty]
    BY <1>0 DEF TypeOK, Accounts, Qty
  <1>2. /\ account.known
        /\ Sum(account.balances) + Outside + q <= MaxExposure
    BY DEF Approve, Usable, Exposure
  <1>3. \A t \in Symbols : ~(held[t] > account.balances[t])
    BY <1>2, Approved DEF SnapshotOK, Covers, Excused
  <1>4. \A t \in Symbols : held[t] <= account.balances[t]
    BY <1>0, <1>1, <1>3
  <1>5. /\ Sum(held) \in Int /\ Sum(account.balances) \in Int
        /\ Sum(held) <= Sum(account.balances)
    BY <1>0, <1>1, <1>4, SumMono, LimitsAssumption
  <1> QED BY <1>0, <1>2, <1>5

\* A grant stays within the limit; nothing else commits more.
LEMMA ExposureStep == Core /\ SnapshotOK /\ ExposureKept /\ Next => ExposureKept'
  <1> SUFFICES ASSUME Core, SnapshotOK, ExposureKept, Next PROVE ExposureKept'
    OBVIOUS
  <1>0. /\ TypeOK /\ TypeOK' /\ Outside \in Int /\ MaxExposure \in Int
    BY TypeStep, LimitsAssumption DEF Core
  <1>c. Counts /\ Counts'
    BY <1>0, Numbers, PTL
  <1>1. held \in [Symbols -> Int] /\ Committed \in [Symbols -> Int]
    BY <1>c DEF Counts
  <1>2. Committed' \in [Symbols -> Int]
    BY <1>c DEF Counts
  <1>3. ASSUME NoGrant PROVE ExposureKept'
    <2>1. \A t \in Symbols : Committed'[t] <= Committed[t]
      BY <1>0, <1>3, NoGrantShrinks
    <2>2. /\ Sum(Committed) \in Int /\ Sum(Committed') \in Int
          /\ Sum(Committed') <= Sum(Committed)
      BY <1>1, <1>2, <2>1, SumMono, LimitsAssumption
    <2>3. Outside + Sum(Committed) <= MaxExposure
      BY DEF ExposureKept
    <2>4. Outside + Sum(Committed') <= MaxExposure
      BY <1>0, <2>2, <2>3
    <2> QED BY <2>4 DEF ExposureKept
  <1>4. ASSUME NEW s \in Symbols, NEW q \in Qty \ {0}, Approve(s, q) PROVE ExposureKept'
    <2>1. /\ Grants' = [Grants EXCEPT ![s] = q] /\ held' = held
          /\ \A t \in Symbols : Grants[t] = 0
      BY <1>4, Approved
    <2>2. \A t \in Symbols : Grants'[t] = IF t = s THEN q ELSE 0
      BY <2>1 DEF Grants
    <2>3. \A t \in Symbols : Committed'[t] = IF t = s THEN held[t] + q ELSE held[t]
      BY <1>c, <2>1, <2>2 DEF Counts
    <2>5. Sum(held) \in Int /\ Outside + Sum(held) + q <= MaxExposure /\ q \in Int
      BY <1>4, ApprovedWithin DEF Qty
    <2>6. ASSUME NEW h \in [Symbols -> Int],
                 \A t \in Symbols : h[t] = IF t = s THEN held[t] + q ELSE held[t]
          PROVE  Outside + Sum(h) <= MaxExposure
      <3>a. IsFiniteSet(Symbols) /\ held \in [Symbols -> Int] /\ q \in Int
        BY <1>1, <2>5, LimitsAssumption
      <3>1. Sum(h) = Sum(held) + q
        BY ONLY <2>6, <3>a, SumAdd
      <3> QED BY <1>0, <2>5, <3>1
    <2>7. Outside + Sum(Committed') <= MaxExposure
      BY <1>2, <2>3, <2>6
    <2> QED BY <2>7 DEF ExposureKept
  <1> QED BY <1>3, <1>4, AdmissionStep

-----------------------------------------------------------------------------
(* The theorems. *)

\* IInv in terms of what the lemmas are about.
LEMMA IInvParts ==
    ASSUME TypeOK
    PROVE  IInv <=> /\ Core /\ SlotsKept
                    /\ RestartSettles => SnapshotOK /\ ExposureKept
  BY LockParts DEF IInv, Core

\* Nothing is owned, sent or known at the start.
LEMMA InitIInv == Init => IInv
  <1> SUFFICES ASSUME Init PROVE IInv
    OBVIOUS
  <1> USE LimitsAssumption
  <1>1. /\ trade = Nothing /\ held = Nothing /\ asked = Nothing
        /\ \A s \in Symbols : /\ trade[s] = 0 /\ held[s] = 0 /\ asked[s] = 0
                              /\ order[s] = NoOrder /\ validated[s] = FALSE
                              /\ pc[s] = "idle"
        /\ line = <<>> /\ account = NoAccount
    BY DEF Init, Nothing
  <1>2. TypeOK
    <2>1. NoOrder \in Orders /\ 0 \in Qty
      BY OrderTypes DEF Qty
    <2>2. Nothing \in [Symbols -> Qty]
      BY <2>1 DEF Nothing
    <2>3. NoAccount \in Accounts
      BY <2>2 DEF NoAccount, Accounts
    <2> QED BY <2>1, <2>2, <2>3 DEF Init, TypeOK
  <1>3. LockOK
    <2>1. InLine = {}
      BY <1>1 DEF InLine, Admitted
    <2>2. Queue(<<>>, {})
      BY DEF Queue
    <2> QED BY <1>1, <2>1, <2>2 DEF LockOK, Admitted
  <1>4. /\ BuyIsAlone /\ SnapshotOK
        /\ \A s \in Symbols : CycleOK(s) /\ OrderOK(s)
    BY <1>1 DEF BuyIsAlone, Buys, CycleOK, OrderOK, SnapshotOK, NoOrder, NoAccount
  <1>5. \A s \in Symbols : Pending(s) = 0 /\ ~TakesSlot(s)
    BY <1>1 DEF Pending, TakesSlot, NoOrder
  <1>6. SlotsKept
    <2>1. {s \in Symbols : TakesSlot(s)} = {}
      BY <1>5
    <2> QED BY <2>1, FS_EmptySet DEF SlotsKept
  <1>7. ExposureKept
    <2>1. Committed = [s \in Symbols |-> 0]
      BY <1>1, <1>5 DEF Committed
    <2>2. Sum(Committed) = 0
      BY <2>1, SumZero
    <2> QED BY <2>2 DEF ExposureKept
  <1> QED BY <1>2, <1>3, <1>4, <1>6, <1>7, IInvParts DEF Core

\* Each part of IInv is kept by the lemma about it.
LEMMA StepIInv == IInv /\ [Next]_vars => IInv'
  <1> SUFFICES ASSUME IInv, [Next]_vars PROVE IInv'
    OBVIOUS
  <1>1. CASE UNCHANGED vars
    BY <1>1 DEF vars, IInv, TypeOK, LockHeldByCycle, HasLock, BuyIsAlone, Buys,
       CycleOK, OrderOK, Booked, SlotsKept, TakesSlot, Pending, SnapshotOK,
       Covers, ExposureKept, Committed
  <1>2. CASE Next
    <2>1. Core /\ SlotsKept /\ (RestartSettles => SnapshotOK /\ ExposureKept)
      BY IInvParts DEF IInv
    <2>2. TypeOK' /\ LockOK' /\ BuyIsAlone' /\ \A s \in Symbols : CycleOK(s)' /\ OrderOK(s)'
      BY <1>2, <2>1, TypeStep, LockStep, CycleStep, OrderStep
    <2>3. SlotsKept'
      BY <1>2, <2>1, SlotsStep
    <2>4. RestartSettles => SnapshotOK' /\ ExposureKept'
      BY <1>2, <2>1, SnapshotStep, ExposureStep
    <2>5. (TypeOK => (LockHeldByCycle <=> LockOK))'
      BY LockParts, PTL
    <2> QED BY <2>2, <2>3, <2>4, <2>5 DEF IInv
  <1> QED BY <1>1, <1>2

\* The invariant holds, whatever the exchange and the process do: rows, orders,
\* lock and snapshot stay as execute_entry takes them to be.
THEOREM EntryInvariance == Spec => []IInv
  BY InitIInv, StepIInv, PTL DEF Spec

\* The entry lock belongs to live cycles only, in turn.
THEOREM LockBelongsToCycles == Spec => []LockHeldByCycle
  <1>1. IInv => LockHeldByCycle
    BY DEF IInv
  <1> QED BY <1>1, EntryInvariance, PTL

\* Positions and possible positions keep to MAX_CONCURRENT_POSITIONS.
THEOREM SlotsStayKept == Spec => []SlotsKept
  <1>1. IInv => SlotsKept
    BY DEF IInv
  <1> QED BY <1>1, EntryInvariance, PTL

\* Two symbols never buy at a time, whether or not orders outlive a process.
THEOREM BuysOneAtATime == Spec => []OneBuyAtATime
  <1>1. IInv => OneBuyAtATime
    <2> SUFFICES ASSUME IInv PROVE OneBuyAtATime
      OBVIOUS
    <2> DEFINE buying == {s \in Symbols : asked[s] > 0 \/ order[s].side = "BUY"}
    <2>1. \A s, t \in buying : s = t
      BY DEF IInv, BuyIsAlone, Buys
    <2>2. buying = {} \/ \E s : buying = {s}
      BY <2>1
    <2>3. Cardinality(buying) \in {0, 1}
      <3> HIDE DEF buying
      <3> QED BY <2>2, FS_EmptySet, FS_Singleton
    <2> QED BY <2>3 DEF OneBuyAtATime
  <1> QED BY <1>1, EntryInvariance, PTL

\* A snapshot that an entry may be approved by shows all the account holds.
THEOREM SnapshotCovers ==
    ASSUME RestartSettles
    PROVE  Spec => []SnapshotCoversHoldings
  <1>1. IInv => SnapshotCoversHoldings
    <2> SUFFICES ASSUME IInv, Usable, PortfolioSettled,
                        \A s \in Symbols : pc[s] # "protecting",
                        NEW s \in Symbols
                 PROVE  held[s] <= account.balances[s]
      BY DEF SnapshotCoversHoldings
    <2>1. SnapshotOK /\ TypeOK
      BY DEF IInv
    <2>2. ~(held[s] > account.balances[s])
      BY <2>1 DEF Usable, PortfolioSettled, NoOrder, SnapshotOK, Covers
    <2>3. held[s] \in Int /\ account.balances[s] \in Int
      BY <2>1 DEF TypeOK, Accounts, Qty
    <2> QED BY <2>2, <2>3
  <1> QED BY <1>1, EntryInvariance, PTL

\* What is held and what may still be bought stay within the exposure limit.
THEOREM ExposureStaysKept ==
    ASSUME RestartSettles
    PROVE  Spec => []ExposureKept
  <1>1. IInv => ExposureKept
    BY DEF IInv
  <1> QED BY <1>1, EntryInvariance, PTL

-----------------------------------------------------------------------------
(* The coordinator implements EntryAdmission. *)

\* Nothing is held, granted or open at first.
LEMMA AdmissionInit == Init => Admission!Init
  <1> SUFFICES ASSUME Init PROVE Admission!Init
    OBVIOUS
  <1>1. held = [s \in Symbols |-> 0]
    BY DEF Init, Nothing
  <1>2. \A s \in Symbols : order[s] = NoOrder /\ asked[s] = 0 /\ trade[s] = 0
    BY DEF Init, Nothing
  <1>3. \A s \in Symbols : Pending(s) = 0 /\ ~Taken(s)
    BY <1>2 DEF Pending, Taken, NoOrder
  <1> QED BY <1>1, <1>3 DEF Admission!Init, Taken

\* An approval is a grant: what it reads covers what EntryAdmission sees.
LEMMA AdmissionNext ==
    ASSUME RestartSettles, IInv, [Next]_vars
    PROVE  [Admission!Next]_(Admission!vars)
  <1>v. Admission!vars' = Admission!vars <=> UNCHANGED <<held, Grants, Open>>
    BY DEF Admission!vars, Grants, Open, Taken
  <1>1. CASE UNCHANGED vars
    BY <1>1, <1>v DEF vars, Grants, Open, Pending, Taken
  <1>2. CASE Next
    <2>1. Core /\ SnapshotOK
      BY IInvParts DEF IInv
    <2>2. CASE NoGrant
      BY <1>v, <2>2 DEF NoGrant, Admission!Next
    <2>3. ASSUME NEW s \in Symbols, NEW q \in Qty \ {0}, Approve(s, q)
          PROVE  Admission!Next
      <3>1. Outside + Sum(held) + q <= MaxExposure
        BY <2>1, <2>3, ApprovedWithin
      <3>2. /\ \A t \in Symbols : Grants[t] = 0
            /\ s \notin Open /\ Open = {t \in Symbols : trade[t] > 0}
            /\ Grants' = [Grants EXCEPT ![s] = q]
            /\ held' = held /\ Open' = Open
        BY <2>1, <2>3, Approved
      <3>3. Cardinality(Open) < MaxPositions
        BY <2>3, <3>2 DEF Approve, SlotFree
      <3>4. Admission!Grant(s, q)
        BY <3>1, <3>2, <3>3, AdmissionIs
      <3>5. q \in 1 .. MaxQty
        BY LimitsAssumption DEF Qty
      <3> QED BY <3>4, <3>5 DEF Admission!Next
    <2> QED BY <1>2, <2>1, <2>2, <2>3, AdmissionStep
  <1> QED BY <1>1, <1>2

\* The guard decides as if it saw the account and all that may still be
\* bought at the moment of its decision, although it reads a cached snapshot.
THEOREM GuardImplementsAdmission ==
    ASSUME RestartSettles
    PROVE  Spec => ImplementsAdmission
  <1>1. IInv /\ [Next]_vars => [Admission!Next]_(Admission!vars)
    BY AdmissionNext
  <1> QED BY <1>1, AdmissionInit, EntryInvariance, PTL
          DEF Spec, ImplementsAdmission, Admission!Spec
=============================================================================
