-------------------------- MODULE MemoryListProofs --------------------------
(***************************************************************************)
(* The doubly linked lists of memory.c implement the sets of Memory.       *)
(***************************************************************************)
EXTENDS MemoryList, FiniteSetTheorems, SequenceTheorems, WellFoundedInduction, TLAPS

-----------------------------------------------------------------------------
(* Lists by the addresses of their elements.  N is what lies in memory.    *)

\* y is the highest of the containers X below address a, or NULL.
Beneath(N, X, a, y) ==
    \/ y = NULL /\ \A x \in X : N[x].addr >= a
    \/ y \in X /\ N[y].addr < a /\ \A x \in X : N[x].addr < a => N[x].addr <= N[y].addr

\* y is the lowest of the containers X above address a, or NULL.
Over(N, X, a, y) ==
    \/ y = NULL /\ \A x \in X : N[x].addr <= a
    \/ y \in X /\ N[y].addr > a /\ \A x \in X : N[x].addr > a => N[y].addr <= N[x].addr

\* Containers that addresses tell apart.
Keyed(N, X) == /\ X \subseteq DOMAIN N /\ NULL \notin X
               /\ \A x \in X : N[x].addr \in Word
               /\ \A x, y \in X : N[x].addr = N[y].addr => x = y

\* The list from "first" has the elements X, by descending addresses.
IsList(N, first, X) ==
    /\ Keyed(N, X)
    /\ Beneath(N, X, W, first)
    /\ \A x \in X : Beneath(N, X, N[x].addr, N[x].next) /\ Over(N, X, N[x].addr, N[x].prev)

LEMMA WordFields == \A a \in Word : a \in Nat /\ a < W
  BY WAssumption DEF Word

\* What lies elsewhere may change.
LEMMA ListSame ==
    ASSUME NEW N, NEW M, NEW first, NEW X, IsList(N, first, X), X \subseteq DOMAIN M,
           \A x \in X : /\ M[x].addr = N[x].addr /\ M[x].next = N[x].next
                        /\ M[x].prev = N[x].prev
    PROVE  IsList(M, first, X)
<1>1. Keyed(M, X)
  BY DEF IsList, Keyed
<1>2. Beneath(M, X, W, first)
  BY DEF IsList, Beneath
<1>3. ASSUME NEW x \in X
      PROVE  Beneath(M, X, M[x].addr, M[x].next) /\ Over(M, X, M[x].addr, M[x].prev)
  <2>1. Beneath(N, X, M[x].addr, M[x].next) /\ Over(N, X, M[x].addr, M[x].prev)
    BY DEF IsList
  <2> QED BY <2>1 DEF Beneath, Over
<1> QED BY <1>1, <1>2, <1>3 DEF IsList

\* Only one container is next, and only one is previous.
LEMMA BeneathOnce ==
    ASSUME NEW N, NEW X, Keyed(N, X), NEW a, NEW y, NEW z,
           Beneath(N, X, a, y), Beneath(N, X, a, z), a \in Nat
    PROVE  y = z
<1>1. \A x \in X : N[x].addr \in Nat
  BY WordFields DEF Keyed
<1>2. \A x, w \in X : N[x].addr = N[w].addr => x = w
  BY DEF Keyed
<1> QED BY <1>1, <1>2 DEF Beneath

LEMMA OverOnce ==
    ASSUME NEW N, NEW X, Keyed(N, X), NEW a, NEW y, NEW z,
           Over(N, X, a, y), Over(N, X, a, z), a \in Nat
    PROVE  y = z
<1>1. \A x \in X : N[x].addr \in Nat
  BY WordFields DEF Keyed
<1>2. \A x, w \in X : N[x].addr = N[w].addr => x = w
  BY DEF Keyed
<1> QED BY <1>1, <1>2 DEF Over

\* Next of what is just above a is just below a, once a is no element's.
LEMMA AroundGap ==
    ASSUME NEW N, NEW first, NEW X, IsList(N, first, X), NEW a \in Word,
           \A x \in X : N[x].addr # a,
           NEW p, NEW q, Over(N, X, a, p), Beneath(N, X, a, q)
    PROVE  /\ p # NULL => p \in X /\ N[p].next = q
           /\ q # NULL => q \in X /\ N[q].prev = p
           /\ p = NULL <=> first = q
           /\ p # NULL => p # q
<1>0. /\ a \in Nat /\ a < W /\ W \in Nat /\ Keyed(N, X)
      /\ \A x \in X : N[x].addr \in Nat /\ N[x].addr < W /\ x # NULL
  BY WordFields, WAssumption DEF IsList, Keyed
<1>1. p # NULL => p \in X /\ N[p].next = q
  <2> SUFFICES ASSUME p # NULL PROVE p \in X /\ N[p].next = q
    OBVIOUS
  <2>1. p \in X /\ N[p].addr > a /\ \A x \in X : N[x].addr > a => N[p].addr <= N[x].addr
    BY DEF Over
  <2>2. \A x \in X : N[x].addr < N[p].addr <=> N[x].addr < a
    BY <1>0, <2>1
  <2>3. Beneath(N, X, N[p].addr, q)
    BY <1>0, <2>1, <2>2 DEF Beneath
  <2>4. Beneath(N, X, N[p].addr, N[p].next)
    BY <2>1 DEF IsList
  <2> QED BY <1>0, <2>1, <2>3, <2>4, BeneathOnce
<1>2. q # NULL => q \in X /\ N[q].prev = p
  <2> SUFFICES ASSUME q # NULL PROVE q \in X /\ N[q].prev = p
    OBVIOUS
  <2>1. q \in X /\ N[q].addr < a /\ \A x \in X : N[x].addr < a => N[x].addr <= N[q].addr
    BY DEF Beneath
  <2>2. \A x \in X : N[x].addr > N[q].addr <=> N[x].addr > a
    BY <1>0, <2>1
  <2>3. Over(N, X, N[q].addr, p)
    BY <1>0, <2>1, <2>2 DEF Over
  <2>4. Over(N, X, N[q].addr, N[q].prev)
    BY <2>1 DEF IsList
  <2> QED BY <1>0, <2>1, <2>3, <2>4, OverOnce
<1>3. p = NULL => first = q
  <2> SUFFICES ASSUME p = NULL PROVE first = q
    OBVIOUS
  <2>1. \A x \in X : N[x].addr <= a
    BY <1>0 DEF Over
  <2>2. \A x \in X : N[x].addr < a <=> N[x].addr < W
    BY <1>0, <2>1
  <2>3. Beneath(N, X, W, q)
    BY <1>0, <2>2 DEF Beneath
  <2> QED BY <1>0, <2>3, BeneathOnce DEF IsList
<1>4. p # NULL => first # q
  <2> SUFFICES ASSUME p # NULL, first = q PROVE FALSE
    OBVIOUS
  <2>1. p \in X /\ N[p].addr > a
    BY DEF Over
  <2>2. Beneath(N, X, W, q)
    BY DEF IsList
  <2>3. q \in X /\ N[q].addr >= N[p].addr
    BY <1>0, <2>1, <2>2 DEF Beneath
  <2> QED BY <1>0, <2>1, <2>3 DEF Beneath
<1>5. p # NULL => p # q
  BY <1>0 DEF Over, Beneath
<1> QED BY <1>1, <1>2, <1>3, <1>4, <1>5

\* A new element between those just above and just below its address.
LEMMA ListWith ==
    ASSUME NEW N, NEW M, NEW first, NEW X, IsList(N, first, X),
           NEW c, c \notin X, c # NULL, NEW a \in Word,
           \A x \in X : N[x].addr # a,
           NEW p, NEW q, Over(N, X, a, p), Beneath(N, X, a, q),
           X \cup {c} \subseteq DOMAIN M,
           M[c].addr = a, M[c].next = q, M[c].prev = p,
           \A x \in X : /\ M[x].addr = N[x].addr
                        /\ M[x].next = IF x = p THEN c ELSE N[x].next
                        /\ M[x].prev = IF x = q THEN c ELSE N[x].prev
    PROVE  IsList(M, IF p = NULL THEN c ELSE first, X \cup {c})
<1>0. /\ a \in Nat /\ a < W /\ W \in Nat /\ Keyed(N, X)
      /\ \A x \in X : N[x].addr \in Nat /\ N[x].addr < W /\ x # NULL
      /\ \A x, y \in X : N[x].addr = N[y].addr => x = y
  BY WordFields, WAssumption DEF IsList, Keyed
<1>1. Keyed(M, X \cup {c})
  BY <1>0 DEF Keyed
<1>2. Beneath(M, X \cup {c}, W, IF p = NULL THEN c ELSE first)
  <2>1. CASE p = NULL
    <3>1. \A x \in X : N[x].addr <= a
      BY <1>0, <2>1 DEF Over
    <3> QED BY <1>0, <2>1, <3>1 DEF Beneath
  <2>2. CASE p # NULL
    <3>1. p \in X /\ N[p].addr > a
      BY <2>2 DEF Over
    <3>2. Beneath(N, X, W, first)
      BY DEF IsList
    <3>3. first \in X /\ \A x \in X : N[x].addr <= N[first].addr
      BY <1>0, <3>1, <3>2 DEF Beneath
    <3> QED BY <1>0, <2>2, <3>1, <3>3 DEF Beneath
  <2> QED BY <2>1, <2>2
<1>3. ASSUME NEW x \in X PROVE Beneath(M, X \cup {c}, M[x].addr, M[x].next)
  <2>1. CASE x = p
    <3>1. N[x].addr > a /\ \A y \in X : N[y].addr > a => N[x].addr <= N[y].addr
      BY <1>0, <2>1 DEF Over
    <3>2. \A y \in X : N[y].addr < N[x].addr => N[y].addr <= a
      BY <1>0, <3>1
    <3> QED BY <1>0, <2>1, <3>1, <3>2 DEF Beneath
  <2>2. CASE x # p
    <3>1. Beneath(N, X, N[x].addr, N[x].next)
      BY DEF IsList
    <3>2. CASE a < N[x].addr
      <4>1. p \in X /\ N[p].addr > a /\ N[p].addr < N[x].addr
        <5>1. p \in X /\ N[p].addr > a /\ N[p].addr <= N[x].addr
          BY <1>0, <3>2 DEF Over
        <5> QED BY <1>0, <2>2, <5>1
      <4>2. N[x].next \in X /\ N[N[x].next].addr >= N[p].addr
        BY <1>0, <3>1, <4>1 DEF Beneath
      <4> QED BY <1>0, <2>2, <3>1, <4>1, <4>2 DEF Beneath
    <3>3. CASE a > N[x].addr
      BY <1>0, <2>2, <3>1, <3>3 DEF Beneath
    <3> QED BY <1>0, <3>2, <3>3
  <2> QED BY <2>1, <2>2
<1>4. ASSUME NEW x \in X PROVE Over(M, X \cup {c}, M[x].addr, M[x].prev)
  <2>1. CASE x = q
    <3>1. N[x].addr < a /\ \A y \in X : N[y].addr < a => N[y].addr <= N[x].addr
      BY <1>0, <2>1 DEF Beneath
    <3>2. \A y \in X : N[y].addr > N[x].addr => a <= N[y].addr
      BY <1>0, <3>1
    <3> QED BY <1>0, <2>1, <3>1, <3>2 DEF Over
  <2>2. CASE x # q
    <3>1. Over(N, X, N[x].addr, N[x].prev)
      BY DEF IsList
    <3>2. CASE a > N[x].addr
      <4>1. q \in X /\ N[q].addr < a /\ N[q].addr > N[x].addr
        <5>1. q \in X /\ N[q].addr < a /\ N[q].addr >= N[x].addr
          BY <1>0, <3>2 DEF Beneath
        <5> QED BY <1>0, <2>2, <5>1
      <4>2. N[x].prev \in X /\ N[N[x].prev].addr <= N[q].addr
        BY <1>0, <3>1, <4>1 DEF Over
      <4> QED BY <1>0, <2>2, <3>1, <4>1, <4>2 DEF Over
    <3>3. CASE a < N[x].addr
      BY <1>0, <2>2, <3>1, <3>3 DEF Over
    <3> QED BY <1>0, <3>2, <3>3
  <2> QED BY <2>1, <2>2
<1>5. Beneath(M, X \cup {c}, a, q) /\ Over(M, X \cup {c}, a, p)
  BY <1>0 DEF Beneath, Over
<1> QED BY <1>1, <1>2, <1>3, <1>4, <1>5, Zenon DEF IsList

\* An element taken out: its neighbours become each other's.
LEMMA ListWithout ==
    ASSUME NEW N, NEW M, NEW first, NEW X, IsList(N, first, X), NEW c \in X,
           X \ {c} \subseteq DOMAIN M,
           \A x \in X \ {c} :
              /\ M[x].addr = N[x].addr
              /\ M[x].next = IF x = N[c].prev THEN N[c].next ELSE N[x].next
              /\ M[x].prev = IF x = N[c].next THEN N[c].prev ELSE N[x].prev
    PROVE  IsList(M, IF N[c].prev = NULL THEN N[c].next ELSE first, X \ {c})
<1> DEFINE p == N[c].prev
           q == N[c].next
<1>0. /\ W \in Nat /\ Keyed(N, X)
      /\ \A x \in X : N[x].addr \in Nat /\ N[x].addr < W /\ x # NULL
      /\ \A x, y \in X : N[x].addr = N[y].addr => x = y
  BY WordFields, WAssumption DEF IsList, Keyed
<1>1. Beneath(N, X, N[c].addr, q) /\ Over(N, X, N[c].addr, p)
  BY DEF IsList
<1>2. Keyed(M, X \ {c})
  BY <1>0 DEF Keyed
<1>3. Beneath(M, X \ {c}, W, IF p = NULL THEN q ELSE first)
  <2>0. Beneath(N, X, W, first)
    BY DEF IsList
  <2>1. CASE p = NULL
    BY <1>0, <1>1, <2>1 DEF Beneath, Over
  <2>2. CASE p # NULL
    BY <1>0, <1>1, <2>0, <2>2 DEF Beneath, Over
  <2> QED BY <2>1, <2>2
<1>4. ASSUME NEW x \in X \ {c}
      PROVE  Beneath(M, X \ {c}, N[x].addr, IF x = p THEN q ELSE N[x].next)
  <2>1. Beneath(N, X, N[x].addr, N[x].next)
    BY DEF IsList
  <2>2. CASE x = p
    BY <1>0, <1>1, <2>2 DEF Beneath, Over
  <2>3. CASE x # p
    <3>1. N[x].next # c
      BY <1>0, <1>1, <2>1, <2>3 DEF Beneath, Over
    <3> QED BY <1>0, <2>1, <2>3, <3>1 DEF Beneath
  <2> QED BY <2>2, <2>3
<1>5. ASSUME NEW x \in X \ {c}
      PROVE  Over(M, X \ {c}, N[x].addr, IF x = q THEN p ELSE N[x].prev)
  <2>1. Over(N, X, N[x].addr, N[x].prev)
    BY DEF IsList
  <2>2. CASE x = q
    BY <1>0, <1>1, <2>2 DEF Beneath, Over
  <2>3. CASE x # q
    <3>1. N[x].prev # c
      BY <1>0, <1>1, <2>1, <2>3 DEF Beneath, Over
    <3> QED BY <1>0, <2>1, <2>3, <3>1 DEF Over
  <2> QED BY <2>2, <2>3
<1> QED BY <1>2, <1>3, <1>4, <1>5, Zenon DEF IsList

-----------------------------------------------------------------------------
(* Walks.                                                                  *)

Smaller == {p \in Nat \X Nat : p[1] < p[2]}

\* Induction: any set of numbers has a least one.
LEMMA LeastNat ==
    ASSUME NEW T, T \subseteq Nat, T # {}
    PROVE  \E n \in T : \A m \in T : n <= m
<1>0. IsWellFoundedOn(Smaller, Nat)
  <2>1. Smaller = OpToRel(<, Nat)
    BY DEF OpToRel, Smaller
  <2> QED BY <2>1, NatLessThanWellFounded, Zenon
<1>1. PICK n \in T : \A m \in T : <<m, n>> \notin Smaller
  BY <1>0, WFMin, Zenon
<1>2. ASSUME NEW m \in T PROVE n <= m
  <2>1. m \in Nat /\ n \in Nat /\ (m < n => <<m, n>> \in Smaller)
    BY DEF Smaller
  <2> QED BY <1>1, <2>1
<1> QED BY <1>2

\* s has the elements X by descending addresses.
Descends(N, s, X) ==
    /\ s \in Seq(X)
    /\ \A i, j \in 1 .. Len(s) : i < j => N[s[i]].addr > N[s[j]].addr
    /\ \A x \in X : \E i \in 1 .. Len(s) : s[i] = x

LEMMA Lowest ==
    ASSUME NEW N, NEW X, Keyed(N, X), X # {}
    PROVE  \E m \in X : \A x \in X : N[m].addr <= N[x].addr
<1> DEFINE T == {N[x].addr : x \in X}
<1>1. T \subseteq Nat /\ T # {}
  BY WordFields DEF Keyed
<1>2. PICK n \in T : \A m \in T : n <= m
  <2> HIDE DEF T
  <2> QED BY <1>1, LeastNat, Zenon
<1> QED BY <1>2

LEMMA DescendsLonger ==
    ASSUME NEW N, NEW X, Keyed(N, X), NEW m \in X,
           \A x \in X : N[m].addr <= N[x].addr,
           NEW s, Descends(N, s, X \ {m})
    PROVE  Descends(N, Append(s, m), X)
<1> DEFINE t == Append(s, m)
<1>1. s \in Seq(X \ {m}) /\ Len(s) \in Nat /\ \A i \in 1 .. Len(s) : s[i] \in X \ {m}
  BY LenProperties, ElementOfSeq DEF Descends
<1>2. s \in Seq(X)
  BY <1>1, SeqMonotonic
<1>3. /\ t \in Seq(X) /\ Len(t) = Len(s) + 1 /\ t[Len(s) + 1] = m
      /\ \A i \in 1 .. Len(s) : t[i] = s[i]
  BY <1>2, AppendProperties
<1> HIDE DEF t
<1>4. ASSUME NEW i \in 1 .. Len(t), NEW j \in 1 .. Len(t), i < j
      PROVE  N[t[i]].addr > N[t[j]].addr
  <2>1. i \in 1 .. Len(s) /\ i \in Nat /\ j \in Nat
    BY <1>1, <1>3, <1>4
  <2>2. CASE j \in 1 .. Len(s)
    BY <1>3, <1>4, <2>1, <2>2, Zenon DEF Descends
  <2>3. CASE j = Len(s) + 1
    <3>1. s[i] \in X /\ s[i] # m
      BY <1>1, <2>1
    <3>2. N[s[i]].addr \in Nat /\ N[m].addr \in Nat /\ N[s[i]].addr # N[m].addr
      BY <3>1, WordFields DEF Keyed
    <3>3. N[m].addr <= N[s[i]].addr
      BY <3>1
    <3> QED BY <1>3, <2>1, <2>3, <3>2, <3>3
  <2> QED BY <1>1, <1>3, <2>2, <2>3
<1>5. ASSUME NEW x \in X PROVE \E i \in 1 .. Len(t) : t[i] = x
  <2>1. CASE x = m
    BY <1>1, <1>3, <2>1
  <2>2. CASE x # m
    <3>1. PICK i \in 1 .. Len(s) : s[i] = x
      BY <2>2 DEF Descends
    <3> QED BY <1>1, <1>3, <3>1
  <2> QED BY <2>1, <2>2
<1> QED BY <1>3, <1>4, <1>5, Zenon DEF Descends, t

LEMMA Enumerated ==
    ASSUME NEW N, NEW X, Keyed(N, X), IsFiniteSet(X)
    PROVE  \E s : Descends(N, s, X)
<1> DEFINE T == {n \in Nat : \E Y \in SUBSET X : /\ Cardinality(Y) = n
                                                 /\ ~ \E s : Descends(N, s, Y)}
<1> SUFFICES ASSUME T # {} PROVE FALSE
  BY FS_CardinalityType
<1>1. PICK n \in T : \A m \in T : n <= m
  <2>1. T \subseteq Nat
    OBVIOUS
  <2> HIDE DEF T
  <2> QED BY <2>1, LeastNat, Zenon
<1>2. PICK Y \in SUBSET X : Cardinality(Y) = n /\ ~ \E s : Descends(N, s, Y)
  BY <1>1
<1>3. Keyed(N, Y) /\ IsFiniteSet(Y)
  BY FS_Subset DEF Keyed
<1>4. Y # {}
  <2>1. Descends(N, <<>>, {})
    BY DEF Descends
  <2> QED BY <1>2, <2>1, Zenon
<1>5. PICK m \in Y : \A x \in Y : N[m].addr <= N[x].addr
  BY <1>3, <1>4, Lowest
<1>6. Y \ {m} \in SUBSET X /\ Cardinality(Y \ {m}) = n - 1 /\ n - 1 \in Nat
  <2>1. Cardinality(Y \ {m}) = Cardinality(Y) - 1
    BY <1>3, FS_RemoveElement, Zenon
  <2>2. Cardinality(Y \ {m}) \in Nat
    BY <1>3, FS_RemoveElement, FS_CardinalityType
  <2> QED BY <1>2, <2>1, <2>2
<1>7. PICK s : Descends(N, s, Y \ {m})
  <2>1. n - 1 \notin T
    BY <1>1
  <2> QED BY <1>6, <2>1
<1> QED BY <1>2, <1>3, <1>5, <1>7, DescendsLonger

\* The elements of a list in the order a walk meets them.
LEMMA Listed ==
    ASSUME NEW N, NEW first, NEW X, IsList(N, first, X), NEW s, Descends(N, s, X)
    PROVE  /\ first = IF Len(s) = 0 THEN NULL ELSE s[1]
           /\ \A i \in 1 .. Len(s) :
                /\ N[s[i]].next = IF i = Len(s) THEN NULL ELSE s[i + 1]
                /\ N[s[i]].prev = IF i = 1 THEN NULL ELSE s[i - 1]
<1>0. /\ W \in Nat /\ Keyed(N, X)
      /\ \A x \in X : N[x].addr \in Nat /\ N[x].addr < W /\ x # NULL
  BY WordFields, WAssumption DEF IsList, Keyed
<1>1. Len(s) \in Nat /\ \A i \in 1 .. Len(s) : s[i] \in X
  BY LenProperties, ElementOfSeq DEF Descends
<1>2. \A x \in X : \E i \in 1 .. Len(s) : s[i] = x
  BY DEF Descends
<1>3. \A i, j \in 1 .. Len(s) : i < j => N[s[i]].addr > N[s[j]].addr
  BY DEF Descends
<1>4. Beneath(N, X, W, IF Len(s) = 0 THEN NULL ELSE s[1])
  <2>1. CASE Len(s) = 0
    BY <1>2, <2>1 DEF Beneath
  <2>2. CASE Len(s) # 0
    <3>1. ASSUME NEW x \in X PROVE N[x].addr <= N[s[1]].addr
      <4>1. PICK i \in 1 .. Len(s) : s[i] = x
        BY <1>2
      <4>2. i = 1 \/ 1 < i
        BY <1>1
      <4> QED BY <1>0, <1>1, <1>3, <2>2, <4>1, <4>2
    <3> QED BY <1>0, <1>1, <2>2, <3>1 DEF Beneath
  <2> QED BY <2>1, <2>2
<1>5. first = IF Len(s) = 0 THEN NULL ELSE s[1]
  <2>1. Beneath(N, X, W, first)
    BY DEF IsList
  <2> QED BY <1>0, <1>4, <2>1, BeneathOnce
<1>6. ASSUME NEW i \in 1 .. Len(s)
      PROVE  N[s[i]].next = IF i = Len(s) THEN NULL ELSE s[i + 1]
  <2>0. Beneath(N, X, N[s[i]].addr, N[s[i]].next) /\ s[i] \in X /\ N[s[i]].addr \in Nat
    BY <1>0, <1>1 DEF IsList
  <2>1. ASSUME NEW x \in X
        PROVE \E j \in 1 .. Len(s) : s[j] = x /\ (N[x].addr < N[s[i]].addr => j > i)
    <3>1. PICK j \in 1 .. Len(s) : s[j] = x
      BY <1>2
    <3>2. j < i => N[s[j]].addr > N[s[i]].addr
      BY <1>3
    <3> QED BY <1>0, <1>1, <2>0, <3>1, <3>2
  <2>2. CASE i = Len(s)
    <3>1. Beneath(N, X, N[s[i]].addr, NULL)
      <4>1. \A x \in X : N[x].addr >= N[s[i]].addr
        BY <1>0, <1>1, <2>0, <2>1, <2>2
      <4> QED BY <4>1 DEF Beneath
    <3> QED BY <1>0, <2>0, <2>2, <3>1, BeneathOnce
  <2>3. CASE i # Len(s)
    <3>1. i + 1 \in 1 .. Len(s) /\ i < i + 1
      BY <1>1, <2>3
    <3>2. s[i + 1] \in X /\ N[s[i + 1]].addr < N[s[i]].addr
      BY <1>0, <1>1, <1>3, <2>0, <3>1
    <3>3. ASSUME NEW x \in X, N[x].addr < N[s[i]].addr
          PROVE  N[x].addr <= N[s[i + 1]].addr
      <4>1. PICK j \in 1 .. Len(s) : s[j] = x /\ j > i
        BY <2>1, <3>3
      <4>2. j = i + 1 \/ i + 1 < j
        BY <1>1, <4>1
      <4> QED BY <1>0, <1>3, <3>1, <3>2, <4>1, <4>2
    <3>4. Beneath(N, X, N[s[i]].addr, s[i + 1])
      BY <3>2, <3>3 DEF Beneath
    <3> QED BY <1>0, <2>0, <2>3, <3>4, BeneathOnce
  <2> QED BY <2>2, <2>3
<1>7. ASSUME NEW i \in 1 .. Len(s)
      PROVE  N[s[i]].prev = IF i = 1 THEN NULL ELSE s[i - 1]
  <2>0. Over(N, X, N[s[i]].addr, N[s[i]].prev) /\ s[i] \in X /\ N[s[i]].addr \in Nat
    BY <1>0, <1>1 DEF IsList
  <2>1. ASSUME NEW x \in X
        PROVE \E j \in 1 .. Len(s) : s[j] = x /\ (N[x].addr > N[s[i]].addr => j < i)
    <3>1. PICK j \in 1 .. Len(s) : s[j] = x
      BY <1>2
    <3>2. i < j => N[s[i]].addr > N[s[j]].addr
      BY <1>3
    <3> QED BY <1>0, <1>1, <2>0, <3>1, <3>2
  <2>2. CASE i = 1
    <3>1. Over(N, X, N[s[i]].addr, NULL)
      <4>1. \A x \in X : N[x].addr <= N[s[i]].addr
        BY <1>0, <1>1, <2>0, <2>1, <2>2
      <4> QED BY <4>1 DEF Over
    <3> QED BY <1>0, <2>0, <2>2, <3>1, OverOnce
  <2>3. CASE i # 1
    <3>1. i - 1 \in 1 .. Len(s) /\ i - 1 < i
      BY <1>1, <2>3
    <3>2. s[i - 1] \in X /\ N[s[i - 1]].addr > N[s[i]].addr
      BY <1>0, <1>1, <1>3, <2>0, <3>1
    <3>3. ASSUME NEW x \in X, N[x].addr > N[s[i]].addr
          PROVE  N[s[i - 1]].addr <= N[x].addr
      <4>1. PICK j \in 1 .. Len(s) : s[j] = x /\ j < i
        BY <2>1, <3>3
      <4>2. j = i - 1 \/ j < i - 1
        BY <1>1, <4>1
      <4> QED BY <1>0, <1>3, <3>1, <3>2, <4>1, <4>2
    <3>4. Over(N, X, N[s[i]].addr, s[i - 1])
      BY <3>2, <3>3 DEF Over
    <3> QED BY <1>0, <2>0, <2>3, <3>4, OverOnce
  <2> QED BY <2>2, <2>3
<1> QED BY <1>5, <1>6, <1>7

\* The k-th container a walk meets.
Met(s, k) == IF k <= Len(s) THEN s[k] ELSE NULL

LEMMA MetNext ==
    ASSUME NEW h, NULL \notin DOMAIN h.node, NEW first, NEW X, IsList(h.node, first, X),
           NEW s, Descends(h.node, s, X), NEW k \in Nat, k > 1
    PROVE  Met(s, k) = After(h)[Met(s, k - 1)]
<1>0. /\ Len(s) \in Nat
      /\ \A i \in 1 .. Len(s) : s[i] \in X /\ s[i] \in DOMAIN h.node /\ s[i] # NULL
  BY LenProperties, ElementOfSeq, Zenon DEF Descends, IsList, Keyed
<1>1. /\ \A y \in DOMAIN h.node : After(h)[y] = h.node[y].next
      /\ After(h)[NULL] = NULL
  BY DEF After
<1>2. CASE k <= Len(s)
  <2>1. k - 1 \in 1 .. Len(s) /\ k - 1 # Len(s) /\ (k - 1) + 1 = k
    BY <1>0, <1>2
  <2>2. h.node[s[k - 1]].next = s[(k - 1) + 1]
    BY <2>1, Listed
  <2>3. Met(s, k) = s[k] /\ Met(s, k - 1) = s[k - 1]
    BY <1>0, <1>2 DEF Met
  <2> QED BY <1>0, <1>1, <2>1, <2>2, <2>3
<1>3. CASE k = Len(s) + 1
  <2>1. Met(s, k) = NULL /\ Met(s, k - 1) = s[Len(s)] /\ Len(s) \in 1 .. Len(s)
    BY <1>0, <1>3 DEF Met
  <2>2. h.node[s[Len(s)]].next = NULL
    BY <2>1, Listed
  <2> QED BY <1>0, <1>1, <2>1, <2>2
<1>4. CASE k > Len(s) + 1
  <2>1. Met(s, k) = NULL /\ Met(s, k - 1) = NULL
    BY <1>0, <1>4 DEF Met
  <2> QED BY <1>1, <2>1
<1> QED BY <1>0, <1>2, <1>3, <1>4

\* No list is longer than there are containers.
LEMMA NotTooLong ==
    ASSUME NEW N, NEW X, Keyed(N, X), IsFiniteSet(DOMAIN N), NEW s, Descends(N, s, X)
    PROVE  Len(s) <= Cardinality(DOMAIN N)
<1>0. /\ s \in Seq(X) /\ Len(s) \in Nat /\ s \in [1 .. Len(s) -> X]
      /\ \A i \in 1 .. Len(s) : s[i] \in X /\ s[i] \in DOMAIN N /\ N[s[i]].addr \in Nat
  BY LenProperties, ElementOfSeq, WordFields, Zenon DEF Descends, Keyed
<1>1. s \in Injection(1 .. Len(s), DOMAIN N)
  <2>1. s \in [1 .. Len(s) -> DOMAIN N] /\ DOMAIN s = 1 .. Len(s)
    BY <1>0
  <2>2. ASSUME NEW i \in 1 .. Len(s), NEW j \in 1 .. Len(s), s[i] = s[j] PROVE i = j
    <3>1. ~(i < j) /\ ~(j < i)
      BY <1>0, <2>2 DEF Descends
    <3> QED BY <3>1
  <2>3. IsInjective(s)
    BY <2>1, <2>2 DEF IsInjective
  <2> QED BY <2>1, <2>3 DEF Injection
<1>2. Cardinality(1 .. Len(s)) <= Cardinality(DOMAIN N)
  BY <1>1, FS_Injection
<1>3. Cardinality(1 .. Len(s)) = Len(s)
  <2>1. Cardinality(1 .. Len(s)) = IF 1 > Len(s) THEN 0 ELSE Len(s) - 1 + 1
    BY <1>0, FS_Interval
  <2> QED BY <1>0, <2>1
<1> QED BY <1>2, <1>3

\* A walk from the first element finds the elements of the list in their order.
LEMMA WalkFinds ==
    ASSUME NEW h, NULL \notin DOMAIN h.node, IsFiniteSet(DOMAIN h.node),
           NEW first, NEW X, IsList(h.node, first, X), NEW s, Descends(h.node, s, X)
    PROVE  Chain(h, first) = s
<1> DEFINE Steps == Cardinality(DOMAIN h.node)
           Further(f, k) == IF k = 1 THEN first ELSE After(h)[f[k - 1]]
           seen == [k \in 1 .. Steps |-> Met(s, k)]
           met == CHOOSE f : f = [k \in 1 .. Steps |-> Further(f, k)]
<1>0. /\ s \in Seq(X) /\ Len(s) \in Nat /\ DOMAIN s = 1 .. Len(s)
      /\ s = [k \in 1 .. Len(s) |-> s[k]]
      /\ \A k \in 1 .. Len(s) : s[k] \in X /\ s[k] # NULL
  BY LenProperties, ElementOfSeq, Zenon DEF Descends, IsList, Keyed
<1>1. Steps \in Nat /\ Len(s) <= Steps
  BY NotTooLong, FS_CardinalityType DEF IsList
<1>2. Met(s, 1) = first
  <2>1. first = IF Len(s) = 0 THEN NULL ELSE s[1]
    BY Listed
  <2> QED BY <1>0, <2>1 DEF Met
<1>3. ASSUME NEW k \in Nat, k > 1 PROVE Met(s, k) = After(h)[Met(s, k - 1)]
  BY <1>3, MetNext, Zenon
<1> HIDE DEF Steps
<1>4. seen = [k \in 1 .. Steps |-> Further(seen, k)]
  <2> SUFFICES ASSUME NEW k \in 1 .. Steps PROVE Met(s, k) = Further(seen, k)
    OBVIOUS
  <2>1. CASE k = 1
    BY <1>2, <2>1
  <2>2. CASE k # 1
    <3>1. seen[k - 1] = Met(s, k - 1) /\ k \in Nat /\ k > 1
      BY <1>1, <2>2
    <3> HIDE DEF seen
    <3> QED BY <1>3, <2>2, <3>1
  <2> QED BY <2>1, <2>2
<1>5. met = [k \in 1 .. Steps |-> Further(met, k)]
  <2> HIDE DEF seen
  <2> QED BY <1>4, Zenon
<1> HIDE DEF met
<1>6. ASSUME NEW k \in 1 .. Steps, \A m \in 1 .. Steps : m < k => met[m] = seen[m]
      PROVE  met[k] = seen[k]
  <2>1. met[k] = Further(met, k) /\ seen[k] = Further(seen, k)
    <3> HIDE DEF seen, Further
    <3> QED BY <1>4, <1>5, Zenon
  <2>2. k # 1 => met[k - 1] = seen[k - 1]
    BY <1>1, <1>6
  <2> HIDE DEF seen
  <2> QED BY <2>1, <2>2
<1>7. \A k \in 1 .. Steps : met[k] = seen[k]
  <2> DEFINE Wrong == {k \in 1 .. Steps : met[k] # seen[k]}
  <2> SUFFICES ASSUME Wrong # {} PROVE FALSE
    OBVIOUS
  <2>1. PICK k \in Wrong : \A m \in Wrong : k <= m
    <3>1. Wrong \subseteq Nat
      BY <1>1
    <3> HIDE DEF Wrong
    <3> QED BY <3>1, LeastNat, Zenon
  <2>2. \A m \in 1 .. Steps : m < k => met[m] = seen[m]
    BY <1>1, <2>1
  <2> QED BY <1>6, <2>1, <2>2
<1>8. {j \in 1 .. Steps : met[j] # NULL} = 1 .. Len(s)
  <2>1. \A j \in 1 .. Steps : met[j] # NULL <=> j <= Len(s)
    BY <1>0, <1>7 DEF Met
  <2> QED BY <1>0, <1>1, <2>1
<1>9. \A k \in 1 .. Len(s) : met[k] = s[k]
  BY <1>0, <1>1, <1>7 DEF Met
<1>10. Chain(h, first) = [k \in {j \in 1 .. Steps : met[j] # NULL} |-> met[k]]
  BY DEF Chain, met, Steps
<1> QED BY <1>0, <1>8, <1>9, <1>10

-----------------------------------------------------------------------------
(* Heaps, and what is found on them.                                       *)

Heap == [free : Word, used : Word, node : UNION {[D -> Node] : D \in SUBSET Word}]

\* Both lists hold what is in memory, each container once.
Lists(h, F, U) ==
    /\ h \in Heap /\ NULL \notin DOMAIN h.node
    /\ IsList(h.node, h.free, F) /\ IsList(h.node, h.used, U)
    /\ F \cap U = {} /\ F \cup U = DOMAIN h.node

LEMMA HeapFields ==
    ASSUME NEW h \in Heap
    PROVE  /\ h.free \in Word /\ h.used \in Word
           /\ DOMAIN h.node \subseteq Word /\ IsFiniteSet(DOMAIN h.node)
           /\ h.node \in [DOMAIN h.node -> Node]
           /\ \A x \in DOMAIN h.node :
                /\ h.node[x].addr \in Word /\ h.node[x].size \in Word
                /\ h.node[x].next \in Word /\ h.node[x].prev \in Word
                /\ h.node[x].freeable \in BOOLEAN
<1>1. PICK D \in SUBSET Word : h.node \in [D -> Node]
  BY DEF Heap
<1>2. DOMAIN h.node = D
  BY <1>1
<1>3. IsFiniteSet(Word)
  BY WAssumption, FS_Interval DEF Word
<1>4. IsFiniteSet(DOMAIN h.node)
  BY <1>2, <1>3, FS_Subset
<1>5. h.free \in Word /\ h.used \in Word
  BY DEF Heap
<1> QED BY <1>1, <1>2, <1>4, <1>5 DEF Node

\* A walk meets the elements of its list.
LEMMA WalkMeets ==
    ASSUME NEW h \in Heap, NULL \notin DOMAIN h.node,
           NEW first, NEW X, IsList(h.node, first, X)
    PROVE  Descends(h.node, Chain(h, first), X) /\ Range(Chain(h, first)) = X
<1>1. IsFiniteSet(DOMAIN h.node)
  BY HeapFields
<1>2. IsFiniteSet(X) /\ Keyed(h.node, X)
  BY <1>1, FS_Subset DEF IsList, Keyed
<1>3. PICK s : Descends(h.node, s, X)
  BY <1>2, Enumerated
<1>4. Chain(h, first) = s
  BY <1>1, <1>3, WalkFinds, Zenon
<1>5. Range(s) = X
  <2>1. DOMAIN s = 1 .. Len(s) /\ \A i \in 1 .. Len(s) : s[i] \in X
    BY <1>3, LenProperties, ElementOfSeq DEF Descends
  <2> QED BY <1>3, <2>1 DEF Range, Descends
<1> QED BY <1>3, <1>4, <1>5

\* Find returns the highest element that is wanted.
LEMMA Finds ==
    ASSUME NEW h \in Heap, NULL \notin DOMAIN h.node,
           NEW first, NEW X, IsList(h.node, first, X), NEW wanted
    PROVE  LET x == Find(h, first, wanted)
           IN  \/ x = NULL /\ X \cap wanted = {}
               \/ /\ x \in X \cap wanted
                  /\ \A y \in X \cap wanted : h.node[y].addr <= h.node[x].addr
<1> DEFINE s == Chain(h, first)
           hits == {k \in DOMAIN s : s[k] \in wanted}
<1>1. Descends(h.node, s, X)
  BY WalkMeets
<1> HIDE DEF s
<1>2. /\ Len(s) \in Nat /\ DOMAIN s = 1 .. Len(s)
      /\ \A i \in 1 .. Len(s) : s[i] \in X
      /\ \A x \in X : h.node[x].addr \in Nat
  BY <1>1, LenProperties, ElementOfSeq, WordFields, Zenon DEF Descends, IsList, Keyed
<1>3. Find(h, first, wanted) =
        IF hits = {} THEN NULL ELSE s[CHOOSE k \in hits : \A l \in hits : k <= l]
  BY DEF Find, s
<1>4. CASE hits = {}
  <2>1. X \cap wanted = {}
    BY <1>1, <1>2, <1>4 DEF Descends
  <2> QED BY <1>3, <1>4, <2>1
<1>5. CASE hits # {}
  <2>1. PICK k \in hits : \A l \in hits : k <= l
    <3>1. hits \subseteq Nat
      BY <1>2
    <3> HIDE DEF hits
    <3> QED BY <1>5, <3>1, LeastNat, Zenon
  <2>2. PICK m \in hits : /\ \A l \in hits : m <= l
                          /\ m = CHOOSE j \in hits : \A l \in hits : j <= l
    BY <2>1
  <2>3. s[m] \in X \cap wanted
    BY <1>2
  <2>4. ASSUME NEW y \in X \cap wanted PROVE h.node[y].addr <= h.node[s[m]].addr
    <3>1. PICK i \in 1 .. Len(s) : s[i] = y
      BY <1>1 DEF Descends
    <3>2. i \in hits /\ i \in Nat /\ m \in Nat /\ m \in 1 .. Len(s)
      BY <1>2, <3>1
    <3>3. i = m \/ m < i
      BY <2>2, <3>2
    <3> QED BY <1>1, <1>2, <3>1, <3>2, <3>3 DEF Descends
  <2> QED BY <1>3, <1>5, <2>2, <2>3, <2>4
<1> QED BY <1>4, <1>5

\* The last element a walk meets is the lowest.
LEMMA LastLowest ==
    ASSUME NEW h \in Heap, NULL \notin DOMAIN h.node,
           NEW first, NEW X, IsList(h.node, first, X), X # {}
    PROVE  LET x == Last(Chain(h, first))
           IN  x \in X /\ \A y \in X : h.node[x].addr <= h.node[y].addr
<1> DEFINE s == Chain(h, first)
<1>1. Descends(h.node, s, X)
  BY WalkMeets
<1> HIDE DEF s
<1>2. /\ Len(s) \in Nat /\ \A i \in 1 .. Len(s) : s[i] \in X
      /\ \A x \in X : h.node[x].addr \in Nat
  BY <1>1, LenProperties, ElementOfSeq, WordFields, Zenon DEF Descends, IsList, Keyed
<1>3. Len(s) \in 1 .. Len(s)
  BY <1>1, <1>2 DEF Descends
<1>4. ASSUME NEW y \in X PROVE h.node[s[Len(s)]].addr <= h.node[y].addr
  <2>1. PICK i \in 1 .. Len(s) : s[i] = y
    BY <1>1 DEF Descends
  <2>2. i = Len(s) \/ i < Len(s)
    BY <1>2
  <2>3. i < Len(s) => h.node[s[Len(s)]].addr < h.node[s[i]].addr
    BY <1>1, <1>2, <1>3 DEF Descends
  <2> QED BY <1>2, <1>3, <2>1, <2>2, <2>3
<1> QED BY <1>2, <1>3, <1>4 DEF Last, s
-----------------------------------------------------------------------------
(* Writing links.                                                          *)

\* The same containers, but for their links.
SameBlocks(g, h) ==
    /\ g \in Heap /\ DOMAIN g.node = DOMAIN h.node
    /\ \A y \in DOMAIN h.node : /\ g.node[y].addr = h.node[y].addr
                                /\ g.node[y].size = h.node[y].size
                                /\ g.node[y].freeable = h.node[y].freeable

LEMMA PutNext ==
    ASSUME NEW h \in Heap, NEW x \in DOMAIN h.node, NEW v \in Word
    PROVE  LET g == [h EXCEPT !.node[x].next = v]
           IN  /\ SameBlocks(g, h) /\ g.free = h.free /\ g.used = h.used
               /\ \A y \in DOMAIN h.node :
                    /\ g.node[y].next = IF y = x THEN v ELSE h.node[y].next
                    /\ g.node[y].prev = h.node[y].prev
<1> DEFINE g == [h EXCEPT !.node[x].next = v]
<1>1. PICK D \in SUBSET Word : h.node \in [D -> Node]
  BY DEF Heap
<1>2. x \in D /\ h.node[x] \in Node /\ DOMAIN h.node = D
  BY <1>1
<1>3. g.node = [h.node EXCEPT ![x] = [h.node[x] EXCEPT !.next = v]]
  BY DEF Heap
<1>4. g.free = h.free /\ g.used = h.used
  BY DEF Heap
<1>5. [h.node[x] EXCEPT !.next = v] \in Node
  BY <1>2 DEF Node
<1>6. g.node \in [D -> Node]
  BY <1>1, <1>3, <1>5
<1>7. g \in Heap
  BY <1>6 DEF Heap
<1>8. \A y \in D : h.node[y] \in Node
  BY <1>1
<1> HIDE DEF g
<1>9. \A y \in D : /\ g.node[y].addr = h.node[y].addr
                   /\ g.node[y].size = h.node[y].size
                   /\ g.node[y].freeable = h.node[y].freeable
                   /\ g.node[y].next = IF y = x THEN v ELSE h.node[y].next
                   /\ g.node[y].prev = h.node[y].prev
  BY <1>1, <1>2, <1>3, <1>8 DEF Node
<1> QED BY <1>2, <1>4, <1>6, <1>7, <1>9 DEF SameBlocks, g

LEMMA PutPrev ==
    ASSUME NEW h \in Heap, NEW x \in DOMAIN h.node, NEW v \in Word
    PROVE  LET g == [h EXCEPT !.node[x].prev = v]
           IN  /\ SameBlocks(g, h) /\ g.free = h.free /\ g.used = h.used
               /\ \A y \in DOMAIN h.node :
                    /\ g.node[y].next = h.node[y].next
                    /\ g.node[y].prev = IF y = x THEN v ELSE h.node[y].prev
<1> DEFINE g == [h EXCEPT !.node[x].prev = v]
<1>1. PICK D \in SUBSET Word : h.node \in [D -> Node]
  BY DEF Heap
<1>2. x \in D /\ h.node[x] \in Node /\ DOMAIN h.node = D
  BY <1>1
<1>3. g.node = [h.node EXCEPT ![x] = [h.node[x] EXCEPT !.prev = v]]
  BY DEF Heap
<1>4. g.free = h.free /\ g.used = h.used
  BY DEF Heap
<1>5. [h.node[x] EXCEPT !.prev = v] \in Node
  BY <1>2 DEF Node
<1>6. g.node \in [D -> Node]
  BY <1>1, <1>3, <1>5
<1>7. g \in Heap
  BY <1>6 DEF Heap
<1>8. \A y \in D : h.node[y] \in Node
  BY <1>1
<1> HIDE DEF g
<1>9. \A y \in D : /\ g.node[y].addr = h.node[y].addr
                   /\ g.node[y].size = h.node[y].size
                   /\ g.node[y].freeable = h.node[y].freeable
                   /\ g.node[y].next = h.node[y].next
                   /\ g.node[y].prev = IF y = x THEN v ELSE h.node[y].prev
  BY <1>1, <1>2, <1>3, <1>8 DEF Node
<1> QED BY <1>2, <1>4, <1>6, <1>7, <1>9 DEF SameBlocks, g


LEMMA PutHead ==
    ASSUME NEW h \in Heap, NEW l \in {"free", "used"}, NEW v \in Word
    PROVE  LET g == [h EXCEPT ![l] = v]
           IN  /\ SameBlocks(g, h) /\ g.node = h.node /\ g[l] = v
               /\ \A o \in {"free", "used"} \ {l} : g[o] = h[o]
<1> DEFINE g == [h EXCEPT ![l] = v]
<1>1. g \in Heap /\ g.node = h.node /\ g[l] = v
      /\ \A o \in {"free", "used"} \ {l} : g[o] = h[o]
  BY DEF Heap
<1> QED BY <1>1 DEF SameBlocks

-----------------------------------------------------------------------------
(* What the C functions do to the links.                                   *)

\* c between p and q, of which each may be NULL.
Between(g, h, p, c, q) ==
    /\ SameBlocks(g, h)
    /\ \A y \in DOMAIN h.node :
         /\ g.node[y].next = IF y = c THEN q ELSE IF y = p THEN c ELSE h.node[y].next
         /\ g.node[y].prev = IF y = c THEN p ELSE IF y = q THEN c ELSE h.node[y].prev

LEMMA LinksPrevNext ==
    ASSUME NEW h \in Heap, NULL \notin DOMAIN h.node,
           NEW p \in DOMAIN h.node, NEW c \in DOMAIN h.node, p # c,
           h.node[p].next = NULL \/ h.node[p].next \in DOMAIN h.node \ {p, c}
    PROVE  LET g == memory_link_prev_next(h, p, c)
           IN  /\ Between(g, h, p, c, h.node[p].next)
               /\ g.free = h.free /\ g.used = h.used
<1> DEFINE q == h.node[p].next
           g1 == IF q # NULL THEN [h EXCEPT !.node[q].prev = c] ELSE h
           g2 == [g1 EXCEPT !.node[c].next = q]
           g3 == [g2 EXCEPT !.node[p].next = c]
           g4 == [g3 EXCEPT !.node[c].prev = p]
<1>0. q \in Word /\ c \in Word /\ p \in Word
  BY HeapFields
<1>1. /\ SameBlocks(g1, h) /\ g1.free = h.free /\ g1.used = h.used
      /\ \A y \in DOMAIN h.node :
           /\ g1.node[y].next = h.node[y].next
           /\ g1.node[y].prev = IF y = q THEN c ELSE h.node[y].prev
  <2>1. CASE q = NULL
    BY <2>1 DEF SameBlocks
  <2>2. CASE q # NULL
    <3>1. q \in DOMAIN h.node
      BY <2>2
    <3> QED BY <1>0, <2>2, <3>1, PutPrev
  <2> QED BY <2>1, <2>2
<1> HIDE DEF g1
<1>2. /\ SameBlocks(g2, g1) /\ g2.free = g1.free /\ g2.used = g1.used
      /\ \A y \in DOMAIN g1.node :
           /\ g2.node[y].next = IF y = c THEN q ELSE g1.node[y].next
           /\ g2.node[y].prev = g1.node[y].prev
  BY <1>0, <1>1, PutNext DEF SameBlocks
<1> HIDE DEF g2
<1>3. /\ SameBlocks(g3, g2) /\ g3.free = g2.free /\ g3.used = g2.used
      /\ \A y \in DOMAIN g2.node :
           /\ g3.node[y].next = IF y = p THEN c ELSE g2.node[y].next
           /\ g3.node[y].prev = g2.node[y].prev
  <2>1. g2 \in Heap /\ p \in DOMAIN g2.node
    BY <1>1, <1>2 DEF SameBlocks
  <2> QED BY <1>0, <2>1, PutNext
<1> HIDE DEF g3
<1>4. /\ SameBlocks(g4, g3) /\ g4.free = g3.free /\ g4.used = g3.used
      /\ \A y \in DOMAIN g3.node :
           /\ g4.node[y].next = g3.node[y].next
           /\ g4.node[y].prev = IF y = c THEN p ELSE g3.node[y].prev
  <2>1. g3 \in Heap /\ c \in DOMAIN g3.node
    BY <1>1, <1>2, <1>3 DEF SameBlocks
  <2> QED BY <1>0, <2>1, PutPrev
<1> HIDE DEF g4
<1>5. g4 = memory_link_prev_next(h, p, c)
  BY DEF memory_link_prev_next, g1, g2, g3, g4
<1>6. Between(g4, h, p, c, q) /\ g4.free = h.free /\ g4.used = h.used
  <2>1. SameBlocks(g4, h)
    BY <1>1, <1>2, <1>3, <1>4 DEF SameBlocks
  <2>2. ASSUME NEW y \in DOMAIN h.node
        PROVE  /\ g4.node[y].next = IF y = c THEN q ELSE IF y = p THEN c ELSE h.node[y].next
               /\ g4.node[y].prev = IF y = c THEN p ELSE IF y = q THEN c ELSE h.node[y].prev
    <3>1. y \in DOMAIN g1.node /\ y \in DOMAIN g2.node /\ y \in DOMAIN g3.node
      BY <1>1, <1>2, <1>3 DEF SameBlocks
    <3> HIDE DEF q
    <3> QED BY <1>1, <1>2, <1>3, <1>4, <3>1
  <2> QED BY <1>1, <1>2, <1>3, <1>4, <2>1, <2>2 DEF Between
<1> QED BY <1>5, <1>6

\* The first element of a list is a new one.
FirstMoves(g, h, q, c) ==
    IF h.free = q THEN g.free = c /\ g.used = h.used
    ELSE IF h.used = q THEN g.free = h.free /\ g.used = c
    ELSE g.free = h.free /\ g.used = h.used

LEMMA LinksNextPrev ==
    ASSUME NEW h \in Heap, NULL \notin DOMAIN h.node,
           NEW q \in DOMAIN h.node, NEW c \in DOMAIN h.node, q # c,
           h.node[q].prev = NULL \/ h.node[q].prev \in DOMAIN h.node \ {q, c}
    PROVE  LET g == memory_link_next_prev(h, q, c)
           IN  /\ Between(g, h, h.node[q].prev, c, q)
               /\ IF h.node[q].prev = NULL THEN FirstMoves(g, h, q, c)
                  ELSE g.free = h.free /\ g.used = h.used
<1> DEFINE p == h.node[q].prev
           g1 == IF p # NULL THEN [h EXCEPT !.node[p].next = c]
                 ELSE IF h.free = q THEN [h EXCEPT !.free = c]
                 ELSE IF h.used = q THEN [h EXCEPT !.used = c]
                 ELSE h
           g2 == [g1 EXCEPT !.node[c].prev = p]
           g3 == [g2 EXCEPT !.node[q].prev = c]
           g4 == [g3 EXCEPT !.node[c].next = q]
           Heads(g) == IF p = NULL THEN FirstMoves(g, h, q, c)
                       ELSE g.free = h.free /\ g.used = h.used
<1>0. q \in Word /\ c \in Word /\ p \in Word
  BY HeapFields
<1>1. /\ SameBlocks(g1, h) /\ Heads(g1)
      /\ \A y \in DOMAIN h.node :
           /\ g1.node[y].next = IF y = p THEN c ELSE h.node[y].next
           /\ g1.node[y].prev = h.node[y].prev
  <2>1. CASE p = NULL
    <3>1. SameBlocks(g1, h) /\ g1.node = h.node
      <4>1. CASE h.free = q
        BY <1>0, <2>1, <4>1, PutHead
      <4>2. CASE h.free # q /\ h.used = q
        BY <1>0, <2>1, <4>2, PutHead
      <4>3. CASE h.free # q /\ h.used # q
        BY <1>0, <2>1, <4>3 DEF SameBlocks
      <4> QED BY <4>1, <4>2, <4>3
    <3>2. FirstMoves(g1, h, q, c)
      BY <1>0, <2>1, PutHead DEF FirstMoves, Heap
    <3> HIDE DEF g1
    <3> QED BY <2>1, <3>1, <3>2
  <2>2. CASE p # NULL
    <3>1. p \in DOMAIN h.node
      BY <2>2
    <3> QED BY <1>0, <2>2, <3>1, PutNext
  <2> QED BY <2>1, <2>2
<1> HIDE DEF g1
<1>2. /\ SameBlocks(g2, g1) /\ g2.free = g1.free /\ g2.used = g1.used
      /\ \A y \in DOMAIN g1.node :
           /\ g2.node[y].next = g1.node[y].next
           /\ g2.node[y].prev = IF y = c THEN p ELSE g1.node[y].prev
  <2>1. g1 \in Heap /\ c \in DOMAIN g1.node
    BY <1>1 DEF SameBlocks
  <2> QED BY <1>0, <2>1, PutPrev
<1> HIDE DEF g2
<1>3. /\ SameBlocks(g3, g2) /\ g3.free = g2.free /\ g3.used = g2.used
      /\ \A y \in DOMAIN g2.node :
           /\ g3.node[y].next = g2.node[y].next
           /\ g3.node[y].prev = IF y = q THEN c ELSE g2.node[y].prev
  <2>1. g2 \in Heap /\ q \in DOMAIN g2.node
    BY <1>1, <1>2 DEF SameBlocks
  <2> QED BY <1>0, <2>1, PutPrev
<1> HIDE DEF g3
<1>4. /\ SameBlocks(g4, g3) /\ g4.free = g3.free /\ g4.used = g3.used
      /\ \A y \in DOMAIN g3.node :
           /\ g4.node[y].next = IF y = c THEN q ELSE g3.node[y].next
           /\ g4.node[y].prev = g3.node[y].prev
  <2>1. g3 \in Heap /\ c \in DOMAIN g3.node
    BY <1>1, <1>2, <1>3 DEF SameBlocks
  <2> QED BY <1>0, <2>1, PutNext
<1> HIDE DEF g4
<1>5. g4 = memory_link_next_prev(h, q, c)
  BY DEF memory_link_next_prev, g1, g2, g3, g4
<1>6. Between(g4, h, p, c, q)
  <2>1. SameBlocks(g4, h)
    BY <1>1, <1>2, <1>3, <1>4 DEF SameBlocks
  <2>2. ASSUME NEW y \in DOMAIN h.node
        PROVE  /\ g4.node[y].next = IF y = c THEN q ELSE IF y = p THEN c ELSE h.node[y].next
               /\ g4.node[y].prev = IF y = c THEN p ELSE IF y = q THEN c ELSE h.node[y].prev
    <3>1. y \in DOMAIN g1.node /\ y \in DOMAIN g2.node /\ y \in DOMAIN g3.node
      BY <1>1, <1>2, <1>3 DEF SameBlocks
    <3>2. p # c
      BY <1>0
    <3> HIDE DEF p
    <3> QED BY <1>1, <1>2, <1>3, <1>4, <3>1, <3>2
  <2> QED BY <2>1, <2>2 DEF Between
<1>7. Heads(g4)
  BY <1>1, <1>2, <1>3, <1>4 DEF FirstMoves
<1> QED BY <1>5, <1>6, <1>7

LEMMA Unlinks ==
    ASSUME NEW h \in Heap, NULL \notin DOMAIN h.node, NEW c \in DOMAIN h.node,
           NEW l \in {"free", "used"},
           h.node[c].prev = NULL \/ h.node[c].prev \in DOMAIN h.node \ {c},
           h.node[c].next = NULL \/ h.node[c].next \in DOMAIN h.node \ {c}
    PROVE  LET g == Unlink(h, c, l)
               p == h.node[c].prev
               q == h.node[c].next
           IN  /\ SameBlocks(g, h)
               /\ \A y \in DOMAIN h.node :
                    /\ g.node[y].next = IF y = p THEN q ELSE h.node[y].next
                    /\ g.node[y].prev = IF y = q THEN p ELSE h.node[y].prev
               /\ g[l] = IF h[l] = c THEN q ELSE h[l]
               /\ \A o \in {"free", "used"} \ {l} : g[o] = h[o]
<1> DEFINE p == h.node[c].prev
           q == h.node[c].next
           g1 == IF l # "none" /\ h[l] = c THEN [h EXCEPT ![l] = q] ELSE h
           g2 == IF p # NULL THEN [g1 EXCEPT !.node[p].next = q] ELSE g1
           g3 == IF q # NULL THEN [g2 EXCEPT !.node[q].prev = p] ELSE g2
           Heads(g) == /\ g[l] = IF h[l] = c THEN q ELSE h[l]
                       /\ \A o \in {"free", "used"} \ {l} : g[o] = h[o]
<1>0. q \in Word /\ p \in Word /\ l # "none"
  BY HeapFields
<1>1. SameBlocks(g1, h) /\ g1.node = h.node /\ Heads(g1)
  BY <1>0, PutHead DEF SameBlocks
<1> HIDE DEF g1
<1>2. /\ SameBlocks(g2, g1) /\ g2.free = g1.free /\ g2.used = g1.used
      /\ \A y \in DOMAIN g1.node :
           /\ g2.node[y].next = IF y = p THEN q ELSE g1.node[y].next
           /\ g2.node[y].prev = g1.node[y].prev
  <2>1. CASE p = NULL
    BY <1>1, <2>1 DEF SameBlocks
  <2>2. CASE p # NULL
    <3>1. g1 \in Heap /\ p \in DOMAIN g1.node
      BY <1>1, <2>2 DEF SameBlocks
    <3> QED BY <1>0, <2>2, <3>1, PutNext
  <2> QED BY <2>1, <2>2
<1> HIDE DEF g2
<1>3. /\ SameBlocks(g3, g2) /\ g3.free = g2.free /\ g3.used = g2.used
      /\ \A y \in DOMAIN g2.node :
           /\ g3.node[y].next = g2.node[y].next
           /\ g3.node[y].prev = IF y = q THEN p ELSE g2.node[y].prev
  <2>0. g2 \in Heap /\ DOMAIN g2.node = DOMAIN h.node
    BY <1>1, <1>2 DEF SameBlocks
  <2>1. CASE q = NULL
    BY <2>0, <2>1 DEF SameBlocks
  <2>2. CASE q # NULL
    <3>1. q \in DOMAIN g2.node
      BY <2>0, <2>2
    <3> QED BY <1>0, <2>0, <2>2, <3>1, PutPrev
  <2> QED BY <2>1, <2>2
<1> HIDE DEF g3
<1>4. SameBlocks(g3, h)
  BY <1>1, <1>2, <1>3 DEF SameBlocks
<1>5. ASSUME NEW y \in DOMAIN h.node
      PROVE  /\ g3.node[y].next = IF y = p THEN q ELSE h.node[y].next
             /\ g3.node[y].prev = IF y = q THEN p ELSE h.node[y].prev
  <2>1. y \in DOMAIN g1.node /\ y \in DOMAIN g2.node
    BY <1>1, <1>2 DEF SameBlocks
  <2> QED BY <1>1, <1>2, <1>3, <2>1
<1>6. Heads(g3)
  <2>1. \A o \in {"free", "used"} : g3[o] = g1[o]
    BY <1>2, <1>3
  <2> QED BY <1>1, <2>1
<1>7. g3 = Unlink(h, c, l)
  BY DEF Unlink, g1, g2, g3
<1> QED BY <1>4, <1>5, <1>6, <1>7

-----------------------------------------------------------------------------
(* What the C functions do to the lists.                                   *)

\* The neighbours of an element are other elements, and only the first has
\* none before it.
LEMMA Neighbours ==
    ASSUME NEW N, NEW first, NEW X, IsList(N, first, X), NEW c \in X
    PROVE  /\ N[c].prev = NULL \/ N[c].prev \in X \ {c}
           /\ N[c].next = NULL \/ N[c].next \in X \ {c}
           /\ N[c].prev = NULL <=> first = c
<1>0. /\ W \in Nat /\ Keyed(N, X)
      /\ \A x \in X : N[x].addr \in Nat /\ N[x].addr < W /\ x # NULL
  BY WordFields, WAssumption DEF IsList, Keyed
<1>1. Beneath(N, X, N[c].addr, N[c].next) /\ Over(N, X, N[c].addr, N[c].prev)
      /\ Beneath(N, X, W, first)
  BY DEF IsList
<1>2. first = c => N[c].prev = NULL
  BY <1>0, <1>1 DEF Beneath, Over
<1>3. N[c].prev = NULL => first = c
  <2> SUFFICES ASSUME N[c].prev = NULL PROVE first = c
    OBVIOUS
  <2>1. Beneath(N, X, W, c)
    BY <1>0, <1>1 DEF Over, Beneath
  <2> QED BY <1>0, <1>1, <2>1, BeneathOnce
<1> QED BY <1>0, <1>1, <1>2, <1>3 DEF Beneath, Over

\* An empty list has no first element.
LEMMA FirstOf ==
    ASSUME NEW N, NEW first, NEW X, IsList(N, first, X)
    PROVE  /\ first = NULL <=> X = {}
           /\ first # NULL => first \in X
<1>0. W \in Nat /\ NULL \notin X /\ \A x \in X : N[x].addr \in Nat /\ N[x].addr < W
  BY WordFields, WAssumption DEF IsList, Keyed
<1> QED BY <1>0 DEF IsList, Beneath

\* The lists "l" and "o" of a heap have the elements X and Y.
TwoLists(h, l, X, o, Y) ==
    /\ h \in Heap /\ NULL \notin DOMAIN h.node
    /\ l \in {"free", "used"} /\ o \in {"free", "used"} /\ l # o
    /\ IsList(h.node, h[l], X) /\ IsList(h.node, h[o], Y) /\ X \cap Y = {}

LEMMA TakesOut ==
    ASSUME NEW h, NEW l, NEW o, NEW X, NEW Y, TwoLists(h, l, X, o, Y), NEW c \in X
    PROVE  /\ SameBlocks(Unlink(h, c, l), h)
           /\ TwoLists(Unlink(h, c, l), l, X \ {c}, o, Y)
<1> DEFINE g == Unlink(h, c, l)
           p == h.node[c].prev
           q == h.node[c].next
<1>0. /\ h \in Heap /\ NULL \notin DOMAIN h.node
      /\ l \in {"free", "used"} /\ o \in {"free", "used"} \ {l}
      /\ IsList(h.node, h[l], X) /\ IsList(h.node, h[o], Y) /\ X \cap Y = {}
      /\ X \subseteq DOMAIN h.node /\ Y \subseteq DOMAIN h.node
  BY DEF TwoLists, IsList, Keyed
<1>1. /\ p = NULL \/ p \in X \ {c}
      /\ q = NULL \/ q \in X \ {c}
      /\ p = NULL <=> h[l] = c
  BY <1>0, Neighbours
<1>2. /\ SameBlocks(g, h)
      /\ \A y \in DOMAIN h.node :
           /\ g.node[y].next = IF y = p THEN q ELSE h.node[y].next
           /\ g.node[y].prev = IF y = q THEN p ELSE h.node[y].prev
      /\ g[l] = IF h[l] = c THEN q ELSE h[l]
      /\ g[o] = h[o]
  BY <1>0, <1>1, Unlinks
<1> HIDE DEF g
<1>3. IsList(g.node, g[l], X \ {c})
  <2>1. X \ {c} \subseteq DOMAIN g.node
    BY <1>0, <1>2 DEF SameBlocks
  <2>2. \A x \in X \ {c} :
              /\ g.node[x].addr = h.node[x].addr
              /\ g.node[x].next = IF x = p THEN q ELSE h.node[x].next
              /\ g.node[x].prev = IF x = q THEN p ELSE h.node[x].prev
    BY <1>0, <1>2 DEF SameBlocks
  <2>3. IsList(g.node, IF p = NULL THEN q ELSE h[l], X \ {c})
    BY <1>0, <2>1, <2>2, ListWithout, Zenon
  <2> QED BY <1>1, <1>2, <2>3
<1>4. IsList(g.node, g[o], Y)
  <2>1. Y \subseteq DOMAIN g.node
    BY <1>0, <1>2 DEF SameBlocks
  <2>2. \A x \in Y : /\ g.node[x].addr = h.node[x].addr
                     /\ g.node[x].next = h.node[x].next
                     /\ g.node[x].prev = h.node[x].prev
    BY <1>0, <1>1, <1>2 DEF SameBlocks
  <2> QED BY <1>0, <1>2, <2>1, <2>2, ListSame
<1> QED BY <1>0, <1>2, <1>3, <1>4 DEF TwoLists, SameBlocks, g

\* A container between its neighbours, and with it the list.
LEMMA PutsBetween ==
    ASSUME NEW h, NEW l, NEW o, NEW X, NEW Y, TwoLists(h, l, X, o, Y),
           NEW c \in DOMAIN h.node, c \notin X \cup Y,
           \A x \in X : h.node[x].addr # h.node[c].addr,
           NEW p, NEW q, Over(h.node, X, h.node[c].addr, p),
           Beneath(h.node, X, h.node[c].addr, q),
           NEW g, Between(g, h, p, c, q), g[l] = (IF p = NULL THEN c ELSE h[l]),
           g[o] = h[o]
    PROVE  TwoLists(g, l, X \cup {c}, o, Y)
<1>0. /\ h \in Heap /\ NULL \notin DOMAIN h.node
      /\ l \in {"free", "used"} /\ o \in {"free", "used"} \ {l}
      /\ IsList(h.node, h[l], X) /\ IsList(h.node, h[o], Y) /\ X \cap Y = {}
      /\ X \subseteq DOMAIN h.node /\ Y \subseteq DOMAIN h.node
  BY DEF TwoLists, IsList, Keyed
<1>1. /\ g \in Heap /\ DOMAIN g.node = DOMAIN h.node
      /\ \A y \in DOMAIN h.node :
           /\ g.node[y].addr = h.node[y].addr
           /\ g.node[y].next = IF y = c THEN q ELSE IF y = p THEN c ELSE h.node[y].next
           /\ g.node[y].prev = IF y = c THEN p ELSE IF y = q THEN c ELSE h.node[y].prev
  BY DEF Between, SameBlocks
<1>2. (p = NULL \/ p \in X) /\ (q = NULL \/ q \in X)
  BY DEF Over, Beneath
<1>3. h.node[c].addr \in Word /\ c # NULL /\ X \cup {c} \subseteq DOMAIN g.node
  BY <1>0, <1>1, HeapFields
<1>4. \A x \in X : /\ g.node[x].addr = h.node[x].addr
                   /\ g.node[x].next = IF x = p THEN c ELSE h.node[x].next
                   /\ g.node[x].prev = IF x = q THEN c ELSE h.node[x].prev
  BY <1>0, <1>1
<1>5. g.node[c].addr = h.node[c].addr /\ g.node[c].next = q /\ g.node[c].prev = p
  BY <1>1
<1>6. IsList(g.node, IF p = NULL THEN c ELSE h[l], X \cup {c})
  <2>1. PICK N, M, first, a : /\ N = h.node /\ M = g.node
                              /\ first = h[l] /\ a = h.node[c].addr
    OBVIOUS
  <2>2. /\ IsList(N, first, X) /\ c \notin X /\ c # NULL /\ a \in Word
        /\ \A x \in X : N[x].addr # a
        /\ Over(N, X, a, p) /\ Beneath(N, X, a, q)
        /\ X \cup {c} \subseteq DOMAIN M
        /\ M[c].addr = a /\ M[c].next = q /\ M[c].prev = p
        /\ \A x \in X : /\ M[x].addr = N[x].addr
                        /\ M[x].next = IF x = p THEN c ELSE N[x].next
                        /\ M[x].prev = IF x = q THEN c ELSE N[x].prev
    BY <1>0, <1>3, <1>4, <1>5, <2>1
  <2>3. IsList(M, IF p = NULL THEN c ELSE first, X \cup {c})
    BY ONLY <2>2, ListWith
  <2> QED BY <2>1, <2>3
<1>7. IsList(g.node, g[o], Y)
  <2>1. \A x \in Y : /\ g.node[x].addr = h.node[x].addr
                     /\ g.node[x].next = h.node[x].next
                     /\ g.node[x].prev = h.node[x].prev
    BY <1>0, <1>1, <1>2
  <2> QED BY <1>0, <1>1, <2>1, ListSame
<1> QED BY <1>0, <1>1, <1>6, <1>7 DEF TwoLists

LEMMA PutsIn ==
    ASSUME NEW h, NEW l, NEW o, NEW X, NEW Y, TwoLists(h, l, X, o, Y),
           NEW c \in DOMAIN h.node, c \notin X \cup Y,
           \A x \in X : h.node[x].addr # h.node[c].addr
    PROVE  /\ SameBlocks(Insert(h, c, l), h)
           /\ TwoLists(Insert(h, c, l), l, X \cup {c}, o, Y)
<1> DEFINE a == h.node[c].addr
           notAbove == {x \in DOMAIN h.node : h.node[x].addr <= a}
           at == Find(h, h[l], notAbove)
           g == Insert(h, c, l)
           Placed == \E p, q : /\ Over(h.node, X, a, p) /\ Beneath(h.node, X, a, q)
                               /\ Between(g, h, p, c, q)
                               /\ g[l] = IF p = NULL THEN c ELSE h[l]
                               /\ g[o] = h[o]
<1>0. /\ h \in Heap /\ NULL \notin DOMAIN h.node
      /\ l \in {"free", "used"} /\ o \in {"free", "used"} \ {l}
      /\ IsList(h.node, h[l], X) /\ IsList(h.node, h[o], Y) /\ X \cap Y = {}
      /\ X \subseteq DOMAIN h.node /\ Y \subseteq DOMAIN h.node /\ NULL \notin X
  BY DEF TwoLists, IsList, Keyed
<1>1. c \in Word /\ NULL \in Word /\ a \in Nat /\ \A x \in X : h.node[x].addr \in Nat
  BY <1>0, HeapFields, WordFields, WAssumption DEF NULL, Word
<1>2. \/ at = NULL /\ X \cap notAbove = {}
      \/ /\ at \in X \cap notAbove
         /\ \A y \in X \cap notAbove : h.node[y].addr <= h.node[at].addr
  <2> HIDE DEF notAbove
  <2> QED BY <1>0, Finds, Zenon
<1>3. ASSUME h[l] = NULL PROVE Placed
  <2> DEFINE g1 == [h EXCEPT ![l] = c]
             g2 == [g1 EXCEPT !.node[c].next = NULL]
             g3 == [g2 EXCEPT !.node[c].prev = NULL]
  <2>1. X = {}
    BY <1>0, <1>3, FirstOf
  <2>2. SameBlocks(g1, h) /\ g1.node = h.node /\ g1[l] = c /\ g1[o] = h[o]
    BY <1>0, <1>1, PutHead
  <2>3. g = g3
    BY <1>0, <1>3 DEF Insert
  <2> HIDE DEF g, g1
  <2>4. /\ SameBlocks(g2, g1) /\ g2.free = g1.free /\ g2.used = g1.used
        /\ \A y \in DOMAIN g1.node :
             /\ g2.node[y].next = IF y = c THEN NULL ELSE g1.node[y].next
             /\ g2.node[y].prev = g1.node[y].prev
    BY <1>1, <2>2, PutNext DEF SameBlocks
  <2> HIDE DEF g2
  <2>5. /\ SameBlocks(g3, g2) /\ g3.free = g2.free /\ g3.used = g2.used
        /\ \A y \in DOMAIN g2.node :
             /\ g3.node[y].next = g2.node[y].next
             /\ g3.node[y].prev = IF y = c THEN NULL ELSE g2.node[y].prev
    <3>1. g2 \in Heap /\ c \in DOMAIN g2.node
      BY <2>2, <2>4 DEF SameBlocks
    <3> QED BY <1>1, <3>1, PutPrev
  <2> HIDE DEF g3
  <2>6. Between(g3, h, NULL, c, NULL)
    <3>1. SameBlocks(g3, h)
      BY <2>2, <2>4, <2>5 DEF SameBlocks
    <3>2. \A y \in DOMAIN h.node : y \in DOMAIN g1.node /\ y \in DOMAIN g2.node /\ y # NULL
      BY <1>0, <2>2, <2>4 DEF SameBlocks
    <3> QED BY <2>2, <2>4, <2>5, <3>1, <3>2 DEF Between
  <2>7. g3[l] = c /\ g3[o] = h[o]
    BY <1>0, <2>2, <2>4, <2>5
  <2>8. Over(h.node, X, a, NULL) /\ Beneath(h.node, X, a, NULL)
    BY <2>1 DEF Over, Beneath
  <2> QED BY <2>3, <2>6, <2>7, <2>8
<1>4. ASSUME h[l] # NULL, at = NULL PROVE Placed
  <2> DEFINE p == Last(Chain(h, h[l]))
  <2>1. X # {} /\ X \cap notAbove = {}
    <3>1. X # {}
      BY <1>0, <1>4, FirstOf
    <3> QED BY <1>0, <1>4, <1>2, <3>1
  <2>2. p \in X /\ \A y \in X : h.node[p].addr <= h.node[y].addr
    BY <1>0, <2>1, LastLowest, Zenon
  <2>3. \A y \in X : h.node[y].addr > a
    BY <1>0, <1>1, <2>1
  <2>4. g = memory_link_prev_next(h, p, c)
    BY <1>4 DEF Insert
  <2> HIDE DEF g, p, at
  <2>5. Over(h.node, X, a, p) /\ Beneath(h.node, X, a, NULL)
    BY <1>1, <2>2, <2>3 DEF Over, Beneath
  <2>6. p # NULL /\ h.node[p].next = NULL
    <3>1. Beneath(h.node, X, h.node[p].addr, h.node[p].next)
      BY <1>0, <2>2 DEF IsList
    <3> QED BY <1>0, <1>1, <2>2, <3>1 DEF Beneath
  <2>7. Between(g, h, p, c, NULL) /\ g.free = h.free /\ g.used = h.used
    BY <1>0, <2>2, <2>4, <2>6, LinksPrevNext
  <2>8. g[l] = h[l] /\ g[o] = h[o]
    BY <1>0, <2>7
  <2> QED BY <2>5, <2>6, <2>7, <2>8
<1>5. ASSUME h[l] # NULL, at # NULL PROVE Placed
  <2> DEFINE p == h.node[at].prev
             g1 == memory_link_next_prev(h, at, c)
  <2>1. at \in X \cap notAbove /\ \A y \in X \cap notAbove : h.node[y].addr <= h.node[at].addr
    BY <1>5, <1>2, Zenon
  <2>2. g = IF g1.node[c].prev = NULL THEN [g1 EXCEPT ![l] = c] ELSE g1
    BY <1>5 DEF Insert
  <2>3. /\ at \in X /\ h.node[at].addr < a
        /\ \A y \in X : h.node[y].addr <= a => h.node[y].addr <= h.node[at].addr
    <3> HIDE DEF at
    <3> QED BY <1>0, <1>1, <2>1
  <2> HIDE DEF at
  <2>4. Over(h.node, X, h.node[at].addr, p)
    BY <1>0, <2>3 DEF IsList
  <2>5. Over(h.node, X, a, p)
    BY <1>1, <2>3, <2>4 DEF Over
  <2>6. Beneath(h.node, X, a, at)
    BY <1>1, <2>3 DEF Beneath
  <2>7. (p = NULL \/ p \in X \ {at}) /\ (p = NULL <=> h[l] = at)
    BY <1>0, <2>3, Neighbours
  <2>8. at \in DOMAIN h.node /\ at # c /\ (p = NULL \/ p \in DOMAIN h.node \ {at, c})
    BY <1>0, <2>3, <2>7
  <2>9. /\ Between(g1, h, p, c, at)
        /\ IF p = NULL THEN FirstMoves(g1, h, at, c)
           ELSE g1.free = h.free /\ g1.used = h.used
    BY <1>0, <2>8, LinksNextPrev
  <2> HIDE DEF g, g1, p
  <2>10. g1.node[c].prev = p
    BY <2>9 DEF Between
  <2>11. h[o] # at
    BY <1>0, <2>3, FirstOf
  <2>12. g1[o] = h[o] /\ g1[l] = IF p = NULL THEN c ELSE h[l]
    BY <1>0, <2>7, <2>9, <2>11 DEF FirstMoves
  <2>13. CASE p # NULL
    BY <2>2, <2>5, <2>6, <2>9, <2>10, <2>12, <2>13
  <2>14. CASE p = NULL
    <3>1. g1 \in Heap
      BY <2>9 DEF Between, SameBlocks
    <3>2. g.node = g1.node /\ SameBlocks(g, g1) /\ g[l] = c /\ g[o] = h[o]
      <4>1. PICK k : k = g1
        OBVIOUS
      <4>2. g = [k EXCEPT ![l] = c]
        BY <2>2, <2>10, <2>14, <4>1
      <4>3. k \in Heap /\ c \in Word /\ l \in {"free", "used"}
        BY <1>0, <1>1, <3>1, <4>1
      <4>4. /\ SameBlocks([k EXCEPT ![l] = c], k) /\ [k EXCEPT ![l] = c].node = k.node
            /\ [k EXCEPT ![l] = c][l] = c
            /\ \A x \in {"free", "used"} \ {l} : [k EXCEPT ![l] = c][x] = k[x]
        BY <4>3, PutHead
      <4> QED BY <1>0, <2>12, <4>1, <4>2, <4>4
    <3>3. Between(g, h, p, c, at)
      BY <2>9, <3>2 DEF Between, SameBlocks
    <3> QED BY <2>5, <2>6, <2>14, <3>2, <3>3
  <2> QED BY <2>13, <2>14
<1>6. Placed
  <2> HIDE DEF Placed
  <2> QED BY <1>3, <1>4, <1>5
<1> HIDE DEF g
<1>7. PICK p, q : /\ Over(h.node, X, a, p) /\ Beneath(h.node, X, a, q)
                  /\ Between(g, h, p, c, q)
                  /\ g[l] = IF p = NULL THEN c ELSE h[l]
                  /\ g[o] = h[o]
  BY <1>6
<1>8. SameBlocks(g, h) /\ TwoLists(g, l, X \cup {c}, o, Y)
  <2>1. PICK k : k = g
    OBVIOUS
  <2>2. /\ Over(h.node, X, h.node[c].addr, p) /\ Beneath(h.node, X, h.node[c].addr, q)
        /\ Between(k, h, p, c, q)
        /\ k[l] = (IF p = NULL THEN c ELSE h[l]) /\ k[o] = h[o]
    BY <1>7, <2>1
  <2>3. TwoLists(k, l, X \cup {c}, o, Y)
    BY <2>2, PutsBetween
  <2>4. SameBlocks(k, h)
    BY <2>2 DEF Between
  <2> QED BY <2>1, <2>3, <2>4
<1> QED BY <1>8 DEF g

\* Only the size of c is another.
Resized(g, h, c, v) ==
    /\ g \in Heap /\ DOMAIN g.node = DOMAIN h.node /\ g.free = h.free /\ g.used = h.used
    /\ \A y \in DOMAIN h.node : /\ g.node[y].addr = h.node[y].addr
                                /\ g.node[y].size = IF y = c THEN v ELSE h.node[y].size
                                /\ g.node[y].freeable = h.node[y].freeable
                                /\ g.node[y].next = h.node[y].next
                                /\ g.node[y].prev = h.node[y].prev

LEMMA PutSize ==
    ASSUME NEW h \in Heap, NEW c \in DOMAIN h.node, NEW v \in Word
    PROVE  Resized([h EXCEPT !.node[c].size = v], h, c, v)
<1> DEFINE g == [h EXCEPT !.node[c].size = v]
<1>1. PICK D \in SUBSET Word : h.node \in [D -> Node]
  BY DEF Heap
<1>2. c \in D /\ h.node[c] \in Node /\ DOMAIN h.node = D
  BY <1>1
<1>3. g.node = [h.node EXCEPT ![c] = [h.node[c] EXCEPT !.size = v]]
  BY DEF Heap
<1>4. g.free = h.free /\ g.used = h.used
  BY DEF Heap
<1>5. [h.node[c] EXCEPT !.size = v] \in Node
  BY <1>2 DEF Node
<1>6. g.node \in [D -> Node]
  BY <1>1, <1>3, <1>5
<1>7. g \in Heap
  BY <1>6 DEF Heap
<1>8. \A y \in D : h.node[y] \in Node
  BY <1>1
<1> HIDE DEF g
<1>9. \A y \in D : /\ g.node[y].addr = h.node[y].addr
                   /\ g.node[y].size = IF y = c THEN v ELSE h.node[y].size
                   /\ g.node[y].freeable = h.node[y].freeable
                   /\ g.node[y].next = h.node[y].next
                   /\ g.node[y].prev = h.node[y].prev
  BY <1>1, <1>2, <1>3, <1>8 DEF Node
<1> QED BY <1>2, <1>4, <1>6, <1>7, <1>9 DEF Resized, g

\* What is written is there, and what is erased is not.
LEMMA Written ==
    ASSUME NEW h \in Heap, NEW n \in Word, NEW m \in Node
    PROVE  LET g == Write(h, n, m)
           IN  /\ g \in Heap /\ g.free = h.free /\ g.used = h.used
               /\ DOMAIN g.node = DOMAIN h.node \cup {n} /\ g.node[n] = m
               /\ \A y \in DOMAIN h.node \ {n} : g.node[y] = h.node[y]
<1> DEFINE D == DOMAIN h.node
           w == [y \in D \cup {n} |-> IF y = n THEN m ELSE h.node[y]]
           g == Write(h, n, m)
<1>1. h.node \in [D -> Node] /\ D \subseteq Word
  BY HeapFields
<1>2. g = [h EXCEPT !.node = w]
  BY DEF Write
<1>3. \A y \in D : h.node[y] \in Node
  BY <1>1
<1> HIDE DEF D
<1>4. w \in [D \cup {n} -> Node] /\ D \cup {n} \in SUBSET Word
  BY <1>1, <1>3
<1> HIDE DEF w
<1>5. g \in Heap /\ g.node = w /\ g.free = h.free /\ g.used = h.used
  BY <1>2, <1>4 DEF Heap
<1> QED BY <1>1, <1>5 DEF w, D

LEMMA Erased ==
    ASSUME NEW h \in Heap, NEW n
    PROVE  LET g == Erase(h, n)
           IN  /\ g \in Heap /\ g.free = h.free /\ g.used = h.used
               /\ DOMAIN g.node = DOMAIN h.node \ {n}
               /\ \A y \in DOMAIN h.node \ {n} : g.node[y] = h.node[y]
<1> DEFINE D == DOMAIN h.node
           w == [y \in D \ {n} |-> h.node[y]]
           g == Erase(h, n)
<1>1. h.node \in [D -> Node] /\ D \subseteq Word
  BY HeapFields
<1>2. g = [h EXCEPT !.node = w]
  BY DEF Erase
<1>3. \A y \in D : h.node[y] \in Node
  BY <1>1
<1> HIDE DEF D
<1>4. w \in [D \ {n} -> Node] /\ D \ {n} \in SUBSET Word
  BY <1>1, <1>3
<1> HIDE DEF w
<1>5. g \in Heap /\ g.node = w /\ g.free = h.free /\ g.used = h.used
  BY <1>2, <1>4 DEF Heap
<1> QED BY <1>1, <1>5 DEF w, D

\* Moving a container between the lists.
LEMMA Moves ==
    ASSUME NEW h, NEW l, NEW o, NEW X, NEW Y, TwoLists(h, l, X, o, Y), NEW c \in X,
           \A y \in Y : h.node[y].addr # h.node[c].addr
    PROVE  LET g == memory_move_from_to(h, c, l, o)
           IN  SameBlocks(g, h) /\ TwoLists(g, l, X \ {c}, o, Y \cup {c})
<1> DEFINE g1 == Unlink(h, c, l)
           g == Insert(g1, c, o)
<1>1. SameBlocks(g1, h) /\ TwoLists(g1, l, X \ {c}, o, Y)
  BY TakesOut
<1>2. /\ X \subseteq DOMAIN h.node /\ Y \subseteq DOMAIN h.node /\ X \cap Y = {}
  BY DEF TwoLists, IsList, Keyed
<1> HIDE DEF g1
<1>3. TwoLists(g1, o, Y, l, X \ {c})
  BY <1>1 DEF TwoLists
<1>4. /\ c \in DOMAIN g1.node /\ c \notin Y \cup (X \ {c})
      /\ \A y \in Y : g1.node[y].addr # g1.node[c].addr
  BY <1>1, <1>2 DEF SameBlocks
<1>5. SameBlocks(g, g1) /\ TwoLists(g, o, Y \cup {c}, l, X \ {c})
  BY <1>3, <1>4, PutsIn, Zenon
<1> HIDE DEF g
<1>6. SameBlocks(g, h) /\ TwoLists(g, l, X \ {c}, o, Y \cup {c})
  BY <1>1, <1>5 DEF SameBlocks, TwoLists
<1> QED BY <1>6 DEF memory_move_from_to, g, g1

LEMMA ListsAreTwo ==
    ASSUME NEW h, NEW F, NEW U
    PROVE  Lists(h, F, U) <=> /\ TwoLists(h, "free", F, "used", U)
                              /\ F \cup U = DOMAIN h.node
  BY DEF Lists, TwoLists

\* memory_split: c shrinks to size v, and container m appears at n, before c.
Parted(h, c, v, n, m) ==
    memory_link_next_prev(Write([h EXCEPT !.node[c].size = v], n, m), c, n)

\* A block of another size, one that takes over the bytes of another, and the
\* block of a new container.
Sized(k, v) == [k EXCEPT !.size = v]
Joined(lower, upper) == [lower EXCEPT !.size = Add(@, Add(OVERHEAD, upper.size))]
Shown(n, m) == [hdr |-> n, addr |-> m.addr, size |-> m.size, freeable |-> m.freeable]

\* A new container above c, and nothing on the list between them.
LEMMA Splits ==
    ASSUME NEW h, NEW F, NEW U, Lists(h, F, U), NEW c \in F,
           NEW n \in Word, n # NULL, n \notin DOMAIN h.node,
           NEW s \in Word, NEW m \in Node, m.addr > h.node[c].addr,
           \A x \in F : h.node[x].addr > h.node[c].addr => h.node[x].addr > m.addr
    PROVE  LET g == Parted(h, c, s, n, m)
           IN  /\ Lists(g, F \cup {n}, U)
               /\ \A x \in DOMAIN h.node \ {c} : At(g, x) = At(h, x)
               /\ At(g, c) = Sized(At(h, c), s)
               /\ At(g, n) = Shown(n, m)
<1> DEFINE h1 == [h EXCEPT !.node[c].size = s]
           h2 == Write(h1, n, m)
           g == memory_link_next_prev(h2, c, n)
<1>0. /\ h \in Heap /\ NULL \notin DOMAIN h.node
      /\ IsList(h.node, h.free, F) /\ IsList(h.node, h.used, U)
      /\ F \cap U = {} /\ F \cup U = DOMAIN h.node /\ c \in DOMAIN h.node
  BY DEF Lists
<1>1. Resized(h1, h, c, s)
  BY <1>0, PutSize
<1> HIDE DEF h1
<1>2. /\ h2 \in Heap /\ h2.free = h1.free /\ h2.used = h1.used
      /\ DOMAIN h2.node = DOMAIN h1.node \cup {n} /\ h2.node[n] = m
      /\ \A y \in DOMAIN h1.node \ {n} : h2.node[y] = h1.node[y]
  BY <1>1, Written DEF Resized
<1> HIDE DEF h2
<1>3. /\ DOMAIN h2.node = DOMAIN h.node \cup {n} /\ NULL \notin DOMAIN h2.node
      /\ h2.free = h.free /\ h2.used = h.used
      /\ \A y \in DOMAIN h.node :
           /\ h2.node[y].addr = h.node[y].addr
           /\ h2.node[y].size = IF y = c THEN s ELSE h.node[y].size
           /\ h2.node[y].freeable = h.node[y].freeable
           /\ h2.node[y].next = h.node[y].next /\ h2.node[y].prev = h.node[y].prev
  BY <1>0, <1>1, <1>2 DEF Resized
<1>4. TwoLists(h2, "free", F, "used", U)
  <2>1. IsList(h2.node, h2.free, F)
    <3>1. F \subseteq DOMAIN h2.node
      BY <1>0, <1>3
    <3>2. \A x \in F : /\ h2.node[x].addr = h.node[x].addr
                       /\ h2.node[x].next = h.node[x].next
                       /\ h2.node[x].prev = h.node[x].prev
      BY <1>0, <1>3
    <3> QED BY <1>0, <1>3, <3>1, <3>2, ListSame
  <2>2. IsList(h2.node, h2.used, U)
    <3>1. U \subseteq DOMAIN h2.node
      BY <1>0, <1>3
    <3>2. \A x \in U : /\ h2.node[x].addr = h.node[x].addr
                       /\ h2.node[x].next = h.node[x].next
                       /\ h2.node[x].prev = h.node[x].prev
      BY <1>0, <1>3
    <3> QED BY <1>0, <1>3, <3>1, <3>2, ListSame
  <2> QED BY <1>0, <1>2, <1>3, <2>1, <2>2 DEF TwoLists
<1>5. /\ c \in DOMAIN h2.node /\ n \in DOMAIN h2.node /\ c # n /\ n \notin F \cup U
      /\ h2.node[n].addr = m.addr /\ m.addr \in Nat
      /\ \A x \in F : h2.node[x].addr = h.node[x].addr /\ h.node[x].addr \in Nat
  BY <1>0, <1>2, <1>3, HeapFields, WordFields DEF Node
<1> DEFINE p == h2.node[c].prev
<1>6. (p = NULL \/ p \in F \ {c}) /\ (p = NULL <=> h2.free = c)
  BY <1>4, Neighbours DEF TwoLists
<1>7. Over(h2.node, F, h2.node[n].addr, p) /\ Beneath(h2.node, F, h2.node[n].addr, c)
  <2>1. Over(h2.node, F, h2.node[c].addr, p)
    BY <1>4 DEF TwoLists, IsList
  <2> HIDE DEF p
  <2> QED BY <1>5, <2>1 DEF Over, Beneath
<1>8. /\ Between(g, h2, p, n, c)
      /\ IF p = NULL THEN FirstMoves(g, h2, c, n)
         ELSE g.free = h2.free /\ g.used = h2.used
  <2>1. p = NULL \/ p \in DOMAIN h2.node \ {c, n}
    BY <1>0, <1>3, <1>5, <1>6
  <2> QED BY <1>2, <1>3, <1>5, <2>1, LinksNextPrev
<1> HIDE DEF g, p
<1>9. g.free = (IF p = NULL THEN n ELSE h2.free) /\ g.used = h2.used
  BY <1>6, <1>8 DEF FirstMoves
<1>10. TwoLists(g, "free", F \cup {n}, "used", U)
  <2>1. \A x \in F : h2.node[x].addr # h2.node[n].addr
    BY <1>5
  <2>2. PICK k, k2 : k = g /\ k2 = h2
    OBVIOUS
  <2>3. /\ TwoLists(k2, "free", F, "used", U) /\ n \in DOMAIN k2.node /\ n \notin F \cup U
        /\ \A x \in F : k2.node[x].addr # k2.node[n].addr
        /\ Over(k2.node, F, k2.node[n].addr, p) /\ Beneath(k2.node, F, k2.node[n].addr, c)
        /\ Between(k, k2, p, n, c)
        /\ k["free"] = (IF p = NULL THEN n ELSE k2["free"]) /\ k["used"] = k2["used"]
    BY <1>4, <1>5, <1>7, <1>8, <1>9, <2>1, <2>2
  <2>4. TwoLists(k, "free", F \cup {n}, "used", U)
    BY ONLY <2>3, PutsBetween
  <2> QED BY <2>2, <2>4
<1>11. SameBlocks(g, h2)
  BY <1>8 DEF Between
<1>12. Lists(g, F \cup {n}, U)
  <2>1. (F \cup {n}) \cup U = DOMAIN g.node
    BY <1>0, <1>3, <1>11 DEF SameBlocks
  <2> QED BY <1>10, <2>1, ListsAreTwo
<1>13. \A x \in DOMAIN h.node \ {c} : At(g, x) = At(h, x)
  BY <1>3, <1>11 DEF At, SameBlocks
<1>14. At(g, c) = Sized(At(h, c), s)
  BY <1>3, <1>5, <1>11, <1>0 DEF At, SameBlocks, Sized
<1>15. At(g, n) = Shown(n, m)
  BY <1>2, <1>5, <1>11 DEF At, SameBlocks, Shown
<1> QED BY <1>12, <1>13, <1>14, <1>15 DEF g, h2, h1, Parted

\* prev undoes next, and next undoes prev.
LEMMA Mutual ==
    ASSUME NEW N, NEW first, NEW X, IsList(N, first, X), NEW c \in X
    PROVE  /\ N[c].prev # NULL => N[N[c].prev].next = c
           /\ N[c].next # NULL => N[N[c].next].prev = c
<1>0. /\ Keyed(N, X) /\ \A x \in X : N[x].addr \in Nat /\ x # NULL
      /\ \A x, y \in X : N[x].addr = N[y].addr => x = y
  BY WordFields DEF IsList, Keyed
<1>1. ASSUME NEW p \in X, N[c].prev = p PROVE N[p].next = c
  <2>1. Over(N, X, N[c].addr, p) /\ Beneath(N, X, N[p].addr, N[p].next)
    BY <1>1 DEF IsList
  <2>2. Beneath(N, X, N[p].addr, c)
    <3>1. N[p].addr > N[c].addr /\ \A x \in X : N[x].addr > N[c].addr => N[p].addr <= N[x].addr
      BY <1>0, <2>1 DEF Over
    <3>2. \A x \in X : N[x].addr < N[p].addr => N[x].addr <= N[c].addr
      BY <1>0, <3>1
    <3> QED BY <3>1, <3>2, <1>0 DEF Beneath
  <2> QED BY <1>0, <2>1, <2>2, BeneathOnce
<1>2. ASSUME NEW n \in X, N[c].next = n PROVE N[n].prev = c
  <2>1. Beneath(N, X, N[c].addr, n) /\ Over(N, X, N[n].addr, N[n].prev)
    BY <1>2 DEF IsList
  <2>2. Over(N, X, N[n].addr, c)
    <3>1. N[n].addr < N[c].addr /\ \A x \in X : N[x].addr < N[c].addr => N[x].addr <= N[n].addr
      BY <1>0, <2>1 DEF Beneath
    <3>2. \A x \in X : N[x].addr > N[n].addr => N[c].addr <= N[x].addr
      BY <1>0, <3>1
    <3> QED BY <3>1, <3>2, <1>0 DEF Over
  <2> QED BY <1>0, <2>1, <2>2, OverOnce
<1> QED BY <1>1, <1>2, Neighbours

LEMMA Sums ==
    /\ OVERHEAD \in Word
    /\ \A a, b \in Word : Add(a, b) \in Word /\ Sub(a, b) \in Word
<1>1. OVERHEAD \in Word
  BY WAssumption, OverheadAssumption DEF Word
<1>2. \A a, b \in Word : Add(a, b) \in Word /\ Sub(a, b) \in Word
  BY WAssumption DEF Word, Add, Sub
<1> QED BY <1>1, <1>2

\* A container that leaves memory and list_free at once.
LEMMA Drops ==
    ASSUME NEW h, NEW F, NEW U, Lists(h, F, U), NEW c \in F,
           NEW g \in Heap, DOMAIN g.node = DOMAIN h.node \ {c},
           NEW p, p = h.node[c].prev, NEW q, q = h.node[c].next,
           g.free = (IF p = NULL THEN q ELSE h.free), g.used = h.used,
           \A x \in DOMAIN h.node \ {c} :
              /\ g.node[x].addr = h.node[x].addr
              /\ g.node[x].next = IF x = p THEN q ELSE h.node[x].next
              /\ g.node[x].prev = IF x = q THEN p ELSE h.node[x].prev
    PROVE  Lists(g, F \ {c}, U)
<1>0. /\ h \in Heap /\ NULL \notin DOMAIN h.node
      /\ IsList(h.node, h.free, F) /\ IsList(h.node, h.used, U)
      /\ F \cap U = {} /\ F \cup U = DOMAIN h.node /\ c \in DOMAIN h.node
  BY DEF Lists
<1>1. (p = NULL \/ p \in F \ {c}) /\ (q = NULL \/ q \in F \ {c})
  BY <1>0, Neighbours
<1>2. IsList(g.node, g.free, F \ {c})
  <2>1. PICK N, M, first : N = h.node /\ M = g.node /\ first = h.free
    OBVIOUS
  <2>2. /\ IsList(N, first, F) /\ F \ {c} \subseteq DOMAIN M
        /\ \A x \in F \ {c} : /\ M[x].addr = N[x].addr
                              /\ M[x].next = IF x = N[c].prev THEN N[c].next ELSE N[x].next
                              /\ M[x].prev = IF x = N[c].next THEN N[c].prev ELSE N[x].prev
    <3>1. IsList(N, first, F) /\ F \ {c} \subseteq DOMAIN M /\ p = N[c].prev /\ q = N[c].next
      BY <1>0, <2>1
    <3>2. ASSUME NEW x \in F \ {c}
          PROVE  /\ M[x].addr = N[x].addr
                 /\ M[x].next = IF x = p THEN q ELSE N[x].next
                 /\ M[x].prev = IF x = q THEN p ELSE N[x].prev
      <4>1. x \in DOMAIN h.node \ {c}
        BY <1>0
      <4> QED BY <2>1, <4>1
    <3> QED BY <3>1, <3>2
  <2>3. IsList(M, IF N[c].prev = NULL THEN N[c].next ELSE first, F \ {c})
    BY <2>2, ListWithout
  <2> QED BY <2>1, <2>3
<1>3. IsList(g.node, g.used, U)
  <2>1. U \subseteq DOMAIN g.node
    BY <1>0
  <2>2. \A x \in U : /\ g.node[x].addr = h.node[x].addr
                     /\ g.node[x].next = h.node[x].next
                     /\ g.node[x].prev = h.node[x].prev
    BY <1>0, <1>1
  <2> QED BY <1>0, <2>1, <2>2, ListSame
<1> QED BY <1>0, <1>2, <1>3 DEF Lists

LEMMA MergesNext ==
    ASSUME NEW h, NEW F, NEW U, Lists(h, F, U), NEW c \in F,
           NEW n, n = h.node[c].next, n # NULL, h.node[c].prev # NULL
    PROVE  LET g == MergeNext(h, c)
           IN  /\ Lists(g, F \ {c}, U) /\ n \in F \ {c}
               /\ \A x \in DOMAIN h.node \ {c, n} : At(g, x) = At(h, x)
               /\ At(g, n) = Joined(At(h, n), At(h, c))
<1> DEFINE p == h.node[c].prev
           size == Add(h.node[n].size, Add(OVERHEAD, h.node[c].size))
           g1 == [h EXCEPT !.node[n].size = size]
           g2 == [g1 EXCEPT !.node[n].prev = p]
           g3 == [g2 EXCEPT !.node[c].size = size]
           g4 == [g3 EXCEPT !.node[p].next = n]
           g == Erase(g4, c)
<1>0. /\ h \in Heap /\ NULL \notin DOMAIN h.node
      /\ IsList(h.node, h.free, F) /\ c \in DOMAIN h.node /\ F \subseteq DOMAIN h.node
  BY DEF Lists
<1>1. p \in F \ {c} /\ n \in F \ {c} /\ p # NULL
  BY <1>0, Neighbours
<1>2. p \in Word /\ n \in Word /\ size \in Word
  <2>1. h.node[n].size \in Word /\ h.node[c].size \in Word /\ p \in Word /\ n \in Word
    BY <1>0, <1>1, HeapFields
  <2>2. Add(OVERHEAD, h.node[c].size) \in Word
    BY <2>1, Sums
  <2> QED BY <2>1, <2>2, Sums
<1>3. g = MergeNext(h, c)
  BY <1>1 DEF MergeNext
<1> HIDE DEF size, p
<1>4. Resized(g1, h, n, size)
  BY <1>0, <1>1, <1>2, PutSize
<1> HIDE DEF g1
<1>5. /\ SameBlocks(g2, g1) /\ g2.free = g1.free /\ g2.used = g1.used
      /\ \A y \in DOMAIN g1.node :
           /\ g2.node[y].next = g1.node[y].next
           /\ g2.node[y].prev = IF y = n THEN p ELSE g1.node[y].prev
  BY <1>0, <1>1, <1>2, <1>4, PutPrev DEF Resized
<1> HIDE DEF g2
<1>6. Resized(g3, g2, c, size)
  <2>1. g2 \in Heap /\ c \in DOMAIN g2.node
    BY <1>0, <1>4, <1>5 DEF Resized, SameBlocks
  <2> QED BY <1>2, <2>1, PutSize
<1> HIDE DEF g3
<1>7. /\ SameBlocks(g4, g3) /\ g4.free = g3.free /\ g4.used = g3.used
      /\ \A y \in DOMAIN g3.node :
           /\ g4.node[y].next = IF y = p THEN n ELSE g3.node[y].next
           /\ g4.node[y].prev = g3.node[y].prev
  <2>1. g3 \in Heap /\ p \in DOMAIN g3.node
    BY <1>0, <1>1, <1>4, <1>5, <1>6 DEF Resized, SameBlocks
  <2> QED BY <1>2, <2>1, PutNext
<1> HIDE DEF g4
<1>8. /\ g \in Heap /\ g.free = g4.free /\ g.used = g4.used
      /\ DOMAIN g.node = DOMAIN g4.node \ {c}
      /\ \A y \in DOMAIN g4.node \ {c} : g.node[y] = g4.node[y]
  <2>1. g4 \in Heap
    BY <1>7 DEF SameBlocks
  <2> QED BY <2>1, Erased
<1> HIDE DEF g
<1>9. /\ DOMAIN g1.node = DOMAIN h.node /\ DOMAIN g2.node = DOMAIN h.node
      /\ DOMAIN g3.node = DOMAIN h.node /\ DOMAIN g4.node = DOMAIN h.node
      /\ DOMAIN g.node = DOMAIN h.node \ {c}
      /\ g.free = h.free /\ g.used = h.used
  BY <1>4, <1>5, <1>6, <1>7, <1>8 DEF Resized, SameBlocks
<1>10. ASSUME NEW x \in DOMAIN h.node \ {c}
       PROVE  /\ g.node[x].addr = h.node[x].addr
              /\ g.node[x].size = IF x = n THEN size ELSE h.node[x].size
              /\ g.node[x].freeable = h.node[x].freeable
              /\ g.node[x].next = IF x = p THEN n ELSE h.node[x].next
              /\ g.node[x].prev = IF x = n THEN p ELSE h.node[x].prev
  BY <1>4, <1>5, <1>6, <1>7, <1>8, <1>9 DEF Resized, SameBlocks
<1>11. Lists(g, F \ {c}, U)
  <2>1. p = h.node[c].prev
    BY DEF p
  <2>2. PICK k : k = g
    OBVIOUS
  <2>3. /\ k \in Heap /\ DOMAIN k.node = DOMAIN h.node \ {c}
        /\ k.free = (IF p = NULL THEN n ELSE h.free) /\ k.used = h.used
        /\ \A x \in DOMAIN h.node \ {c} :
              /\ k.node[x].addr = h.node[x].addr
              /\ k.node[x].next = IF x = p THEN n ELSE h.node[x].next
              /\ k.node[x].prev = IF x = n THEN p ELSE h.node[x].prev
    BY <1>1, <1>8, <1>9, <1>10, <2>2
  <2>4. Lists(k, F \ {c}, U)
    BY <2>1, <2>3, Drops
  <2> QED BY <2>2, <2>4
<1>12. \A x \in DOMAIN h.node \ {c, n} : At(g, x) = At(h, x)
  BY <1>10 DEF At
<1>13. At(g, n) = Joined(At(h, n), At(h, c))
  BY <1>0, <1>1, <1>10 DEF At, size, Joined
<1> QED BY <1>1, <1>3, <1>11, <1>12, <1>13

LEMMA MergesPrev ==
    ASSUME NEW h, NEW F, NEW U, Lists(h, F, U), NEW c \in F,
           NEW p, p = h.node[c].prev, p # NULL
    PROVE  LET g == MergePrev(h, c)
           IN  /\ Lists(g, F \ {p}, U) /\ p \in F \ {c}
               /\ \A x \in DOMAIN h.node \ {c, p} : At(g, x) = At(h, x)
               /\ At(g, c) = Joined(At(h, c), At(h, p))
<1> DEFINE q == h.node[p].prev
           size == Add(h.node[c].size, Add(OVERHEAD, h.node[p].size))
           g1 == [h EXCEPT !.node[c].size = size]
           g2 == [g1 EXCEPT !.node[c].prev = q]
           g3 == IF q # NULL THEN [g2 EXCEPT !.node[q].next = c]
                 ELSE IF h.free = p THEN [g2 EXCEPT !.free = c]
                 ELSE g2
           g == Erase(g3, p)
<1>0. /\ h \in Heap /\ NULL \notin DOMAIN h.node
      /\ IsList(h.node, h.free, F) /\ c \in DOMAIN h.node /\ F \subseteq DOMAIN h.node
  BY DEF Lists
<1>1. p \in F \ {c} /\ h.node[p].next = c
  BY <1>0, Neighbours, Mutual
<1>2. (q = NULL \/ q \in F \ {p}) /\ (q = NULL <=> h.free = p) /\ c # NULL
  BY <1>0, <1>1, Neighbours
<1>3. q \in Word /\ c \in Word /\ size \in Word
  <2>1. h.node[p].size \in Word /\ h.node[c].size \in Word /\ q \in Word /\ c \in Word
    BY <1>0, <1>1, HeapFields
  <2>2. Add(OVERHEAD, h.node[p].size) \in Word
    BY <2>1, Sums
  <2> QED BY <2>1, <2>2, Sums
<1>4. g = MergePrev(h, c)
  BY DEF MergePrev
<1> HIDE DEF size
<1>5. Resized(g1, h, c, size)
  BY <1>0, <1>3, PutSize
<1> HIDE DEF g1
<1>6. /\ SameBlocks(g2, g1) /\ g2.free = g1.free /\ g2.used = g1.used
      /\ \A y \in DOMAIN g1.node :
           /\ g2.node[y].next = g1.node[y].next
           /\ g2.node[y].prev = IF y = c THEN q ELSE g1.node[y].prev
  <2>1. g1 \in Heap /\ c \in DOMAIN g1.node
    BY <1>0, <1>5 DEF Resized
  <2> QED BY <1>3, <2>1, PutPrev
<1> HIDE DEF g2
<1>7. /\ SameBlocks(g3, g2) /\ g3.used = g2.used
      /\ g3.free = IF q = NULL THEN c ELSE g2.free
      /\ \A y \in DOMAIN g2.node :
           /\ g3.node[y].next = IF y = q THEN c ELSE g2.node[y].next
           /\ g3.node[y].prev = g2.node[y].prev
  <2>1. g2 \in Heap /\ DOMAIN g2.node = DOMAIN h.node
    BY <1>5, <1>6 DEF Resized, SameBlocks
  <2>2. CASE q = NULL
    <3>1. g3 = [g2 EXCEPT !.free = c]
      BY <1>2, <2>2
    <3>2. SameBlocks(g3, g2) /\ g3.node = g2.node /\ g3.free = c /\ g3.used = g2.used
      <4>1. PICK k : k = g2
        OBVIOUS
      <4>2. /\ SameBlocks([k EXCEPT !["free"] = c], k)
            /\ [k EXCEPT !["free"] = c].node = k.node
            /\ [k EXCEPT !["free"] = c]["free"] = c
            /\ \A o \in {"free", "used"} \ {"free"} : [k EXCEPT !["free"] = c][o] = k[o]
        BY <1>3, <2>1, <4>1, PutHead
      <4> QED BY <3>1, <4>1, <4>2, Zenon
    <3> HIDE DEF g3, q
    <3> QED BY <1>0, <2>1, <2>2, <3>2
  <2>3. CASE q # NULL
    <3>1. q \in DOMAIN g2.node
      BY <1>0, <1>2, <2>1, <2>3
    <3>2. PICK k, r : k = g2 /\ r = q
      OBVIOUS
    <3>3. /\ SameBlocks([k EXCEPT !.node[r].next = c], k)
          /\ [k EXCEPT !.node[r].next = c].free = k.free
          /\ [k EXCEPT !.node[r].next = c].used = k.used
          /\ \A y \in DOMAIN k.node :
               /\ [k EXCEPT !.node[r].next = c].node[y].next
                     = IF y = r THEN c ELSE k.node[y].next
               /\ [k EXCEPT !.node[r].next = c].node[y].prev = k.node[y].prev
      <4>1. k \in Heap /\ r \in DOMAIN k.node /\ c \in Word
        BY <1>3, <2>1, <3>1, <3>2
      <4> QED BY ONLY <4>1, PutNext
    <3>4. g3 = [k EXCEPT !.node[r].next = c]
      BY <2>3, <3>2
    <3> HIDE DEF g3, q
    <3> QED BY <2>3, <3>2, <3>3, <3>4
  <2> QED BY <2>2, <2>3, Zenon
<1> HIDE DEF g3
<1>8. /\ g \in Heap /\ g.free = g3.free /\ g.used = g3.used
      /\ DOMAIN g.node = DOMAIN g3.node \ {p}
      /\ \A y \in DOMAIN g3.node \ {p} : g.node[y] = g3.node[y]
  <2>1. g3 \in Heap
    BY <1>7 DEF SameBlocks
  <2> QED BY <2>1, Erased
<1> HIDE DEF g
<1>9. /\ DOMAIN g1.node = DOMAIN h.node /\ DOMAIN g2.node = DOMAIN h.node
      /\ DOMAIN g3.node = DOMAIN h.node /\ DOMAIN g.node = DOMAIN h.node \ {p}
      /\ g.free = (IF q = NULL THEN c ELSE h.free) /\ g.used = h.used
  BY <1>5, <1>6, <1>7, <1>8 DEF Resized, SameBlocks
<1>10. ASSUME NEW x \in DOMAIN h.node \ {p}
       PROVE  /\ g.node[x].addr = h.node[x].addr
              /\ g.node[x].size = IF x = c THEN size ELSE h.node[x].size
              /\ g.node[x].freeable = h.node[x].freeable
              /\ g.node[x].next = IF x = q THEN c ELSE h.node[x].next
              /\ g.node[x].prev = IF x = c THEN q ELSE h.node[x].prev
  <2> HIDE DEF q
  <2> QED BY <1>5, <1>6, <1>7, <1>8, <1>9 DEF Resized, SameBlocks
<1>11. Lists(g, F \ {p}, U)
  <2>1. PICK k, r : k = g /\ r = q
    OBVIOUS
  <2>2. /\ k \in Heap /\ DOMAIN k.node = DOMAIN h.node \ {p}
        /\ r = h.node[p].prev /\ c = h.node[p].next
        /\ k.free = (IF r = NULL THEN c ELSE h.free) /\ k.used = h.used
        /\ \A x \in DOMAIN h.node \ {p} :
              /\ k.node[x].addr = h.node[x].addr
              /\ k.node[x].next = IF x = r THEN c ELSE h.node[x].next
              /\ k.node[x].prev = IF x = c THEN r ELSE h.node[x].prev
    BY <1>1, <1>8, <1>9, <1>10, <2>1
  <2>3. Lists(k, F \ {p}, U)
    BY <1>1, <2>2, Drops
  <2> QED BY <2>1, <2>3
<1>12. \A x \in DOMAIN h.node \ {c, p} : At(g, x) = At(h, x)
  BY <1>10 DEF At
<1>13. At(g, c) = Joined(At(h, c), At(h, p))
  BY <1>0, <1>1, <1>10 DEF At, size, Joined
<1> QED BY <1>1, <1>4, <1>11, <1>12, <1>13

-----------------------------------------------------------------------------
(* Splitting, moving and merging in terms of blocks.                       *)

Blocks(h, X) == {At(h, x) : x \in X}

\* The two parts memory_split makes of k.
LowerPart(k, address, size) ==
    IF address = k.addr THEN Sized(k, size)
    ELSE Sized(k, Sub(Sub(address, k.addr), OVERHEAD))

UpperPart(k, address, size) ==
    IF address = k.addr
    THEN [hdr      |-> Add(address, size),
          addr     |-> Add(Add(address, size), OVERHEAD),
          size     |-> Sub(Sub(k.size, size), OVERHEAD),
          freeable |-> TRUE]
    ELSE [hdr      |-> Sub(address, OVERHEAD),
          addr     |-> address,
          size     |-> Add(Sub(k.size, address), k.addr),
          freeable |-> TRUE]

LEMMA SplitParts ==
    ASSUME NEW h, NEW F, NEW U, Lists(h, F, U), NEW c \in F,
           NEW k, k = At(h, c), NEW address, NEW size,
           NEW low, low = LowerPart(k, address, size), low \in Container,
           NEW upp, upp = UpperPart(k, address, size), upp \in Container,
           upp.hdr # NULL, upp.hdr \notin DOMAIN h.node, upp.addr > k.addr,
           \A x \in F : At(h, x).addr > k.addr => At(h, x).addr > upp.addr
    PROVE  LET s == memory_split(h, c, address, size)
           IN  /\ Lists(s.heap, F \cup {upp.hdr}, U)
               /\ \A x \in DOMAIN h.node \ {c} : At(s.heap, x) = At(h, x)
               /\ At(s.heap, c) = low /\ At(s.heap, upp.hdr) = upp
               /\ s.at = IF address = k.addr THEN c ELSE upp.hdr
<1>0. PICK n, v, m : n = upp.hdr /\ v = low.size /\ m = Fresh(upp.addr, upp.size, TRUE)
  BY Zenon
<1> DEFINE g == Parted(h, c, v, n, m)
<1>1. /\ k.addr = h.node[c].addr /\ k.size = h.node[c].size
      /\ k = [hdr |-> c, addr |-> h.node[c].addr, size |-> h.node[c].size,
              freeable |-> h.node[c].freeable]
  BY DEF At
<1>2. upp.freeable = TRUE /\ low = Sized(k, low.size)
  <2>1. CASE address = k.addr
    BY <1>1, <2>1 DEF LowerPart, UpperPart, Sized
  <2>2. CASE address # k.addr
    BY <1>1, <2>2 DEF LowerPart, UpperPart, Sized
  <2> QED BY <2>1, <2>2, Zenon
<1>3. /\ upp.hdr \in Word /\ low.size \in Word /\ upp.addr \in Word /\ upp.size \in Word
      /\ upp = [hdr |-> upp.hdr, addr |-> upp.addr, size |-> upp.size,
                freeable |-> TRUE]
  BY <1>2 DEF Container
<1>4. m \in Node /\ m.addr = upp.addr /\ m.size = upp.size /\ m.freeable = TRUE
  <2>1. NULL \in Word
    BY WAssumption DEF NULL, Word
  <2> QED BY <1>0, <1>3, <2>1 DEF Node, Fresh
<1>5. m.addr > h.node[c].addr
      /\ \A x \in F : h.node[x].addr > h.node[c].addr => h.node[x].addr > m.addr
  BY <1>1, <1>4 DEF At
<1>6. /\ Lists(g, F \cup {n}, U)
      /\ \A x \in DOMAIN h.node \ {c} : At(g, x) = At(h, x)
      /\ At(g, c) = Sized(At(h, c), v)
      /\ At(g, n) = Shown(n, m)
  <2>1. n \in Word /\ n # NULL /\ n \notin DOMAIN h.node /\ v \in Word
    BY <1>0, <1>3
  <2>2. /\ Lists(h, F, U) /\ c \in F /\ n \in Word /\ n # NULL /\ n \notin DOMAIN h.node
        /\ v \in Word /\ m \in Node /\ m.addr > h.node[c].addr
        /\ \A x \in F : h.node[x].addr > h.node[c].addr => h.node[x].addr > m.addr
    BY <1>4, <1>5, <2>1
  <2> HIDE DEF g
  <2>3. Lists(g, F \cup {n}, U)
    BY ONLY <2>2, Splits, Zenon DEF g
  <2> QED BY <2>2, <2>3, Splits DEF g
<1>7. memory_split(h, c, address, size)
        = [heap |-> g, at |-> IF address = k.addr THEN c ELSE n]
  <2>1. CASE address = k.addr
    <3>1. v = size /\ n = upp.hdr /\ upp.hdr = Add(address, size)
          /\ upp.addr = Add(upp.hdr, OVERHEAD) /\ upp.size = Sub(Sub(k.size, size), OVERHEAD)
      BY <1>0, <1>1, <2>1 DEF LowerPart, UpperPart, Sized
    <3> QED BY <1>0, <1>1, <2>1, <3>1, Zenon DEF memory_split, Parted
  <2>2. CASE address # k.addr
    <3>1. v = Sub(Sub(address, k.addr), OVERHEAD) /\ n = upp.hdr /\ upp.hdr = Sub(address, OVERHEAD)
          /\ upp.addr = address /\ upp.size = Add(Sub(k.size, address), k.addr)
      BY <1>0, <1>1, <2>2 DEF LowerPart, UpperPart, Sized
    <3> QED BY <1>0, <1>1, <2>2, <3>1, Zenon DEF memory_split, Parted
  <2> QED BY <2>1, <2>2
<1> HIDE DEF g
<1>8. At(g, c) = low /\ At(g, n) = upp
  BY <1>0, <1>2, <1>3, <1>4, <1>6, Zenon DEF Sized, Shown
<1> QED BY <1>0, <1>6, <1>7, <1>8

LEMMA MoveParts ==
    ASSUME NEW h, NEW F, NEW U, Lists(h, F, U)
    PROVE  /\ \A c \in F : (\A y \in U : At(h, y).addr # At(h, c).addr) =>
                LET g == memory_move_from_to(h, c, "free", "used")
                IN  Lists(g, F \ {c}, U \cup {c}) /\ \A x \in DOMAIN h.node : At(g, x) = At(h, x)
           /\ \A c \in U : (\A y \in F : At(h, y).addr # At(h, c).addr) =>
                LET g == memory_move_from_to(h, c, "used", "free")
                IN  Lists(g, F \cup {c}, U \ {c}) /\ \A x \in DOMAIN h.node : At(g, x) = At(h, x)
<1>0. TwoLists(h, "free", F, "used", U) /\ TwoLists(h, "used", U, "free", F)
      /\ F \cup U = DOMAIN h.node
  BY DEF TwoLists, Lists
<1>1. ASSUME NEW c \in F, \A y \in U : At(h, y).addr # At(h, c).addr,
             NEW g, g = memory_move_from_to(h, c, "free", "used")
      PROVE  Lists(g, F \ {c}, U \cup {c}) /\ \A x \in DOMAIN h.node : At(g, x) = At(h, x)
  <2>1. SameBlocks(g, h) /\ TwoLists(g, "free", F \ {c}, "used", U \cup {c})
    BY <1>0, <1>1, Moves DEF At
  <2>2. (F \ {c}) \cup (U \cup {c}) = DOMAIN g.node
    BY <1>0, <2>1 DEF SameBlocks
  <2> QED BY <2>1, <2>2, ListsAreTwo DEF SameBlocks, At
<1>2. ASSUME NEW c \in U, \A y \in F : At(h, y).addr # At(h, c).addr,
             NEW g, g = memory_move_from_to(h, c, "used", "free")
      PROVE  Lists(g, F \cup {c}, U \ {c}) /\ \A x \in DOMAIN h.node : At(g, x) = At(h, x)
  <2>1. SameBlocks(g, h) /\ TwoLists(g, "used", U \ {c}, "free", F \cup {c})
    BY <1>0, <1>2, Moves DEF At
  <2>2. /\ (F \cup {c}) \cup (U \ {c}) = DOMAIN g.node
        /\ TwoLists(g, "free", F \cup {c}, "used", U \ {c})
    BY <1>0, <2>1 DEF SameBlocks, TwoLists
  <2> QED BY <2>1, <2>2, ListsAreTwo DEF SameBlocks, At
<1> QED BY <1>1, <1>2, Zenon

\* d may become a container above c.
Open(h, F, c, d) ==
    /\ d \in Container /\ d.hdr # NULL /\ d.hdr \notin DOMAIN h.node
    /\ d.addr > At(h, c).addr
    /\ \A x \in F : At(h, x).addr > At(h, c).addr => At(h, x).addr > d.addr

\* g is h with c gone from list_free and put into list_used.
Took(h, F, U, c, g) ==
    /\ Lists(g, F \ {c}, U \cup {c}) /\ At(g, c) = At(h, c) /\ c # NULL
    /\ Blocks(g, F \ {c}) = Blocks(h, F) \ {At(h, c)}
    /\ Blocks(g, U \cup {c}) = Blocks(h, U) \cup {At(h, c)}

\* c is taken from list_free and goes to list_used.
LEMMA TakeWhole ==
    ASSUME NEW h, NEW F, NEW U, Lists(h, F, U), NEW c \in F,
           \A y \in U : At(h, y).addr # At(h, c).addr,
           NEW g, g = memory_move_from_to(h, c, "free", "used")
    PROVE  Took(h, F, U, c, g)
<1>1. /\ Lists(g, F \ {c}, U \cup {c})
      /\ \A x \in DOMAIN h.node : At(g, x) = At(h, x)
  BY MoveParts
<1>2. F \subseteq DOMAIN h.node /\ U \subseteq DOMAIN h.node /\ c # NULL
  BY DEF Lists
<1>3. \A x, y : At(h, x) = At(h, y) => x = y
  BY DEF At
<1> QED BY <1>1, <1>2, <1>3 DEF Blocks, Took

\* The lower part of c is taken and the upper part stays.
LEMMA TakeHead ==
    ASSUME NEW h, NEW F, NEW U, Lists(h, F, U), NEW c \in F,
           NEW k, k = At(h, c), NEW size,
           NEW low, low = LowerPart(k, k.addr, size), low \in Container,
           NEW upp, upp = UpperPart(k, k.addr, size), Open(h, F, c, upp),
           \A y \in U : At(h, y).addr # low.addr,
           NEW s, s = memory_split(h, c, k.addr, size),
           NEW g, g = memory_move_from_to(s.heap, s.at, "free", "used")
    PROVE  /\ s.at = c /\ At(g, c) = low /\ c # NULL
           /\ \E G, V : /\ Lists(g, G, V)
                        /\ Blocks(g, G) = (Blocks(h, F) \ {k}) \cup {upp}
                        /\ Blocks(g, V) = Blocks(h, U) \cup {low}
<1> DEFINE n == upp.hdr
<1>1. /\ Lists(s.heap, F \cup {n}, U)
      /\ \A x \in DOMAIN h.node \ {c} : At(s.heap, x) = At(h, x)
      /\ At(s.heap, c) = low /\ At(s.heap, n) = upp /\ s.at = c
  <2>1. /\ upp \in Container /\ upp.hdr # NULL /\ upp.hdr \notin DOMAIN h.node
        /\ upp.addr > k.addr
        /\ \A x \in F : At(h, x).addr > k.addr => At(h, x).addr > upp.addr
    BY DEF Open
  <2>2. PICK address : address = k.addr
    OBVIOUS
  <2>3. low = LowerPart(k, address, size) /\ upp = UpperPart(k, address, size)
        /\ s = memory_split(h, c, address, size)
    BY <2>2
  <2>4. Lists(s.heap, F \cup {upp.hdr}, U)
    BY <2>1, <2>3, SplitParts
  <2>5. /\ \A x \in DOMAIN h.node \ {c} : At(s.heap, x) = At(h, x)
        /\ At(s.heap, c) = low /\ At(s.heap, upp.hdr) = upp
        /\ s.at = IF address = k.addr THEN c ELSE upp.hdr
    BY <2>1, <2>3, <2>4, SplitParts
  <2> QED BY <2>2, <2>4, <2>5
<1>2. /\ F \subseteq DOMAIN h.node /\ U \subseteq DOMAIN h.node /\ F \cap U = {}
      /\ c \notin U /\ n \notin DOMAIN h.node
  BY DEF Lists, Open
<1>3. /\ Blocks(s.heap, F \cup {n}) = (Blocks(h, F) \ {k}) \cup {low, upp}
      /\ Blocks(s.heap, U) = Blocks(h, U)
  <2>1. \A x, y : At(h, x) = At(h, y) => x = y
    BY DEF At
  <2> HIDE DEF n
  <2> QED BY <1>1, <1>2, <2>1 DEF Blocks
<1>4. \A y \in U : At(s.heap, y).addr # At(s.heap, c).addr
  BY <1>1, <1>2
<1>5. PICK h1, F1 : h1 = s.heap /\ F1 = F \cup {n}
  BY Zenon
<1>6. /\ Lists(g, F1 \ {c}, U \cup {c}) /\ At(g, c) = At(h1, c) /\ c # NULL
      /\ Blocks(g, F1 \ {c}) = Blocks(h1, F1) \ {At(h1, c)}
      /\ Blocks(g, U \cup {c}) = Blocks(h1, U) \cup {At(h1, c)}
  <2>1. /\ Lists(h1, F1, U) /\ c \in F1
        /\ \A y \in U : At(h1, y).addr # At(h1, c).addr
        /\ g = memory_move_from_to(h1, c, "free", "used")
    BY <1>1, <1>4, <1>5
  <2>2. Took(h1, F1, U, c, g)
    BY <2>1, TakeWhole
  <2> QED BY <2>2, Zenon DEF Took
<1>7. low \notin Blocks(h, F) \ {k} /\ low # upp
  <2>1. low.hdr = c /\ \A x : At(h, x).hdr = x
    <3>1. low = Sized(k, size)
      BY DEF LowerPart
    <3> QED BY <3>1 DEF Sized, At
  <2>2. upp.hdr # c
    BY <1>2
  <2>3. \A b \in Blocks(h, F) \ {k} : b.hdr # c
    BY <2>1 DEF Blocks
  <2> QED BY <2>1, <2>2, <2>3
<1>8. Blocks(g, F1 \ {c}) = (Blocks(h, F) \ {k}) \cup {upp}
  <2>1. Blocks(h1, F1) = (Blocks(h, F) \ {k}) \cup {low, upp} /\ At(h1, c) = low
    BY <1>1, <1>3, <1>5, Zenon
  <2> QED BY <1>6, <1>7, <2>1
<1>9. Blocks(g, U \cup {c}) = Blocks(h, U) \cup {low} /\ At(g, c) = low
  BY <1>1, <1>3, <1>5, <1>6, Zenon
<1> QED BY <1>1, <1>6, <1>8, <1>9, Zenon

\* The middle of c is taken.
LEMMA TakeMiddle ==
    ASSUME NEW h, NEW F, NEW U, Lists(h, F, U), NEW c \in F,
           NEW k, k = At(h, c), NEW size, NEW start, start # k.addr,
           NEW low, low = LowerPart(k, start, size), low \in Container,
           NEW tail, tail = UpperPart(k, start, size), Open(h, F, c, tail),
           NEW mid, mid = LowerPart(tail, start, size), mid \in Container,
           NEW rest, rest = UpperPart(tail, start, size), Open(h, F, c, rest),
           rest.addr > tail.addr, rest.hdr # tail.hdr,
           \A y \in U : At(h, y).addr # mid.addr,
           NEW s, s = memory_split(h, c, start, size),
           NEW t, t = memory_split(s.heap, s.at, start, size),
           NEW g, g = memory_move_from_to(t.heap, t.at, "free", "used")
    PROVE  /\ t.at # NULL /\ At(g, t.at) = mid
           /\ \E G, V : /\ Lists(g, G, V)
                        /\ Blocks(g, G) = (Blocks(h, F) \ {k}) \cup {low, rest}
                        /\ Blocks(g, V) = Blocks(h, U) \cup {mid}
<1>0. PICK n, F1, h1 : n = tail.hdr /\ F1 = F \cup {n} /\ h1 = s.heap
  BY Zenon
<1>1. /\ Lists(h1, F1, U)
      /\ \A x \in DOMAIN h.node \ {c} : At(h1, x) = At(h, x)
      /\ At(h1, c) = low /\ At(h1, n) = tail /\ s.at = n
  <2>1. /\ tail \in Container /\ tail.hdr # NULL /\ tail.hdr \notin DOMAIN h.node
        /\ tail.addr > k.addr
        /\ \A x \in F : At(h, x).addr > k.addr => At(h, x).addr > tail.addr
    BY DEF Open
  <2>2. Lists(s.heap, F \cup {tail.hdr}, U)
    BY <2>1, SplitParts
  <2>3. /\ \A x \in DOMAIN h.node \ {c} : At(s.heap, x) = At(h, x)
        /\ At(s.heap, c) = low /\ At(s.heap, tail.hdr) = tail
        /\ s.at = IF start = k.addr THEN c ELSE tail.hdr
    BY <2>1, <2>2, SplitParts
  <2> QED BY <1>0, <2>2, <2>3
<1>2. /\ F \subseteq DOMAIN h.node /\ U \subseteq DOMAIN h.node /\ F \cap U = {}
      /\ c \notin U /\ n \notin DOMAIN h.node /\ F \cup U = DOMAIN h.node
      /\ DOMAIN h1.node = DOMAIN h.node \cup {n}
      /\ rest.hdr \notin DOMAIN h.node
  BY <1>0, <1>1 DEF Lists, Open
<1>3. low.addr = k.addr /\ tail.addr = start /\ mid.hdr = n /\ low.hdr = c
      /\ mid.addr = start
  <2>1. low.addr = k.addr /\ tail.addr = start /\ k.hdr = c /\ low.hdr = k.hdr
    BY DEF LowerPart, UpperPart, Sized, At
  <2> QED BY <1>0, <2>1 DEF LowerPart, Sized, Open, Container
<1>4. Open(h1, F1, n, rest)
  <2>1. \A x \in F1 : At(h1, x).addr > tail.addr => At(h1, x).addr > rest.addr
    <3> SUFFICES ASSUME NEW x \in F1, At(h1, x).addr > tail.addr
                 PROVE  At(h1, x).addr > rest.addr
      OBVIOUS
    <3>0. /\ k.addr \in Nat /\ tail.addr \in Nat /\ tail.addr > k.addr
          /\ \A y \in F : At(h, y).addr \in Nat
      <4>1. k.addr \in Nat /\ \A y \in F : At(h, y).addr \in Nat
        BY WordFields DEF Lists, IsList, Keyed, At
      <4> QED BY <4>1, WordFields DEF Open, Container
    <3>1. CASE x = n
      BY <1>1, <3>0, <3>1
    <3>2. CASE x = c
      BY <1>1, <1>3, <3>0, <3>2
    <3>3. CASE x \in F \ {c}
      <4>1. At(h1, x) = At(h, x) /\ At(h, x).addr > k.addr
        BY <1>1, <1>2, <3>0, <3>3
      <4> QED BY <3>3, <4>1 DEF Open
    <3> QED BY <1>0, <3>1, <3>2, <3>3
  <2> QED BY <1>0, <1>1, <1>2, <2>1 DEF Open
<1>5. \A y \in U : At(h1, y).addr # mid.addr
  BY <1>1, <1>2
<1>6. /\ Lists(h1, F1, U) /\ n \in F1 /\ tail = At(h1, n)
      /\ mid = LowerPart(tail, tail.addr, size) /\ mid \in Container
      /\ rest = UpperPart(tail, tail.addr, size)
      /\ t = memory_split(h1, n, tail.addr, size)
      /\ g = memory_move_from_to(t.heap, t.at, "free", "used")
  BY <1>0, <1>1, <1>3
<1>7. /\ t.at = n /\ At(g, n) = mid /\ n # NULL
      /\ \E G, V : /\ Lists(g, G, V)
                   /\ Blocks(g, G) = (Blocks(h1, F1) \ {tail}) \cup {rest}
                   /\ Blocks(g, V) = Blocks(h1, U) \cup {mid}
  BY ONLY <1>4, <1>5, <1>6, TakeHead
<1>8. PICK G, V : /\ Lists(g, G, V)
                  /\ Blocks(g, G) = (Blocks(h1, F1) \ {tail}) \cup {rest}
                  /\ Blocks(g, V) = Blocks(h1, U) \cup {mid}
  BY <1>7
<1>9. Blocks(h1, U) = Blocks(h, U)
  BY <1>1, <1>2 DEF Blocks
<1>10. Blocks(h1, F1) \ {tail} = (Blocks(h, F) \ {k}) \cup {low}
  <2>1. \A x : At(h, x).hdr = x /\ At(h1, x).hdr = x
    BY DEF At
  <2>2. \A x \in F1 \ {n, c} : At(h1, x) = At(h, x)
    BY <1>0, <1>1, <1>2
  <2>3. Blocks(h1, F1) = {At(h, x) : x \in F \ {c}} \cup {low, tail}
    BY <1>0, <1>1, <1>2, <2>2 DEF Blocks
  <2>4. Blocks(h, F) \ {k} = {At(h, x) : x \in F \ {c}}
    BY <2>1 DEF Blocks
  <2>5. tail \notin {At(h, x) : x \in F \ {c}} /\ tail # low
    BY <1>0, <1>2, <1>3, <2>1
  <2> QED BY <2>3, <2>4, <2>5
<1>11. Blocks(g, G) = (Blocks(h, F) \ {k}) \cup {low, rest}
  BY <1>8, <1>10
<1> QED BY <1>7, <1>8, <1>9, <1>11

-----------------------------------------------------------------------------
(* The lists seen as sets.                                                 *)

P == INSTANCE MemoryProofs WITH free <- FreeBlocks, used <- UsedBlocks

\* What Memory assumes of its constants.
Assumed == /\ W \in Nat \ {0} /\ OVERHEAD \in Nat \ {0} /\ 2 * OVERHEAD < W
           /\ Requests \subseteq [size : P!Word, limit : P!Word, align : P!Word]
           /\ P!Consistent(BootFree, BootUsed)

LEMMA SameConsistent == \A f, u : Sets!Consistent(f, u) = P!Consistent(f, u)
<1>1. \A c : Sets!Inline(c) = P!Inline(c) /\ Sets!Base(c) = P!Base(c) /\ Sets!End(c) = P!End(c)
  BY DEF Sets!Inline, P!Inline, Sets!Base, P!Base, Sets!End, P!End, Sets!Add, P!Add
<1>2. \A c, d : Sets!Apart(c, d) = P!Apart(c, d)
  BY <1>1 DEF Sets!Apart, P!Apart
<1>3. Sets!Container = P!Container
  BY DEF Sets!Container, P!Container, Sets!Word, P!Word
<1>4. \A f : Sets!Placed(f) = P!Placed(f) /\ Sets!AllApart(f) = P!AllApart(f)
  BY <1>1, <1>2 DEF Sets!Placed, P!Placed, Sets!AllApart, P!AllApart
<1>5. \A f, u : Sets!Usable(f, u) = P!Usable(f, u) /\ Sets!RoomAbove(f, u) = P!RoomAbove(f, u)
  BY <1>1 DEF Sets!Usable, P!Usable, Sets!RoomAbove, P!RoomAbove
<1> QED BY <1>3, <1>4, <1>5 DEF Sets!Consistent, P!Consistent

LEMMA AssumptionsHold == Assumed
<1>1. Requests \subseteq [size : P!Word, limit : P!Word, align : P!Word]
  BY RequestsAssumption DEF Word, P!Word
<1> QED BY <1>1, WAssumption, OverheadAssumption, BootAssumption, SameConsistent DEF Assumed

\* The search sees the same containers.
LEMMA SameFit ==
    \A c, r : /\ P!Serves(c, r) = Serves(c, r)
              /\ P!ExactFit(c, r) = ExactFit(c, r)
              /\ P!OnEdge(c, r) = OnEdge(c, r)
              /\ P!Start(c, r) = Start(c, r)
<1>1. \A a, b : P!Add(a, b) = Add(a, b) /\ P!Sub(a, b) = Sub(a, b)
  BY DEF P!Add, P!Sub, Add, Sub
<1>2. \A c, r : P!Rounded(c, r) = Rounded(c, r)
  BY <1>1 DEF P!Rounded, Rounded
<1>3. \A c, r : P!Skipped(c, r) = Skipped(c, r) /\ P!Start(c, r) = Start(c, r)
  BY <1>2 DEF P!Skipped, Skipped, P!Start, Start
<1>4. \A c : P!End(c) = End(c)
  BY <1>1 DEF P!End, End
<1>5. \A c, r : P!WithinLimit(c, r) = WithinLimit(c, r) /\ P!OnEdge(c, r) = OnEdge(c, r)
  BY <1>1, <1>3, <1>4 DEF P!WithinLimit, WithinLimit, P!OnEdge, OnEdge
<1>6. \A c, r : /\ P!PlainFit(c, r) = PlainFit(c, r) /\ P!ExactFit(c, r) = ExactFit(c, r)
                /\ P!EdgeFit(c, r) = EdgeFit(c, r) /\ P!MiddleFit(c, r) = MiddleFit(c, r)
  BY <1>1, <1>3, <1>5 DEF P!PlainFit, PlainFit, P!ExactFit, ExactFit,
     P!EdgeFit, EdgeFit, P!MiddleFit, MiddleFit
<1> QED BY <1>3, <1>5, <1>6 DEF P!Serves, Serves

\* memory_split makes the parts Memory names.
LEMMA SameParts ==
    /\ \A c, x : /\ P!HeadLower(c, x) = Sized(c, x)
                 /\ P!TailUpper(c, x) = [hdr      |-> Sub(x, OVERHEAD),
                                         addr     |-> x,
                                         size     |-> Add(Sub(c.size, x), c.addr),
                                         freeable |-> TRUE]
                 /\ P!TailLower(c, x) = Sized(c, Sub(Sub(x, c.addr), OVERHEAD))
                 /\ P!HeadUpper(c, x) = [hdr      |-> Add(c.addr, x),
                                         addr     |-> Add(Add(c.addr, x), OVERHEAD),
                                         size     |-> Sub(Sub(c.size, x), OVERHEAD),
                                         freeable |-> TRUE]
    /\ P!Container = Container
<1>1. \A a, b : P!Add(a, b) = Add(a, b) /\ P!Sub(a, b) = Sub(a, b)
  BY DEF P!Add, P!Sub, Add, Sub
<1>2. P!Container = Container
  BY DEF P!Container, Container, P!Word, Word
<1> QED BY <1>1, <1>2, Zenon DEF P!HeadLower, P!HeadUpper, P!TailLower, P!TailUpper, Sized

OnFree == Range(Chain(heap, heap.free))
OnUsed == Range(Chain(heap, heap.used))

\* The lists are those of the pointers, and their blocks lie as Memory has them.
ListInv == Lists(heap, OnFree, OnUsed) /\ P!Layout(FreeBlocks, UsedBlocks)

LEMMA BlocksOfLists == FreeBlocks = Blocks(heap, OnFree) /\ UsedBlocks = Blocks(heap, OnUsed)
  BY DEF FreeBlocks, UsedBlocks, Blocks, OnFree, OnUsed

\* The walk over list_free stops at the container Memory picks.
LEMMA Search ==
    ASSUME ListInv, NEW r, NEW c,
           c = Find(heap, heap.free, {x \in DOMAIN heap.node : Serves(At(heap, x), r)})
    PROVE  \/ c = NULL /\ \A k \in FreeBlocks : ~P!Serves(k, r)
           \/ c \in OnFree /\ c # NULL /\ P!FirstFit(At(heap, c), r)
<1> DEFINE wanted == {x \in DOMAIN heap.node : Serves(At(heap, x), r)}
<1>1. /\ heap \in Heap /\ NULL \notin DOMAIN heap.node
      /\ IsList(heap.node, heap.free, OnFree) /\ OnFree \subseteq DOMAIN heap.node
  BY DEF ListInv, Lists
<1>2. \/ c = NULL /\ OnFree \cap wanted = {}
      \/ /\ c \in OnFree \cap wanted
         /\ \A y \in OnFree \cap wanted : heap.node[y].addr <= heap.node[c].addr
  <2>1. PICK want : want = wanted
    OBVIOUS
  <2> HIDE DEF wanted
  <2>2. c = Find(heap, heap.free, want)
    BY <2>1 DEF wanted
  <2>3. \/ c = NULL /\ OnFree \cap want = {}
        \/ /\ c \in OnFree \cap want
           /\ \A y \in OnFree \cap want : heap.node[y].addr <= heap.node[c].addr
    <3>1. PICK h, first, X : h = heap /\ first = heap.free /\ X = OnFree
      OBVIOUS
    <3>2. h \in Heap /\ NULL \notin DOMAIN h.node /\ IsList(h.node, first, X)
      BY <1>1, <3>1
    <3>3. LET x == Find(h, first, want)
          IN  \/ x = NULL /\ X \cap want = {}
              \/ /\ x \in X \cap want
                 /\ \A y \in X \cap want : h.node[y].addr <= h.node[x].addr
      BY ONLY <3>2, Finds, Zenon
    <3> QED BY <2>2, <3>1, <3>3
  <2> QED BY <2>1, <2>3
<1>3. \A x : At(heap, x).addr = heap.node[x].addr
  BY DEF At
<1>4. CASE c = NULL /\ OnFree \cap wanted = {}
  <2>1. \A x \in OnFree : ~Serves(At(heap, x), r)
    BY <1>1, <1>4
  <2> QED BY <1>4, <2>1, BlocksOfLists, SameFit DEF Blocks
<1>5. CASE /\ c \in OnFree \cap wanted
           /\ \A y \in OnFree \cap wanted : heap.node[y].addr <= heap.node[c].addr
  <2>1. Serves(At(heap, c), r) /\ c # NULL
    BY <1>1, <1>5
  <2>2. \A x \in OnFree : Serves(At(heap, x), r) => At(heap, x).addr <= At(heap, c).addr
    <3> SUFFICES ASSUME NEW x \in OnFree, Serves(At(heap, x), r)
                 PROVE  At(heap, x).addr <= At(heap, c).addr
      OBVIOUS
    <3>1. x \in OnFree \cap wanted
      BY <1>1
    <3>2. heap.node[x].addr <= heap.node[c].addr
      BY <1>5, <3>1
    <3>3. At(heap, x).addr = heap.node[x].addr /\ At(heap, c).addr = heap.node[c].addr
      BY DEF At
    <3> QED BY <3>2, <3>3
  <2>3. \A d \in FreeBlocks : Serves(d, r) => d.addr <= At(heap, c).addr
    BY <2>2, BlocksOfLists DEF Blocks
  <2> QED BY <1>5, <2>1, <2>3, SameFit DEF P!FirstFit
<1> QED BY <1>2, <1>4, <1>5

\* Memory finds room for the pieces, and so do the lists.
LEMMA Opens ==
    ASSUME ListInv, NEW c \in OnFree, NEW d, P!Settles(d, At(heap, c))
    PROVE  Open(heap, OnFree, c, d)
<1>1. \A x \in OnFree \cup OnUsed : At(heap, x) \in FreeBlocks \cup UsedBlocks
  BY BlocksOfLists DEF Blocks
<1>2. \A x : At(heap, x).hdr = x
  BY DEF At
<1>3. \A x \in OnFree : At(heap, x) \in FreeBlocks
  BY BlocksOfLists DEF Blocks
<1>4. DOMAIN heap.node = OnFree \cup OnUsed
  BY DEF ListInv, Lists
<1>5. d.hdr \notin DOMAIN heap.node
  BY <1>1, <1>2, <1>4 DEF P!Settles
<1> QED BY <1>3, <1>5, SameParts DEF P!Settles, Open, NULL

\* memory_alloc on the pointers, between lock and unlock.
Serving(r, got) ==
    \/ /\ got.at = NULL /\ got.heap = heap
       /\ \A k \in FreeBlocks : ~P!Serves(k, r)
    \/ \E k \in FreeBlocks :
         /\ P!FirstFit(k, r) /\ got.at # NULL
         /\ At(got.heap, got.at) = P!Chosen(k, r)
         /\ \E G, V : /\ Lists(got.heap, G, V)
                      /\ Blocks(got.heap, G) = (FreeBlocks \ {k}) \cup P!Remains(k, r)
                      /\ Blocks(got.heap, V) = UsedBlocks \cup {P!Chosen(k, r)}

\* The block handed out begins where no block in use does.
LEMMA NewAddress ==
    ASSUME ListInv, NEW r \in Requests, P!Clear(r), NEW k \in FreeBlocks, P!FirstFit(k, r)
    PROVE  \A y \in OnUsed : At(heap, y).addr # P!Chosen(k, r).addr
<1>1. \A y \in UsedBlocks : y.addr # P!Chosen(k, r).addr
  BY P!ServePlaces, AssumptionsHold DEF Assumed, ListInv
<1> QED BY <1>1, BlocksOfLists DEF Blocks

LEMMA ServesExact ==
    ASSUME ListInv, NEW r \in Requests, P!Clear(r),
           NEW c \in OnFree, NEW k, k = At(heap, c), P!FirstFit(k, r), ExactFit(k, r),
           NEW got, got = [heap |-> memory_move_from_to(heap, c, "free", "used"), at |-> c]
    PROVE  Serving(r, got)
<1>1. k \in FreeBlocks
  BY BlocksOfLists DEF Blocks
<1>2. P!Chosen(k, r) = k /\ P!Remains(k, r) = {}
  BY SameFit DEF P!Chosen, P!Remains
<1>3. \A y \in OnUsed : At(heap, y).addr # At(heap, c).addr
  BY <1>1, <1>2, NewAddress
<1>4. PICK h, g : h = heap /\ g = got.heap
  OBVIOUS
<1>5. Took(h, OnFree, OnUsed, c, g)
  BY <1>3, <1>4, TakeWhole DEF ListInv
<1>6. /\ Lists(g, OnFree \ {c}, OnUsed \cup {c}) /\ At(g, c) = k /\ c # NULL
      /\ Blocks(g, OnFree \ {c}) = FreeBlocks \ {k}
      /\ Blocks(g, OnUsed \cup {c}) = UsedBlocks \cup {k}
  BY <1>4, <1>5, BlocksOfLists, Zenon DEF Took
<1>7. PICK G, V : G = OnFree \ {c} /\ V = OnUsed \cup {c}
  BY Zenon
<1>8. Lists(g, G, V) /\ Blocks(g, G) = (FreeBlocks \ {k}) \cup P!Remains(k, r)
      /\ Blocks(g, V) = UsedBlocks \cup {P!Chosen(k, r)}
  BY <1>2, <1>6, <1>7
<1>9. got.at = c
  OBVIOUS
<1> QED BY <1>1, <1>2, <1>4, <1>6, <1>8, <1>9 DEF Serving

LEMMA ServesHead ==
    ASSUME ListInv, NEW r \in Requests, P!Clear(r),
           NEW c \in OnFree, NEW k, k = At(heap, c), P!FirstFit(k, r),
           ~ExactFit(k, r), Start(k, r) = k.addr,
           P!HeadLower(k, r.size) \in P!Container, P!Settles(P!HeadUpper(k, r.size), k),
           NEW s, s = memory_split(heap, c, k.addr, r.size),
           NEW got, got = [heap |-> memory_move_from_to(s.heap, s.at, "free", "used"),
                           at |-> s.at]
    PROVE  Serving(r, got)
<1>1. k \in FreeBlocks
  BY BlocksOfLists DEF Blocks
<1>2. PICK low, upp : /\ low = LowerPart(k, k.addr, r.size)
                      /\ upp = UpperPart(k, k.addr, r.size)
  OBVIOUS
<1>3. low = P!HeadLower(k, r.size) /\ upp = P!HeadUpper(k, r.size)
  BY <1>2, SameParts, Zenon DEF LowerPart, UpperPart
<1>4. P!Chosen(k, r) = low /\ P!Remains(k, r) = {upp}
  BY <1>3, SameFit DEF P!Chosen, P!Remains
<1>5. \A y \in OnUsed : At(heap, y).addr # low.addr
  BY <1>1, <1>4, NewAddress
<1>6. low \in Container /\ Open(heap, OnFree, c, upp)
  BY <1>3, SameParts, Opens
<1>7. PICK h, g, size : h = heap /\ g = got.heap /\ size = r.size
  OBVIOUS
<1>8. /\ Lists(h, OnFree, OnUsed) /\ k = At(h, c) /\ low = LowerPart(k, k.addr, size)
      /\ upp = UpperPart(k, k.addr, size) /\ low \in Container /\ Open(h, OnFree, c, upp)
      /\ \A y \in OnUsed : At(h, y).addr # low.addr
      /\ s = memory_split(h, c, k.addr, size)
      /\ g = memory_move_from_to(s.heap, s.at, "free", "used")
  BY <1>2, <1>5, <1>6, <1>7 DEF ListInv
<1>9. /\ s.at = c /\ At(g, c) = low /\ c # NULL
      /\ \E G, V : /\ Lists(g, G, V)
                   /\ Blocks(g, G) = (Blocks(h, OnFree) \ {k}) \cup {upp}
                   /\ Blocks(g, V) = Blocks(h, OnUsed) \cup {low}
  BY <1>8, TakeHead
<1>10. \E G, V : /\ Lists(g, G, V)
                 /\ Blocks(g, G) = (FreeBlocks \ {k}) \cup P!Remains(k, r)
                 /\ Blocks(g, V) = UsedBlocks \cup {P!Chosen(k, r)}
  BY <1>4, <1>7, <1>9, BlocksOfLists
<1>11. got.at = s.at
  OBVIOUS
<1> QED BY <1>1, <1>4, <1>7, <1>9, <1>10, <1>11 DEF Serving

LEMMA ServesMiddle ==
    ASSUME ListInv, NEW r \in Requests, P!Clear(r),
           NEW c \in OnFree, NEW k, k = At(heap, c), P!FirstFit(k, r),
           ~ExactFit(k, r), ~OnEdge(k, r), NEW start, start = Start(k, r),
           P!TailLower(k, start) \in P!Container,
           NEW tail, tail = P!TailUpper(k, start), P!Settles(tail, k),
           P!HeadLower(tail, r.size) \in P!Container,
           NEW rest, rest = P!HeadUpper(tail, r.size), P!Settles(rest, k),
           rest.addr > tail.addr, rest.hdr # tail.hdr,
           NEW s, s = memory_split(heap, c, start, r.size),
           NEW t, t = memory_split(s.heap, s.at, start, r.size),
           NEW got, got = [heap |-> memory_move_from_to(t.heap, t.at, "free", "used"),
                           at |-> t.at]
    PROVE  Serving(r, got)
<1>1. k \in FreeBlocks
  BY BlocksOfLists DEF Blocks
<1>2. start # k.addr
  BY DEF OnEdge
<1>3. tail.addr = start
  BY SameParts
<1>4. PICK low, mid, size : /\ size = r.size
                            /\ low = LowerPart(k, start, size)
                            /\ mid = LowerPart(tail, start, size)
  OBVIOUS
<1>5. /\ low = P!TailLower(k, start) /\ mid = P!HeadLower(tail, size)
      /\ tail = UpperPart(k, start, size) /\ rest = UpperPart(tail, start, size)
  BY <1>2, <1>3, <1>4, SameParts, Zenon DEF LowerPart, UpperPart
<1>6. P!Chosen(k, r) = mid /\ P!Remains(k, r) = {low, rest}
  BY <1>2, <1>4, <1>5, SameFit, Zenon DEF P!Chosen, P!Remains
<1>7. \A y \in OnUsed : At(heap, y).addr # mid.addr
  BY <1>1, <1>6, NewAddress
<1>8. /\ low \in Container /\ mid \in Container
      /\ Open(heap, OnFree, c, tail) /\ Open(heap, OnFree, c, rest)
  BY <1>4, <1>5, SameParts, Opens
<1>9. PICK h, g : h = heap /\ g = got.heap
  OBVIOUS
<1>10. /\ Lists(h, OnFree, OnUsed) /\ k = At(h, c) /\ start # k.addr
       /\ low = LowerPart(k, start, size) /\ low \in Container
       /\ tail = UpperPart(k, start, size) /\ Open(h, OnFree, c, tail)
       /\ mid = LowerPart(tail, start, size) /\ mid \in Container
       /\ rest = UpperPart(tail, start, size) /\ Open(h, OnFree, c, rest)
       /\ rest.addr > tail.addr /\ rest.hdr # tail.hdr
       /\ \A y \in OnUsed : At(h, y).addr # mid.addr
       /\ s = memory_split(h, c, start, size)
       /\ t = memory_split(s.heap, s.at, start, size)
       /\ g = memory_move_from_to(t.heap, t.at, "free", "used")
  BY <1>2, <1>4, <1>5, <1>7, <1>8, <1>9 DEF ListInv
<1>11. /\ t.at # NULL /\ At(g, t.at) = mid
       /\ \E G, V : /\ Lists(g, G, V)
                    /\ Blocks(g, G) = (Blocks(h, OnFree) \ {k}) \cup {low, rest}
                    /\ Blocks(g, V) = Blocks(h, OnUsed) \cup {mid}
  BY ONLY <1>10, c \in OnFree, TakeMiddle
<1>12. \E G, V : /\ Lists(g, G, V)
                 /\ Blocks(g, G) = (FreeBlocks \ {k}) \cup P!Remains(k, r)
                 /\ Blocks(g, V) = UsedBlocks \cup {P!Chosen(k, r)}
  BY ONLY <1>6, <1>9, <1>11, BlocksOfLists
<1>13. got.at = t.at
  OBVIOUS
<1>14. P!FirstFit(k, r)
  OBVIOUS
<1> QED BY ONLY <1>1, <1>6, <1>9, <1>11, <1>12, <1>13, <1>14 DEF Serving

\* memory_alloc on the pointers does what Memory says.
LEMMA AllocServes ==
    ASSUME ListInv, NEW r \in Requests, P!Clear(r)
    PROVE  Serving(r, memory_alloc(heap, r))
<1>1. PICK c : c = Find(heap, heap.free, {x \in DOMAIN heap.node : Serves(At(heap, x), r)})
  OBVIOUS
<1>2. \/ c = NULL /\ \A k \in FreeBlocks : ~P!Serves(k, r)
      \/ c \in OnFree /\ c # NULL /\ P!FirstFit(At(heap, c), r)
  BY <1>1, Search
<1>3. CASE c = NULL /\ \A k \in FreeBlocks : ~P!Serves(k, r)
  <2>1. memory_alloc(heap, r) = [heap |-> heap, at |-> NULL]
    BY <1>1, <1>3 DEF memory_alloc
  <2> QED BY <1>3, <2>1 DEF Serving
<1>4. CASE c \in OnFree /\ c # NULL /\ P!FirstFit(At(heap, c), r)
  <2>1. PICK k, start : k = At(heap, c) /\ start = Start(k, r)
    OBVIOUS
  <2>2. PICK s, t : /\ s = memory_split(heap, c, start, r.size)
                    /\ t = memory_split(s.heap, s.at, start, r.size)
    OBVIOUS
  <2>3. memory_alloc(heap, r) =
           IF ExactFit(k, r)
           THEN [heap |-> memory_move_from_to(heap, c, "free", "used"), at |-> c]
           ELSE IF r.align = 0 \/ OnEdge(k, r)
           THEN [heap |-> memory_move_from_to(s.heap, s.at, "free", "used"), at |-> s.at]
           ELSE [heap |-> memory_move_from_to(t.heap, t.at, "free", "used"), at |-> t.at]
    BY <1>1, <1>4, <2>1, <2>2 DEF memory_alloc
  <2>4. c \in OnFree /\ k \in FreeBlocks /\ P!FirstFit(k, r)
    BY <1>4, <2>1, BlocksOfLists DEF Blocks
  <2>5. \/ P!ExactFit(k, r)
        \/ /\ ~P!ExactFit(k, r) /\ P!Start(k, r) = k.addr
           /\ P!HeadLower(k, r.size) \in P!Container
           /\ P!Settles(P!HeadUpper(k, r.size), k)
        \/ LET tail == P!TailUpper(k, P!Start(k, r))
               rest == P!HeadUpper(tail, r.size)
           IN  /\ ~P!ExactFit(k, r) /\ r.align # 0 /\ ~P!OnEdge(k, r)
               /\ P!TailLower(k, P!Start(k, r)) \in P!Container
               /\ P!HeadLower(tail, r.size) \in P!Container
               /\ P!Settles(tail, k) /\ P!Settles(rest, k)
               /\ rest.addr > tail.addr /\ rest.hdr # tail.hdr
    <3>1. P!Layout(FreeBlocks, UsedBlocks)
      BY DEF ListInv
    <3> QED BY <2>4, <3>1, P!ServePlaces, AssumptionsHold DEF Assumed
  <2>6. CASE ExactFit(k, r)
    BY <2>1, <2>3, <2>4, <2>6, ServesExact
  <2>7. CASE /\ ~ExactFit(k, r) /\ start = k.addr
             /\ P!HeadLower(k, r.size) \in P!Container
             /\ P!Settles(P!HeadUpper(k, r.size), k)
    <3>1. OnEdge(k, r) /\ Start(k, r) = k.addr
      BY <2>1, <2>7 DEF OnEdge
    <3>2. memory_alloc(heap, r) = [heap |-> memory_move_from_to(s.heap, s.at, "free", "used"),
                                   at |-> s.at]
      BY <2>3, <2>7, <3>1
    <3>3. s = memory_split(heap, c, k.addr, r.size)
      BY <2>2, <2>7
    <3> QED BY <2>1, <2>4, <2>7, <3>1, <3>2, <3>3, ServesHead
  <2>8. CASE LET tail == P!TailUpper(k, start)
                 rest == P!HeadUpper(tail, r.size)
             IN  /\ ~ExactFit(k, r) /\ r.align # 0 /\ ~OnEdge(k, r)
                 /\ P!TailLower(k, start) \in P!Container
                 /\ P!HeadLower(tail, r.size) \in P!Container
                 /\ P!Settles(tail, k) /\ P!Settles(rest, k)
                 /\ rest.addr > tail.addr /\ rest.hdr # tail.hdr
    <3>1. PICK tail, rest : tail = P!TailUpper(k, start) /\ rest = P!HeadUpper(tail, r.size)
      OBVIOUS
    <3>2. /\ ~ExactFit(k, r) /\ r.align # 0 /\ ~OnEdge(k, r)
          /\ P!TailLower(k, start) \in P!Container
          /\ P!HeadLower(tail, r.size) \in P!Container
          /\ P!Settles(tail, k) /\ P!Settles(rest, k)
          /\ rest.addr > tail.addr /\ rest.hdr # tail.hdr
      BY <2>8, <3>1
    <3>3. memory_alloc(heap, r) = [heap |-> memory_move_from_to(t.heap, t.at, "free", "used"),
                                   at |-> t.at]
      BY <2>3, <3>2
    <3> QED BY <2>1, <2>2, <2>4, <3>1, <3>2, <3>3, ServesMiddle
  <2> QED BY <2>1, <2>5, <2>6, <2>7, <2>8, SameFit
<1> QED BY <1>2, <1>3, <1>4

LEMMA SameJoin ==
    /\ \A c : P!Inline(c) = Inline(c) /\ P!End(c) = End(c)
    /\ \A lower, upper : P!Merge(lower, upper) = Joined(lower, upper)
<1>1. \A a, b : P!Add(a, b) = Add(a, b)
  BY DEF P!Add, Add
<1> QED BY <1>1 DEF P!Inline, Inline, P!End, End, P!Merge, Joined

\* No free block begins where a block that may be freed does.
LEMMA OldAddress ==
    ASSUME ListInv, NEW k \in UsedBlocks, k.freeable
    PROVE  /\ \A d \in FreeBlocks : d.addr # k.addr
           /\ \E d \in FreeBlocks : d.addr > k.addr
           /\ P!Stale(k) = {}
<1>1. /\ P!Layout(FreeBlocks, UsedBlocks) /\ P!Consistent(FreeBlocks, UsedBlocks)
      /\ P!Ordered(FreeBlocks, UsedBlocks)
  BY DEF ListInv, P!Layout
<1>2. FreeBlocks \cap UsedBlocks = {} /\ \A d \in FreeBlocks : d.freeable
  BY <1>1 DEF P!Consistent, P!Usable
<1>3. ASSUME NEW d \in FreeBlocks, d.addr = k.addr PROVE FALSE
  <2>1. d = k
    BY <1>1, <1>2, <1>3, P!Distinct, AssumptionsHold DEF Assumed
  <2> QED BY <1>2, <2>1
<1>4. \E d \in FreeBlocks : d.addr > k.addr
  BY <1>1 DEF P!Consistent, P!RoomAbove
<1>5. P!Stale(k) = {}
  BY <1>1, P!NotHead, AssumptionsHold DEF Assumed
<1> QED BY <1>3, <1>4, <1>5

\* c, with block k, goes from list_used to list_free between n and p.
PutBack(c, k, h, n, p) ==
    /\ c \in OnUsed /\ k = At(heap, c) /\ k.freeable
    /\ h = memory_move_from_to(heap, c, "used", "free")
    /\ n = h.node[c].next /\ p = h.node[c].prev

\* In heap h, block k of c lies between the neighbours Memory names.
Neighboured(c, k, h, n, p) ==
    /\ Lists(h, OnFree \cup {c}, OnUsed \ {c})
    /\ \A x \in DOMAIN heap.node : At(h, x) = At(heap, x)
    /\ p \in OnFree /\ P!PrevOf(k) = {At(heap, p)}
    /\ \/ n = NULL /\ P!NextOf(k) = {}
       \/ n \in OnFree /\ P!NextOf(k) = {At(heap, n)}

\* The neighbours of the block put back are those Memory names.
LEMMA Adjacent ==
    ASSUME ListInv, NEW c, NEW k, NEW h, NEW n, NEW p, PutBack(c, k, h, n, p)
    PROVE  Neighboured(c, k, h, n, p)
<1>0. /\ c \in OnUsed /\ k = At(heap, c) /\ k.freeable
      /\ h = memory_move_from_to(heap, c, "used", "free")
      /\ n = h.node[c].next /\ p = h.node[c].prev
  BY DEF PutBack
<1>1. k \in UsedBlocks
  BY <1>0, BlocksOfLists DEF Blocks
<1>2. \A y \in OnFree : At(heap, y).addr # k.addr
  BY <1>0, <1>1, OldAddress, BlocksOfLists DEF Blocks
<1>3. Lists(heap, OnFree, OnUsed)
  BY DEF ListInv
<1>4. /\ Lists(h, OnFree \cup {c}, OnUsed \ {c})
      /\ \A x \in DOMAIN heap.node : At(h, x) = At(heap, x)
  BY <1>0, <1>2, <1>3, MoveParts
<1>5. /\ OnFree \subseteq DOMAIN heap.node /\ c \in DOMAIN heap.node /\ c \notin OnFree
      /\ NULL \notin OnFree
  BY <1>0, <1>3 DEF Lists
<1>6. IsList(h.node, h.free, OnFree \cup {c})
  BY <1>4 DEF Lists
<1>7. /\ Beneath(h.node, OnFree \cup {c}, h.node[c].addr, n)
      /\ Over(h.node, OnFree \cup {c}, h.node[c].addr, p)
  BY <1>0, <1>6 DEF IsList
<1>8. /\ h.node[c].addr = k.addr
      /\ \A x \in OnFree : h.node[x].addr = At(heap, x).addr
  <2>1. \A x : At(h, x).addr = h.node[x].addr
    BY DEF At
  <2> QED BY <1>0, <1>4, <1>5, <2>1
<1>9. k.addr \in Nat /\ \A x \in OnFree : At(heap, x).addr \in Nat
  <2>1. \A x \in OnFree \cup {c} : h.node[x].addr \in Word
    BY <1>6 DEF IsList, Keyed
  <2> QED BY <1>8, <2>1, WordFields
<1>10. \A x, y \in OnFree : At(heap, x).addr = At(heap, y).addr => x = y
  BY <1>6, <1>8 DEF IsList, Keyed
<1>11. PICK d \in OnFree : At(heap, d).addr > k.addr
  BY <1>0, <1>1, OldAddress, BlocksOfLists DEF Blocks
<1>12. /\ p \in OnFree /\ At(heap, p).addr > k.addr
       /\ \A x \in OnFree : At(heap, x).addr > k.addr => At(heap, p).addr <= At(heap, x).addr
  BY <1>7, <1>8, <1>9, <1>11 DEF Over
<1>13. \/ n = NULL /\ \A x \in OnFree : At(heap, x).addr >= k.addr
       \/ /\ n \in OnFree /\ At(heap, n).addr < k.addr
          /\ \A x \in OnFree : At(heap, x).addr < k.addr => At(heap, x).addr <= At(heap, n).addr
  BY <1>7, <1>8, <1>9 DEF Beneath
<1>14. P!PrevOf(k) = {At(heap, p)}
  <2>1. P!PrevOf(k) = {At(heap, q) : q \in
           {q \in OnFree : /\ At(heap, q).addr > k.addr
                           /\ \A x \in OnFree : At(heap, x).addr > k.addr
                                                => At(heap, q).addr <= At(heap, x).addr}}
    BY BlocksOfLists DEF P!PrevOf, Blocks
  <2>2. {q \in OnFree : /\ At(heap, q).addr > k.addr
                        /\ \A x \in OnFree : At(heap, x).addr > k.addr
                                             => At(heap, q).addr <= At(heap, x).addr} = {p}
    BY <1>9, <1>10, <1>12
  <2> QED BY <2>1, <2>2
<1>15. P!NextOf(k) = {At(heap, q) : q \in
           {q \in OnFree : /\ At(heap, q).addr <= k.addr
                           /\ \A x \in OnFree : At(heap, x).addr <= k.addr
                                                => At(heap, x).addr <= At(heap, q).addr}}
  BY BlocksOfLists DEF P!NextOf, Blocks
<1>16. CASE n = NULL /\ \A x \in OnFree : At(heap, x).addr >= k.addr
  <2>1. \A x \in OnFree : ~(At(heap, x).addr <= k.addr)
    BY <1>2, <1>9, <1>16
  <2>2. P!NextOf(k) = {}
    BY <1>15, <2>1
  <2> QED BY <1>4, <1>12, <1>14, <1>16, <2>2 DEF Neighboured
<1>17. CASE /\ n \in OnFree /\ At(heap, n).addr < k.addr
            /\ \A x \in OnFree : At(heap, x).addr < k.addr
                                 => At(heap, x).addr <= At(heap, n).addr
  <2>1. {q \in OnFree : /\ At(heap, q).addr <= k.addr
                        /\ \A x \in OnFree : At(heap, x).addr <= k.addr
                                             => At(heap, x).addr <= At(heap, q).addr} = {n}
    BY <1>2, <1>9, <1>10, <1>17
  <2>2. P!NextOf(k) = {At(heap, n)}
    BY <1>15, <2>1
  <2> QED BY <1>4, <1>12, <1>14, <1>17, <2>2 DEF Neighboured
<1> QED BY <1>13, <1>16, <1>17

\* At(h, .) tells headers apart.
LEMMA OwnBlock == \A h, x, y : At(h, x).hdr = x /\ (At(h, x) = At(h, y) => x = y)
  BY DEF At

\* Blocks that stay as they are, but one of them gone.
LEMMA BlocksWithout ==
    ASSUME NEW h, NEW g, NEW X, NEW x \in X, \A y \in X \ {x} : At(g, y) = At(h, y)
    PROVE  Blocks(g, X \ {x}) = Blocks(h, X) \ {At(h, x)}
  BY OwnBlock DEF Blocks

LEMMA BlocksSame ==
    ASSUME NEW h, NEW g, NEW X, \A y \in X : At(g, y) = At(h, y)
    PROVE  Blocks(g, X) = Blocks(h, X)
  BY DEF Blocks

\* In heap "one" the block at "at" has taken in what Memory joins below k.
JoinedBelow(c, k, p, one, at) ==
    \E F : /\ Lists(one, F, OnUsed \ {c}) /\ at \in F /\ p \in F \ {at}
           /\ one.node[at].prev = p /\ At(one, p) = At(heap, p)
           /\ At(one, at) = P!Grown(k)
           /\ Blocks(one, F \ {at}) = FreeBlocks \ P!Below(k)
           /\ Blocks(one, OnUsed \ {c}) = UsedBlocks \ {k}

\* "try to merge with next container", or not.
LEMMA JoinsBelow ==
    ASSUME ListInv, NEW c, NEW k, NEW h, NEW n, NEW p, PutBack(c, k, h, n, p),
           NEW one, one = (IF JoinsNext(h, c) THEN MergeNext(h, c) ELSE h),
           NEW at, at = (IF JoinsNext(h, c) THEN n ELSE c)
    PROVE  JoinedBelow(c, k, p, one, at)
<1>0. /\ c \in OnUsed /\ k = At(heap, c) /\ k.freeable
      /\ h = memory_move_from_to(heap, c, "used", "free")
      /\ n = h.node[c].next /\ p = h.node[c].prev
  BY DEF PutBack
<1>1. PICK F, U : F = OnFree \cup {c} /\ U = OnUsed \ {c}
  BY Zenon
<1>2. /\ Lists(h, F, U)
      /\ \A x \in DOMAIN heap.node : At(h, x) = At(heap, x)
      /\ p \in OnFree /\ P!PrevOf(k) = {At(heap, p)}
      /\ \/ n = NULL /\ P!NextOf(k) = {}
         \/ n \in OnFree /\ P!NextOf(k) = {At(heap, n)}
  <2>1. Neighboured(c, k, h, n, p)
    BY Adjacent
  <2> QED BY <1>1, <2>1 DEF Neighboured
<1>3. /\ OnFree \cup OnUsed = DOMAIN heap.node /\ OnFree \cap OnUsed = {}
      /\ NULL \notin OnFree
  BY DEF ListInv, Lists
<1>4. /\ c \in F /\ c \notin OnFree /\ F \ {c} = OnFree /\ c \notin U
      /\ At(h, c) = k /\ k.hdr = c
  BY <1>0, <1>1, <1>2, <1>3, OwnBlock
<1>5. JoinsNext(h, c) <=> n # NULL /\ Inline(k) /\ End(At(h, n)) = c
  BY <1>0, <1>4 DEF JoinsNext
<1>6. CASE ~JoinsNext(h, c)
  <2>1. one = h /\ at = c
    BY <1>6
  <2>2. P!Below(k) = {}
    <3>1. CASE n = NULL
      BY <1>2, <1>3, <3>1 DEF P!Below
    <3>2. CASE n \in OnFree /\ P!NextOf(k) = {At(heap, n)}
      <4>1. At(h, n) = At(heap, n) /\ n # NULL
        BY <1>2, <1>3, <3>2
      <4> QED BY <1>4, <1>5, <1>6, <3>2, <4>1, SameJoin DEF P!Below
    <3> QED BY <1>2, <3>1, <3>2
  <2>3. P!Grown(k) = k
    BY <2>2 DEF P!Grown
  <2>4. Blocks(h, F \ {c}) = FreeBlocks
    BY <1>2, <1>3, <1>4, BlocksSame, BlocksOfLists
  <2>5. Blocks(h, U) = UsedBlocks \ {k}
    BY <1>0, <1>1, <1>2, <1>3, BlocksWithout, BlocksOfLists
  <2>6. At(h, p) = At(heap, p)
    BY <1>2, <1>3
  <2>7. one.node[at].prev = p
    BY <1>0, <2>1
  <2>8. p \in F \ {at} /\ at \in F
    BY <1>2, <1>4, <2>1
  <2>9. /\ Lists(one, F, OnUsed \ {c}) /\ at \in F /\ p \in F \ {at}
        /\ one.node[at].prev = p /\ At(one, p) = At(heap, p)
        /\ At(one, at) = P!Grown(k)
        /\ Blocks(one, F \ {at}) = FreeBlocks \ P!Below(k)
        /\ Blocks(one, OnUsed \ {c}) = UsedBlocks \ {k}
    BY <1>1, <1>2, <1>4, <2>1, <2>2, <2>3, <2>4, <2>5, <2>6, <2>7, <2>8, Zenon
  <2> QED BY <2>9, Zenon DEF JoinedBelow
<1>7. CASE JoinsNext(h, c)
  <2>1. one = MergeNext(h, c) /\ at = n
    BY <1>7
  <2>2. n \in OnFree /\ P!NextOf(k) = {At(heap, n)} /\ n # NULL /\ p # NULL
        /\ At(h, n) = At(heap, n)
    BY <1>2, <1>3, <1>5, <1>7
  <2>3. P!Below(k) = {At(heap, n)}
    BY <1>4, <1>5, <1>7, <2>2, SameJoin DEF P!Below
  <2>4. P!Grown(k) = Joined(At(heap, n), k)
    BY <2>3, SameJoin DEF P!Grown
  <2>5. /\ Lists(one, F \ {c}, U) /\ n \in F \ {c}
        /\ \A x \in DOMAIN h.node \ {c, n} : At(one, x) = At(h, x)
        /\ At(one, n) = Joined(At(h, n), At(h, c))
    BY <1>0, <1>2, <1>4, <2>1, <2>2, MergesNext
  <2>6. Lists(one, OnFree, U) /\ At(one, n) = P!Grown(k)
    BY <1>4, <2>2, <2>4, <2>5
  <2>7. DOMAIN h.node = F \cup U
    BY <1>2 DEF Lists
  <2>8. \A x \in (OnFree \ {n}) \cup U : At(one, x) = At(heap, x)
    BY <1>0, <1>1, <1>2, <1>3, <1>4, <2>2, <2>5, <2>7
  <2>9. Blocks(one, OnFree \ {n}) = FreeBlocks \ {At(heap, n)}
    BY <2>2, <2>8, BlocksWithout, BlocksOfLists
  <2>10. Blocks(one, U) = UsedBlocks \ {k}
    BY <1>0, <1>1, <2>8, BlocksWithout, BlocksOfLists
  <2>11. p # n /\ one.node[n].prev = p
    <3>1. /\ IsList(h.node, h.free, F) /\ IsList(one.node, one.free, OnFree)
          /\ \A x \in F : h.node[x].addr \in Word
      BY <1>2, <2>6 DEF Lists, IsList, Keyed
    <3>2. /\ Beneath(h.node, F, h.node[c].addr, n) /\ Over(h.node, F, h.node[c].addr, p)
          /\ Over(one.node, OnFree, one.node[n].addr, one.node[n].prev)
          /\ Keyed(one.node, OnFree) /\ Keyed(h.node, F)
      BY <1>0, <1>4, <2>2, <3>1 DEF IsList
    <3>3. \A x \in OnFree : one.node[x].addr = h.node[x].addr
      <4>1. \A x \in OnFree \ {n} : At(one, x) = At(h, x)
        BY <1>2, <1>3, <2>8
      <4>2. At(one, n).addr = At(h, n).addr
        BY <2>5 DEF Joined, At
      <4> QED BY <4>1, <4>2, Zenon DEF At
    <3>4. /\ n \in F /\ h.node[n].addr < h.node[c].addr
          /\ \A x \in F : h.node[x].addr < h.node[c].addr => h.node[x].addr <= h.node[n].addr
      BY <2>2, <3>2 DEF Beneath
    <3>5. /\ p \in F /\ h.node[p].addr > h.node[c].addr
          /\ \A x \in F : h.node[x].addr > h.node[c].addr => h.node[p].addr <= h.node[x].addr
      BY <2>2, <3>2 DEF Over
    <3>6. \A x \in F : h.node[x].addr \in Nat
      BY <3>1, WordFields
    <3>7. \A x \in OnFree : h.node[x].addr # h.node[c].addr
      BY <1>4, <3>2 DEF Keyed
    <3>8. p # n
      BY <1>4, <3>4, <3>5, <3>6
    <3>9. \A x \in OnFree : h.node[x].addr > h.node[n].addr => h.node[p].addr <= h.node[x].addr
      BY <1>4, <3>4, <3>5, <3>6, <3>7
    <3>10. h.node[p].addr > h.node[n].addr
      BY <1>4, <3>4, <3>5, <3>6
    <3>11. Over(one.node, OnFree, one.node[n].addr, p)
      BY <1>2, <2>2, <3>3, <3>9, <3>10 DEF Over
    <3>12. one.node[n].addr \in Nat
      BY <2>2, <3>3, <3>4, <3>6
    <3> QED BY <3>2, <3>8, <3>11, <3>12, OverOnce
  <2>12. At(one, p) = At(heap, p)
    BY <1>2, <2>8, <2>11
  <2>13. PICK F1 : F1 = OnFree
    OBVIOUS
  <2>14. /\ Lists(one, F1, OnUsed \ {c}) /\ at \in F1 /\ p \in F1 \ {at}
         /\ one.node[at].prev = p /\ At(one, p) = At(heap, p)
         /\ At(one, at) = P!Grown(k)
         /\ Blocks(one, F1 \ {at}) = FreeBlocks \ P!Below(k)
         /\ Blocks(one, OnUsed \ {c}) = UsedBlocks \ {k}
    BY <1>1, <1>2, <2>1, <2>2, <2>3, <2>6, <2>9, <2>10, <2>11, <2>12, <2>13, Zenon
  <2> QED BY <2>14, Zenon DEF JoinedBelow
<1> QED BY <1>6, <1>7

\* memory_free on the pointers.
Returning(k, g) ==
    \E G, V : /\ Lists(g, G, V)
              /\ Blocks(g, G) = (FreeBlocks \ (P!Below(k) \cup P!Above(k))) \cup {P!Freed(k)}
              /\ Blocks(g, V) = UsedBlocks \ {k}

\* memory_free on the pointers does what Memory says.
LEMMA FreeReturns ==
    ASSUME ListInv, NEW c \in OnUsed, NEW k, k = At(heap, c), k.freeable
    PROVE  Returning(k, memory_free(heap, c))
<1>1. PICK h : h = memory_move_from_to(heap, c, "used", "free")
  OBVIOUS
<1>2. PICK n, p : n = h.node[c].next /\ p = h.node[c].prev
  BY Zenon
<1>3. PICK one, at : /\ one = (IF JoinsNext(h, c) THEN MergeNext(h, c) ELSE h)
                     /\ at = (IF JoinsNext(h, c) THEN n ELSE c)
  OBVIOUS
<1>4. memory_free(heap, c) = IF JoinsPrev(one, at) THEN MergePrev(one, at) ELSE one
  BY <1>1, <1>2, <1>3 DEF memory_free
<1>5. PICK U : U = OnUsed \ {c}
  BY Zenon
<1>6. PICK F : /\ Lists(one, F, U) /\ at \in F /\ p \in F \ {at}
               /\ one.node[at].prev = p /\ At(one, p) = At(heap, p)
               /\ At(one, at) = P!Grown(k)
               /\ Blocks(one, F \ {at}) = FreeBlocks \ P!Below(k)
               /\ Blocks(one, U) = UsedBlocks \ {k}
  <2>1. PutBack(c, k, h, n, p)
    BY <1>1, <1>2 DEF PutBack
  <2>2. JoinedBelow(c, k, p, one, at)
    BY <1>3, <2>1, JoinsBelow
  <2> QED BY <1>5, <2>2, Zenon DEF JoinedBelow
<1>7. P!PrevOf(k) = {At(heap, p)}
  <2>1. PutBack(c, k, h, n, p)
    BY <1>1, <1>2 DEF PutBack
  <2>2. Neighboured(c, k, h, n, p)
    BY <2>1, Adjacent
  <2> QED BY <2>2 DEF Neighboured
<1>8. p # NULL /\ NULL \notin F /\ F \cup U = DOMAIN one.node /\ F \cap U = {}
  BY <1>6 DEF Lists
<1>9. JoinsPrev(one, at) <=> Inline(At(one, p)) /\ End(At(one, at)) = p
  BY <1>6, <1>8 DEF JoinsPrev
<1>10. CASE ~JoinsPrev(one, at)
  <2>1. P!Above(k) = {}
    BY <1>6, <1>7, <1>9, <1>10, SameJoin, OwnBlock DEF P!Above
  <2>2. P!Freed(k) = At(one, at)
    BY <1>6, <2>1 DEF P!Freed
  <2>3. Blocks(one, F) = Blocks(one, F \ {at}) \cup {At(one, at)}
    BY <1>6 DEF Blocks
  <2>4. memory_free(heap, c) = one
    BY <1>4, <1>10
  <2>5. Blocks(one, F) = (FreeBlocks \ (P!Below(k) \cup P!Above(k))) \cup {P!Freed(k)}
    BY <1>6, <2>1, <2>2, <2>3
  <2> QED BY <1>6, <2>4, <2>5 DEF Returning
<1>11. CASE JoinsPrev(one, at)
  <2>1. P!Above(k) = {At(heap, p)}
    BY <1>6, <1>7, <1>9, <1>11, SameJoin, OwnBlock DEF P!Above
  <2>2. P!Freed(k) = Joined(At(one, at), At(one, p))
    BY <1>6, <2>1, SameJoin DEF P!Freed
  <2>3. PICK g : g = MergePrev(one, at)
    OBVIOUS
  <2>4. /\ Lists(g, F \ {p}, U) /\ p \in F \ {at}
        /\ \A x \in DOMAIN one.node \ {at, p} : At(g, x) = At(one, x)
        /\ At(g, at) = P!Freed(k)
    BY <1>6, <1>8, <2>2, <2>3, MergesPrev
  <2>5. Blocks(g, U) = Blocks(one, U)
    BY <1>6, <1>8, <2>4, BlocksSame
  <2>6. Blocks(g, F \ {p}) = Blocks(g, (F \ {at}) \ {p}) \cup {At(g, at)}
    BY <1>6 DEF Blocks
  <2>7. Blocks(g, (F \ {at}) \ {p}) = Blocks(one, F \ {at}) \ {At(one, p)}
    <3>1. \A x \in (F \ {at}) \ {p} : At(g, x) = At(one, x)
      BY <1>8, <2>4
    <3> QED BY <2>4, <3>1, BlocksWithout
  <2>8. memory_free(heap, c) = g
    BY <1>4, <1>11, <2>3
  <2>9. Blocks(g, F \ {p}) = (FreeBlocks \ (P!Below(k) \cup P!Above(k))) \cup {P!Freed(k)}
    BY <1>6, <2>1, <2>4, <2>6, <2>7, Zenon
  <2>10. Blocks(g, U) = UsedBlocks \ {k}
    BY <1>6, <2>5
  <2> QED BY <2>4, <2>8, <2>9, <2>10 DEF Returning
<1> QED BY <1>10, <1>11

-----------------------------------------------------------------------------
(* Steps.                                                                  *)

\* A walk meets exactly the containers of its list.
LEMMA WalksMeet ==
    ASSUME NEW h, NEW F, NEW U, Lists(h, F, U)
    PROVE  Range(Chain(h, h.free)) = F /\ Range(Chain(h, h.used)) = U
<1>1. /\ h \in Heap /\ NULL \notin DOMAIN h.node
      /\ IsList(h.node, h.free, F) /\ IsList(h.node, h.used, U)
  BY DEF Lists
<1>2. Range(Chain(h, h.free)) = F
  <2>1. PICK first : first = h.free
    OBVIOUS
  <2> QED BY <1>1, <2>1, WalkMeets
<1>3. Range(Chain(h, h.used)) = U
  <2>1. PICK first : first = h.used
    OBVIOUS
  <2> QED BY <1>1, <2>1, WalkMeets
<1> QED BY <1>2, <1>3

\* What a call leaves, as sets.
LEMMA NextLists ==
    ASSUME NEW F, NEW U, Lists(heap', F, U)
    PROVE  /\ Lists(heap, OnFree, OnUsed)'
           /\ FreeBlocks' = Blocks(heap', F) /\ UsedBlocks' = Blocks(heap', U)
<1>1. Range(Chain(heap', heap'.free)) = F /\ Range(Chain(heap', heap'.used)) = U
  BY WalksMeet
<1>2. OnFree' = F /\ OnUsed' = U
  BY <1>1 DEF OnFree, OnUsed
<1>3. FreeBlocks' = Blocks(heap', F) /\ UsedBlocks' = Blocks(heap', U)
  BY <1>1 DEF FreeBlocks, UsedBlocks, Blocks, At
<1>4. Lists(heap', OnFree', OnUsed')
  BY <1>2
<1> QED BY <1>3, <1>4

\* Types of what memory_alloc returns.
LEMMA AreaTypes ==
    ASSUME NEW h, NEW F, NEW U, Lists(h, F, U)
    PROVE  \A x \in F \cup U : AreaOf(At(h, x)) \in Area /\ At(h, x) \in Container
<1>1. h \in Heap /\ F \cup U = DOMAIN h.node
  BY DEF Lists
<1> QED BY <1>1, HeapFields DEF AreaOf, Area, At, Container

\* memory_alloc: one step of the lists is one step of the sets.
LEMMA AllocStep ==
    ASSUME ListInv, NEW r \in Requests, P!Clear(r), Alloc(r)
    PROVE  ListInv' /\ (P!Alloc(r) \/ P!AllocFails(r))
<1>1. PICK got : got = memory_alloc(heap, r)
  OBVIOUS
<1>2. /\ heap' = got.heap
      /\ result' = IF got.at = NULL THEN NoArea ELSE AreaOf(At(got.heap, got.at))
      /\ halted' = halted
  BY <1>1 DEF Alloc
<1>3. Serving(r, got)
  BY <1>1, AllocServes
<1>4. P!Layout(FreeBlocks, UsedBlocks) /\ Lists(heap, OnFree, OnUsed)
  BY DEF ListInv
<1>5. P!NoArea = NoArea /\ \A c : P!AreaOf(c) = AreaOf(c)
  BY DEF P!NoArea, NoArea, P!AreaOf, AreaOf
<1>6. CASE /\ got.at = NULL /\ got.heap = heap
           /\ \A k \in FreeBlocks : ~P!Serves(k, r)
  <2>1. heap' = heap /\ result' = NoArea
    BY <1>2, <1>6
  <2>2. FreeBlocks' = FreeBlocks /\ UsedBlocks' = UsedBlocks
        /\ OnFree' = OnFree /\ OnUsed' = OnUsed
    BY <2>1 DEF FreeBlocks, UsedBlocks, OnFree, OnUsed, At
  <2>3. ListInv'
    BY <1>4, <2>1, <2>2 DEF ListInv
  <2> QED BY <1>2, <1>5, <1>6, <2>1, <2>2, <2>3 DEF P!AllocFails
<1>7. CASE \E k \in FreeBlocks :
             /\ P!FirstFit(k, r) /\ got.at # NULL
             /\ At(got.heap, got.at) = P!Chosen(k, r)
             /\ \E G, V : /\ Lists(got.heap, G, V)
                          /\ Blocks(got.heap, G) = (FreeBlocks \ {k}) \cup P!Remains(k, r)
                          /\ Blocks(got.heap, V) = UsedBlocks \cup {P!Chosen(k, r)}
  <2>1. PICK k \in FreeBlocks :
             /\ P!FirstFit(k, r) /\ got.at # NULL
             /\ At(got.heap, got.at) = P!Chosen(k, r)
             /\ \E G, V : /\ Lists(got.heap, G, V)
                          /\ Blocks(got.heap, G) = (FreeBlocks \ {k}) \cup P!Remains(k, r)
                          /\ Blocks(got.heap, V) = UsedBlocks \cup {P!Chosen(k, r)}
    BY <1>7
  <2>2. PICK G, V : /\ Lists(heap', G, V)
                    /\ Blocks(heap', G) = (FreeBlocks \ {k}) \cup P!Remains(k, r)
                    /\ Blocks(heap', V) = UsedBlocks \cup {P!Chosen(k, r)}
    BY <1>2, <2>1
  <2>3. /\ Lists(heap, OnFree, OnUsed)'
        /\ FreeBlocks' = (FreeBlocks \ {k}) \cup P!Remains(k, r)
        /\ UsedBlocks' = UsedBlocks \cup {P!Chosen(k, r)}
    BY <2>2, NextLists
  <2>4. P!Layout((FreeBlocks \ {k}) \cup P!Remains(k, r), UsedBlocks \cup {P!Chosen(k, r)})
    BY <1>4, <2>1, P!ServeLayout, AssumptionsHold DEF Assumed
  <2>5. P!Layout(FreeBlocks', UsedBlocks')
    BY <2>3, <2>4
  <2>6. result' = P!AreaOf(P!Chosen(k, r))
    BY <1>2, <1>5, <2>1
  <2>7. ListInv'
    BY <2>3, <2>5 DEF ListInv
  <2>8. P!Alloc(r)
    BY <1>2, <2>1, <2>3, <2>6 DEF P!Alloc
  <2> QED BY <2>7, <2>8
<1> QED BY <1>3, <1>6, <1>7 DEF Serving

\* memory_free finds the container of an area in use, and the only one that
\* may be freed.
LEMMA FindsUsed ==
    ASSUME ListInv, NEW area, NEW c, c = Allocated(heap, area)
    PROVE  /\ c # NULL => c \in OnUsed /\ AreaOf(At(heap, c)) = area
           /\ \A k \in UsedBlocks : AreaOf(k) = area => c # NULL /\ k = At(heap, c)
<1>1. PICK wanted : wanted = {x \in DOMAIN heap.node : AreaOf(At(heap, x)) = area}
  BY Zenon
<1>2. PICK h, first, X : h = heap /\ first = heap.used /\ X = OnUsed
  OBVIOUS
<1>3. /\ h \in Heap /\ NULL \notin DOMAIN h.node /\ IsList(h.node, first, X)
      /\ X \subseteq DOMAIN heap.node
  BY <1>2 DEF ListInv, Lists
<1>4. LET x == Find(h, first, wanted)
      IN  \/ x = NULL /\ X \cap wanted = {}
          \/ /\ x \in X \cap wanted
             /\ \A y \in X \cap wanted : h.node[y].addr <= h.node[x].addr
  BY ONLY <1>3, Finds, Zenon
<1>5. c = Find(h, first, wanted)
  BY <1>1, <1>2 DEF Allocated
<1>6. \/ c = NULL /\ OnUsed \cap wanted = {}
      \/ c \in OnUsed \cap wanted
  BY <1>2, <1>4, <1>5
<1>7. NULL \notin DOMAIN heap.node /\ OnUsed \subseteq DOMAIN heap.node
  BY <1>2, <1>3
<1>8. ASSUME NEW k \in UsedBlocks, AreaOf(k) = area
      PROVE  c # NULL /\ k = At(heap, c)
  <2>1. PICK x \in OnUsed : k = At(heap, x)
    BY BlocksOfLists DEF Blocks
  <2>2. x \in OnUsed \cap wanted
    BY <1>1, <1>7, <1>8, <2>1
  <2>3. c \in OnUsed \cap wanted /\ c # NULL
    BY <1>6, <1>7, <2>2
  <2>4. AreaOf(At(heap, c)) = AreaOf(At(heap, x))
    BY <1>1, <2>2, <2>3
  <2>5. At(heap, c).addr = At(heap, x).addr
    BY <2>4 DEF AreaOf
  <2>6. IsList(heap.node, heap.used, OnUsed)
    BY <1>2, <1>3
  <2>7. c = x
    BY <2>2, <2>3, <2>5, <2>6 DEF IsList, Keyed, At
  <2> QED BY <2>1, <2>3, <2>7
<1>9. c # NULL => c \in OnUsed /\ AreaOf(At(heap, c)) = area
  BY <1>1, <1>6
<1> QED BY <1>8, <1>9

\* memory_free: one step of the lists is one step of the sets.
LEMMA FreeStep ==
    ASSUME ListInv, NEW area \in P!CallerAreas, Free(area)
    PROVE  ListInv' /\ P!Free(area)
<1>1. PICK c : c = Allocated(heap, area)
  OBVIOUS
<1>2. /\ c # NULL /\ heap.node[c].freeable /\ heap' = memory_free(heap, c)
      /\ result' = result /\ halted' = halted
  BY <1>1 DEF Free
<1>3. PICK k : k = At(heap, c)
  OBVIOUS
<1>4. c \in OnUsed /\ k \in UsedBlocks /\ AreaOf(k) = area /\ k.freeable
  <2>1. c \in OnUsed /\ AreaOf(k) = area
    BY <1>1, <1>2, <1>3, FindsUsed
  <2>2. k.freeable
    BY <1>2, <1>3 DEF At
  <2> QED BY <1>3, <2>1, <2>2, BlocksOfLists DEF Blocks
<1>5. PICK G, V : /\ Lists(heap', G, V)
                  /\ Blocks(heap', G) = (FreeBlocks \ (P!Below(k) \cup P!Above(k)))
                                        \cup {P!Freed(k)}
                  /\ Blocks(heap', V) = UsedBlocks \ {k}
  <2>1. Returning(k, memory_free(heap, c))
    BY <1>3, <1>4, FreeReturns
  <2> QED BY <1>2, <2>1 DEF Returning
<1>6. /\ Lists(heap, OnFree, OnUsed)'
      /\ FreeBlocks' = (FreeBlocks \ (P!Below(k) \cup P!Above(k))) \cup {P!Freed(k)}
      /\ UsedBlocks' = UsedBlocks \ {k}
  BY <1>5, NextLists
<1>7. /\ P!Layout(FreeBlocks, UsedBlocks) /\ P!Consistent(FreeBlocks, UsedBlocks)
  BY DEF ListInv, P!Layout
<1>8. P!AreaOf(k) = area
  BY <1>4 DEF P!AreaOf, AreaOf
<1>9. k \notin P!Freeable(BootUsed)
  BY <1>4, <1>7, <1>8, P!FreesOwn, AssumptionsHold DEF Assumed
<1>10. P!Layout((FreeBlocks \ (P!Below(k) \cup P!Above(k))) \cup {P!Freed(k)},
                UsedBlocks \ {k})
  BY <1>4, <1>7, <1>9, P!FreeLayout, AssumptionsHold DEF Assumed
<1>11. P!Layout(FreeBlocks', UsedBlocks')
  BY <1>6, <1>10
<1>12. P!Stale(k) = {}
  BY <1>4, OldAddress
<1>13. ListInv'
  BY <1>6, <1>11 DEF ListInv
<1>14. P!Free(area)
  BY <1>2, <1>4, <1>6, <1>8, <1>12 DEF P!Free
<1> QED BY <1>13, <1>14

\* memory_free of an area nobody may free.
LEMMA FreeInvalidStep ==
    ASSUME ListInv, NEW area, FreeInvalid(area)
    PROVE  ListInv' /\ P!FreeInvalid(area)
<1>1. PICK c : c = Allocated(heap, area)
  OBVIOUS
<1>2. /\ ~(c # NULL /\ heap.node[c].freeable) /\ halted' = TRUE
      /\ heap' = heap /\ result' = result
  BY <1>1 DEF FreeInvalid
<1>3. FreeBlocks' = FreeBlocks /\ UsedBlocks' = UsedBlocks
      /\ OnFree' = OnFree /\ OnUsed' = OnUsed
  BY <1>2 DEF FreeBlocks, UsedBlocks, OnFree, OnUsed, At
<1>4. ListInv'
  BY <1>2, <1>3 DEF ListInv
<1>5. \A k \in UsedBlocks : P!AreaOf(k) = area => ~k.freeable
  <2> SUFFICES ASSUME NEW k \in UsedBlocks, P!AreaOf(k) = area PROVE ~k.freeable
    OBVIOUS
  <2>1. AreaOf(k) = area
    BY DEF P!AreaOf, AreaOf
  <2>2. c # NULL /\ k = At(heap, c)
    BY <1>1, <2>1, FindsUsed
  <2> QED BY <1>2, <2>2 DEF At
<1> QED BY <1>2, <1>3, <1>4, <1>5 DEF P!FreeInvalid

-----------------------------------------------------------------------------
(* What memory_init leaves.                                                *)

\* Blocks with addresses and headers of their own.
OwnPlaces(B) == /\ B \subseteq Container
                /\ \A c, d \in B : c.hdr = d.hdr => c = d
                /\ \A c, d \in B : c.addr = d.addr => c = d
                /\ \A c \in B : c.hdr # NULL

LEMMA Extremes ==
    ASSUME NEW S, S \subseteq Container, S # {}
    PROVE  /\ \E c \in S : \A d \in S : d.addr <= c.addr
           /\ \E c \in S : \A d \in S : d.addr >= c.addr
<1>1. W \in Nat /\ \A c \in S : c.addr \in Nat /\ c.addr < W
  BY WordFields, WAssumption DEF Container
<1>2. \E c \in S : \A d \in S : d.addr <= c.addr
  <2>1. {W - c.addr : c \in S} \subseteq Nat /\ {W - c.addr : c \in S} # {}
    BY <1>1
  <2>2. PICK n \in {W - c.addr : c \in S} : \A m \in {W - c.addr : c \in S} : n <= m
    BY <2>1, LeastNat, Zenon
  <2>3. PICK c \in S : n = W - c.addr
    BY <2>2
  <2>4. \A d \in S : W - c.addr <= W - d.addr
    BY <2>2, <2>3
  <2>5. \A d \in S : d.addr <= c.addr
    BY <1>1, <2>4
  <2> QED BY <2>5
<1>3. \E c \in S : \A d \in S : d.addr >= c.addr
  <2>1. {c.addr : c \in S} \subseteq Nat /\ {c.addr : c \in S} # {}
    BY <1>1
  <2>2. PICK n \in {c.addr : c \in S} : \A m \in {c.addr : c \in S} : n <= m
    BY <2>1, LeastNat, Zenon
  <2>3. PICK c \in S : n = c.addr
    BY <2>2
  <2>4. \A d \in S : c.addr <= d.addr
    BY <2>2, <2>3
  <2>5. \A d \in S : d.addr >= c.addr
    BY <1>1, <2>4
  <2> QED BY <2>5
<1> QED BY <1>2, <1>3

LEMMA TopIs ==
    ASSUME NEW S, S \subseteq Container, S # {}
    PROVE  \E c \in S : TopOf(S) = c.hdr /\ \A d \in S : d.addr <= c.addr
<1>1. PICK c : c = CHOOSE e \in S : \A d \in S : d.addr <= e.addr
  OBVIOUS
<1>2. c \in S /\ \A d \in S : d.addr <= c.addr
  BY <1>1, Extremes
<1>3. TopOf(S) = c.hdr
  BY <1>1 DEF TopOf
<1> QED BY <1>2, <1>3

LEMMA BottomIs ==
    ASSUME NEW S, S \subseteq Container, S # {}
    PROVE  \E c \in S : BottomOf(S) = c.hdr /\ \A d \in S : d.addr >= c.addr
<1>1. PICK c : c = CHOOSE e \in S : \A d \in S : d.addr >= e.addr
  OBVIOUS
<1>2. c \in S /\ \A d \in S : d.addr >= c.addr
  BY <1>1, Extremes
<1>3. BottomOf(S) = c.hdr
  BY <1>1 DEF BottomOf
<1> QED BY <1>2, <1>3

\* N has the blocks B at their headers.
Holds(N, B) == \A c \in B : c.hdr \in DOMAIN N /\ N[c.hdr].addr = c.addr

LEMMA TopBeneath ==
    ASSUME NEW B, B \subseteq Container, NEW N, Holds(N, B), NEW a \in Nat
    PROVE  Beneath(N, {c.hdr : c \in B}, a, TopOf({d \in B : d.addr < a}))
<1> DEFINE S == {d \in B : d.addr < a}
<1>1. \A c \in B : c.addr \in Nat
  BY WordFields DEF Container
<1>2. CASE S = {}
  <2>1. TopOf(S) = NULL
    BY <1>2 DEF TopOf
  <2>2. \A c \in B : c.addr >= a
    BY <1>1, <1>2
  <2> QED BY <2>1, <2>2 DEF Beneath, Holds
<1>3. CASE S # {}
  <2>1. PICK c \in S : TopOf(S) = c.hdr /\ \A d \in S : d.addr <= c.addr
    <3>1. S \subseteq Container
      OBVIOUS
    <3> QED BY <1>3, <3>1, TopIs
  <2>2. c \in B /\ c.addr < a /\ \A d \in B : d.addr < a => d.addr <= c.addr
    BY <2>1
  <2>4. PICK X : X = {e.hdr : e \in B}
    BY Zenon
  <2>5. c.hdr \in X /\ N[c.hdr].addr < a
        /\ \A x \in X : N[x].addr < a => N[x].addr <= N[c.hdr].addr
    BY <2>2, <2>4 DEF Holds
  <2>6. Beneath(N, X, a, TopOf(S))
    BY <2>1, <2>5, Zenon DEF Beneath
  <2> QED BY <2>4, <2>6
<1> QED BY <1>2, <1>3

LEMMA BottomOver ==
    ASSUME NEW B, B \subseteq Container, NEW N, Holds(N, B), NEW a \in Nat
    PROVE  Over(N, {c.hdr : c \in B}, a, BottomOf({d \in B : d.addr > a}))
<1> DEFINE S == {d \in B : d.addr > a}
<1>1. \A c \in B : c.addr \in Nat
  BY WordFields DEF Container
<1>2. CASE S = {}
  <2>1. BottomOf(S) = NULL
    BY <1>2 DEF BottomOf
  <2>2. \A c \in B : c.addr <= a
    BY <1>1, <1>2
  <2> QED BY <2>1, <2>2 DEF Over, Holds
<1>3. CASE S # {}
  <2>1. PICK c \in S : BottomOf(S) = c.hdr /\ \A d \in S : d.addr >= c.addr
    <3>1. S \subseteq Container
      OBVIOUS
    <3> QED BY <1>3, <3>1, BottomIs
  <2>2. c \in B /\ c.addr > a /\ \A d \in B : d.addr > a => c.addr <= d.addr
    BY <1>1, <2>1
  <2>4. PICK X : X = {e.hdr : e \in B}
    BY Zenon
  <2>5. c.hdr \in X /\ N[c.hdr].addr > a
        /\ \A x \in X : N[x].addr > a => N[c.hdr].addr <= N[x].addr
    BY <2>2, <2>4 DEF Holds
  <2>6. Over(N, X, a, BottomOf(S))
    BY <2>1, <2>5, Zenon DEF Over
  <2> QED BY <2>4, <2>6
<1> QED BY <1>2, <1>3

\* A pointer made of a set of containers is a word.
LEMMA EndWords ==
    ASSUME NEW S, S \subseteq Container
    PROVE  TopOf(S) \in Word /\ BottomOf(S) \in Word
<1>1. NULL \in Word
  BY WAssumption DEF NULL, Word
<1>2. CASE S = {}
  BY <1>1, <1>2 DEF TopOf, BottomOf
<1>3. CASE S # {}
  BY <1>3, TopIs, BottomIs DEF Container
<1> QED BY <1>2, <1>3

\* Container m of block c, linked with those of the other blocks B.
LinkedAs(B, c, m) ==
    /\ m \in Node /\ m.addr = c.addr /\ m.size = c.size /\ m.freeable = c.freeable
    /\ m.next = TopOf({d \in B : d.addr < c.addr})
    /\ m.prev = BottomOf({d \in B : d.addr > c.addr})

\* The containers Linked makes, one by one.
LEMMA LinkedFields ==
    ASSUME NEW B, OwnPlaces(B), NEW c \in B, NEW m, m = Linked(B)[c.hdr]
    PROVE  LinkedAs(B, c, m)
<1>1. (CHOOSE d \in B : d.hdr = c.hdr) = c
  BY DEF OwnPlaces
<1>3. m = [addr |-> c.addr, size |-> c.size, freeable |-> c.freeable,
           next |-> TopOf({d \in B : d.addr < c.addr}),
           prev |-> BottomOf({d \in B : d.addr > c.addr})]
  BY <1>1, Zenon DEF Linked
<1>4. /\ {d \in B : d.addr < c.addr} \subseteq Container
      /\ {d \in B : d.addr > c.addr} \subseteq Container
      /\ c.addr \in Word /\ c.size \in Word /\ c.freeable \in BOOLEAN
  BY DEF OwnPlaces, Container
<1>5. /\ TopOf({d \in B : d.addr < c.addr}) \in Word
      /\ BottomOf({d \in B : d.addr > c.addr}) \in Word
  BY <1>4, EndWords
<1>6. PICK x, y : /\ x = TopOf({d \in B : d.addr < c.addr})
                  /\ y = BottomOf({d \in B : d.addr > c.addr})
  BY Zenon
<1>7. m = [addr |-> c.addr, size |-> c.size, freeable |-> c.freeable, next |-> x, prev |-> y]
  BY <1>3, <1>6
<1>8. m \in Node
  BY <1>4, <1>5, <1>6, <1>7 DEF Node
<1> QED BY <1>6, <1>7, <1>8 DEF LinkedAs

\* What Linked makes is a list, wherever else something lies.
LEMMA LinkedList ==
    ASSUME NEW B, OwnPlaces(B), NEW N,
           \A c \in B : c.hdr \in DOMAIN N /\ N[c.hdr] = Linked(B)[c.hdr]
    PROVE  IsList(N, TopOf(B), {c.hdr : c \in B})
<1> DEFINE X == {c.hdr : c \in B}
<1>1. \A c \in B : /\ N[c.hdr].addr = c.addr
                   /\ N[c.hdr].next = TopOf({d \in B : d.addr < c.addr})
                   /\ N[c.hdr].prev = BottomOf({d \in B : d.addr > c.addr})
  <2> SUFFICES ASSUME NEW c \in B
               PROVE  /\ N[c.hdr].addr = c.addr
                      /\ N[c.hdr].next = TopOf({d \in B : d.addr < c.addr})
                      /\ N[c.hdr].prev = BottomOf({d \in B : d.addr > c.addr})
    OBVIOUS
  <2>1. PICK m : m = Linked(B)[c.hdr]
    OBVIOUS
  <2>2. m = N[c.hdr]
    BY <2>1
  <2>3. LinkedAs(B, c, m)
    BY <2>1, LinkedFields
  <2> QED BY <2>2, <2>3 DEF LinkedAs
<1>2. B \subseteq Container /\ Holds(N, B) /\ \A c \in B : c.addr \in Word
  BY <1>1, Zenon DEF OwnPlaces, Holds, Container
<1>3. Keyed(N, X)
  <2>1. X \subseteq DOMAIN N /\ NULL \notin X
    BY <1>2 DEF OwnPlaces, Holds
  <2>2. \A x \in X : \E c \in B : x = c.hdr /\ N[x].addr = c.addr /\ c.addr \in Word
    BY <1>1, <1>2, Zenon
  <2>3. \A x, y \in X : N[x].addr = N[y].addr => x = y
    BY <2>2 DEF OwnPlaces
  <2> HIDE DEF X
  <2> QED BY <2>1, <2>2, <2>3 DEF Keyed
<1>4. Beneath(N, X, W, TopOf(B))
  <2>1. {d \in B : d.addr < W} = B /\ W \in Nat
    BY <1>2, WordFields, WAssumption
  <2> QED BY <1>2, <2>1, TopBeneath
<1>5. \A c \in B : /\ Beneath(N, X, c.addr, TopOf({d \in B : d.addr < c.addr}))
                   /\ Over(N, X, c.addr, BottomOf({d \in B : d.addr > c.addr}))
  BY <1>2, WordFields, TopBeneath, BottomOver
<1>6. \A x \in X : Beneath(N, X, N[x].addr, N[x].next) /\ Over(N, X, N[x].addr, N[x].prev)
  <2> SUFFICES ASSUME NEW c \in B
               PROVE  /\ Beneath(N, X, N[c.hdr].addr, N[c.hdr].next)
                      /\ Over(N, X, N[c.hdr].addr, N[c.hdr].prev)
    BY Zenon
  <2> HIDE DEF X
  <2> QED BY <1>1, <1>5, Zenon
<1> HIDE DEF X
<1>7. IsList(N, TopOf(B), X)
  BY <1>3, <1>4, <1>6 DEF IsList
<1> QED BY <1>7 DEF X

\* What lies in memory at first: the containers of both lists.
LEMMA BootMemory ==
    ASSUME OwnPlaces(BootFree), OwnPlaces(BootUsed),
           \A c \in BootFree, d \in BootUsed : c.hdr # d.hdr,
           NEW N, N = HeapOf(BootFree, BootUsed).node
    PROVE  /\ DOMAIN N = {c.hdr : c \in BootFree} \cup {c.hdr : c \in BootUsed}
           /\ N \in [DOMAIN N -> Node]
           /\ \A c \in BootFree : N[c.hdr] = Linked(BootFree)[c.hdr]
           /\ \A c \in BootUsed : N[c.hdr] = Linked(BootUsed)[c.hdr]
<1>1. /\ DOMAIN Linked(BootFree) = {c.hdr : c \in BootFree}
      /\ DOMAIN Linked(BootUsed) = {c.hdr : c \in BootUsed}
  BY DEF Linked
<1>2. PICK f, g : f = Linked(BootFree) /\ g = Linked(BootUsed)
  OBVIOUS
<1>3. N = [x \in (DOMAIN f) \cup (DOMAIN g) |-> IF x \in DOMAIN f THEN f[x] ELSE g[x]]
  BY <1>2 DEF HeapOf
<1>4. DOMAIN N = (DOMAIN f) \cup (DOMAIN g)
      /\ \A x \in DOMAIN N : N[x] = IF x \in DOMAIN f THEN f[x] ELSE g[x]
  BY <1>3
<1>5. /\ \A c \in BootFree : N[c.hdr] = f[c.hdr]
      /\ \A c \in BootUsed : N[c.hdr] = g[c.hdr]
  BY <1>1, <1>2, <1>4
<1>6. /\ \A c \in BootFree : f[c.hdr] \in Node
      /\ \A c \in BootUsed : g[c.hdr] \in Node
  <2>1. ASSUME NEW c \in BootFree PROVE f[c.hdr] \in Node
    <3>1. PICK m : m = Linked(BootFree)[c.hdr]
      OBVIOUS
    <3>2. LinkedAs(BootFree, c, m)
      BY <3>1, LinkedFields
    <3> QED BY <1>2, <3>1, <3>2 DEF LinkedAs
  <2>2. ASSUME NEW c \in BootUsed PROVE g[c.hdr] \in Node
    <3>1. PICK m : m = Linked(BootUsed)[c.hdr]
      OBVIOUS
    <3>2. LinkedAs(BootUsed, c, m)
      BY <3>1, LinkedFields
    <3> QED BY <1>2, <3>1, <3>2 DEF LinkedAs
  <2> QED BY <2>1, <2>2
<1>7. \A x \in DOMAIN N : N[x] \in Node
  BY <1>1, <1>2, <1>4, <1>5, <1>6
<1>8. N \in [DOMAIN N -> Node]
  BY <1>3, <1>7
<1> QED BY <1>1, <1>2, <1>4, <1>5, <1>8

\* The blocks of a heap are those its containers were made of.
LEMMA BlocksMade ==
    ASSUME NEW h, NEW B, OwnPlaces(B), \A c \in B : h.node[c.hdr] = Linked(B)[c.hdr]
    PROVE  Blocks(h, {c.hdr : c \in B}) = B
<1>1. \A c \in B : At(h, c.hdr) = c
  <2> SUFFICES ASSUME NEW c \in B PROVE At(h, c.hdr) = c
    OBVIOUS
  <2>1. PICK m : m = Linked(B)[c.hdr]
    OBVIOUS
  <2>2. LinkedAs(B, c, m)
    BY <2>1, LinkedFields
  <2>3. At(h, c.hdr) = [hdr |-> c.hdr, addr |-> c.addr, size |-> c.size,
                        freeable |-> c.freeable]
    BY <2>1, <2>2 DEF LinkedAs, At
  <2>4. c = [hdr |-> c.hdr, addr |-> c.addr, size |-> c.size, freeable |-> c.freeable]
    BY DEF OwnPlaces, Container
  <2> QED BY <2>3, <2>4
<1> QED BY <1>1 DEF Blocks

\* The assumptions on the boot layout, as the lists need them.
LEMMA BootPlaces ==
    /\ OwnPlaces(BootFree) /\ OwnPlaces(BootUsed)
    /\ \A c \in BootFree, d \in BootUsed : c.hdr # d.hdr
    /\ P!Layout(BootFree, BootUsed)
<1>1. /\ P!Consistent(BootFree, BootUsed) /\ P!Ordered(BootFree, BootUsed)
      /\ P!OwnHeaders(BootFree \cup BootUsed)
      /\ P!Hosted(BootFree \cup BootUsed, P!Freeable(BootUsed))
  <2>1. \A c : Sets!Inline(c) = P!Inline(c) /\ Sets!End(c) = P!End(c)
    BY DEF Sets!Inline, P!Inline, Sets!End, P!End, Sets!Add, P!Add
  <2>2. P!Ordered(BootFree, BootUsed)
    BY <2>1, BootAssumption DEF Sets!Ordered, P!Ordered
  <2>3. P!OwnHeaders(BootFree \cup BootUsed)
    BY BootAssumption DEF Sets!OwnHeaders, P!OwnHeaders
  <2>4. P!Hosted(BootFree \cup BootUsed, P!Freeable(BootUsed))
    BY <2>1, BootAssumption DEF Sets!Hosted, P!Hosted, P!Freeable
  <2> QED BY <2>2, <2>3, <2>4, AssumptionsHold DEF Assumed
<1>2. P!Layout(BootFree, BootUsed)
  BY <1>1 DEF P!Layout, P!Headers, P!Freeable
<1>3. /\ BootFree \subseteq Container /\ BootUsed \subseteq Container
      /\ BootFree \cap BootUsed = {} /\ \A c \in BootFree : c.freeable
  BY <1>1, SameParts DEF P!Consistent, P!Usable
<1>4. \A c, d \in BootFree \cup BootUsed : c.hdr = d.hdr => c = d
  BY <1>1 DEF P!OwnHeaders
<1>5. \A c, d \in BootUsed : c.addr = d.addr => c = d
  BY <1>1 DEF P!Ordered
<1>6. \A c, d \in BootFree : c.addr = d.addr => c = d
  BY <1>1, <1>3, P!Distinct, AssumptionsHold DEF Assumed
<1>7. \A c \in BootFree \cup BootUsed : c.hdr # NULL
  BY BootAssumption
<1> QED BY <1>2, <1>3, <1>4, <1>5, <1>6, <1>7 DEF OwnPlaces

LEMMA BootLists == Init => ListInv /\ FreeBlocks = BootFree /\ UsedBlocks = BootUsed
<1> SUFFICES ASSUME Init PROVE ListInv /\ FreeBlocks = BootFree /\ UsedBlocks = BootUsed
  OBVIOUS
<1>1. PICK N : N = HeapOf(BootFree, BootUsed).node
  OBVIOUS
<1>2. PICK F, U : F = {c.hdr : c \in BootFree} /\ U = {c.hdr : c \in BootUsed}
  BY Zenon
<1>3. heap = [free |-> TopOf(BootFree), used |-> TopOf(BootUsed), node |-> N]
  BY <1>1 DEF Init, HeapOf
<1>4. /\ DOMAIN N = F \cup U /\ N \in [DOMAIN N -> Node]
      /\ \A c \in BootFree : N[c.hdr] = Linked(BootFree)[c.hdr]
      /\ \A c \in BootUsed : N[c.hdr] = Linked(BootUsed)[c.hdr]
  BY <1>1, <1>2, BootPlaces, BootMemory, Zenon
<1>5. /\ IsList(N, TopOf(BootFree), F) /\ IsList(N, TopOf(BootUsed), U)
  BY <1>2, <1>4, BootPlaces, LinkedList
<1>6. F \cap U = {} /\ NULL \notin F \cup U /\ F \cup U \subseteq Word
  BY <1>2, BootPlaces DEF OwnPlaces, Container
<1>7. TopOf(BootFree) \in Word /\ TopOf(BootUsed) \in Word
  BY BootPlaces, EndWords DEF OwnPlaces
<1>8. heap \in Heap
  BY <1>3, <1>4, <1>6, <1>7 DEF Heap
<1>9. Lists(heap, F, U)
  BY <1>3, <1>4, <1>5, <1>6, <1>8 DEF Lists
<1>10. OnFree = F /\ OnUsed = U
  BY <1>9, WalksMeet DEF OnFree, OnUsed
<1>11. FreeBlocks = BootFree /\ UsedBlocks = BootUsed
  <2>1. Blocks(heap, F) = BootFree /\ Blocks(heap, U) = BootUsed
    BY <1>2, <1>3, <1>4, BootPlaces, BlocksMade
  <2> QED BY <1>10, <2>1, BlocksOfLists
<1> QED BY <1>9, <1>10, <1>11, BootPlaces DEF ListInv

-----------------------------------------------------------------------------
(* Theorems.                                                               *)

\* MemoryList's Memory and the one the lemmas are about are the same.
LEMMA SameSteps ==
    /\ \A r : P!Clear(r) <=> Sets!Clear(r)
    /\ \A r : P!Alloc(r) <=> Sets!Alloc(r)
    /\ \A r : P!AllocFails(r) <=> Sets!AllocFails(r)
    /\ \A area : P!Free(area) <=> Sets!Free(area)
    /\ \A area : P!FreeInvalid(area) <=> Sets!FreeInvalid(area)
    /\ P!CallerAreas = Sets!CallerAreas
<1>1. /\ \A a, b : P!Add(a, b) = Sets!Add(a, b) /\ P!Sub(a, b) = Sets!Sub(a, b)
      /\ P!NoArea = Sets!NoArea /\ \A c : P!AreaOf(c) = Sets!AreaOf(c)
  BY DEF P!Add, P!Sub, Sets!Add, Sets!Sub, P!NoArea, Sets!NoArea, P!AreaOf, Sets!AreaOf
<1>2. \A c : P!Inline(c) = Sets!Inline(c) /\ P!End(c) = Sets!End(c)
  BY <1>1 DEF P!Inline, Sets!Inline, P!End, Sets!End
<1>3. \A c, r : P!Rounded(c, r) = Sets!Rounded(c, r)
  BY <1>1 DEF P!Rounded, Sets!Rounded
<1>4. \A c, r : P!Skipped(c, r) = Sets!Skipped(c, r) /\ P!Start(c, r) = Sets!Start(c, r)
  BY <1>3 DEF P!Skipped, Sets!Skipped, P!Start, Sets!Start
<1>5. \A c, r : /\ P!WithinLimit(c, r) = Sets!WithinLimit(c, r)
                /\ P!OnEdge(c, r) = Sets!OnEdge(c, r)
  BY <1>1, <1>2, <1>4 DEF P!WithinLimit, Sets!WithinLimit, P!OnEdge, Sets!OnEdge
<1>6. \A c, r : /\ P!PlainFit(c, r) = Sets!PlainFit(c, r)
                /\ P!ExactFit(c, r) = Sets!ExactFit(c, r)
                /\ P!EdgeFit(c, r) = Sets!EdgeFit(c, r)
                /\ P!MiddleFit(c, r) = Sets!MiddleFit(c, r)
  BY <1>1, <1>4, <1>5 DEF P!PlainFit, Sets!PlainFit, P!ExactFit, Sets!ExactFit,
     P!EdgeFit, Sets!EdgeFit, P!MiddleFit, Sets!MiddleFit
<1>7. \A c, r : P!Serves(c, r) = Sets!Serves(c, r)
  BY <1>5, <1>6 DEF P!Serves, Sets!Serves
<1>8. \A c, x : /\ P!HeadLower(c, x) = Sets!HeadLower(c, x)
                /\ P!HeadUpper(c, x) = Sets!HeadUpper(c, x)
                /\ P!TailLower(c, x) = Sets!TailLower(c, x)
                /\ P!TailUpper(c, x) = Sets!TailUpper(c, x)
  BY <1>1, Zenon DEF P!HeadLower, Sets!HeadLower, P!HeadUpper, Sets!HeadUpper,
     P!TailLower, Sets!TailLower, P!TailUpper, Sets!TailUpper
<1>9. \A c, r : /\ P!Chosen(c, r) = Sets!Chosen(c, r)
                /\ P!Remains(c, r) = Sets!Remains(c, r)
  BY <1>4, <1>5, <1>6, <1>8 DEF P!Chosen, Sets!Chosen, P!Remains, Sets!Remains
<1>10. \A c, r : P!FirstFit(c, r) <=> Sets!FirstFit(c, r)
  BY <1>7 DEF P!FirstFit, Sets!FirstFit
<1>11. \A r : P!Alloc(r) <=> Sets!Alloc(r)
  BY <1>1, <1>9, <1>10 DEF P!Alloc, Sets!Alloc
<1>12. \A r : P!AllocFails(r) <=> Sets!AllocFails(r)
  BY <1>1, <1>7 DEF P!AllocFails, Sets!AllocFails
<1>13. \A c : /\ P!NextOf(c) = Sets!NextOf(c) /\ P!PrevOf(c) = Sets!PrevOf(c)
              /\ P!IsHead(c) = Sets!IsHead(c)
  BY DEF P!NextOf, Sets!NextOf, P!PrevOf, Sets!PrevOf, P!IsHead, Sets!IsHead
<1>14. \A c, d : P!Merge(c, d) = Sets!Merge(c, d)
  BY <1>1 DEF P!Merge, Sets!Merge
<1>15. \A c : P!Below(c) = Sets!Below(c)
  BY <1>2, <1>13 DEF P!Below, Sets!Below
<1>16. \A c : P!Grown(c) = Sets!Grown(c)
  BY DEF P!Grown, Sets!Grown, P!Below, Sets!Below, P!NextOf, Sets!NextOf,
     P!Merge, Sets!Merge, P!Inline, Sets!Inline, P!End, Sets!End, P!Add, Sets!Add
<1>17. \A c : P!Above(c) = Sets!Above(c)
  BY <1>2, <1>13, <1>16 DEF P!Above, Sets!Above
<1>18. \A c : P!Freed(c) = Sets!Freed(c) /\ P!Stale(c) = Sets!Stale(c)
  <2> SUFFICES ASSUME NEW c PROVE P!Freed(c) = Sets!Freed(c) /\ P!Stale(c) = Sets!Stale(c)
    OBVIOUS
  <2>4. P!Freed(c) = Sets!Freed(c)
    BY Zenon DEF P!Freed, Sets!Freed, P!Above, Sets!Above, P!PrevOf, Sets!PrevOf,
       P!Grown, Sets!Grown, P!Below, Sets!Below, P!NextOf, Sets!NextOf,
       P!Merge, Sets!Merge, P!Inline, Sets!Inline, P!End, Sets!End, P!Add, Sets!Add
  <2>5. P!Stale(c) = Sets!Stale(c)
    BY <1>13, <1>15, <1>16 DEF P!Stale, Sets!Stale
  <2> QED BY <2>4, <2>5
<1>19. \A area : P!Free(area) <=> Sets!Free(area)
  BY <1>1, <1>15, <1>17, <1>18 DEF P!Free, Sets!Free
<1>20. \A area : P!FreeInvalid(area) <=> Sets!FreeInvalid(area)
  BY <1>1 DEF P!FreeInvalid, Sets!FreeInvalid
<1>21. P!CallerAreas = Sets!CallerAreas
  BY <1>1 DEF P!CallerAreas, Sets!CallerAreas
<1>22. \A c, r : /\ P!NearFit(c, r) <=> Sets!NearFit(c, r)
                 /\ P!TakesTop(c, r) <=> Sets!TakesTop(c, r)
                 /\ P!EmptyRest(c, r) <=> Sets!EmptyRest(c, r)
  BY <1>2, <1>4, <1>6, <1>13 DEF P!NearFit, Sets!NearFit, P!TakesTop, Sets!TakesTop,
     P!EmptyRest, Sets!EmptyRest
<1>23. \A r : P!Clear(r) <=> Sets!Clear(r)
  BY <1>22 DEF P!Clear, Sets!Clear
<1> QED BY <1>11, <1>12, <1>19, <1>20, <1>21, <1>23

\* The invariant of the lists, with the types of the other variables.
Inv == ListInv /\ result \in Area /\ halted \in BOOLEAN

LEMMA BootInv == Init => Inv /\ Sets!Init
<1> SUFFICES ASSUME Init PROVE Inv /\ Sets!Init
  OBVIOUS
<1>1. ListInv /\ FreeBlocks = BootFree /\ UsedBlocks = BootUsed
  BY BootLists
<1>2. result = NoArea /\ halted = FALSE
  BY DEF Init
<1>3. NoArea \in Area /\ Sets!NoArea = NoArea
  BY WAssumption DEF NoArea, Sets!NoArea, Area, Word
<1> QED BY <1>1, <1>2, <1>3, Zenon DEF Inv, Sets!Init

\* What memory_alloc returns is an area.
LEMMA ResultTypes ==
    ASSUME Inv, NEW r \in Requests, P!Clear(r), Alloc(r)
    PROVE  result' \in Area
<1>1. PICK got : got = memory_alloc(heap, r)
  OBVIOUS
<1>2. /\ heap' = got.heap
      /\ result' = IF got.at = NULL THEN NoArea ELSE AreaOf(At(got.heap, got.at))
  BY <1>1 DEF Alloc
<1>3. ListInv' /\ (P!Alloc(r) \/ P!AllocFails(r))
  BY AllocStep DEF Inv
<1>4. P!NoArea \in P!Area
  BY WAssumption DEF P!NoArea, P!Area, P!Word
<1>5. CASE P!AllocFails(r)
  BY <1>4, <1>5 DEF P!AllocFails, P!Area, Area, P!Word, Word
<1>6. CASE P!Alloc(r)
  <2>1. PICK k \in FreeBlocks : /\ P!FirstFit(k, r) /\ result' = P!AreaOf(P!Chosen(k, r))
                                /\ UsedBlocks' = UsedBlocks \cup {P!Chosen(k, r)}
    BY <1>6 DEF P!Alloc
  <2>2. P!Chosen(k, r) \in P!Container
    BY <1>3, <2>1 DEF ListInv, P!Layout, P!Consistent
  <2> QED BY <2>1, <2>2 DEF P!AreaOf, P!Container, Area, P!Word, Word
<1> QED BY <1>3, <1>5, <1>6

\* Every step of the lists keeps them linked and is a step of the sets.
LEMMA StepInv == Inv /\ [ClearNext]_vars => Inv' /\ [Sets!ClearNext]_(Sets!vars)
<1> SUFFICES ASSUME Inv, [ClearNext]_vars PROVE Inv' /\ [Sets!ClearNext]_(Sets!vars)
  OBVIOUS
<1>1. ListInv
  BY DEF Inv
<1>2. CASE \E r \in Requests : Sets!Clear(r) /\ Alloc(r)
  <2>1. PICK r \in Requests : Sets!Clear(r) /\ Alloc(r)
    BY <1>2
  <2>2. P!Clear(r)
    BY <2>1, SameSteps
  <2>3. ListInv' /\ (P!Alloc(r) \/ P!AllocFails(r))
    BY <1>1, <2>1, <2>2, AllocStep
  <2>4. result' \in Area /\ halted' = halted
    BY <2>1, <2>2, ResultTypes DEF Alloc
  <2>5. Sets!Alloc(r) \/ Sets!AllocFails(r)
    BY <2>3, SameSteps
  <2>6. Sets!ClearNext
    BY <2>1, <2>5 DEF Sets!ClearNext
  <2> QED BY <2>3, <2>4, <2>6 DEF Inv
<1>3. CASE \E area \in Sets!CallerAreas : Free(area) \/ FreeInvalid(area)
  <2>1. PICK area \in Sets!CallerAreas : Free(area) \/ FreeInvalid(area)
    BY <1>3
  <2>2. CASE Free(area)
    <3>1. ListInv' /\ P!Free(area)
      BY <1>1, <2>1, <2>2, FreeStep, SameSteps
    <3>2. result' = result /\ halted' = halted
      BY <2>2 DEF Free
    <3>3. Sets!ClearNext
      BY <2>1, <3>1, SameSteps DEF Sets!ClearNext
    <3> QED BY <3>1, <3>2, <3>3 DEF Inv
  <2>3. CASE FreeInvalid(area)
    <3>1. ListInv' /\ P!FreeInvalid(area)
      BY <1>1, <2>3, FreeInvalidStep
    <3>2. result' = result /\ halted' = TRUE
      BY <2>3 DEF FreeInvalid
    <3>3. Sets!ClearNext
      BY <2>1, <3>1, SameSteps DEF Sets!ClearNext
    <3> QED BY <3>1, <3>2, <3>3 DEF Inv
  <2> QED BY <2>1, <2>2, <2>3
<1>4. CASE UNCHANGED vars
  <2>1. heap' = heap /\ result' = result /\ halted' = halted
    BY <1>4 DEF vars
  <2>2. FreeBlocks' = FreeBlocks /\ UsedBlocks' = UsedBlocks
        /\ OnFree' = OnFree /\ OnUsed' = OnUsed
    BY <2>1 DEF FreeBlocks, UsedBlocks, OnFree, OnUsed, At
  <2>3. Inv'
    BY <2>1, <2>2 DEF Inv, ListInv
  <2> QED BY <2>1, <2>2, <2>3 DEF Sets!vars
<1> QED BY <1>2, <1>3, <1>4 DEF ClearNext

\* A list is doubly linked.
LEMMA LinkedBothWays ==
    ASSUME NEW h \in Heap, NULL \notin DOMAIN h.node,
           NEW first, NEW X, IsList(h.node, first, X)
    PROVE  DoublyLinked(h, first)
<1>1. PICK s : s = Chain(h, first)
  OBVIOUS
<1>2. Descends(h.node, s, X)
  BY <1>1, WalkMeets
<1>3. \A i \in 1 .. Len(s) :
        /\ h.node[s[i]].next = IF i = Len(s) THEN NULL ELSE s[i + 1]
        /\ h.node[s[i]].prev = IF i = 1 THEN NULL ELSE s[i - 1]
  BY <1>2, Listed
<1>4. /\ s \in Seq(X) /\ Len(s) \in Nat
      /\ \A i, j \in 1 .. Len(s) : i < j => h.node[s[i]].addr > h.node[s[j]].addr
  BY <1>2 DEF Descends
<1>5. s # <<>> => h.node[s[1]].prev = NULL /\ h.node[Last(s)].next = NULL
  <2> SUFFICES ASSUME s # <<>> PROVE h.node[s[1]].prev = NULL /\ h.node[Last(s)].next = NULL
    OBVIOUS
  <2>1. Len(s) \in Nat \ {0}
    BY <1>4
  <2>2. Last(s) = s[Len(s)]
    BY DEF Last
  <2> QED BY <1>3, <2>1, <2>2
<1>6. ASSUME NEW i \in 1 .. (Len(s) - 1)
      PROVE  h.node[s[i + 1]].prev = s[i] /\ Above(h, s[i], s[i + 1])
  <2>1. i \in 1 .. Len(s) /\ i + 1 \in 1 .. Len(s) /\ i < i + 1 /\ i + 1 # 1 /\ (i + 1) - 1 = i
    BY <1>4
  <2>2. h.node[s[i + 1]].prev = s[i]
    BY <1>3, <2>1
  <2> QED BY <1>4, <2>1, <2>2 DEF Above
<1> QED BY <1>1, <1>5, <1>6 DEF DoublyLinked, BothWays

LEMMA InvLinked == Inv => ListsWellLinked
<1> SUFFICES ASSUME Inv PROVE ListsWellLinked
  OBVIOUS
<1>1. /\ Lists(heap, OnFree, OnUsed) /\ result \in Area /\ halted \in BOOLEAN
  BY DEF Inv, ListInv
<1>2. /\ heap \in Heap /\ NULL \notin DOMAIN heap.node
      /\ IsList(heap.node, heap.free, OnFree) /\ IsList(heap.node, heap.used, OnUsed)
      /\ OnFree \cap OnUsed = {} /\ OnFree \cup OnUsed = DOMAIN heap.node
  BY <1>1 DEF Lists
<1>3. TypeOK
  <2>1. \A x \in DOMAIN heap.node : heap.node[x] \in Node
    BY <1>2, HeapFields
  <2> QED BY <1>1, <1>2, <2>1, HeapFields DEF TypeOK
<1>4. DoublyLinked(heap, heap.free) /\ DoublyLinked(heap, heap.used)
  BY <1>2, LinkedBothWays
<1>5. WellLinked(heap)
  BY <1>2, <1>4 DEF WellLinked, OnFree, OnUsed
<1> QED BY <1>3, <1>5 DEF ListsWellLinked

\* Splitting, moving and merging keep both lists doubly linked, by descending
\* addresses, with every container on exactly one of them, whatever the
\* requests and the order of the calls, from every boot layout that meets
\* BootAssumption, as those do that memory_init leaves of Proper maps.
THEOREM ListsStayLinked == ClearSpec => []ListsWellLinked
<1>1. Init => Inv
  BY BootInv
<1>2. Inv /\ [ClearNext]_vars => Inv'
  BY StepInv
<1>3. Inv => ListsWellLinked
  BY InvLinked
<1> QED BY <1>1, <1>2, <1>3, PTL DEF ClearSpec

\* memory_alloc and memory_free on the pointers do what Memory says of sets of
\* containers: every call of theirs is a call of Memory's.
THEOREM SetsImplemented == ClearSpec => ImplementsSets
<1>1. Init => Inv /\ Sets!Init
  BY BootInv
<1>2. Inv /\ [ClearNext]_vars => Inv' /\ [Sets!ClearNext]_(Sets!vars)
  BY StepInv
<1> QED BY <1>1, <1>2, PTL DEF ClearSpec, ImplementsSets, Sets!ClearSpec

\* So do the pointers keep the promise of Allocator: whatever was split, moved
\* and merged before, memory_alloc returns an area of the size, alignment and
\* limit asked for that nobody owns, and memory_free takes back exactly the
\* area it is given.
THEOREM PointersKeepPromise == ClearSpec => P!KeepsPromise
<1>1. Init => Inv /\ P!Init
  <2>1. P!NoArea = Sets!NoArea
    BY DEF P!NoArea, Sets!NoArea
  <2> QED BY <2>1, BootInv DEF P!Init, Sets!Init
<1>2. Inv /\ [ClearNext]_vars => Inv' /\ [P!ClearNext]_(P!vars)
  <2>1. Sets!ClearNext => P!ClearNext
    BY SameSteps DEF Sets!ClearNext, P!ClearNext
  <2>2. Sets!vars = P!vars /\ Sets!vars' = P!vars'
    BY DEF Sets!vars, P!vars
  <2> QED BY <2>1, <2>2, StepInv
<1>3. ClearSpec => P!ClearSpec
  BY <1>1, <1>2, PTL DEF ClearSpec, P!ClearSpec
<1>4. P!ClearSpec => P!KeepsPromise
  BY P!PromiseKept, AssumptionsHold, PTL DEF Assumed
<1> QED BY <1>3, <1>4, PTL
=============================================================================
