-------------------------- MODULE BclMallocProofs --------------------------
(***************************************************************************)
(* The allocator keeps its chunks and its list in order, and implements    *)
(* SegmentAllocator, for every size of the segment and all sizes asked for.*)
(***************************************************************************)
EXTENDS BclMalloc, FiniteSetTheorems, WellFoundedInduction, TLAPS

Pointer == Address \cup {NULL}

(* What a loop over the list does with a pointer, and the walk it makes.   *)
After(nx, x) == IF x = NULL THEN NULL ELSE nx[x]
Walk(nx, fl) == LET at[i \in Nat] ==
                      IF i = 0 THEN fl
                      ELSE LET c == at[i - 1] IN IF c = NULL THEN NULL ELSE nx[c]
                IN  at
Walked(nx, fl) == {Walk(nx, fl)[i] : i \in 0 .. Segment} \ {NULL}

(* F is a doubly linked list from fl, and nothing else is linked. The last *)
(* conjunct says that no chunk of F is out of reach: going back from any   *)
(* of them leads to the front.                                             *)
ListOf(nx, la, fl, F) ==
  /\ nx \in [Address -> Pointer] /\ la \in [Address -> Pointer]
  /\ F \subseteq Address /\ fl \in F \cup {NULL}
  /\ \A c \in F : /\ nx[c] \in F \cup {NULL} /\ la[c] \in F \cup {NULL}
                  /\ nx[c] # NULL => la[nx[c]] = c
                  /\ la[c] # NULL => nx[la[c]] = c
                  /\ la[c] = NULL <=> c = fl
  /\ \A a \in Address \ F : nx[a] = NULL /\ la[a] = NULL
  /\ \A S \in SUBSET F : S # {} => \E c \in S : la[c] \notin S

(* The chunks C tile what lies below hp.                                   *)
Tiles(sz, hp, C) ==
  /\ \A c \in C : c + sz[c] < hp
  /\ \A c, d \in C : c < d => c + sz[c] < d
  /\ \A x \in Smallest .. hp - 1 : \E c \in C : c <= x /\ x <= c + sz[c]

(* Headers l whose chunks U are in use and whose chunks F are free.        *)
Sound(l, hp, U, F) ==
  /\ l.size \in [Address -> (0 .. Segment) \cup Sizes]
  /\ hp \in 1 .. Segment
  /\ U \subseteq Address /\ U \cap F = {}
  /\ ListOf(l.next, l.last, l.flist, F) /\ Tiles(l.size, hp, U \cup F)
Present == [size |-> size, next |-> next, last |-> last, flist |-> flist]
MemInv == TypeOK /\ LongEnough /\ Sound(Present, heap, used, Free)

-----------------------------------------------------------------------------
(* A set of numbers has a least one, and what holds of zero and passes on  *)
(* to the successor holds of all.                                          *)
LEMMA Least ==
  ASSUME NEW T, T \subseteq Nat, T # {}
  PROVE  \E n \in T : \A m \in T : n <= m
<1>1. PICK n \in T : \A m \in T : ~ (<<m, n>> \in OpToRel(<, Nat))
  BY NatLessThanWellFounded, WFMin
<1>2. \A m \in T : ~ (m < n)
  BY <1>1 DEF OpToRel
<1> QED BY <1>2

(* A set with 0 and every successor has all naturals: least                *)
(* counterexample.                                                         *)
LEMMA Counting ==
  ASSUME NEW S, 0 \in S, \A n \in Nat : n \in S => n + 1 \in S
  PROVE  Nat \subseteq S
<1>1. SUFFICES ASSUME Nat \ S # {} PROVE FALSE
  OBVIOUS
<1>2. PICK n \in Nat \ S : \A m \in Nat \ S : n <= m
  BY <1>1, Least
<1>3. n # 0 /\ n - 1 \in Nat /\ n - 1 \in S /\ (n - 1) + 1 = n
  BY <1>2
<1> QED BY <1>2, <1>3

(* The walk follows the links.                                             *)
LEMMA WalkFollows ==
  ASSUME NEW nx \in [Address -> Pointer], NEW fl \in Pointer
  PROVE  /\ Walk(nx, fl)[0] = fl
         /\ \A i \in Nat : /\ Walk(nx, fl)[i] \in Pointer
                           /\ Walk(nx, fl)[i + 1] = After(nx, Walk(nx, fl)[i])
<1> DEFINE Partial(g, n) == /\ g \in [0 .. n -> Pointer] /\ g[0] = fl
                            /\ \A i \in 0 .. n - 1 : g[i + 1] = After(nx, g[i])
           Long == {n \in Nat : \E g \in [0 .. n -> Pointer] : Partial(g, n)}
           G(n) == CHOOSE g \in [0 .. n -> Pointer] : Partial(g, n)
           f == [n \in Nat |-> G(n)[n]]
<1>0. \A x \in Pointer : After(nx, x) \in Pointer
  BY DEF After, Pointer
<1>1. Nat \subseteq Long
  <2>1. 0 \in Long
    <3>1. Partial([i \in 0 .. 0 |-> fl], 0)
      OBVIOUS
    <3> QED BY <3>1
  <2>2. ASSUME NEW n \in Nat, n \in Long PROVE n + 1 \in Long
    <3>1. PICK g \in [0 .. n -> Pointer] : Partial(g, n)
      BY <2>2
    <3> DEFINE h == [i \in 0 .. n + 1 |-> IF i = n + 1 THEN After(nx, g[n]) ELSE g[i]]
    <3>2. h \in [0 .. n + 1 -> Pointer]
      BY <1>0
    <3>3. h[0] = fl
      BY <3>1
    <3>4. \A i \in 0 .. (n + 1) - 1 : h[i + 1] = After(nx, h[i])
      BY <3>1
    <3> HIDE DEF h
    <3> QED BY <3>2, <3>3, <3>4
  <2> HIDE DEF Long
  <2> QED BY <2>1, <2>2, Counting
<1>2. ASSUME NEW n \in Nat PROVE G(n) \in [0 .. n -> Pointer] /\ Partial(G(n), n)
  BY <1>1
<1> HIDE DEF G
<1>3. ASSUME NEW n \in Nat PROVE G(n + 1)[n] = G(n)[n]
  <2> DEFINE S == {i \in Nat : i <= n => G(n + 1)[i] = G(n)[i]}
  <2>1. Partial(G(n), n) /\ Partial(G(n + 1), n + 1)
    BY <1>2
  <2>2. 0 \in S
    BY <2>1
  <2>3. ASSUME NEW i \in Nat, i \in S PROVE i + 1 \in S
    BY <2>1, <2>3
  <2> HIDE DEF S
  <2>4. n \in S
    BY <2>2, <2>3, Counting
  <2> QED BY <2>4 DEF S
<1>4. f[0] = fl /\ \A i \in Nat : f[i] \in Pointer /\ f[i + 1] = After(nx, f[i])
  <2>1. f[0] = fl
    BY <1>2
  <2>2. ASSUME NEW i \in Nat PROVE f[i] \in Pointer
    BY <1>2
  <2>3. ASSUME NEW i \in Nat PROVE f[i + 1] = After(nx, f[i])
    <3>1. f[i + 1] = G(i + 1)[i + 1] /\ f[i] = G(i)[i]
      OBVIOUS
    <3>2. G(i + 1)[i + 1] = After(nx, G(i + 1)[i])
      BY <1>2
    <3> QED BY <3>1, <3>2, <1>3
  <2> QED BY <2>1, <2>2, <2>3
<1>5. f = [i \in Nat |-> IF i = 0 THEN fl
                         ELSE LET c == f[i - 1] IN IF c = NULL THEN NULL ELSE nx[c]]
  <2>1. ASSUME NEW i \in Nat, i # 0 PROVE f[i] = After(nx, f[i - 1])
    <3>1. i - 1 \in Nat /\ (i - 1) + 1 = i
      BY <2>1
    <3> HIDE DEF f
    <3> QED BY <3>1, <1>4
  <2>2. f = [i \in Nat |-> f[i]]
    OBVIOUS
  <2> HIDE DEF f
  <2> QED BY <2>1, <2>2, <1>4 DEF After
<1> HIDE DEF f
<1> DEFINE w == Walk(nx, fl)
<1>6. w = [i \in Nat |-> IF i = 0 THEN fl
                         ELSE LET c == w[i - 1] IN IF c = NULL THEN NULL ELSE nx[c]]
  BY <1>5 DEF Walk
<1> HIDE DEF w
<1>7. w[0] = fl
  BY <1>6
<1>8. \A i \in Nat : w[i + 1] = After(nx, w[i])
  BY <1>6 DEF After
<1>9. \A i \in Nat : w[i] \in Pointer
  <2> DEFINE S == {i \in Nat : w[i] \in Pointer}
  <2>1. 0 \in S /\ \A n \in Nat : n \in S => n + 1 \in S
    BY <1>7, <1>8, <1>0
  <2> HIDE DEF S
  <2>2. Nat \subseteq S
    BY <2>1, Counting
  <2> QED BY <2>2 DEF S
<1> QED BY <1>7, <1>8, <1>9 DEF w

-----------------------------------------------------------------------------
(* The walk along a list meets each of its chunks, once, and ends.         *)
LEMMA WalkIsList ==
  ASSUME NEW nx, NEW la, NEW fl, NEW F, ListOf(nx, la, fl, F)
  PROVE  /\ Walked(nx, fl) = F /\ IsFiniteSet(F)
         /\ Cardinality(F) \in 0 .. Segment /\ Walk(nx, fl)[Cardinality(F)] = NULL
<1>0. nx \in [Address -> Pointer] /\ fl \in Pointer
  BY DEF ListOf, Pointer
<1> DEFINE f == Walk(nx, fl)
<1>1. f[0] = fl /\ \A i \in Nat : f[i + 1] = After(nx, f[i])
  BY <1>0, WalkFollows
<1> HIDE DEF f
<1>2. /\ F \subseteq Address /\ fl \in F \cup {NULL} /\ NULL \notin F
      /\ \A c \in F : /\ nx[c] \in F \cup {NULL} /\ la[c] \in F \cup {NULL}
                      /\ nx[c] # NULL => la[nx[c]] = c
                      /\ la[c] # NULL => nx[la[c]] = c
                      /\ la[c] = NULL <=> c = fl
  BY DEF ListOf, Address, NULL
<1>3. \A i \in Nat : f[i] \in F \cup {NULL}
  <2> DEFINE S == {i \in Nat : f[i] \in F \cup {NULL}}
  <2>1. 0 \in S /\ \A n \in Nat : n \in S => n + 1 \in S
    BY <1>1, <1>2 DEF After
  <2> HIDE DEF S
  <2>2. Nat \subseteq S
    BY <2>1, Counting
  <2> QED BY <2>2 DEF S
<1>4. \A i \in Nat : f[i + 1] # NULL => /\ f[i] # NULL /\ f[i] \in F
                                        /\ f[i + 1] = nx[f[i]] /\ la[f[i + 1]] = f[i]
  BY <1>1, <1>2, <1>3 DEF After
<1>5. \A j \in Nat : f[j] # NULL => \A i \in 0 .. j : f[i] # NULL
  <2> DEFINE S == {j \in Nat : f[j] # NULL => \A i \in 0 .. j : f[i] # NULL}
  <2>1. 0 \in S /\ \A n \in Nat : n \in S => n + 1 \in S
    BY <1>4
  <2> HIDE DEF S
  <2>2. Nat \subseteq S
    BY <2>1, Counting
  <2> QED BY <2>2 DEF S
<1>6. \A i, j \in Nat : i < j /\ f[j] # NULL => f[i] # f[j]
  <2> DEFINE S == {i \in Nat : \A j \in Nat : i < j /\ f[j] # NULL => f[i] # f[j]}
  <2>1. ASSUME NEW j \in Nat, j > 0, f[j] # NULL PROVE f[j - 1] \in F /\ la[f[j]] = f[j - 1]
    <3>1. j - 1 \in Nat /\ (j - 1) + 1 = j
      BY <2>1
    <3> QED BY <3>1, <1>4, <2>1
  <2>2. 0 \in S
    <3> SUFFICES ASSUME NEW j \in Nat, 0 < j, f[j] # NULL PROVE f[0] # f[j]
      OBVIOUS
    <3> QED BY <2>1, <1>1, <1>2, <1>3
  <2>3. ASSUME NEW n \in Nat, n \in S PROVE n + 1 \in S
    <3> SUFFICES ASSUME NEW j \in Nat, n + 1 < j, f[j] # NULL, f[n + 1] = f[j]
                 PROVE  FALSE
      OBVIOUS
    <3>1. f[j - 1] # NULL /\ f[j - 1] = f[n]
      BY <2>1, <1>2, <1>4
    <3> QED BY <3>1, <2>3
  <2> HIDE DEF S
  <2>4. Nat \subseteq S
    BY <2>2, <2>3, Counting
  <2> QED BY <2>4 DEF S
<1>7. IsFiniteSet(F) /\ Cardinality(F) \in 0 .. Segment
  <2>1. IsFiniteSet(Address) /\ Cardinality(Address) = Segment
    BY FS_Interval, SegmentAssumption DEF Address
  <2>2. IsFiniteSet(F) /\ Cardinality(F) <= Segment
    BY <2>1, <1>2, FS_Subset
  <2> QED BY <2>2, FS_CardinalityType, SegmentAssumption
<1>8. ASSUME NEW n \in Nat, f[n] # NULL PROVE n < Cardinality(F)
  <2> DEFINE g == [i \in 0 .. n |-> f[i]]
  <2>1. g \in [0 .. n -> F] /\ \A i, k \in 0 .. n : g[i] = g[k] => i = k
    <3>1. \A i \in 0 .. n : f[i] \in F
      BY <1>3, <1>5, <1>8
    <3>2. ASSUME NEW i \in 0 .. n, NEW k \in 0 .. n, f[i] = f[k] PROVE i = k
      BY <3>1, <3>2, <1>2, <1>6
    <3> QED BY <3>1, <3>2
  <2>2. IsFiniteSet(0 .. n) /\ Cardinality(0 .. n) = n + 1
    BY FS_Interval
  <2> HIDE DEF g
  <2>3. Cardinality(F) >= n + 1
    <3> SUFFICES ASSUME Cardinality(F) < Cardinality(0 .. n) PROVE FALSE
      BY <2>2, <1>7
    <3> QED BY FS_PigeonHole, <2>1, <2>2, <1>7
  <2> QED BY <2>3, <1>7
<1>9. f[Cardinality(F)] = NULL
  BY <1>7, <1>8
<1>10. F \subseteq Walked(nx, fl)
  <2> DEFINE S == F \ Walked(nx, fl)
  <2>1. SUFFICES ASSUME S # {} PROVE FALSE
    OBVIOUS
  <2>2. PICK c \in S : la[c] \notin S
    BY <2>1 DEF ListOf
  <2>3. c # fl
    BY <2>2, <1>1, <1>2, SegmentAssumption DEF Walked, f
  <2>4. la[c] \in F /\ la[c] \in Walked(nx, fl) /\ nx[la[c]] = c
    BY <2>2, <2>3, <1>2
  <2>5. PICK i \in 0 .. Segment : la[c] = f[i]
    BY <2>4 DEF Walked, f
  <2>6. f[i + 1] = c /\ c # NULL
    BY <2>2, <2>4, <2>5, <1>1, <1>2, SegmentAssumption DEF After
  <2>7. i + 1 \in 0 .. Segment
    BY <2>6, <1>7, <1>8, SegmentAssumption
  <2> QED BY <2>2, <2>6, <2>7 DEF Walked, f
<1>11. Walked(nx, fl) \subseteq F
  BY <1>3, SegmentAssumption DEF Walked, f
<1> QED BY <1>7, <1>9, <1>10, <1>11 DEF f

(* Free and Nth are the walk along the present links.                      *)
LEMMA FreeIsWalked ==
  /\ Free = Walked(next, flist) /\ Free' = Walked(next', flist')
  /\ \A i \in 0 .. Segment : Nth[i] = Walk(next, flist)[i]
BY DEF Free, Nth, Walked, Walk

-----------------------------------------------------------------------------
(* What the calls do to the list.                                          *)

(* The neighbours of a chunk of the list F.                                *)
Neighbours(nx, la, fl, F, c) ==
  /\ c \in Address /\ c # NULL /\ nx[c] \in Pointer /\ la[c] \in Pointer
  /\ nx[c] # NULL => nx[c] \in F /\ la[nx[c]] = c
  /\ la[c] # NULL => la[c] \in F /\ nx[la[c]] = c
  /\ la[c] = NULL <=> c = fl
  /\ nx[c] # c /\ la[c] # c

(* A chunk of the list has its neighbours in it; the others link to none.  *)
LEMMA ListFacts ==
  ASSUME NEW nx, NEW la, NEW fl, NEW F, ListOf(nx, la, fl, F)
  PROVE  /\ nx \in [Address -> Pointer] /\ la \in [Address -> Pointer]
         /\ F \subseteq Address /\ NULL \notin F /\ NULL \notin Address
         /\ fl # NULL => fl \in F
         /\ \A a \in Address \ F : nx[a] = NULL /\ la[a] = NULL
         /\ \A c \in F : Neighbours(nx, la, fl, F, c)
<1>1. /\ nx \in [Address -> Pointer] /\ la \in [Address -> Pointer]
      /\ \A a \in Address \ F : nx[a] = NULL /\ la[a] = NULL
  BY DEF ListOf
<1>2. F \subseteq Address /\ NULL \notin F /\ NULL \notin Address /\ (fl # NULL => fl \in F)
  BY DEF ListOf, Address, NULL
<1>3. ASSUME NEW c \in F PROVE Neighbours(nx, la, fl, F, c)
  <2>1. /\ nx[c] \in F \cup {NULL} /\ la[c] \in F \cup {NULL}
        /\ nx[c] # NULL => la[nx[c]] = c
        /\ la[c] # NULL => nx[la[c]] = c
        /\ la[c] = NULL <=> c = fl
    BY DEF ListOf
  <2>2. la[c] # c
    <3>1. \A S \in SUBSET F : S # {} => \E d \in S : la[d] \notin S
      BY DEF ListOf
    <3>2. {c} \in SUBSET F /\ {c} # {}
      OBVIOUS
    <3>3. PICK d \in {c} : la[d] \notin {c}
      BY <3>1, <3>2
    <3> QED BY <3>3
  <2>3. nx[c] # c
    BY <2>1, <2>2, <1>2
  <2> QED BY <1>1, <1>2, <2>1, <2>2, <2>3 DEF Neighbours, Pointer
<1> QED BY <1>1, <1>2, <1>3

(* What the assignments of the calls do to the pointers: a chunk leaves    *)
(* the list, enters it after b or in front, or takes the place of another. *)
Leaves(nx, la, fl, c, nx2, la2, fl2) ==
  /\ nx2 \in [Address -> Pointer] /\ la2 \in [Address -> Pointer]
  /\ fl2 = IF c = fl THEN nx[c] ELSE fl
  /\ \A a \in Address :
       /\ nx2[a] = IF a = la[c] THEN nx[c] ELSE IF a = c THEN NULL ELSE nx[a]
       /\ la2[a] = IF a = nx[c] THEN la[c] ELSE IF a = c THEN NULL ELSE la[a]
Enters(nx, la, fl, c, b, after, nx2, la2, fl2) ==
  /\ nx2 \in [Address -> Pointer] /\ la2 \in [Address -> Pointer]
  /\ after = (IF b = NULL THEN fl ELSE nx[b]) /\ fl2 = IF b = NULL THEN c ELSE fl
  /\ \A a \in Address :
       /\ nx2[a] = IF a = b THEN c ELSE IF a = c THEN after ELSE nx[a]
       /\ la2[a] = IF a = after THEN c ELSE IF a = c THEN b ELSE la[a]
Replaces(nx, la, fl, c, r, nx2, la2, fl2) ==
  /\ nx2 \in [Address -> Pointer] /\ la2 \in [Address -> Pointer]
  /\ fl2 = IF c = fl THEN r ELSE fl
  /\ \A a \in Address :
       /\ nx2[a] = IF a = la[c] THEN r ELSE IF a = c THEN NULL
                   ELSE IF a = r THEN nx[c] ELSE nx[a]
       /\ la2[a] = IF a = nx[c] THEN r ELSE IF a = c THEN NULL
                   ELSE IF a = r THEN la[c] ELSE la[a]

(* Unlinking a chunk leaves a list of the others.                          *)
LEMMA ListWithout ==
  ASSUME NEW nx, NEW la, NEW fl, NEW F, ListOf(nx, la, fl, F), NEW c \in F,
         NEW nx2, NEW la2, NEW fl2, Leaves(nx, la, fl, c, nx2, la2, fl2)
  PROVE  ListOf(nx2, la2, fl2, F \ {c})
<1>1. /\ F \subseteq Address /\ NULL \notin F /\ NULL \notin Address
      /\ fl # NULL => fl \in F
      /\ \A a \in Address \ F : nx[a] = NULL /\ la[a] = NULL
      /\ \A d \in F : Neighbours(nx, la, fl, F, d)
  BY ListFacts
<1>2. /\ c \in Address /\ c # NULL /\ nx[c] \in Pointer /\ la[c] \in Pointer
      /\ nx[c] # NULL => nx[c] \in F /\ la[nx[c]] = c
      /\ la[c] # NULL => la[c] \in F /\ nx[la[c]] = c
      /\ la[c] = NULL <=> c = fl
      /\ nx[c] # c /\ la[c] # c
  BY <1>1 DEF Neighbours
<1>3. /\ fl2 = IF c = fl THEN nx[c] ELSE fl
      /\ \A a \in Address :
           /\ nx2[a] = IF a = la[c] THEN nx[c] ELSE IF a = c THEN NULL ELSE nx[a]
           /\ la2[a] = IF a = nx[c] THEN la[c] ELSE IF a = c THEN NULL ELSE la[a]
  BY DEF Leaves
<1>4. fl2 # NULL => fl2 \in F \ {c}
  BY <1>1, <1>2, <1>3
<1>5. ASSUME NEW d \in F \ {c}
      PROVE  /\ nx2[d] \in (F \ {c}) \cup {NULL} /\ la2[d] \in (F \ {c}) \cup {NULL}
             /\ nx2[d] # NULL => la2[nx2[d]] = d
             /\ la2[d] # NULL => nx2[la2[d]] = d
             /\ la2[d] = NULL <=> d = fl2
  <2>1. /\ d \in Address /\ d # NULL /\ nx[d] \in Pointer /\ la[d] \in Pointer
        /\ nx[d] # NULL => nx[d] \in F /\ nx[d] \in Address /\ la[nx[d]] = d
        /\ la[d] # NULL => la[d] \in F /\ la[d] \in Address /\ nx[la[d]] = d
        /\ la[d] = NULL <=> d = fl
        /\ nx[d] # d /\ la[d] # d
    BY <1>1 DEF Neighbours
  <2>2. nx2[d] = (IF d = la[c] THEN nx[c] ELSE nx[d]) /\ la2[d] = IF d = nx[c] THEN la[c] ELSE la[d]
    BY <2>1, <1>3
  <2>3. nx2[d] \in (F \ {c}) \cup {NULL} /\ la2[d] \in (F \ {c}) \cup {NULL}
    BY <2>1, <2>2, <1>2
  <2>4. nx2[d] # NULL => la2[nx2[d]] = d
    <3>1. CASE d = la[c]
      BY <3>1, <2>1, <2>2, <1>1, <1>2, <1>3
    <3>2. CASE d # la[c]
      BY <3>2, <2>1, <2>2, <1>2, <1>3
    <3> QED BY <3>1, <3>2
  <2>5. la2[d] # NULL => nx2[la2[d]] = d
    <3>1. CASE d = nx[c]
      BY <3>1, <2>1, <2>2, <1>1, <1>2, <1>3
    <3>2. CASE d # nx[c]
      BY <3>2, <2>1, <2>2, <1>2, <1>3
    <3> QED BY <3>1, <3>2
  <2>6. la2[d] = NULL <=> d = fl2
    BY <2>1, <2>2, <1>2, <1>3
  <2> QED BY <2>3, <2>4, <2>5, <2>6
<1>6. ASSUME NEW S \in SUBSET (F \ {c}), S # {} PROVE \E d \in S : la2[d] \notin S
  <2> DEFINE T == IF nx[c] \in S THEN S \cup {c} ELSE S
  <2>1. PICK d \in T : la[d] \notin T
    <3>1. T \in SUBSET F /\ T # {}
      BY <1>6
    <3> HIDE DEF T
    <3>2. \A U \in SUBSET F : U # {} => \E e \in U : la[e] \notin U
      BY DEF ListOf
    <3> QED BY <3>1, <3>2
  <2>2. CASE d = c
    BY <2>1, <2>2, <1>1, <1>2, <1>3, <1>6
  <2>3. CASE d # c
    BY <2>1, <2>3, <1>1, <1>2, <1>3, <1>6
  <2> QED BY <2>2, <2>3
<1>7. \A a \in Address \ (F \ {c}) : nx2[a] = NULL /\ la2[a] = NULL
  BY <1>1, <1>2, <1>3
<1> QED BY <1>1, <1>4, <1>5, <1>6, <1>7 DEF ListOf, Leaves

(* Linking a chunk before or after another one adds it to the list.        *)
LEMMA ListWith ==
  ASSUME NEW nx, NEW la, NEW fl, NEW F, ListOf(nx, la, fl, F),
         NEW c \in Address \ F, NEW b \in F \cup {NULL}, NEW after,
         NEW nx2, NEW la2, NEW fl2, Enters(nx, la, fl, c, b, after, nx2, la2, fl2)
  PROVE  ListOf(nx2, la2, fl2, F \cup {c})
<1>1. /\ F \subseteq Address /\ NULL \notin F /\ NULL \notin Address
      /\ fl # NULL => fl \in F
      /\ \A a \in Address \ F : nx[a] = NULL /\ la[a] = NULL
      /\ \A d \in F : Neighbours(nx, la, fl, F, d)
  BY ListFacts
<1>3. /\ after = (IF b = NULL THEN fl ELSE nx[b]) /\ fl2 = IF b = NULL THEN c ELSE fl
      /\ \A a \in Address :
           /\ nx2[a] = IF a = b THEN c ELSE IF a = c THEN after ELSE nx[a]
           /\ la2[a] = IF a = after THEN c ELSE IF a = c THEN b ELSE la[a]
  BY DEF Enters
<1>2. /\ after \in Pointer /\ b \in Pointer /\ c \in Pointer /\ c # NULL /\ b # c
      /\ b # NULL => b \in F /\ b \in Address /\ b # after
      /\ after # NULL => after \in F /\ after \in Address /\ after # c /\ la[after] = b
  <2>1. b # NULL => /\ b \in F /\ nx[b] \in Pointer /\ nx[b] # b
                    /\ nx[b] # NULL => nx[b] \in F /\ la[nx[b]] = b
    BY <1>1 DEF Neighbours
  <2>2. fl # NULL => la[fl] = NULL
    BY <1>1 DEF Neighbours
  <2> QED BY <1>1, <1>3, <2>1, <2>2 DEF Pointer
<1>4. fl2 # NULL => fl2 \in F \cup {c}
  BY <1>1, <1>2, <1>3
<1>5. nx2[c] = after /\ la2[c] = b
  BY <1>2, <1>3
<1>6. ASSUME NEW d \in F \cup {c}
      PROVE  /\ nx2[d] \in (F \cup {c}) \cup {NULL} /\ la2[d] \in (F \cup {c}) \cup {NULL}
             /\ nx2[d] # NULL => la2[nx2[d]] = d
             /\ la2[d] # NULL => nx2[la2[d]] = d
             /\ la2[d] = NULL <=> d = fl2
  <2>1. CASE d = c
    BY <2>1, <1>1, <1>2, <1>3, <1>5
  <2>2. CASE d \in F
    <3>1. /\ d \in Address /\ d # NULL /\ nx[d] \in Pointer /\ la[d] \in Pointer
          /\ nx[d] # NULL => nx[d] \in F /\ nx[d] \in Address /\ la[nx[d]] = d
          /\ la[d] # NULL => la[d] \in F /\ la[d] \in Address /\ nx[la[d]] = d
          /\ la[d] = NULL <=> d = fl
          /\ nx[d] # d /\ la[d] # d /\ d # c
      BY <2>2, <1>1 DEF Neighbours
    <3>2. nx2[d] = (IF d = b THEN c ELSE nx[d]) /\ la2[d] = IF d = after THEN c ELSE la[d]
      BY <3>1, <1>3
    <3>3. nx2[d] \in (F \cup {c}) \cup {NULL} /\ la2[d] \in (F \cup {c}) \cup {NULL}
      BY <3>1, <3>2
    <3>4. nx2[d] # NULL => la2[nx2[d]] = d
      BY <3>1, <3>2, <1>2, <1>3, <1>5
    <3>5. la2[d] # NULL => nx2[la2[d]] = d
      BY <3>1, <3>2, <1>2, <1>3, <1>5
    <3>6. la2[d] = NULL <=> d = fl2
      BY <3>1, <3>2, <1>2, <1>3
    <3> QED BY <3>3, <3>4, <3>5, <3>6
  <2> QED BY <2>1, <2>2
<1>7. ASSUME NEW S \in SUBSET (F \cup {c}), S # {} PROVE \E d \in S : la2[d] \notin S
  <2>1. CASE S \subseteq {c}
    BY <2>1, <1>2, <1>5, <1>7
  <2>2. CASE S \ {c} # {}
    <3>1. PICK d \in S \ {c} : la[d] \notin S \ {c}
      <4>1. S \ {c} \in SUBSET F
        OBVIOUS
      <4>2. \A U \in SUBSET F : U # {} => \E e \in U : la[e] \notin U
        BY DEF ListOf
      <4> QED BY <2>2, <4>1, <4>2
    <3>2. /\ d \in Address /\ d # NULL /\ la[d] # c /\ d # c
          /\ la2[d] = IF d = after THEN c ELSE la[d]
      BY <3>1, <1>1, <1>3 DEF Neighbours
    <3>3. CASE d # after \/ c \notin S
      BY <3>1, <3>2, <3>3
    <3>4. CASE d = after /\ c \in S
      BY <3>1, <3>2, <3>4, <1>2, <1>5
    <3> QED BY <3>3, <3>4
  <2> QED BY <2>1, <2>2
<1>8. \A a \in Address \ (F \cup {c}) : nx2[a] = NULL /\ la2[a] = NULL
  BY <1>1, <1>2, <1>3
<1> QED BY <1>1, <1>4, <1>6, <1>7, <1>8 DEF ListOf, Enters

(* A remainder takes the place of the chunk it was split from.             *)
LEMMA ListInstead ==
  ASSUME NEW nx, NEW la, NEW fl, NEW F, ListOf(nx, la, fl, F),
         NEW c \in F, NEW r \in Address \ F,
         NEW nx2, NEW la2, NEW fl2, Replaces(nx, la, fl, c, r, nx2, la2, fl2)
  PROVE  ListOf(nx2, la2, fl2, (F \ {c}) \cup {r})
<1> DEFINE G == (F \ {c}) \cup {r}
<1>1. /\ F \subseteq Address /\ NULL \notin F /\ NULL \notin Address
      /\ fl # NULL => fl \in F
      /\ \A a \in Address \ F : nx[a] = NULL /\ la[a] = NULL
      /\ \A d \in F : Neighbours(nx, la, fl, F, d)
  BY ListFacts
<1>2. /\ c \in Address /\ c # NULL /\ nx[c] \in Pointer /\ la[c] \in Pointer
      /\ nx[c] # NULL => nx[c] \in F /\ nx[c] \in Address /\ la[nx[c]] = c
      /\ la[c] # NULL => la[c] \in F /\ la[c] \in Address /\ nx[la[c]] = c
      /\ la[c] = NULL <=> c = fl
      /\ nx[c] # c /\ la[c] # c /\ r # c /\ r # NULL /\ r # nx[c] /\ r # la[c]
  BY <1>1 DEF Neighbours
<1>3. /\ fl2 = IF c = fl THEN r ELSE fl
      /\ \A a \in Address :
           /\ nx2[a] = IF a = la[c] THEN r ELSE IF a = c THEN NULL
                       ELSE IF a = r THEN nx[c] ELSE nx[a]
           /\ la2[a] = IF a = nx[c] THEN r ELSE IF a = c THEN NULL
                       ELSE IF a = r THEN la[c] ELSE la[a]
  BY DEF Replaces
<1>4. (fl2 # NULL => fl2 \in G) /\ fl2 # c
  BY <1>1, <1>2, <1>3 DEF Pointer
<1>5. nx2[r] = nx[c] /\ la2[r] = la[c] /\ nx2[c] = NULL /\ la2[c] = NULL
  BY <1>2, <1>3
<1>6. ASSUME NEW d \in G
      PROVE  /\ nx2[d] \in G \cup {NULL} /\ la2[d] \in G \cup {NULL}
             /\ nx2[d] # NULL => la2[nx2[d]] = d
             /\ la2[d] # NULL => nx2[la2[d]] = d
             /\ la2[d] = NULL <=> d = fl2
  <2>1. CASE d = r
    <3>1. nx2[d] # NULL => la2[nx2[d]] = d
      BY <2>1, <1>2, <1>3, <1>5
    <3>2. la2[d] # NULL => nx2[la2[d]] = d
      BY <2>1, <1>2, <1>3, <1>5
    <3>3. la2[d] = NULL <=> d = fl2
      BY <2>1, <1>1, <1>2, <1>3, <1>5
    <3> QED BY <3>1, <3>2, <3>3, <2>1, <1>2, <1>5
  <2>2. CASE d \in F \ {c}
    <3>1. /\ d \in Address /\ d # NULL /\ nx[d] \in Pointer /\ la[d] \in Pointer
          /\ nx[d] # NULL => nx[d] \in F /\ nx[d] \in Address /\ la[nx[d]] = d
          /\ la[d] # NULL => la[d] \in F /\ la[d] \in Address /\ nx[la[d]] = d
          /\ la[d] = NULL <=> d = fl
          /\ nx[d] # d /\ la[d] # d /\ d # c /\ d # r
      BY <2>2, <1>1 DEF Neighbours
    <3>2. nx2[d] = (IF d = la[c] THEN r ELSE nx[d]) /\ la2[d] = IF d = nx[c] THEN r ELSE la[d]
      BY <3>1, <1>3
    <3>3. nx2[d] \in G \cup {NULL} /\ la2[d] \in G \cup {NULL}
      BY <3>1, <3>2, <1>2, <1>3
    <3>4. nx2[d] # NULL => la2[nx2[d]] = d
      <4>1. CASE d = la[c]
        BY <4>1, <3>2, <1>5
      <4>2. CASE d # la[c]
        BY <4>2, <3>1, <3>2, <1>2, <1>3
      <4> QED BY <4>1, <4>2
    <3>5. la2[d] # NULL => nx2[la2[d]] = d
      <4>1. CASE d = nx[c]
        BY <4>1, <3>2, <1>5
      <4>2. CASE d # nx[c]
        BY <4>2, <3>1, <3>2, <1>2, <1>3
      <4> QED BY <4>1, <4>2
    <3>6. la2[d] = NULL <=> d = fl2
      BY <3>1, <3>2, <1>2, <1>3
    <3> QED BY <3>3, <3>4, <3>5, <3>6
  <2> QED BY <2>1, <2>2
<1>7. ASSUME NEW S \in SUBSET G, S # {} PROVE \E d \in S : la2[d] \notin S
  <2> DEFINE T == IF r \in S THEN (S \ {r}) \cup {c} ELSE S
  <2>1. PICK d \in T : la[d] \notin T
    <3>1. T \in SUBSET F /\ T # {}
      BY <1>7
    <3> HIDE DEF T
    <3>2. \A U \in SUBSET F : U # {} => \E e \in U : la[e] \notin U
      BY DEF ListOf
    <3> QED BY <3>1, <3>2
  <2>2. CASE d = c
    <3>1. r \in S
      BY <2>1, <2>2, <1>2, <1>7
    <3>2. la[c] \notin S
      BY <2>1, <2>2, <3>1, <1>2
    <3> QED BY <3>1, <3>2, <1>5
  <2>3. CASE d # c
    <3>1. /\ d \in S /\ d \in F /\ d # r /\ d \in Address
          /\ la[d] # r /\ (d = nx[c] => la[d] = c)
      BY <2>1, <2>3, <1>1, <1>2, <1>7 DEF Neighbours
    <3>2. la2[d] = IF d = nx[c] THEN r ELSE la[d]
      BY <3>1, <2>3, <1>3
    <3>3. CASE d = nx[c]
      BY <3>1, <3>2, <3>3, <2>1
    <3>4. CASE d # nx[c]
      BY <3>1, <3>2, <3>4, <2>1
    <3> QED BY <3>3, <3>4
  <2> QED BY <2>2, <2>3
<1>8. \A a \in Address \ G : nx2[a] = NULL /\ la2[a] = NULL
  BY <1>1, <1>2, <1>3, <1>5
<1>9. G \subseteq Address /\ fl2 \in G \cup {NULL}
  BY <1>1, <1>4
<1> HIDE DEF G
<1>10. ListOf(nx2, la2, fl2, G)
  BY <1>6, <1>7, <1>8, <1>9 DEF ListOf, Replaces
<1> QED BY <1>10 DEF G

-----------------------------------------------------------------------------
(* What the calls do to the chunks.                                        *)
LEMMA SplitTiles ==
  ASSUME NEW sz \in [Address -> Nat], NEW hp \in 1 .. Segment, NEW C \in SUBSET Address,
         Tiles(sz, hp, C), NEW c \in C, NEW n \in Nat, sz[c] > Smallest + n + Header,
         NEW r, r = c + Header + n
  PROVE  /\ r \in Address \ C
         /\ \A sz2 \in [Address -> Nat] :
              /\ sz2[r] = sz[c] - n - Header /\ sz2[c] = n
              /\ \A a \in Address \ {r, c} : sz2[a] = sz[a]
              => Tiles(sz2, hp, C \cup {r})
<1> USE DEF Smallest, Header
<1>1. /\ c \in 1 .. Segment /\ sz[c] \in Nat /\ \A d \in C : d \in 1 .. Segment /\ sz[d] \in Nat
      /\ Segment \in Nat
  BY SegmentAssumption DEF Address
<1>2. /\ \A d \in C : d + sz[d] < hp
      /\ \A d, e \in C : d < e => d + sz[d] < e
      /\ \A x \in 1 .. hp - 1 : \E d \in C : d <= x /\ x <= d + sz[d]
  BY DEF Tiles
<1>3. r \in Nat /\ r > c /\ r < c + sz[c] /\ r < hp
  BY <1>1, <1>2
<1>4. r \in Address /\ r \notin C
  BY <1>1, <1>2, <1>3 DEF Address
<1>5. ASSUME NEW sz2 \in [Address -> Nat], sz2[r] = sz[c] - n - Header, sz2[c] = n,
             \A a \in Address \ {r, c} : sz2[a] = sz[a]
      PROVE  Tiles(sz2, hp, C \cup {r})
  <2>1. \A d \in C \ {c} : sz2[d] = sz[d]
    BY <1>4, <1>5
  <2>2. r + sz2[r] = c + sz[c] /\ c + sz2[c] = r - 1
    BY <1>1, <1>3, <1>5
  <2>3. ASSUME NEW d \in C \cup {r} PROVE d + sz2[d] < hp
    <3>1. CASE d \in C \ {c}
      BY <3>1, <2>1, <1>2
    <3>2. CASE d = c
      BY <3>2, <2>2, <1>1, <1>3
    <3>3. CASE d = r
      BY <3>3, <2>2, <1>2
    <3> QED BY <3>1, <3>2, <3>3
  <2>4. ASSUME NEW d \in C \cup {r}, NEW e \in C \cup {r}, d < e PROVE d + sz2[d] < e
    <3>1. CASE d \in C \ {c}
      BY <3>1, <2>1, <2>2, <2>4, <1>1, <1>2, <1>3
    <3>2. CASE d = c
      <4>1. e = r \/ c + sz[c] < e
        BY <3>2, <2>4, <1>2
      <4> QED BY <4>1, <3>2, <2>2, <1>1, <1>3
    <3>3. CASE d = r
      <4>1. e \in C /\ c < e
        BY <3>3, <2>4, <1>1, <1>3
      <4>2. c + sz[c] < e
        BY <4>1, <1>2
      <4> QED BY <4>2, <3>3, <2>2
    <3> QED BY <3>1, <3>2, <3>3
  <2>5. ASSUME NEW x \in 1 .. hp - 1 PROVE \E d \in C \cup {r} : d <= x /\ x <= d + sz2[d]
    <3>1. PICK d \in C : d <= x /\ x <= d + sz[d]
      BY <1>2
    <3>2. CASE d = c
      BY <3>1, <3>2, <2>2, <1>1, <1>3
    <3>3. CASE d # c
      BY <3>1, <3>3, <2>1
    <3> QED BY <3>2, <3>3
  <2> QED BY <2>3, <2>4, <2>5 DEF Tiles
<1> QED BY <1>4, <1>5

(* A chunk taken from the rest of the heap keeps the chunks tiling.        *)
LEMMA BumpTiles ==
  ASSUME NEW sz \in [Address -> Nat], NEW hp \in 1 .. Segment, NEW C \in SUBSET Address,
         Tiles(sz, hp, C), NEW n \in Nat,
         NEW sz2 \in [Address -> Nat], sz2[hp] = n, \A a \in Address \ {hp} : sz2[a] = sz[a]
  PROVE  hp \in Address \ C /\ Tiles(sz2, hp + Header + n, C \cup {hp})
<1> USE DEF Smallest, Header
<1>1. /\ \A d \in C : d \in 1 .. Segment /\ sz[d] \in Nat
      /\ Segment \in Nat /\ hp \in Address
  BY SegmentAssumption DEF Address
<1>2. /\ \A d \in C : d + sz[d] < hp
      /\ \A d, e \in C : d < e => d + sz[d] < e
      /\ \A x \in 1 .. hp - 1 : \E d \in C : d <= x /\ x <= d + sz[d]
  BY DEF Tiles
<1>3. hp \notin C /\ \A d \in C : sz2[d] = sz[d]
  BY <1>1, <1>2
<1>4. \A d \in C \cup {hp} : d + sz2[d] < hp + 1 + n
  BY <1>1, <1>2, <1>3
<1>5. \A d, e \in C \cup {hp} : d < e => d + sz2[d] < e
  BY <1>1, <1>2, <1>3
<1>6. ASSUME NEW x \in 1 .. hp + 1 + n - 1
      PROVE  \E d \in C \cup {hp} : d <= x /\ x <= d + sz2[d]
  BY <1>1, <1>2, <1>3
<1> QED BY <1>1, <1>3, <1>4, <1>5, <1>6 DEF Tiles

(* So does joining a chunk with the one directly after it.                 *)
LEMMA JoinTiles ==
  ASSUME NEW sz \in [Address -> Nat], NEW hp \in 1 .. Segment, NEW C \in SUBSET Address,
         Tiles(sz, hp, C), NEW c \in C, NEW d \in C, d = c + Header + sz[c],
         NEW sz2 \in [Address -> Nat], sz2[c] = sz[c] + Header + sz[d],
         \A a \in Address \ {c, d} : sz2[a] = sz[a]
  PROVE  Tiles(sz2, hp, C \ {d}) /\ sz2[c] <= Segment
<1> USE DEF Smallest, Header
<1>1. /\ \A e \in C : e \in 1 .. Segment /\ sz[e] \in Nat
      /\ Segment \in Nat
  BY SegmentAssumption DEF Address
<1>2. /\ \A e \in C : e + sz[e] < hp
      /\ \A e, g \in C : e < g => e + sz[e] < g
      /\ \A x \in 1 .. hp - 1 : \E e \in C : e <= x /\ x <= e + sz[e]
  BY DEF Tiles
<1>3. c + sz2[c] = d + sz[d] /\ c < d
  BY <1>1
<1>4. \A e \in C \ {c, d} : sz2[e] = sz[e]
  OBVIOUS
<1>5. \A e \in C \ {d} : e + sz2[e] < hp
  BY <1>1, <1>2, <1>3, <1>4
<1>6. ASSUME NEW e \in C \ {d}, NEW g \in C \ {d}, e < g PROVE e + sz2[e] < g
  <2>1. CASE e = c
    <3>1. c + sz[c] < g
      BY <2>1, <1>2, <1>6
    <3>2. d < g
      BY <3>1, <1>1, <1>6
    <3> QED BY <3>2, <2>1, <1>2, <1>3
  <2>2. CASE e # c
    BY <2>2, <1>2, <1>4, <1>6
  <2> QED BY <2>1, <2>2
<1>7. ASSUME NEW x \in 1 .. hp - 1 PROVE \E e \in C \ {d} : e <= x /\ x <= e + sz2[e]
  <2>1. PICK e \in C : e <= x /\ x <= e + sz[e]
    BY <1>2
  <2>2. CASE e \in {c, d}
    BY <2>1, <2>2, <1>1, <1>3
  <2>3. CASE e \notin {c, d}
    BY <2>1, <2>3, <1>4
  <2> QED BY <2>2, <2>3
<1>8. sz2[c] <= Segment
  BY <1>1, <1>2, <1>3
<1> QED BY <1>5, <1>6, <1>7, <1>8 DEF Tiles

(* Tiles says of the present chunks what Tiled says of their spans.        *)
LEMMA TilesAreSpans ==
  ASSUME size \in [Address -> Nat], heap \in 1 .. Segment, NEW C \in SUBSET Address,
         Tiles(size, heap, C)
  PROVE  /\ \A c, d \in C : c # d => Span(c) \cap Span(d) = {}
         /\ UNION {Span(c) : c \in C} = Smallest .. heap - 1
<1> USE DEF Smallest, Header
<1>1. /\ \A e \in C : e \in 1 .. Segment /\ size[e] \in Nat
      /\ Segment \in Nat
  BY SegmentAssumption DEF Address
<1>2. /\ \A e \in C : e + size[e] < heap
      /\ \A e, g \in C : e < g => e + size[e] < g
      /\ \A x \in 1 .. heap - 1 : \E e \in C : e <= x /\ x <= e + size[e]
  BY DEF Tiles
<1>3. \A e \in C : Span(e) = e .. e + size[e]
  BY <1>1 DEF Span
<1>4. ASSUME NEW c \in C, NEW d \in C, c # d PROVE Span(c) \cap Span(d) = {}
  <2>1. CASE c < d
    BY <2>1, <1>1, <1>2, <1>3
  <2>2. CASE d < c
    BY <2>2, <1>1, <1>2, <1>3
  <2> QED BY <2>1, <2>2, <1>1, <1>4
<1>5. ASSUME NEW e \in C PROVE Span(e) \subseteq 1 .. heap - 1
  <2>1. e \in 1 .. Segment /\ size[e] \in Nat /\ e + size[e] < heap
    BY <1>1, <1>2
  <2> QED BY <2>1, <1>3
<1>6. \A x \in 1 .. heap - 1 : \E e \in C : x \in Span(e)
  BY <1>1, <1>2, <1>3, SMTT(30)
<1> QED BY <1>4, <1>5, <1>6

-----------------------------------------------------------------------------
(* Sound headers determine the free list.                                  *)
LEMMA FreeIs ==
  ASSUME NEW F, Sound(Present', heap', used', F)
  PROVE  Free' = F
<1>1. ListOf(next', last', flist', F)
  BY DEF Sound, Present
<1> QED BY <1>1, WalkIsList, FreeIsWalked

(* Tiling depends on the lengths of the chunks only.                       *)
LEMMA TilesSame ==
  ASSUME NEW sz, NEW sz2, NEW hp, NEW C, Tiles(sz, hp, C), \A a \in C : sz2[a] = sz[a]
  PROVE  Tiles(sz2, hp, C)
BY DEF Tiles

(* The first chunk that fits is a free one that fits, and the chunk after  *)
(* which a freed one goes is a free one.                                   *)
Fit(n) ==
  LET hits == {i \in DOMAIN Nth : IF Nth[i] = NULL THEN FALSE ELSE size[Nth[i]] >= n}
  IN  IF hits = {} THEN NULL ELSE Nth[CHOOSE i \in hits : \A k \in hits : i <= k]

(* The chunk that local_malloc chooses is in the list and long enough.     *)
LEMMA FitIsFree ==
  ASSUME NEW n
  PROVE  /\ Fit(n) # NULL => Fit(n) \in Free /\ size[Fit(n)] >= n
         /\ local_malloc(n) =>
              IF Fit(n) = NULL THEN Bump(n) \/ NoRoom(n)
                               ELSE Split(Fit(n), n) \/ Unlink(Fit(n), n)
<1> DEFINE hits == {i \in DOMAIN Nth : IF Nth[i] = NULL THEN FALSE ELSE size[Nth[i]] >= n}
<1>1. Fit(n) = IF hits = {} THEN NULL ELSE Nth[CHOOSE i \in hits : \A k \in hits : i <= k]
  BY DEF Fit
<1>2. DOMAIN Nth = 0 .. Segment /\ hits \subseteq 0 .. Segment
  BY DEF Nth
<1>3. hits \subseteq Nat
  BY <1>2, SegmentAssumption
<1>4. \A i \in hits : Nth[i] \in Free /\ size[Nth[i]] >= n
  BY <1>2 DEF Free
<1> HIDE DEF hits
<1>5. hits # {} => (CHOOSE i \in hits : \A k \in hits : i <= k) \in hits
  BY <1>3, Least
<1>6. local_malloc(n) =>
        IF Fit(n) = NULL THEN Bump(n) \/ NoRoom(n)
                         ELSE Split(Fit(n), n) \/ Unlink(Fit(n), n)
  BY DEF local_malloc, FirstOf, Fit
<1> QED BY <1>1, <1>4, <1>5, <1>6

(* The chunk before which local_free links is in the list, or none.        *)
LEMMA BeforeIsFree ==
  ASSUME NEW c
  PROVE  Before(c) \in Free \cup {NULL}
<1> DEFINE hits == {i \in DOMAIN Nth : IF Nth[i] = NULL THEN FALSE ELSE c > Nth[i]}
<1>1. Before(c) = IF hits = {} THEN NULL ELSE Nth[CHOOSE i \in hits : \A k \in hits : i <= k]
  BY DEF Before, FirstOf
<1>2. DOMAIN Nth = 0 .. Segment /\ hits \subseteq 0 .. Segment
  BY DEF Nth
<1>3. hits \subseteq Nat
  BY <1>2, SegmentAssumption
<1>4. \A i \in hits : Nth[i] \in Free
  BY <1>2 DEF Free
<1> HIDE DEF hits
<1>5. hits # {} => (CHOOSE i \in hits : \A k \in hits : i <= k) \in hits
  BY <1>3, Least
<1> QED BY <1>1, <1>4, <1>5

(* In sound memory chunks are inside the heap, none longer than the        *)
(* segment.                                                                *)
LEMMA SoundFacts ==
  ASSUME NEW l, NEW hp, NEW U, NEW F, Sound(l, hp, U, F)
  PROVE  /\ l.size \in [Address -> Nat] /\ Segment \in Nat
         /\ F \subseteq Address /\ U \cup F \in SUBSET Address
         /\ NULL \notin Address /\ \A a \in Address : a \in Nat
         /\ \A c \in U \cup F : c + Header + l.size[c] <= hp /\ l.size[c] \in 0 .. Segment
<1>1. l.size \in [Address -> Nat] /\ Segment \in Nat
  <2>1. l.size \in [Address -> (0 .. Segment) \cup Sizes]
    BY DEF Sound
  <2>2. (0 .. Segment) \cup Sizes \subseteq Nat
    BY SegmentAssumption
  <2> QED BY <2>1, <2>2, SegmentAssumption
<1>2. F \subseteq Address /\ U \subseteq Address /\ NULL \notin Address
      /\ \A a \in Address : a \in 1 .. Segment
  BY DEF Sound, ListOf, Address, NULL
<1>3. \A c \in U \cup F : c + l.size[c] < hp
  BY DEF Sound, Tiles
<1>4. hp \in 1 .. Segment
  BY DEF Sound
<1>5. ASSUME NEW c \in U \cup F
      PROVE  c + Header + l.size[c] <= hp /\ l.size[c] \in 0 .. Segment
  <2>1. c \in 1 .. Segment /\ l.size[c] \in Nat /\ c + l.size[c] < hp
    BY <1>1, <1>2, <1>3
  <2> QED BY <2>1, <1>1, <1>4 DEF Header
<1> QED BY <1>1, <1>2, <1>5

(* The parts of an allocation.                                             *)
LEMMA SplitSound ==
  ASSUME MemInv, NEW c \in Free, NEW n \in Sizes, Split(c, n)
  PROVE  Sound(Present', heap', used', (Free \ {c}) \cup {c + Header + n})
<1> DEFINE r == c + Header + n
           F2 == (Free \ {c}) \cup {r}
<1>1. /\ size[c] > Smallest + n + Header
      /\ size' = [size EXCEPT ![r] = size[c] - n - Header, ![c] = n]
      /\ last' = Put([last EXCEPT ![r] = last[c], ![c] = NULL], next[c], r)
      /\ next' = Put([next EXCEPT ![r] = next[c], ![c] = NULL], last[c], r)
      /\ flist' = IF c = flist THEN r ELSE flist
      /\ used' = used \cup {c} /\ heap' = heap
  BY DEF Split, Hand
<1>2. /\ size \in [Address -> (0 .. Segment) \cup Sizes]
      /\ heap \in 1 .. Segment
      /\ used \subseteq Address /\ used \cap Free = {}
      /\ ListOf(next, last, flist, Free) /\ Tiles(size, heap, used \cup Free)
  BY DEF MemInv, Sound, Present
<1>3. /\ size \in [Address -> Nat] /\ Free \subseteq Address /\ Segment \in Nat
      /\ used \cup Free \in SUBSET Address /\ NULL \notin Address
      /\ size[c] \in 0 .. Segment /\ n \in Nat
  BY SoundFacts, SegmentAssumption DEF MemInv, Present
<1>4. /\ r \in Address /\ r \notin used \cup Free /\ r # c
      /\ \A sz2 \in [Address -> Nat] :
           /\ sz2[r] = size[c] - n - Header /\ sz2[c] = n
           /\ \A a \in Address \ {r, c} : sz2[a] = size[a]
           => Tiles(sz2, heap, (used \cup Free) \cup {r})
  <2>1. /\ c \in used \cup Free /\ used \cup Free \in SUBSET Address
        /\ Tiles(size, heap, used \cup Free) /\ heap \in 1 .. Segment
        /\ size \in [Address -> Nat] /\ n \in Nat /\ size[c] > Smallest + n + Header
    BY <1>1, <1>2, <1>3
  <2>2. /\ r \in Address \ (used \cup Free)
        /\ \A sz2 \in [Address -> Nat] :
             /\ sz2[r] = size[c] - n - Header /\ sz2[c] = n
             /\ \A a \in Address \ {r, c} : sz2[a] = size[a]
             => Tiles(sz2, heap, (used \cup Free) \cup {r})
    BY <2>1, SplitTiles
  <2> HIDE DEF r
  <2> QED BY <2>1, <2>2
<1> HIDE DEF r
<1>5. size[c] - n - Header \in 0 .. Segment
  BY <1>1, <1>3 DEF Header, Smallest
<1>6. /\ size' \in [Address -> (0 .. Segment) \cup Sizes] /\ size' \in [Address -> Nat]
      /\ size'[r] = size[c] - n - Header /\ size'[c] = n
      /\ \A a \in Address \ {r, c} : size'[a] = size[a]
  BY <1>1, <1>2, <1>3, <1>4, <1>5
<1>7. Tiles(size', heap', used' \cup F2)
  <2>1. used' \cup F2 = (used \cup Free) \cup {r}
    BY <1>1
  <2> QED BY <2>1, <1>1, <1>4, <1>6
<1>8. /\ next[c] \in Pointer /\ last[c] \in Pointer /\ r \in Pointer /\ NULL \in Pointer
      /\ next \in [Address -> Pointer] /\ last \in [Address -> Pointer]
  BY <1>2, <1>3, <1>4, ListFacts DEF Pointer
<1>9. Replaces(next, last, flist, c, r, next', last', flist')
  <2> DEFINE g == [next EXCEPT ![r] = next[c], ![c] = NULL]
             h == [last EXCEPT ![r] = last[c], ![c] = NULL]
  <2>1. g \in [Address -> Pointer] /\ h \in [Address -> Pointer]
    BY <1>8
  <2>2. \A a \in Address :
          /\ g[a] = IF a = c THEN NULL ELSE IF a = r THEN next[c] ELSE next[a]
          /\ h[a] = IF a = c THEN NULL ELSE IF a = r THEN last[c] ELSE last[a]
    BY <1>4, <1>8
  <2>3. next' = Put(g, last[c], r) /\ last' = Put(h, next[c], r)
    BY <1>1
  <2> HIDE DEF g, h
  <2>4. /\ next' \in [Address -> Pointer]
        /\ \A a \in Address : next'[a] = IF a = last[c] THEN r ELSE g[a]
    BY <1>3, <1>8, <2>1, <2>3 DEF Put, Pointer
  <2>5. /\ last' \in [Address -> Pointer]
        /\ \A a \in Address : last'[a] = IF a = next[c] THEN r ELSE h[a]
    BY <1>3, <1>8, <2>1, <2>3 DEF Put, Pointer
  <2> QED BY <2>2, <2>4, <2>5, <1>1 DEF Replaces
<1>10. ListOf(next', last', flist', F2)
  BY <1>2, <1>4, <1>9, ListInstead
<1>11. used' \subseteq Address /\ used' \cap F2 = {}
  BY <1>1, <1>2, <1>3, <1>4
<1> HIDE DEF F2
<1>12. Sound(Present', heap', used', F2)
  <2>1. /\ Present'.size = size' /\ Present'.next = next' /\ Present'.last = last'
        /\ Present'.flist = flist'
    BY DEF Present
  <2> QED BY <2>1, <1>1, <1>2, <1>6, <1>7, <1>10, <1>11 DEF Sound
<1> QED BY <1>12 DEF F2, r

(* Handing out a whole free chunk keeps the memory sound.                  *)
LEMMA UnlinkSound ==
  ASSUME MemInv, NEW c \in Free, NEW n \in Sizes, Unlink(c, n)
  PROVE  Sound(Present', heap', used', Free \ {c})
<1>1. /\ last' = Put([last EXCEPT ![c] = NULL], next[c], last[c])
      /\ next' = Put([next EXCEPT ![c] = NULL], last[c], next[c])
      /\ flist' = IF c = flist THEN next[c] ELSE flist
      /\ used' = used \cup {c} /\ heap' = heap /\ size' = size
  BY DEF Unlink, Hand
<1>2. /\ size \in [Address -> (0 .. Segment) \cup Sizes]
      /\ heap \in 1 .. Segment
      /\ used \subseteq Address /\ used \cap Free = {}
      /\ ListOf(next, last, flist, Free) /\ Tiles(size, heap, used \cup Free)
  BY DEF MemInv, Sound, Present
<1>3. /\ next \in [Address -> Pointer] /\ last \in [Address -> Pointer]
      /\ c \in Address /\ next[c] \in Pointer /\ last[c] \in Pointer
      /\ NULL \notin Address /\ NULL \in Pointer
  BY <1>2, ListFacts DEF Pointer
<1>4. Leaves(next, last, flist, c, next', last', flist')
  <2> DEFINE g == [next EXCEPT ![c] = NULL]
             h == [last EXCEPT ![c] = NULL]
  <2>1. g \in [Address -> Pointer] /\ h \in [Address -> Pointer]
    BY <1>3
  <2>2. \A a \in Address : /\ g[a] = IF a = c THEN NULL ELSE next[a]
                           /\ h[a] = IF a = c THEN NULL ELSE last[a]
    BY <1>3
  <2>3. next' = Put(g, last[c], next[c]) /\ last' = Put(h, next[c], last[c])
    BY <1>1
  <2> HIDE DEF g, h
  <2>4. /\ next' \in [Address -> Pointer]
        /\ \A a \in Address : next'[a] = IF a = last[c] THEN next[c] ELSE g[a]
    BY <1>3, <2>1, <2>3 DEF Put, Pointer
  <2>5. /\ last' \in [Address -> Pointer]
        /\ \A a \in Address : last'[a] = IF a = next[c] THEN last[c] ELSE h[a]
    BY <1>3, <2>1, <2>3 DEF Put, Pointer
  <2> QED BY <2>2, <2>4, <2>5, <1>1 DEF Leaves
<1>5. ListOf(next', last', flist', Free \ {c})
  BY <1>2, <1>4, ListWithout
<1>6. /\ used' \subseteq Address /\ used' \cap (Free \ {c}) = {}
      /\ used' \cup (Free \ {c}) = used \cup Free
  BY <1>1, <1>2, <1>3
<1>7. /\ Present'.size = size' /\ Present'.next = next' /\ Present'.last = last'
      /\ Present'.flist = flist'
  BY DEF Present
<1> QED BY <1>1, <1>2, <1>5, <1>6, <1>7 DEF Sound

(* So does taking one from the rest of the heap, or finding no room.       *)
LEMMA BumpSound ==
  ASSUME MemInv, NEW n \in Sizes, Bump(n) \/ NoRoom(n)
  PROVE  /\ Sound(Present', heap', used', Free) /\ heap \in Address \ (used \cup Free)
         /\ \A a \in used : size'[a] = size[a]
<1>1. /\ size' = [size EXCEPT ![heap] = n]
      /\ next' = next /\ last' = last /\ flist' = flist
  BY DEF Bump, NoRoom
<1>2. /\ size \in [Address -> (0 .. Segment) \cup Sizes]
      /\ heap \in 1 .. Segment
      /\ used \subseteq Address /\ used \cap Free = {}
      /\ ListOf(next, last, flist, Free) /\ Tiles(size, heap, used \cup Free)
  BY DEF MemInv, Sound, Present
<1>3. /\ size \in [Address -> Nat] /\ Free \subseteq Address
      /\ used \cup Free \in SUBSET Address /\ n \in Nat /\ Segment \in Nat
  BY SoundFacts, SegmentAssumption DEF MemInv, Present
<1>4. /\ heap \in Address
      /\ size' \in [Address -> (0 .. Segment) \cup Sizes] /\ size' \in [Address -> Nat]
      /\ size'[heap] = n /\ \A a \in Address \ {heap} : size'[a] = size[a]
  BY <1>1, <1>2, <1>3 DEF Address
<1>5. /\ heap \in Address \ (used \cup Free)
      /\ Tiles(size', heap + Header + n, (used \cup Free) \cup {heap})
  BY <1>2, <1>3, <1>4, BumpTiles
<1>6. /\ Present'.size = size' /\ Present'.next = next /\ Present'.last = last
      /\ Present'.flist = flist
  BY <1>1 DEF Present
<1>7. CASE Bump(n)
  <2>1. /\ heap' = heap + Header + n /\ heap' <= Segment /\ used' = used \cup {heap}
    BY <1>7 DEF Bump, Hand
  <2>2. heap' \in 1 .. Segment
    BY <2>1, <1>2, <1>3 DEF Header
  <2>3. used' \subseteq Address /\ used' \cap Free = {}
        /\ used' \cup Free = (used \cup Free) \cup {heap}
    BY <2>1, <1>2, <1>5
  <2> QED BY <2>1, <2>2, <2>3, <1>2, <1>4, <1>5, <1>6 DEF Sound
<1>8. CASE NoRoom(n)
  <2>1. heap' = heap /\ used' = used
    BY <1>8 DEF NoRoom
  <2>2. Tiles(size', heap, used \cup Free)
    BY <1>2, <1>3, <1>4, <1>5, TilesSame
  <2> QED BY <2>1, <2>2, <1>2, <1>4, <1>5, <1>6 DEF Sound
<1> QED BY <1>7, <1>8

(* The parts of a free.                                                    *)
LEMMA InsertSound ==
  ASSUME MemInv, NEW c \in used
  PROVE  Sound(Insert(c), heap, used \ {c}, Free \cup {c}) /\ Insert(c).size = size
<1> DEFINE b == Before(c)
           after == IF b = NULL THEN flist ELSE next[b]
           nx == Put([next EXCEPT ![c] = after], b, c)
           la == Put([last EXCEPT ![c] = b], after, c)
           fl == IF b = NULL THEN c ELSE flist
<1>1. /\ Insert(c).size = size /\ Insert(c).next = nx /\ Insert(c).last = la
      /\ Insert(c).flist = fl
  BY DEF Insert
<1>2. /\ size \in [Address -> (0 .. Segment) \cup Sizes]
      /\ heap \in 1 .. Segment
      /\ used \subseteq Address /\ used \cap Free = {}
      /\ ListOf(next, last, flist, Free) /\ Tiles(size, heap, used \cup Free)
  BY DEF MemInv, Sound, Present
<1>3. /\ next \in [Address -> Pointer] /\ last \in [Address -> Pointer]
      /\ Free \subseteq Address /\ NULL \notin Address
      /\ flist # NULL => flist \in Free
  BY <1>2, ListFacts
<1>4. b \in Free \cup {NULL} /\ c \in Address \ Free
  BY <1>2, BeforeIsFree
<1> HIDE DEF b
<1>5. after \in Pointer /\ b \in Pointer /\ c \in Pointer
  BY <1>3, <1>4 DEF Pointer
<1>6. Enters(next, last, flist, c, b, after, nx, la, fl)
  <2> DEFINE g == [next EXCEPT ![c] = after]
             h == [last EXCEPT ![c] = b]
  <2>a. after = IF b = NULL THEN flist ELSE next[b]
    OBVIOUS
  <2> HIDE DEF after
  <2>1. g \in [Address -> Pointer] /\ h \in [Address -> Pointer]
    BY <1>3, <1>4, <1>5
  <2>2. \A a \in Address : /\ g[a] = IF a = c THEN after ELSE next[a]
                           /\ h[a] = IF a = c THEN b ELSE last[a]
    BY <1>3, <1>4
  <2>3. nx = Put(g, b, c) /\ la = Put(h, after, c) /\ fl = IF b = NULL THEN c ELSE flist
    OBVIOUS
  <2> HIDE DEF g, h, nx, la, fl
  <2>4. /\ nx \in [Address -> Pointer]
        /\ \A a \in Address : nx[a] = IF a = b THEN c ELSE g[a]
    BY <1>3, <1>5, <2>1, <2>3 DEF Put, Pointer
  <2>5. /\ la \in [Address -> Pointer]
        /\ \A a \in Address : la[a] = IF a = after THEN c ELSE h[a]
    BY <1>3, <1>5, <2>1, <2>3 DEF Put, Pointer
  <2> QED BY <2>a, <2>2, <2>3, <2>4, <2>5 DEF Enters
<1> HIDE DEF after, nx, la, fl
<1>7. ListOf(nx, la, fl, Free \cup {c})
  BY <1>2, <1>4, <1>6, ListWith
<1>8. /\ used \ {c} \subseteq Address /\ (used \ {c}) \cap (Free \cup {c}) = {}
      /\ (used \ {c}) \cup (Free \cup {c}) = used \cup Free
  BY <1>2
<1> QED BY <1>1, <1>2, <1>7, <1>8 DEF Sound

(* So does joining two free neighbours; blocks in use keep their length.   *)
LEMMA JoinSound ==
  ASSUME NEW l, NEW hp, NEW U, NEW F, Sound(l, hp, U, F),
         NEW c \in F, NEW d \in F, d = l.next[c], d = c + Header + l.size[c]
  PROVE  /\ Sound(Join(l, c, d), hp, U, F \ {d}) /\ c \in F \ {d}
         /\ \A a \in U : Join(l, c, d).size[a] = l.size[a]
<1> DEFINE sz == l.size  nx == l.next  la == l.last  fl == l.flist
           sz2 == [sz EXCEPT ![c] = @ + Header + sz[d], ![d] = 0]
           nx2 == [nx EXCEPT ![c] = nx[d], ![d] = NULL]
           la2 == Put([la EXCEPT ![d] = NULL], nx[d], c)
<1>1. /\ Join(l, c, d).size = sz2 /\ Join(l, c, d).next = nx2
      /\ Join(l, c, d).last = la2 /\ Join(l, c, d).flist = fl
  BY DEF Join
<1>2. /\ sz \in [Address -> (0 .. Segment) \cup Sizes]
      /\ hp \in 1 .. Segment
      /\ U \subseteq Address /\ U \cap F = {}
      /\ ListOf(nx, la, fl, F) /\ Tiles(sz, hp, U \cup F)
      /\ d = nx[c] /\ d = c + Header + sz[c]
  BY DEF Sound
<1>3. /\ sz \in [Address -> Nat] /\ Segment \in Nat
      /\ U \cup F \in SUBSET Address /\ sz[c] \in Nat /\ sz[d] \in Nat
  BY SoundFacts
<1> HIDE DEF sz, nx, la, fl
<1>4. /\ nx \in [Address -> Pointer] /\ la \in [Address -> Pointer]
      /\ c \in Address /\ d \in Address /\ NULL \notin Address /\ NULL \in Pointer
      /\ nx[d] \in Pointer /\ la[d] = c /\ d # fl /\ d # c /\ nx[d] # d
  <2>1. Neighbours(nx, la, fl, F, c) /\ Neighbours(nx, la, fl, F, d)
    BY <1>2, ListFacts
  <2>2. nx \in [Address -> Pointer] /\ la \in [Address -> Pointer] /\ NULL \notin Address
    BY <1>2, ListFacts
  <2> QED BY <2>1, <2>2, <1>2 DEF Neighbours, Pointer
<1>5. Leaves(nx, la, fl, d, nx2, la2, fl)
  <2>1. /\ nx2 \in [Address -> Pointer]
        /\ \A a \in Address : nx2[a] = IF a = c THEN nx[d] ELSE IF a = d THEN NULL ELSE nx[a]
    BY <1>4
  <2> DEFINE h == [la EXCEPT ![d] = NULL]
  <2>2. h \in [Address -> Pointer] /\ \A a \in Address : h[a] = IF a = d THEN NULL ELSE la[a]
    BY <1>4
  <2>3. la2 = Put(h, nx[d], c) /\ c \in Pointer
    BY <1>4 DEF Pointer
  <2> HIDE DEF h, la2, nx2
  <2>4. /\ la2 \in [Address -> Pointer]
        /\ \A a \in Address : la2[a] = IF a = nx[d] THEN c ELSE h[a]
    BY <1>4, <2>2, <2>3 DEF Put, Pointer
  <2> QED BY <2>1, <2>2, <2>4, <1>4 DEF Leaves
<1>6. ListOf(nx2, la2, fl, F \ {d})
  <2> HIDE DEF nx2, la2
  <2> QED BY <1>2, <1>5, ListWithout
<1>7. /\ sz2[c] = sz[c] + Header + sz[d] /\ sz2[d] = 0
      /\ \A a \in Address \ {c, d} : sz2[a] = sz[a]
      /\ sz2 \in [Address -> Nat]
  BY <1>3, <1>4 DEF Header
<1>8. Tiles(sz2, hp, (U \cup F) \ {d}) /\ sz2[c] <= Segment
  <2> HIDE DEF sz2
  <2>1. c \in U \cup F /\ d \in U \cup F
    OBVIOUS
  <2> QED BY <2>1, <1>2, <1>3, <1>7, JoinTiles
<1>9. sz2 \in [Address -> (0 .. Segment) \cup Sizes]
  <2>1. sz2[c] \in 0 .. Segment /\ sz2[d] \in 0 .. Segment
    BY <1>3, <1>4, <1>7, <1>8
  <2>2. \A a \in Address : sz2[a] \in (0 .. Segment) \cup Sizes
    BY <2>1, <1>2, <1>7
  <2> HIDE DEF sz2
  <2> QED BY <2>2, <1>7
<1> HIDE DEF sz2, nx2, la2
<1>10. /\ U \cap (F \ {d}) = {} /\ (U \cup F) \ {d} = U \cup (F \ {d}) /\ c \in F \ {d}
       /\ \A a \in U : sz2[a] = sz[a]
  BY <1>2, <1>4, <1>7
<1>11. \A a \in U : Join(l, c, d).size[a] = l.size[a]
  BY <1>1, <1>10 DEF sz
<1>12. Sound(Join(l, c, d), hp, U, F \ {d})
  BY <1>1, <1>2, <1>6, <1>8, <1>9, <1>10 DEF Sound
<1> QED BY <1>10, <1>11, <1>12

(* So does compacting with the chunk after, and with the one before.       *)
LEMMA CompactSound ==
  ASSUME NEW l, NEW hp, NEW U, NEW F, Sound(l, hp, U, F), NEW c \in F
  PROVE  /\ \E G : /\ Sound(CompactAfter(l, c), hp, U, G) /\ c \in G
                   /\ \A a \in U : CompactAfter(l, c).size[a] = l.size[a]
         /\ \E G : /\ Sound(CompactBefore(l, c), hp, U, G)
                   /\ \A a \in U : CompactBefore(l, c).size[a] = l.size[a]
<1>1. ListOf(l.next, l.last, l.flist, F)
  BY DEF Sound
<1>2. /\ c # NULL
      /\ l.next[c] # NULL => l.next[c] \in F
      /\ l.last[c] # NULL => l.last[c] \in F /\ l.next[l.last[c]] = c
  BY <1>1, ListFacts DEF Neighbours
<1>3. \E G : /\ Sound(CompactAfter(l, c), hp, U, G) /\ c \in G
             /\ \A a \in U : CompactAfter(l, c).size[a] = l.size[a]
  <2> DEFINE d == l.next[c]
  <2>1. CASE Adjacent(l, c, d)
    <3>1. /\ d \in F /\ d = l.next[c] /\ d = c + Header + l.size[c]
          /\ CompactAfter(l, c) = Join(l, c, d)
      BY <2>1, <1>2 DEF Adjacent, CompactAfter
    <3> HIDE DEF d
    <3>2. /\ Sound(Join(l, c, d), hp, U, F \ {d}) /\ c \in F \ {d}
          /\ \A a \in U : Join(l, c, d).size[a] = l.size[a]
      BY <3>1, JoinSound DEF d
    <3> QED BY <3>1, <3>2
  <2>2. CASE ~ Adjacent(l, c, d)
    <3>1. CompactAfter(l, c) = l
      BY <2>2 DEF CompactAfter
    <3> QED BY <3>1
  <2> QED BY <2>1, <2>2
<1>4. \E G : /\ Sound(CompactBefore(l, c), hp, U, G)
             /\ \A a \in U : CompactBefore(l, c).size[a] = l.size[a]
  <2> DEFINE d == l.last[c]
  <2>1. CASE Adjacent(l, d, c)
    <3>1. /\ d \in F /\ c = l.next[d] /\ c = d + Header + l.size[d]
          /\ CompactBefore(l, c) = Join(l, d, c)
      BY <2>1, <1>2 DEF Adjacent, CompactBefore
    <3> HIDE DEF d
    <3>2. /\ Sound(Join(l, d, c), hp, U, F \ {c})
          /\ \A a \in U : Join(l, d, c).size[a] = l.size[a]
      BY <3>1, JoinSound DEF d
    <3> QED BY <3>1, <3>2
  <2>2. CASE ~ Adjacent(l, d, c)
    <3>1. CompactBefore(l, c) = l
      BY <2>2 DEF CompactBefore
    <3> QED BY <3>1
  <2> QED BY <2>1, <2>2
<1> QED BY <1>3, <1>4

(* So does local_free, in all its parts.                                   *)
LEMMA FreeSound ==
  ASSUME MemInv, NEW c, local_free(c)
  PROVE  /\ \E G : Sound(Present', heap', used', G)
         /\ \A a \in used' : size'[a] = size[a]
<1> DEFINE l1 == Insert(c)
           l2 == CompactAfter(l1, c)
           l3 == CompactBefore(l2, c)
<1>1. /\ c \in used /\ used' = used \ {c} /\ heap' = heap
      /\ size' = l3.size /\ next' = l3.next /\ last' = l3.last /\ flist' = l3.flist
  BY DEF local_free
<1>2. Sound(l1, heap, used', Free \cup {c}) /\ l1.size = size
  BY <1>1, InsertSound
<1> HIDE DEF l1
<1>3. PICK G \in SUBSET Address : /\ Sound(l2, heap, used', G) /\ c \in G
                                  /\ \A a \in used' : l2.size[a] = l1.size[a]
  <2>1. PICK G : /\ Sound(l2, heap, used', G) /\ c \in G
                 /\ \A a \in used' : l2.size[a] = l1.size[a]
    BY <1>2, CompactSound
  <2>2. G \subseteq Address
    BY <2>1, SoundFacts
  <2> QED BY <2>1, <2>2
<1> HIDE DEF l2
<1>4. PICK G2 : /\ Sound(l3, heap, used', G2)
                /\ \A a \in used' : l3.size[a] = l2.size[a]
  BY <1>3, CompactSound
<1> HIDE DEF l3
<1>5. /\ Present'.size = l3.size /\ Present'.next = l3.next /\ Present'.last = l3.last
      /\ Present'.flist = l3.flist
  BY <1>1 DEF Present
<1>6. Sound(Present', heap', used', G2)
  BY <1>1, <1>4, <1>5 DEF Sound
<1> QED BY <1>1, <1>2, <1>3, <1>4, <1>6

-----------------------------------------------------------------------------
(* The empty segment is sound.                                             *)
LEMMA InitMem ==
  ASSUME Init
  PROVE  MemInv
<1>1. /\ size = [a \in Address |-> 0] /\ last = [a \in Address |-> NULL]
      /\ next = [a \in Address |-> NULL] /\ flist = NULL /\ heap = 1
      /\ used = {} /\ asked = [a \in Address |-> 0]
  BY DEF Init, Smallest
<1>2. ListOf(next, last, flist, {})
  BY <1>1 DEF ListOf, Pointer
<1>3. Free = {}
  BY <1>2, WalkIsList, FreeIsWalked
<1>4. Sound(Present, heap, used, Free)
  <2>1. size \in [Address -> (0 .. Segment) \cup Sizes] /\ heap \in 1 .. Segment
    BY <1>1, SegmentAssumption
  <2>2. Tiles(size, heap, {})
    BY <1>1 DEF Tiles, Smallest
  <2>3. /\ Present.size = size /\ Present.next = next /\ Present.last = last
        /\ Present.flist = flist
    BY DEF Present
  <2> QED BY <2>1, <2>2, <2>3, <1>1, <1>2, <1>3 DEF Sound
<1>5. TypeOK /\ LongEnough
  BY <1>1, SegmentAssumption DEF TypeOK, LongEnough, NULL
<1> QED BY <1>4, <1>5 DEF MemInv

(* What is left of the invariant.                                          *)
LEMMA Headers ==
  ASSUME NEW G, Sound(Present', heap', used', G),
         asked' \in [Address -> Sizes \cup {0}], LongEnough'
  PROVE  MemInv'
<1>1. Free' = G
  BY FreeIs
<1>2. /\ Present'.size = size' /\ Present'.next = next' /\ Present'.last = last'
      /\ Present'.flist = flist'
  BY DEF Present
<1>3. /\ ListOf(next', last', flist', G) /\ heap' \in 1 .. Segment
      /\ size' \in [Address -> (0 .. Segment) \cup Sizes] /\ used' \subseteq Address
  BY <1>2 DEF Sound
<1>4. next' \in [Address -> Pointer] /\ last' \in [Address -> Pointer] /\ flist' \in Pointer
  BY <1>3, ListFacts DEF Pointer
<1>5. TypeOK'
  BY <1>3, <1>4 DEF TypeOK, Pointer
<1> QED BY <1>1, <1>5 DEF MemInv

(* A block in use has the length asked for, and what was not worth         *)
(* splitting.                                                              *)
LEMMA Room ==
  ASSUME MemInv
  PROVE  /\ size \in [Address -> Nat] /\ asked \in [Address -> Sizes \cup {0}]
         /\ used \subseteq Address /\ Free \subseteq Address /\ used \cap Free = {}
         /\ \A c \in used : size[c] \in asked[c] .. asked[c] + Smallest + Header
<1>1. Sound(Present, heap, used, Free) /\ Present.size = size
  BY DEF MemInv, Present
<1>2. size \in [Address -> Nat] /\ Free \subseteq Address
  BY <1>1, SoundFacts
<1>3. used \subseteq Address /\ used \cap Free = {}
  BY <1>1 DEF Sound
<1>4. asked \in [Address -> Sizes \cup {0}]
  BY DEF MemInv, TypeOK
<1>5. \A c \in used : size[c] \in asked[c] .. asked[c] + Smallest + Header
  BY DEF MemInv, LongEnough
<1> QED BY <1>2, <1>3, <1>4, <1>5

(* local_malloc keeps the invariant.                                       *)
LEMMA MallocMem ==
  ASSUME MemInv, NEW n \in Sizes, local_malloc(n)
  PROVE  MemInv'
<1> DEFINE c == Fit(n)
<1>1. /\ c # NULL => c \in Free /\ size[c] >= n
      /\ IF c = NULL THEN Bump(n) \/ NoRoom(n) ELSE Split(c, n) \/ Unlink(c, n)
  BY FitIsFree
<1> HIDE DEF c
<1>2. n \in Nat /\ n \in n .. n + Smallest + Header
  BY SegmentAssumption DEF Smallest, Header
<1>3. /\ size \in [Address -> Nat] /\ asked \in [Address -> Sizes \cup {0}]
      /\ used \subseteq Address /\ Free \subseteq Address /\ used \cap Free = {}
      /\ \A d \in used : size[d] \in asked[d] .. asked[d] + Smallest + Header
  BY Room
<1>4. CASE c = NULL /\ Bump(n)
  <2>1. /\ Sound(Present', heap', used', Free) /\ heap \in Address \ (used \cup Free)
        /\ \A a \in used : size'[a] = size[a]
    BY <1>4, BumpSound
  <2>2. /\ used' = used \cup {heap} /\ asked' = [asked EXCEPT ![heap] = n]
        /\ size' = [size EXCEPT ![heap] = n]
    BY <1>4 DEF Bump, Hand
  <2>3. asked' \in [Address -> Sizes \cup {0}]
    BY <2>1, <2>2, <1>3
  <2>4. /\ size'[heap] = n /\ asked'[heap] = n
        /\ \A d \in used : size'[d] = size[d] /\ asked'[d] = asked[d]
    BY <2>1, <2>2, <1>3
  <2>5. LongEnough'
    BY <2>2, <2>4, <1>2, <1>3 DEF LongEnough
  <2> QED BY <2>1, <2>3, <2>5, Headers
<1>5. CASE c = NULL /\ NoRoom(n)
  <2>1. /\ Sound(Present', heap', used', Free) /\ heap \in Address \ (used \cup Free)
        /\ \A a \in used : size'[a] = size[a]
    BY <1>5, BumpSound
  <2>2. used' = used /\ asked' = asked
    BY <1>5 DEF NoRoom
  <2>3. LongEnough'
    BY <2>1, <2>2 DEF LongEnough, MemInv
  <2> QED BY <2>1, <2>2, <2>3, <1>3, Headers
<1>6. CASE c # NULL /\ Split(c, n)
  <2>1. Sound(Present', heap', used', (Free \ {c}) \cup {c + Header + n})
    BY <1>1, <1>6, SplitSound
  <2>2. /\ used' = used \cup {c} /\ asked' = [asked EXCEPT ![c] = n]
        /\ size' = [size EXCEPT ![c + Header + n] = size[c] - n - Header, ![c] = n]
    BY <1>6 DEF Split, Hand
  <2>3. asked' \in [Address -> Sizes \cup {0}]
    BY <2>2, <1>3
  <2>4. c + Header + n \notin used'
    BY <2>1 DEF Sound
  <2>5. size'[c] = n /\ asked'[c] = n /\ \A d \in used : d # c => size'[d] = size[d] /\ asked'[d] = asked[d]
    BY <2>2, <2>4, <1>1, <1>3, <1>6
  <2>6. LongEnough'
    BY <2>2, <2>5, <1>2, <1>3 DEF LongEnough
  <2> QED BY <2>1, <2>3, <2>6, Headers
<1>7. CASE c # NULL /\ Unlink(c, n)
  <2>1. Sound(Present', heap', used', Free \ {c})
    BY <1>1, <1>7, UnlinkSound
  <2>2. /\ used' = used \cup {c} /\ asked' = [asked EXCEPT ![c] = n] /\ size' = size
        /\ size[c] <= Smallest + n + Header
    BY <1>7 DEF Unlink, Hand
  <2>3. asked' \in [Address -> Sizes \cup {0}]
    BY <2>2, <1>3
  <2>4. size'[c] \in n .. n + Smallest + Header
    BY <2>2, <1>1, <1>2, <1>3, <1>7 DEF Smallest, Header
  <2>5. asked'[c] = n /\ \A d \in used : d # c => asked'[d] = asked[d]
    BY <2>2, <1>1, <1>3, <1>7
  <2>6. LongEnough'
    BY <2>2, <2>4, <2>5, <1>3 DEF LongEnough
  <2> QED BY <2>1, <2>3, <2>6, Headers
<1> QED BY <1>1, <1>4, <1>5, <1>6, <1>7

(* local_free keeps the invariant.                                         *)
LEMMA FreeMem ==
  ASSUME MemInv, NEW c \in Address, local_free(c)
  PROVE  MemInv'
<1>1. /\ \E G : Sound(Present', heap', used', G)
      /\ \A a \in used' : size'[a] = size[a]
  BY FreeSound
<1>2. used' = used \ {c} /\ asked' = [asked EXCEPT ![c] = 0]
  BY DEF local_free
<1>3. /\ asked \in [Address -> Sizes \cup {0}] /\ used \subseteq Address
  BY Room
<1>4. asked' \in [Address -> Sizes \cup {0}]
  BY <1>2, <1>3
<1>5. \A a \in used' : asked'[a] = asked[a] /\ a \in used
  BY <1>2, <1>3
<1>6. LongEnough'
  BY <1>1, <1>5 DEF LongEnough, MemInv
<1> QED BY <1>1, <1>4, <1>6, Headers

(* Stuttering keeps the invariant.                                         *)
LEMMA StutterMem ==
  ASSUME MemInv, UNCHANGED vars
  PROVE  MemInv'
<1>1. /\ Present' = Present /\ heap' = heap /\ used' = used /\ asked' = asked
  BY DEF vars, Present
<1>2. Sound(Present', heap', used', Free)
  BY <1>1 DEF MemInv
<1>3. LongEnough' /\ asked' \in [Address -> Sizes \cup {0}]
  BY DEF MemInv, LongEnough, TypeOK, vars
<1> QED BY <1>2, <1>3, Headers

(* The chunks and the list stay in order, whatever is allocated and freed. *)
THEOREM AllocatorInvariant == Spec => []MemInv
<1>1. Init => MemInv
  BY InitMem
<1>2. MemInv /\ [Next]_vars => MemInv'
  BY MallocMem, FreeMem, StutterMem DEF Next
<1> QED BY <1>1, <1>2, PTL DEF Spec

(* Types: no address leaves the segment, and a header's length is that of  *)
(* a chunk, or what was asked for when there was no room for it.           *)
THEOREM AllocatorTypes == Spec => []TypeOK
<1>1. MemInv => TypeOK
  BY DEF MemInv
<1> QED BY <1>1, AllocatorInvariant, PTL

(* Chunks in use and chunks in the list are all that lies below smem_heap: *)
(* none overlaps another, and none is lost.                                *)
THEOREM ChunksTile == Spec => []Tiled
<1>1. ASSUME MemInv PROVE Tiled
  <2>1. Sound(Present, heap, used, Free) /\ Present.size = size
    BY <1>1 DEF MemInv, Present
  <2>2. /\ size \in [Address -> Nat] /\ used \cup Free \in SUBSET Address
        /\ heap \in 1 .. Segment /\ used \cap Free = {}
        /\ Tiles(size, heap, used \cup Free)
    BY <2>1, SoundFacts DEF Sound
  <2> QED BY <2>2, TilesAreSpans DEF Tiled
<1> QED BY <1>1, AllocatorInvariant, PTL

(* The list is well linked, the walks along it end, and a chunk in use is  *)
(* linked to nothing.                                                      *)
THEOREM ListWellLinked == Spec => []Linked
<1>1. ASSUME MemInv PROVE Linked
  <2>1. ListOf(next, last, flist, Free) /\ used \cap Free = {} /\ used \subseteq Address
    BY <1>1 DEF MemInv, Sound, Present
  <2>2. \A c \in Free : Neighbours(next, last, flist, Free, c)
    BY <2>1, ListFacts
  <2>3. \A c \in Free : /\ next[c] # NULL => last[next[c]] = c
                        /\ last[c] # NULL => next[last[c]] = c
                        /\ last[c] = NULL <=> c = flist
    BY <2>2 DEF Neighbours
  <2>4. Nth[Cardinality(Free)] = NULL
    BY <2>1, WalkIsList, FreeIsWalked
  <2>5. \A c \in used : next[c] = NULL /\ last[c] = NULL
    BY <2>1, ListFacts
  <2> QED BY <2>3, <2>4, <2>5 DEF Linked
<1> QED BY <1>1, AllocatorInvariant, PTL

(* A block is as long as was asked for, and at most two units longer.      *)
THEOREM BlocksLongEnough == Spec => []LongEnough
<1>1. MemInv => LongEnough
  BY DEF MemInv
<1> QED BY <1>1, AllocatorInvariant, PTL

-----------------------------------------------------------------------------
(* The chunks in use are the blocks of SegmentAllocator.                   *)
LEMMA BlocksApart ==
  ASSUME NEW l, NEW hp, NEW U, NEW F, Sound(l, hp, U, F)
  PROVE  /\ U \subseteq Address /\ Segment \in Nat
         /\ \A c \in U : /\ c \in 1 .. Segment /\ l.size[c] \in 0 .. Segment
                         /\ c + 1 + l.size[c] <= Segment
         /\ \A c, d \in U : c < d => c + l.size[c] < d
<1>1. /\ \A c \in U : c + 1 + l.size[c] <= hp /\ l.size[c] \in 0 .. Segment
      /\ Segment \in Nat
  BY SoundFacts DEF Header
<1>2. /\ hp \in 1 .. Segment /\ U \subseteq Address
      /\ \A c, d \in U : c < d => c + l.size[c] < d
  BY DEF Sound, Tiles
<1>3. \A c \in U : c \in 1 .. Segment
  BY <1>2 DEF Address
<1>4. ASSUME NEW c \in U PROVE c + 1 + l.size[c] <= Segment
  BY <1>1, <1>2, <1>3
<1> QED BY <1>1, <1>2, <1>3, <1>4

BlockAt(c, n) == [at |-> c + Header, len |-> n]
Blocks == {BlockAt(c, size[c]) : c \in used}

(* The allocator's specification, with the blocks of BclMalloc written     *)
(* out.                                                                    *)
LEMMA BlocksAre ==
  /\ Allocator!AInit <=> Blocks = {}
  /\ Allocator!Free <=> \E b \in Blocks : Blocks' = Blocks \ {b}
  /\ \A n : Allocator!Malloc(n) <=>
       \E b \in Allocator!Block : /\ b.len >= n /\ b.at + b.len <= Segment
                                  /\ \A c \in Blocks : Allocator!Units(b) \cap Allocator!Units(c) = {}
                                  /\ Blocks' = Blocks \cup {b}
BY DEF Allocator!AInit, Allocator!Free, Allocator!Malloc, Blocks, BlockAt

(* What is handed out is a new block, and what is freed an old one.        *)
LEMMA HandedOut ==
  ASSUME MemInv, MemInv', NEW n \in Sizes, NEW c, c \notin used, used' = used \cup {c},
         size'[c] >= n, \A d \in used : size'[d] = size[d]
  PROVE  Allocator!Malloc(n)
<1> DEFINE b == BlockAt(c, size'[c])
<1>1. /\ used' \subseteq Address /\ Segment \in Nat
      /\ \A d \in used' : /\ d \in 1 .. Segment /\ size'[d] \in 0 .. Segment
                          /\ d + 1 + size'[d] <= Segment
      /\ \A d, e \in used' : d < e => d + size'[d] < e
  <2>1. Sound(Present', heap', used', Free') /\ Present'.size = size'
    BY DEF MemInv, Present
  <2> QED BY <2>1, BlocksApart
<1>2. /\ c \in 1 .. Segment /\ size'[c] \in 0 .. Segment /\ c + 1 + size'[c] <= Segment
  BY <1>1
<1>3. b.at = c + 1 /\ b.len = size'[c] /\ b \in Allocator!Block
  BY <1>1, <1>2 DEF BlockAt, Header, Allocator!Block
<1>4. b.len >= n /\ b.at + b.len <= Segment
  BY <1>1, <1>2, <1>3
<1>5. ASSUME NEW d \in used
      PROVE  Allocator!Units(b) \cap Allocator!Units(BlockAt(d, size[d])) = {}
  <2>1. /\ d \in 1 .. Segment /\ size'[d] = size[d] /\ size[d] \in 0 .. Segment /\ d # c
        /\ d < c \/ c < d
        /\ d < c => d + size[d] < c
        /\ c < d => c + size'[c] < d
    BY <1>1, <1>2
  <2>2. Allocator!Units(b) = c .. c + size'[c]
    BY <1>2, <1>3 DEF Allocator!Units
  <2>3. Allocator!Units(BlockAt(d, size[d])) = d .. d + size[d]
    BY <2>1 DEF Allocator!Units, BlockAt, Header
  <2> QED BY <2>1, <2>2, <2>3, <1>2
<1>6. Blocks' = Blocks \cup {b}
  <2>1. \A d \in used : BlockAt(d, size'[d]) = BlockAt(d, size[d])
    BY DEF BlockAt
  <2>2. Blocks' = {BlockAt(d, size'[d]) : d \in used'}
    BY DEF Blocks, BlockAt
  <2> QED BY <2>1, <2>2 DEF Blocks
<1>7. \A d \in Blocks : Allocator!Units(b) \cap Allocator!Units(d) = {}
  BY <1>5 DEF Blocks
<1> HIDE DEF b
<1> QED BY <1>3, <1>4, <1>6, <1>7, BlocksAre

(* A call that takes one block out of use is the allocator's Free.         *)
LEMMA TakenBack ==
  ASSUME MemInv, NEW c \in used, used' = used \ {c}, \A d \in used' : size'[d] = size[d]
  PROVE  Allocator!Free
<1> DEFINE b == BlockAt(c, size[c])
<1>1. used \subseteq Address /\ \A d \in used : d \in 1 .. Segment
  BY BlocksApart DEF MemInv
<1>2. \A d \in used : d # c => BlockAt(d, size[d]) # b
  BY <1>1 DEF BlockAt, Header
<1>3. \A d \in used' : BlockAt(d, size'[d]) = BlockAt(d, size[d])
  BY DEF BlockAt
<1>4. Blocks' = {BlockAt(d, size'[d]) : d \in used'}
  BY DEF Blocks, BlockAt
<1> HIDE DEF b
<1>5. b \in Blocks
  BY DEF Blocks, b
<1>6. Blocks' = Blocks \ {b}
  <2>1. ASSUME NEW x \in Blocks' PROVE x \in Blocks \ {b}
    BY <2>1, <1>2, <1>3, <1>4 DEF Blocks
  <2>2. ASSUME NEW x \in Blocks \ {b} PROVE x \in Blocks'
    BY <2>2, <1>3, <1>4 DEF Blocks, b
  <2> QED BY <2>1, <2>2
<1> QED BY <1>5, <1>6, BlocksAre

(* A call that leaves the blocks in use alone is none of the allocator's.  *)
LEMMA SameBlocks ==
  ASSUME used' = used, \A d \in used : size'[d] = size[d]
  PROVE  Blocks' = Blocks
BY DEF Blocks, BlockAt

(* local_malloc is the allocator's Malloc, or hands out nothing.           *)
LEMMA MallocIsMalloc ==
  ASSUME MemInv, MemInv', NEW n \in Sizes, local_malloc(n)
  PROVE  Allocator!Malloc(n) \/ Blocks' = Blocks
<1> DEFINE c == Fit(n)
<1>1. /\ c # NULL => c \in Free /\ size[c] >= n
      /\ IF c = NULL THEN Bump(n) \/ NoRoom(n) ELSE Split(c, n) \/ Unlink(c, n)
  BY FitIsFree
<1> HIDE DEF c
<1>2. n \in Nat /\ n >= n
  BY SegmentAssumption
<1>3. /\ size \in [Address -> Nat] /\ used \subseteq Address /\ Free \subseteq Address
      /\ used \cap Free = {}
  BY Room
<1>4. CASE c = NULL /\ Bump(n)
  <2>1. heap \in Address \ (used \cup Free) /\ \A a \in used : size'[a] = size[a]
    BY <1>4, BumpSound
  <2>2. used' = used \cup {heap} /\ size' = [size EXCEPT ![heap] = n]
    BY <1>4 DEF Bump, Hand
  <2>3. size'[heap] = n
    BY <2>1, <2>2, <1>3
  <2> QED BY <2>1, <2>2, <2>3, <1>2, HandedOut
<1>5. CASE c = NULL /\ NoRoom(n)
  <2>1. \A a \in used : size'[a] = size[a]
    BY <1>5, BumpSound
  <2>2. used' = used
    BY <1>5 DEF NoRoom
  <2> QED BY <2>1, <2>2, SameBlocks
<1>6. CASE c # NULL /\ Split(c, n)
  <2>1. Sound(Present', heap', used', (Free \ {c}) \cup {c + Header + n})
    BY <1>1, <1>6, SplitSound
  <2>2. /\ used' = used \cup {c}
        /\ size' = [size EXCEPT ![c + Header + n] = size[c] - n - Header, ![c] = n]
    BY <1>6 DEF Split, Hand
  <2>3. c + Header + n \notin used'
    BY <2>1 DEF Sound
  <2>4. c \notin used /\ size'[c] = n /\ \A d \in used : size'[d] = size[d]
    BY <2>2, <2>3, <1>1, <1>3, <1>6
  <2> QED BY <2>2, <2>4, <1>2, HandedOut
<1>7. CASE c # NULL /\ Unlink(c, n)
  <2>1. used' = used \cup {c} /\ size' = size
    BY <1>7 DEF Unlink, Hand
  <2>2. c \notin used /\ size'[c] >= n /\ \A d \in used : size'[d] = size[d]
    BY <2>1, <1>1, <1>3, <1>7
  <2> QED BY <2>1, <2>2, HandedOut
<1> QED BY <1>1, <1>4, <1>5, <1>6, <1>7

(* The calls are those of an allocator: every block handed out lies in the *)
(* segment, is as long as was asked for, is clear of every other, and      *)
(* stays where and as it is until it is freed.                             *)
THEOREM ImplementsAllocator == Spec => KeepsBlocks
<1>1. Init => Allocator!AInit
  BY BlocksAre DEF Init, Blocks
<1>2. MemInv /\ MemInv' /\ [Next]_vars =>
        Allocator!ANext \/ Blocks' = Blocks
  <2>1. SUFFICES ASSUME MemInv, MemInv', [Next]_vars
                 PROVE  Allocator!ANext \/ Blocks' = Blocks
    OBVIOUS
  <2>2. CASE \E n \in Sizes : local_malloc(n)
    BY <2>1, <2>2, MallocIsMalloc DEF Allocator!ANext
  <2>3. CASE \E c \in Address : local_free(c)
    <3>1. PICK c \in Address : local_free(c)
      BY <2>3
    <3>2. c \in used /\ used' = used \ {c}
      BY <3>1 DEF local_free
    <3>3. \A a \in used' : size'[a] = size[a]
      BY <2>1, <3>1, FreeSound
    <3>4. Allocator!Free
      BY <2>1, <3>2, <3>3, TakenBack
    <3> QED BY <3>4 DEF Allocator!ANext
  <2>4. CASE UNCHANGED vars
    BY <2>4, SameBlocks DEF vars
  <2> QED BY <2>1, <2>2, <2>3, <2>4 DEF Next
<1>3. MemInv /\ MemInv' /\ [Next]_vars =>
        [Allocator!ANext]_{[at |-> c + Header, len |-> size[c]] : c \in used}
  BY <1>2 DEF Blocks, BlockAt
<1> QED BY <1>1, <1>3, AllocatorInvariant, PTL DEF Spec, KeepsBlocks, Allocator!ASpec
=============================================================================
