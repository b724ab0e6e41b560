-------------------------- MODULE CommRoutine_proof --------------------------
(***************************************************************************)
(* The routine table for any number of slots, clients and routines.        *)
(*                                                                         *)
(* Inv ties the place of a client to what it has of the table: a writer,  *)
(* alone under the lock, has filled a slot that is not counted yet, or     *)
(* leaves a cleared entry linked and then one entry twice, and the count   *)
(* differs from the entries by just that.  Acyclic is inductive as it      *)
(* stands, since every store but one takes links away and that one links   *)
(* the end of a chain to a slot that nothing follows.  Grown says what a   *)
(* walk relies on before the first removal.                                *)
(*                                                                         *)
(* ChainEnd and Locate walk by recursive functions.  Where they end comes  *)
(* by induction on the number of steps, which is stated here on sets of    *)
(* numbers (LeastNat, Induction) and of runs of a step function.           *)
(***************************************************************************)
EXTENDS CommRoutine, FiniteSetTheorems, NaturalsInduction, WellFoundedInduction, TLAPS

\* A set of numbers has a least one.
LEMMA LeastNat ==
    ASSUME NEW T \in SUBSET Nat, T # {}
    PROVE  \E n \in T : \A m \in T : n <= m
<1>. DEFINE R == {ss \in Nat \X Nat : ss[1] < ss[2]}
<1>1. IsWellFoundedOn(R, Nat)
  BY NatLessThanWellFounded, Zenon DEF OpToRel
<1>2. \E n \in T : \A m \in T : <<m, n>> \notin R
  <2>. HIDE DEF R
  <2>. QED  BY <1>1, WFMin, Zenon
<1>3. PICK n \in T : \A m \in T : <<m, n>> \notin R
  BY <1>2
<1>4. ASSUME NEW m \in T PROVE n <= m
  <2>1. m \in Nat /\ n \in Nat
    OBVIOUS
  <2>2. m < n => <<m, n>> \in R
    <3>1. <<m, n>> \in Nat \X Nat /\ <<m, n>>[1] = m /\ <<m, n>>[2] = n
      BY <2>1
    <3>. QED  BY <3>1, Zenon
  <2>. HIDE DEF R
  <2>. QED  BY <1>3, <2>1, <2>2
<1>. QED  BY <1>4

\* Induction, on the set of the numbers that have the property.
LEMMA Induction ==
    ASSUME NEW T \in SUBSET Nat, 0 \in T, \A n \in T : n + 1 \in T
    PROVE  \A n \in Nat : n \in T
<1>1. SUFFICES ASSUME Nat \ T # {} PROVE FALSE
  OBVIOUS
<1>2. PICK m \in Nat \ T : \A k \in Nat \ T : m <= k
  BY <1>1, LeastNat, Zenon
<1>3. m # 0 /\ m - 1 \in Nat /\ m - 1 \in T
  BY <1>2
<1>4. m - 1 + 1 \in T /\ m - 1 + 1 = m
  BY <1>3
<1>. QED  BY <1>2, <1>4

\* The ways to make n steps of F from s.
Runs(S, F, s, n) == {g \in [0 .. n -> S] : g[0] = s /\ \A k \in 1 .. n : g[k] = F[g[k - 1]]}

\* There is one: the recursive functions of the model are of this form.
LEMMA Iterate ==
    ASSUME NEW S, NEW F \in [S -> S], NEW s \in S, NEW n \in Nat
    PROVE  Runs(S, F, s, n) # {}
<1>. USE DEF Runs
<1>. DEFINE T == {m \in Nat : Runs(S, F, s, m) # {}}
<1>1. 0 \in T
  <2>1. [k \in 0 .. 0 |-> s] \in Runs(S, F, s, 0)
    OBVIOUS
  <2>. QED  BY <2>1
<1>2. ASSUME NEW m \in T PROVE m + 1 \in T
  <2>1. PICK g \in [0 .. m -> S] : g[0] = s /\ \A k \in 1 .. m : g[k] = F[g[k - 1]]
    OBVIOUS
  <2>. DEFINE h == [k \in 0 .. m + 1 |-> IF k = m + 1 THEN F[g[m]] ELSE g[k]]
  <2>2. m \in Nat /\ g[m] \in S
    BY <2>1
  <2>3. h \in [0 .. m + 1 -> S]
    BY <2>1, <2>2
  <2>4. h[0] = s
    BY <2>1, <2>2
  <2>5. ASSUME NEW k \in 1 .. m + 1 PROVE h[k] = F[h[k - 1]]
    <3>1. CASE k = m + 1
      BY <2>1, <2>2, <3>1
    <3>2. CASE k \in 1 .. m
      BY <2>1, <2>2, <3>2
    <3>. QED  BY <2>2, <3>1, <3>2
  <2>6. h \in Runs(S, F, s, m + 1)
    BY <2>3, <2>4, <2>5, Zenon
  <2>7. m + 1 \in Nat
    BY <2>2
  <2>. HIDE DEF h
  <2>. QED  BY <2>6, <2>7, Zenon
<1>3. n \in T
  <2>. HIDE DEF T
  <2>1. T \in SUBSET Nat
    BY DEF T
  <2>. QED  BY <1>1, <1>2, <2>1, Induction
<1>. QED  BY <1>3

-----------------------------------------------------------------------------
(***************************************************************************)
(* The slots of the table.                                                 *)
(***************************************************************************)
N == Cardinality(Slots)
Links == Slots \cup {-1}

\* The slots are numbered from 0 and -1 is none of them.
LEMMA SlotFacts ==
    /\ MaxIndex \in Nat /\ N = MaxIndex + 1 /\ N \in Nat /\ IsFiniteSet(Slots)
    /\ Slots \subseteq Nat /\ -1 \notin Slots
    /\ \A i \in Links : i # -1 => i \in Slots /\ i >= 0
    /\ \A i \in Slots : i >= 0 /\ ~(i < 0)
    /\ \A i \in Links : (i >= 0 <=> i \in Slots) /\ (i < 0 <=> i = -1)
<1>1. MaxIndex \in Nat
  BY TableAssumption DEF MaxIndex
<1>2. IsFiniteSet(Slots) /\ N = MaxIndex + 1
  <2>1. IsFiniteSet(0 .. MaxIndex) /\ Cardinality(0 .. MaxIndex) = IF 0 > MaxIndex THEN 0 ELSE MaxIndex - 0 + 1
    BY <1>1, FS_Interval
  <2>. QED  BY <1>1, <2>1 DEF Slots, N
<1>. QED  BY <1>1, <1>2 DEF Slots, Links

\* The chain of an id begins at a slot.
LEMMA HashFacts == \A id \in Ids : Hash(id) \in Slots
<1>. SUFFICES ASSUME NEW id \in Ids PROVE Hash(id) \in Slots
  OBVIOUS
<1>1. id \in Nat /\ Primary \in Nat \ {0} /\ Overflow \in Nat
  BY TableAssumption
<1>2. id % Primary \in 0 .. Primary - 1
  BY <1>1
<1>. QED  BY <1>1, <1>2 DEF Hash, Slots, MaxIndex

\* How many slots a set has that gains or loses some.
LEMMA Counting ==
    ASSUME NEW S \in SUBSET Slots
    PROVE  /\ Cardinality(S) \in 0 .. N
           /\ \A x \in Slots : x \notin S => Cardinality(S \cup {x}) = Cardinality(S) + 1
           /\ \A x \in S : Cardinality(S \ {x}) = Cardinality(S) - 1
           /\ \A G \in SUBSET S : Cardinality(S \ G) = Cardinality(S) - Cardinality(G)
<1>1. IsFiniteSet(S) /\ Cardinality(S) <= N /\ Cardinality(S) \in Nat
  BY SlotFacts, FS_Subset, FS_CardinalityType, Zenon DEF N
<1>2. \A x \in Slots : x \notin S => Cardinality(S \cup {x}) = Cardinality(S) + 1
  BY <1>1, FS_AddElement, Zenon
<1>3. \A x \in S : Cardinality(S \ {x}) = Cardinality(S) - 1
  BY <1>1, FS_RemoveElement, Zenon
<1>4. ASSUME NEW G \in SUBSET S PROVE Cardinality(S \ G) = Cardinality(S) - Cardinality(G)
  <2>1. S \cap G = G
    OBVIOUS
  <2>. QED  BY <1>1, <2>1, FS_Difference, Zenon
<1>. QED  BY <1>1, <1>2, <1>3, <1>4, SlotFacts

\* No walk makes as many steps as there are slots, in a part of the table without loops.
NoLoopIn(D) == \A S \in SUBSET D : S # {} => \E i \in S : table[i].next \notin S
LEMMA NoLongWalk ==
    ASSUME NEW D \in SUBSET Slots, NoLoopIn(D), NEW w \in [0 .. N -> D],
           \A k \in 1 .. N : w[k] = table[w[k - 1]].next
    PROVE  FALSE
<1>0. w \in [0 .. N -> Slots]
  OBVIOUS
<1>1. IsFiniteSet(0 .. N) /\ Cardinality(0 .. N) = N + 1
  BY SlotFacts, FS_Interval
<1>2. PICK x, y \in 0 .. N : x # y /\ w[x] = w[y]
  BY <1>0, <1>1, SlotFacts, FS_PigeonHole DEF N
<1>3. PICK a, b \in 0 .. N : a < b /\ w[a] = w[b]
  BY <1>2, SlotFacts
<1>. DEFINE S == {w[k] : k \in a .. b - 1}
<1>4. S \in SUBSET D /\ w[a] \in S
  BY <1>3, SlotFacts
<1>5. PICK k \in a .. b - 1 : table[w[k]].next \notin S
  BY <1>4, Zenon DEF NoLoopIn
<1>6. k + 1 \in 1 .. N /\ k + 1 - 1 = k /\ k \in Nat
  BY <1>3, <1>5, SlotFacts
<1>7. w[k + 1] = table[w[k]].next
  BY <1>6
<1>8. CASE k + 1 = b
  BY <1>3, <1>4, <1>5, <1>7, <1>8
<1>9. CASE k + 1 \in a .. b - 1
  BY <1>5, <1>7, <1>9
<1>. QED  BY <1>3, <1>5, <1>6, <1>8, <1>9

-----------------------------------------------------------------------------
(***************************************************************************)
(* The walks of AddInRoutine and RemoveRoutine.                            *)
(***************************************************************************)
\* The links of the slots in D are -1 or lead to a slot in D.
LinksIn(D) == \A i \in D : table[i].next \in D \cup {-1}

Ends == [cur : Links, prev : Links]

\* A step of the walk to the end of a chain, and of the walk to an id.
EndStep(w) == IF w.cur < 0 \/ table[w.cur].id = 0 \/ table[w.cur].cpu > 1 THEN w
              ELSE [cur |-> table[w.cur].next, prev |-> w.cur]
IdStep(id, i) == IF i < 0 \/ table[i].id = id THEN i ELSE table[i].next

\* A function that makes these steps as long as it is in S stays there.
LEMMA Stays ==
    ASSUME NEW S, NEW F \in [S -> S], NEW s \in S, NEW n \in Nat, NEW U, NEW w \in [0 .. n -> U],
           w[0] = s, \A k \in 1 .. n : w[k - 1] \in S => w[k] = F[w[k - 1]]
    PROVE  w \in Runs(S, F, s, n)
<1>. DEFINE T == {k \in Nat : k \in 0 .. n => w[k] \in S}
<1>1. ASSUME NEW k \in T PROVE k + 1 \in T
  OBVIOUS
<1>2. 0 \in T
  OBVIOUS
<1>3. \A k \in Nat : k \in T
  <2>. HIDE DEF T
  <2>1. T \in SUBSET Nat
    BY DEF T
  <2>. QED  BY <1>1, <1>2, <2>1, Induction, Zenon
<1>4. \A k \in 0 .. n : w[k] \in S
  BY <1>3
<1>5. w \in [0 .. n -> S]
  BY <1>4
<1>6. \A k \in 1 .. n : w[k] = F[w[k - 1]]
  BY <1>4
<1>. QED  BY <1>5, <1>6, Zenon DEF Runs

\* ChainEnd makes N steps from the primary slot.
EndF == [w \in Ends |-> EndStep(w)]
LEMMA ChainWalk ==
    ASSUME LinksIn(Slots), NEW h \in Slots
    PROVE  \E g \in Runs(Ends, EndF, [cur |-> h, prev |-> -1], N) : ChainEnd(h) = g[N]
<1>. DEFINE s == [cur |-> h, prev |-> -1]
            Def(f) == f = [k \in 0 .. N |-> IF k = 0 THEN s ELSE EndStep(f[k - 1])]
            Walk == CHOOSE f : Def(f)
<1>1. s \in Ends
  BY DEF Ends, Links
<1>2. EndF \in [Ends -> Ends]
  <2>1. ASSUME NEW w \in Ends PROVE EndStep(w) \in Ends
    BY SlotFacts, Zenon DEF Ends, EndStep, LinksIn, Links
  <2>. QED  BY <2>1, Zenon DEF EndF
<1>3. N \in Nat
  BY SlotFacts
<1>. HIDE DEF s
<1>4. PICK g : g \in Runs(Ends, EndF, s, N)
  BY <1>1, <1>2, <1>3, Iterate, Zenon
<1>5. Def(g)
  <2>1. g = [k \in 0 .. N |-> g[k]]
    BY <1>4 DEF Runs
  <2>2. g[0] = s /\ \A k \in 1 .. N : g[k - 1] \in Ends /\ g[k] = EndF[g[k - 1]]
    BY <1>3, <1>4 DEF Runs
  <2>3. \A k \in 1 .. N : g[k] = EndStep(g[k - 1])
    BY <2>2, Zenon DEF EndF
  <2>4. \A k \in 0 .. N : g[k] = IF k = 0 THEN s ELSE EndStep(g[k - 1])
    BY <1>3, <2>2, <2>3
  <2>. QED  BY <2>1, <2>4, Zenon
<1>6. Def(Walk)
  <2>. HIDE DEF Def
  <2>. QED  BY <1>5, Zenon
<1>7. ChainEnd(h) = Walk[N]
  BY Zenon DEF ChainEnd, Walk, Def, EndStep, s, N
<1>. HIDE DEF Walk
<1>8. Walk[0] = s /\ \A k \in 1 .. N : Walk[k] = EndStep(Walk[k - 1])
  <2>1. \A k \in 0 .. N : Walk[k] = IF k = 0 THEN s ELSE EndStep(Walk[k - 1])
    BY <1>6, Zenon
  <2>. QED  BY <1>3, <2>1
<1>9. Walk \in [0 .. N -> {Walk[k] : k \in 0 .. N}]
  <2>1. \A k \in 0 .. N : (IF k = 0 THEN s ELSE EndStep(Walk[k - 1])) \in {Walk[i] : i \in 0 .. N}
    BY <1>6, Zenon
  <2>2. [k \in 0 .. N |-> IF k = 0 THEN s ELSE EndStep(Walk[k - 1])]
          \in [0 .. N -> {Walk[k] : k \in 0 .. N}]
    BY <2>1, Zenon
  <2>. QED  BY <1>6, <2>2, Zenon
<1>10. \A k \in 1 .. N : Walk[k - 1] \in Ends => Walk[k] = EndF[Walk[k - 1]]
  BY <1>8, Zenon DEF EndF
<1>11. Walk[0] = s
  BY <1>8
<1>12. Walk \in Runs(Ends, EndF, s, N)
  BY <1>1, <1>2, <1>3, <1>9, <1>10, <1>11, Stays, Zenon
<1>. QED  BY <1>7, <1>12, Zenon DEF s

\* RemoveRoutine's walk to an id does the same with another step.
IdF(D, id) == [i \in D \cup {-1} |-> IdStep(id, i)]
LEMMA LocateWalk ==
    ASSUME NEW D \in SUBSET Slots, LinksIn(D), NEW id \in Ids, Hash(id) \in D
    PROVE  \E g \in Runs(D \cup {-1}, IdF(D, id), Hash(id), N) : Locate(id) = g[N]
<1>. DEFINE s == Hash(id)
            Def(f) == f = [k \in 0 .. N |-> IF k = 0 THEN s ELSE IdStep(id, f[k - 1])]
            Walk == CHOOSE f : Def(f)
            E == D \cup {-1}
<1>1. s \in E
  OBVIOUS
<1>2. IdF(D, id) \in [E -> E]
  <2>1. ASSUME NEW i \in E PROVE IdStep(id, i) \in E
    <3>1. i < 0 <=> i = -1
      BY SlotFacts
    <3>. QED  BY <2>1, <3>1, SlotFacts, Zenon DEF IdStep, LinksIn
  <2>. QED  BY <2>1, Zenon DEF IdF
<1>3. N \in Nat
  BY SlotFacts
<1>. HIDE DEF s, E
<1>4. PICK g : g \in Runs(E, IdF(D, id), s, N)
  BY <1>1, <1>2, <1>3, Iterate, Zenon
<1>5. Def(g)
  <2>1. g = [k \in 0 .. N |-> g[k]]
    BY <1>4 DEF Runs
  <2>2. g[0] = s /\ \A k \in 1 .. N : g[k - 1] \in E /\ g[k] = IdF(D, id)[g[k - 1]]
    BY <1>3, <1>4 DEF Runs
  <2>3. \A k \in 1 .. N : g[k] = IdStep(id, g[k - 1])
    BY <2>2, Zenon DEF IdF, E
  <2>4. \A k \in 0 .. N : g[k] = IF k = 0 THEN s ELSE IdStep(id, g[k - 1])
    BY <1>3, <2>2, <2>3
  <2>. QED  BY <2>1, <2>4, Zenon
<1>6. Def(Walk)
  <2>. HIDE DEF Def
  <2>. QED  BY <1>5, Zenon
<1>7. Locate(id) = Walk[N]
  BY Zenon DEF Locate, Walk, Def, IdStep, s, N
<1>. HIDE DEF Walk
<1>8. Walk[0] = s /\ \A k \in 1 .. N : Walk[k] = IdStep(id, Walk[k - 1])
  <2>1. \A k \in 0 .. N : Walk[k] = IF k = 0 THEN s ELSE IdStep(id, Walk[k - 1])
    BY <1>6, Zenon
  <2>. QED  BY <1>3, <2>1
<1>9. Walk \in [0 .. N -> {Walk[k] : k \in 0 .. N}]
  <2>1. \A k \in 0 .. N : (IF k = 0 THEN s ELSE IdStep(id, Walk[k - 1])) \in {Walk[i] : i \in 0 .. N}
    BY <1>6, Zenon
  <2>2. [k \in 0 .. N |-> IF k = 0 THEN s ELSE IdStep(id, Walk[k - 1])]
          \in [0 .. N -> {Walk[k] : k \in 0 .. N}]
    BY <2>1, Zenon
  <2>. QED  BY <1>6, <2>2, Zenon
<1>10. \A k \in 1 .. N : Walk[k - 1] \in E => Walk[k] = IdF(D, id)[Walk[k - 1]]
  BY <1>8, Zenon DEF IdF, E
<1>11. Walk[0] = s
  BY <1>8
<1>12. Walk \in Runs(E, IdF(D, id), s, N)
  BY <1>1, <1>2, <1>3, <1>9, <1>10, <1>11, Stays, Zenon
<1>. QED  BY <1>7, <1>12, Zenon DEF s, E

\* What a step keeps stays true from where it is true.
LEMMA Along ==
    ASSUME NEW S, NEW F, NEW s, NEW n \in Nat, NEW g \in Runs(S, F, s, n),
           NEW I, \A x \in I : F[x] \in I, NEW j \in 0 .. n, g[j] \in I
    PROVE  \A k \in j .. n : g[k] \in I
<1>. DEFINE T == {m \in Nat : m \in j .. n => g[m] \in I}
<1>1. 0 \in T
  OBVIOUS
<1>2. ASSUME NEW m \in T PROVE m + 1 \in T
  <2>1. m + 1 \in 1 .. n => g[m + 1] = F[g[m]]
    BY DEF Runs
  <2>. QED  BY <2>1
<1>3. \A m \in Nat : m \in T
  <2>. HIDE DEF T
  <2>1. T \in SUBSET Nat
    BY DEF T
  <2>. QED  BY <1>1, <1>2, <2>1, Induction, Zenon
<1>. QED  BY <1>3

\* The slot RemoveRoutine comes to has the id; and it comes to one if there is one.
LEMMA LocateFacts ==
    ASSUME NEW D \in SUBSET Slots, LinksIn(D), NoLoopIn(D), NEW id \in Ids, Hash(id) \in D
    PROVE  /\ Locate(id) \in D \cup {-1}
           /\ Locate(id) # -1 => table[Locate(id)].id = id
           /\ Finds(Hash(id), id) => Locate(id) \in Slots
<1>. DEFINE F == IdF(D, id)
            E == D \cup {-1}
<1>1. PICK g \in Runs(E, F, Hash(id), N) : Locate(id) = g[N]
  BY LocateWalk, Zenon
<1>. HIDE DEF F
<1>2. /\ g \in [0 .. N -> E] /\ g[0] = Hash(id) /\ \A k \in 1 .. N : g[k] = F[g[k - 1]]
      /\ \A k \in 0 .. N : g[k] \in E
  BY <1>1 DEF Runs
<1>3. /\ \A i \in E : i = -1 \/ table[i].id = id => F[i] = i
      /\ \A i \in D : table[i].id # id => F[i] = table[i].next
  <2>1. \A i \in E : (i < 0 <=> i = -1) /\ (i \in D => i # -1)
    BY SlotFacts
  <2>. QED  BY <2>1, Zenon DEF F, IdF, IdStep
<1>4. N \in Nat /\ 0 \in 0 .. N /\ N \in 0 .. N /\ \A k \in 1 .. N : k \in 0 .. N /\ k - 1 \in 0 .. N
  BY SlotFacts
<1>5. ASSUME NEW k \in 0 .. N, g[k] = -1 \/ table[g[k]].id = id
      PROVE  g[N] = g[k]
  <2>. DEFINE I == {g[k]}
  <2>1. F[g[k]] = g[k]
    BY <1>2, <1>3, <1>5, Zenon
  <2>2. \A x \in I : F[x] \in I
    BY <2>1
  <2>3. g[k] \in I
    OBVIOUS
  <2>. HIDE DEF I
  <2>4. \A m \in k .. N : g[m] \in I
    BY <1>1, <1>4, <2>2, <2>3, Along, Zenon
  <2>5. N \in k .. N
    BY <1>4
  <2>. QED  BY <2>4, <2>5, Zenon DEF I
<1>6. g[N] = -1 \/ table[g[N]].id = id
  <2>1. SUFFICES ASSUME g[N] # -1, table[g[N]].id # id PROVE FALSE
    OBVIOUS
  <2>2. \A k \in 0 .. N : g[k] # -1 /\ table[g[k]].id # id
    BY <1>5, <2>1, Zenon
  <2>3. g \in [0 .. N -> D]
    BY <1>2, <2>2
  <2>4. \A k \in 1 .. N : g[k] = table[g[k - 1]].next
    BY <1>2, <1>3, <1>4, <2>2, <2>3, Zenon
  <2>. QED  BY <2>3, <2>4, NoLongWalk, Zenon
<1>7. ASSUME Finds(Hash(id), id) PROVE g[N] \in Slots
  <2>. DEFINE S == {i \in D : \E k \in 0 .. N : g[k] = i}
  <2>1. Hash(id) \in S
    BY <1>2, <1>4, Zenon
  <2>2. ASSUME NEW j \in S, table[j].id # id, table[j].next # -1 PROVE table[j].next \in S
    <3>1. PICK k \in 0 .. N : g[k] = j
      OBVIOUS
    <3>2. k # N
      <4>1. j # -1
        BY SlotFacts
      <4>. QED  BY <1>6, <2>2, <3>1, <4>1, Zenon
    <3>3. k + 1 \in 1 .. N /\ k + 1 - 1 = k /\ k + 1 \in 0 .. N
      BY <1>4, <3>2
    <3>4. g[k + 1] = table[j].next
      <4>1. g[k + 1] = F[g[k + 1 - 1]]
        BY <1>2, <3>3
      <4>2. g[k + 1] = F[j]
        BY <3>1, <3>3, <4>1
      <4>. QED  BY <1>3, <2>2, <4>2, Zenon
    <3>5. table[j].next \in D
      BY <2>2, Zenon DEF LinksIn
    <3>. QED  BY <3>3, <3>4, <3>5, Zenon
  <2>3. PICK j \in S : table[j].id = id
    <3>1. S \in SUBSET Slots
      OBVIOUS
    <3>. HIDE DEF S
    <3>. QED  BY <1>7, <2>1, <2>2, <3>1, Zenon DEF Finds, Closed
  <2>4. \E k \in 0 .. N : g[k] = j
    BY <2>3
  <2>. QED  BY <1>5, <2>3, <2>4, Zenon
<1>. QED  BY <1>1, <1>2, <1>4, <1>6, <1>7, Zenon

\* Where its walk ends.
Stop(i) == i = -1 \/ table[i].id = 0 \/ table[i].cpu > 1

\* AddInRoutine comes to the end of the chain: a free slot, a slot whose
\* cpu is above 1, or no slot.
LEMMA ChainEndFacts ==
    ASSUME LinksIn(Slots), NoLoopIn(Slots), NEW h \in Slots, NEW e, e = ChainEnd(h)
    PROVE  /\ e.cur \in Links /\ e.prev \in Links
           /\ e.cur # -1 => table[e.cur].id = 0 \/ table[e.cur].cpu > 1
           /\ e.prev = -1 => e.cur = h
           /\ e.prev # -1 => table[e.prev].id # 0 /\ table[e.prev].next = e.cur
           /\ \A S \in SUBSET Slots :
                 /\ h \in S
                 /\ \A j \in S : table[j].id # 0 /\ table[j].next # -1 => table[j].next \in S
                 => e.prev \in S \cup {-1}
<1>. DEFINE s == [cur |-> h, prev |-> -1]
<1>1. PICK g \in Runs(Ends, EndF, s, N) : e = g[N]
  BY ChainWalk, Zenon
<1>2. s \in Ends /\ s.cur = h /\ s.prev = -1
  BY DEF Ends, Links
<1>. HIDE DEF s
<1>3. /\ g \in [0 .. N -> Ends] /\ g[0] = s /\ \A k \in 1 .. N : g[k] = EndF[g[k - 1]]
      /\ \A k \in 0 .. N : g[k] \in Ends
  BY <1>1 DEF Runs
<1>4. ASSUME NEW w \in Ends
      PROVE  /\ w.cur \in Links /\ w.prev \in Links
             /\ Stop(w.cur) => EndF[w] = w
             /\ ~Stop(w.cur) =>
                   EndF[w].cur = table[w.cur].next /\ EndF[w].prev = w.cur
  <2>1. w.cur \in Links /\ w.prev \in Links
    BY DEF Ends
  <2>2. EndF[w] = EndStep(w)
    BY Zenon DEF EndF
  <2>3. w.cur < 0 <=> w.cur = -1
    BY <2>1, SlotFacts, Zenon
  <2>. QED  BY <2>1, <2>2, <2>3 DEF EndStep, Stop
<1>5. N \in Nat /\ 0 \in 0 .. N /\ N \in 0 .. N /\ \A k \in 1 .. N : k \in 0 .. N /\ k - 1 \in 0 .. N
  BY SlotFacts
<1>6. EndF \in [Ends -> Ends]
  <2>1. ASSUME NEW w \in Ends PROVE EndStep(w) \in Ends
    BY SlotFacts, Zenon DEF Ends, EndStep, LinksIn, Links
  <2>. QED  BY <2>1, Zenon DEF EndF
<1>7. ASSUME NEW k \in 0 .. N, Stop(g[k].cur)
      PROVE  g[N] = g[k]
  <2>. DEFINE I == {g[k]}
  <2>1. EndF[g[k]] = g[k]
    BY <1>3, <1>4, <1>7, Zenon
  <2>2. \A x \in I : EndF[x] \in I
    BY <2>1
  <2>3. g[k] \in I
    OBVIOUS
  <2>. HIDE DEF I
  <2>4. \A m \in k .. N : g[m] \in I
    BY <1>1, <1>5, <2>2, <2>3, Along, Zenon
  <2>5. N \in k .. N
    BY <1>5
  <2>. QED  BY <2>4, <2>5, Zenon DEF I
<1>8. Stop(g[N].cur)
  <2>1. SUFFICES ASSUME ~Stop(g[N].cur) PROVE FALSE
    OBVIOUS
  <2>. DEFINE w == [k \in 0 .. N |-> g[k].cur]
  <2>2. \A k \in 0 .. N : ~Stop(g[k].cur)
    BY <1>7, <2>1, Zenon
  <2>3. \A k \in 0 .. N : g[k].cur \in Slots
    BY <1>3, <1>4, <2>2, Zenon DEF Links, Stop
  <2>4. w \in [0 .. N -> Slots]
    BY <2>3, Zenon
  <2>5. \A k \in 1 .. N : g[k].cur = table[g[k - 1].cur].next
    BY <1>3, <1>4, <1>5, <2>2, Zenon
  <2>6. \A k \in 1 .. N : w[k] = table[w[k - 1]].next
    BY <1>5, <2>5, Zenon
  <2>. HIDE DEF w
  <2>. QED  BY <2>4, <2>6, NoLongWalk, Zenon
<1>9. /\ g[N].prev = -1 => g[N].cur = h
      /\ g[N].prev # -1 => table[g[N].prev].id # 0 /\ table[g[N].prev].next = g[N].cur
  <2>. DEFINE I == {w \in Ends :
                      /\ w.prev = -1 => w.cur = h
                      /\ w.prev # -1 => table[w.prev].id # 0 /\ table[w.prev].next = w.cur}
  <2>1. ASSUME NEW w \in I PROVE EndF[w] \in I
    <3>1. w \in Ends /\ EndF[w] \in Ends
      BY <1>6
    <3>2. CASE Stop(w.cur)
      BY <1>4, <3>1, <3>2, Zenon
    <3>3. CASE ~Stop(w.cur)
      <4>1. EndF[w].cur = table[w.cur].next /\ EndF[w].prev = w.cur
        BY <1>4, <3>1, <3>3, Zenon
      <4>2. w.cur # -1 /\ table[w.cur].id # 0
        BY <3>3, Zenon DEF Stop
      <4>. QED  BY <3>1, <4>1, <4>2, Zenon
    <3>. QED  BY <3>2, <3>3, Zenon
  <2>2. g[0] \in I
    BY <1>2, <1>3, Zenon
  <2>. HIDE DEF I
  <2>3. \A m \in 0 .. N : g[m] \in I
    BY <1>1, <1>5, <2>1, <2>2, Along, Zenon
  <2>4. g[N] \in I
    BY <1>5, <2>3, Zenon
  <2>. QED  BY <2>4, Zenon DEF I
<1>10. ASSUME NEW S \in SUBSET Slots, h \in S,
              \A j \in S : table[j].id # 0 /\ table[j].next # -1 => table[j].next \in S
       PROVE  g[N].prev \in S \cup {-1}
  <2>. DEFINE I == {w \in Ends : w.cur \in S \cup {-1} /\ w.prev \in S \cup {-1}}
  <2>1. ASSUME NEW w \in I PROVE EndF[w] \in I
    <3>1. w \in Ends /\ EndF[w] \in Ends /\ w.cur \in S \cup {-1}
      BY <1>6
    <3>2. CASE Stop(w.cur)
      BY <1>4, <3>1, <3>2, Zenon
    <3>3. CASE ~Stop(w.cur)
      <4>1. EndF[w].cur = table[w.cur].next /\ EndF[w].prev = w.cur
        BY <1>4, <3>1, <3>3, Zenon
      <4>2. table[w.cur].next \in S \cup {-1}
        BY <1>10, <3>1, <3>3, Zenon DEF Stop
      <4>. QED  BY <3>1, <4>1, <4>2, Zenon
    <3>. QED  BY <3>2, <3>3, Zenon
  <2>2. g[0] \in I
    BY <1>2, <1>3, <1>10
  <2>. HIDE DEF I
  <2>3. \A m \in 0 .. N : g[m] \in I
    BY <1>1, <1>5, <2>1, <2>2, Along, Zenon
  <2>4. g[N] \in I
    BY <1>5, <2>3, Zenon
  <2>. QED  BY <2>4, Zenon DEF I
<1>. QED  BY <1>1, <1>3, <1>4, <1>5, <1>8, <1>9, <1>10, Zenon DEF Stop

-----------------------------------------------------------------------------
(***************************************************************************)
(* What the invariant says of the table, and what a step leaves of it.     *)
(***************************************************************************)
Entry == [id : Ids \cup {0}, cpu : Nat, pid : Clients \cup {Free},
          word28 : {NameWord}, next : Slots \cup {-1, Word}]

Places == {"idle", "match", "follow", "insert", "settle", "link", "count",
           "relink", "clear", "unlink", "uncount"}

\* The type invariant in parts: the table, its links, the clients' locals, the ghosts.
TableOK == table \in [Slots -> Entry] /\ rtCount \in 0 .. N
NextOK == \A i \in Settled : table[i].next \in Links
LocalsOK == /\ rtpc \in [Clients -> Places]
            /\ arg \in [Clients -> Ids \cup {0}] /\ op \in [Clients -> {"add", "find"}]
            /\ cur \in [Clients -> Slots] /\ nxt \in [Clients -> Links]
GhostsOK == /\ registered \in SUBSET Ids /\ solid \in SUBSET Clients /\ lost \in BOOLEAN
            /\ released \in SUBSET Clients /\ adds \in 0 .. MaxAdds /\ removed \in BOOLEAN

\* No chain of settled slots loops, also once spinlock 2 was left taken.
Acyclic == NoLoopIn(Settled)

\* The invariant, with its parts.
Inv == /\ TableOK /\ NextOK /\ LocalsOK /\ GhostsOK /\ lock \in Clients \cup {Free, Leaked}
       /\ Holds /\ Counted /\ Acyclic /\ (~removed => Grown)

\* It is the one of the module.
LEMMA InvIsRtIInv == Inv => RtIInv
<1>. SUFFICES ASSUME Inv PROVE RtIInv
  OBVIOUS
<1>1. RtTypeOK
  <2>1. \A i \in Slots : \/ table[i].next \in Slots \cup {-1}
                         \/ \E c \in Clients : rtpc[c] = "settle" /\ cur[c] = i
    BY Zenon DEF Inv, NextOK, Settled, Links
  <2>2. table \in [Slots -> Entry] /\ rtCount \in 0 .. Cardinality(Slots)
    BY Zenon DEF Inv, TableOK, N
  <2>3. registered \subseteq Ids /\ solid \subseteq Clients /\ released \subseteq Clients
    BY DEF Inv, GhostsOK
  <2>4. lock \in Clients \cup {Free, Leaked} /\ LocalsOK /\ GhostsOK
    BY Zenon DEF Inv
  <2>. QED  BY <2>1, <2>2, <2>3, <2>4, Zenon DEF RtTypeOK, LocalsOK, GhostsOK, Entry, Links, Places
<1>2. ChainsAcyclic
  BY Zenon DEF Inv, Acyclic, NoLoopIn, ChainsAcyclic
<1>. QED  BY <1>1, <1>2, Zenon DEF Inv, RtIInv

\* The fields of an entry have their types.
LEMMA EntryFacts ==
    ASSUME TableOK
    PROVE  \A i \in Slots : table[i] \in Entry /\ table[i].id \in Ids \cup {0}
<1>1. ASSUME NEW i \in Slots PROVE table[i] \in Entry
  BY DEF TableOK
<1>2. \A r \in Entry : r.id \in Ids \cup {0}
  BY DEF Entry
<1>. QED  BY <1>1, <1>2, Zenon

\* An id is not 0, and no client is called "free" or "leaked".
LEMMA IdFacts == /\ 0 \notin Ids /\ Free \notin Clients /\ Leaked \notin Clients
                 /\ Free # Leaked /\ Ids \subseteq Nat
  BY TableAssumption DEF Free, Leaked

\* A function that is changed at one point.
LEMMA Update ==
    ASSUME NEW C, NEW S, NEW f \in [C -> S], NEW c \in C, NEW v \in S, NEW g,
           g = [f EXCEPT ![c] = v]
    PROVE  g \in [C -> S] /\ g[c] = v /\ \A d \in C : d # c => g[d] = f[d]
  OBVIOUS

\* The locals of a client are left alone.
Same(d) == /\ rtpc'[d] = rtpc[d] /\ arg'[d] = arg[d] /\ cur'[d] = cur[d]
           /\ nxt'[d] = nxt[d] /\ op'[d] = op[d]
SameBut(c) == \A d \in Clients : d # c => Same(d)

\* A client whose call returns has no walk under way; the others go on with theirs.
LEMMA ReturnFacts ==
    ASSUME LocalsOK, NEW c \in Clients, Return(c)
    PROVE  LocalsOK' /\ rtpc'[c] = "idle" /\ SameBut(c)
<1>1. 0 \in Slots /\ -1 \in Links /\ "idle" \in Places /\ 0 \in Ids \cup {0} /\ "find" \in {"add", "find"}
  BY SlotFacts DEF Slots, Links, Places
<1>2. rtpc' \in [Clients -> Places] /\ rtpc'[c] = "idle" /\ \A d \in Clients : d # c => rtpc'[d] = rtpc[d]
  BY <1>1, Update, Zenon DEF LocalsOK, Return, RtGoto
<1>3. arg' \in [Clients -> Ids \cup {0}] /\ \A d \in Clients : d # c => arg'[d] = arg[d]
  BY <1>1, Update, Zenon DEF LocalsOK, Return
<1>4. cur' \in [Clients -> Slots] /\ \A d \in Clients : d # c => cur'[d] = cur[d]
  BY <1>1, Update, Zenon DEF LocalsOK, Return
<1>5. nxt' \in [Clients -> Links] /\ \A d \in Clients : d # c => nxt'[d] = nxt[d]
  BY <1>1, Update, Zenon DEF LocalsOK, Return
<1>6. op' \in [Clients -> {"add", "find"}] /\ \A d \in Clients : d # c => op'[d] = op[d]
  BY <1>1, Update, Zenon DEF LocalsOK, Return
<1>. QED  BY <1>2, <1>3, <1>4, <1>5, <1>6, Zenon DEF LocalsOK, SameBut, Same

\* A client goes on to another step with the locals it has.
LEMMA GotoFacts ==
    ASSUME LocalsOK, NEW c \in Clients, NEW s \in Places, RtGoto(c, s),
           arg' = arg, cur' = cur, nxt' = nxt, op' = op
    PROVE  LocalsOK' /\ rtpc'[c] = s /\ SameBut(c)
<1>1. rtpc' \in [Clients -> Places] /\ rtpc'[c] = s /\ \A d \in Clients : d # c => rtpc'[d] = rtpc[d]
  BY Update, Zenon DEF LocalsOK, RtGoto
<1>. QED  BY <1>1, Zenon DEF LocalsOK, SameBut, Same

\* A client outside of the lock.
Outside(c) == ~Adding(c) /\ ~Removing(c)

\* What the places say of that.
LEMMA PlaceFacts ==
    \A c \in Clients :
       /\ rtpc[c] \in {"idle", "match", "follow", "insert"} => Outside(c)
       /\ Outside(c) => rtpc[c] \notin {"settle", "link", "count", "relink", "clear", "unlink", "uncount"}
       /\ rtpc[c] \in {"idle", "insert"} => ~Walking(c)
       /\ Walking(c) <=> rtpc[c] \in {"match", "follow"}
       /\ rtpc[c] \in {"settle", "link", "count"} => Adding(c) /\ ~Walking(c) /\ ~Removing(c)
       /\ rtpc[c] \in {"relink", "clear", "unlink", "uncount"} => Removing(c) /\ ~Walking(c) /\ ~Adding(c)
  BY DEF Outside, Adding, Removing, Walking

\* The same after a step.
LEMMA NextPlaceFacts ==
    \A c \in Clients :
       /\ rtpc'[c] \in {"idle", "match", "follow", "insert"} => Outside(c)'
       /\ Outside(c)' => rtpc'[c] \notin {"settle", "link", "count", "relink", "clear", "unlink", "uncount"}
       /\ rtpc'[c] \in {"idle", "insert"} => ~Walking(c)'
       /\ Walking(c)' <=> rtpc'[c] \in {"match", "follow"}
       /\ rtpc'[c] \in {"settle", "link", "count"} => Adding(c)' /\ ~Walking(c)' /\ ~Removing(c)'
       /\ rtpc'[c] \in {"relink", "clear", "unlink", "uncount"} => Removing(c)' /\ ~Walking(c)' /\ ~Adding(c)'
  BY DEF Outside, Adding, Removing, Walking

\* If nobody has the lock every client is outside, and every slot is settled.
LEMMA NobodyInside ==
    ASSUME Inv, lock = Free
    PROVE  /\ \A c \in Clients : Outside(c)
           /\ Settled = Slots /\ LinksIn(Slots) /\ NoLoopIn(Slots)
<1>1. \A c \in Clients : Outside(c)
  BY IdFacts, Zenon DEF Inv, Holds, InHand, Outside
<1>2. Settled = Slots
  <2>1. \A c \in Clients : rtpc[c] # "settle"
    BY <1>1, PlaceFacts, Zenon
  <2>. QED  BY <2>1 DEF Settled
<1>3. LinksIn(Slots) /\ NoLoopIn(Slots)
  BY <1>2, Zenon DEF Inv, NextOK, Acyclic, LinksIn, Links
<1>. QED  BY <1>1, <1>2, <1>3, Zenon

\* The client that has it is the only one inside.
LEMMA OthersOutside ==
    ASSUME Inv, NEW c \in Clients, Adding(c) \/ Removing(c)
    PROVE  /\ lock = c /\ \A d \in Clients : d # c => Outside(d)
           /\ rtpc[c] = "settle" => Settled = Slots \ {cur[c]}
           /\ rtpc[c] # "settle" => Settled = Slots /\ LinksIn(Slots) /\ NoLoopIn(Slots)
<1>1. lock = c /\ \A d \in Clients : d # c => Outside(d)
  BY Zenon DEF Inv, Holds, InHand, Outside
<1>2. \A d \in Clients : d # c => rtpc[d] # "settle"
  BY <1>1, PlaceFacts, Zenon
<1>3. rtpc[c] = "settle" => Settled = Slots \ {cur[c]}
  BY <1>2 DEF Settled
<1>4. rtpc[c] # "settle" => Settled = Slots
  BY <1>2 DEF Settled
<1>5. Settled = Slots => LinksIn(Slots) /\ NoLoopIn(Slots)
  BY Zenon DEF Inv, NextOK, Acyclic, LinksIn, Links
<1>. QED  BY <1>1, <1>3, <1>4, <1>5, Zenon

\* The same after a step, from what the others are.
LEMMA SettledNext ==
    ASSUME NEW c \in Clients, \A d \in Clients : d # c => Outside(d)'
    PROVE  /\ rtpc'[c] = "settle" => Settled' = Slots \ {cur'[c]}
           /\ rtpc'[c] # "settle" => Settled' = Slots
<1>1. \A d \in Clients : d # c => rtpc'[d] # "settle"
  BY NextPlaceFacts, Zenon
<1>2. rtpc'[c] = "settle" => Settled' = Slots \ {cur'[c]}
  BY <1>1 DEF Settled
<1>3. rtpc'[c] # "settle" => Settled' = Slots
  BY <1>1 DEF Settled
<1>. QED  BY <1>2, <1>3, Zenon

\* A client outside of the lock that is left alone keeps what it has in hand.
LEMMA LeftAlone ==
    ASSUME NEW d \in Clients, Outside(d), Same(d), lock' # d
    PROVE  /\ Outside(d)' /\ CountOf(d)' /\ (InHand(d) => InHand(d)') /\ Inserts(d)'
           /\ Walking(d)' <=> Walking(d)
<1>1. Outside(d)' /\ (Walking(d)' <=> Walking(d)) /\ rtpc'[d] = rtpc[d] /\ arg'[d] = arg[d]
  BY Zenon DEF Outside, Adding, Removing, Walking, Same
<1>2. rtpc'[d] \notin {"settle", "link", "count", "relink", "clear", "unlink", "uncount"}
  BY <1>1, NextPlaceFacts, Zenon
<1>3. /\ rtpc'[d] # "settle" /\ rtpc'[d] # "link" /\ rtpc'[d] # "relink" /\ rtpc'[d] # "clear"
      /\ rtpc'[d] \notin {"relink", "unlink", "uncount"} /\ rtpc'[d] \notin {"settle", "link"}
      /\ rtpc'[d] \notin {"link", "relink", "clear", "unlink"}
  BY <1>2, Zenon
<1>4. CountOf(d)'
  BY <1>1, <1>3, Zenon DEF CountOf, Outside
<1>5. InHand(d) => InHand(d)'
  BY <1>1, <1>3, Zenon DEF InHand, Outside
<1>6. Inserts(d)'
  BY <1>1, <1>3, Zenon DEF Inserts, Outside
<1>. QED  BY <1>1, <1>4, <1>5, <1>6, Zenon

\* A step that leaves the table alone leaves its chains alone.
LEMMA SameTable ==
    ASSUME table' = table
    PROVE  /\ Live' = Live /\ \A D : NoLoopIn(D) <=> NoLoopIn(D)'
           /\ \A i, id : Finds(i, id) <=> Finds(i, id)'
<1>1. Live' = Live
  BY Zenon DEF Live
<1>2. \A D : NoLoopIn(D) <=> NoLoopIn(D)'
  BY Zenon DEF NoLoopIn
<1>3. \A i, id : Finds(i, id) <=> Finds(i, id)'
  BY Zenon DEF Finds, Closed
<1>. QED  BY <1>1, <1>2, <1>3, Zenon

\* A step that leaves each link or cuts it makes no loop.
LEMMA LinksCut ==
    ASSUME NEW D \in SUBSET Slots, NoLoopIn(D),
           \A i \in D : table'[i].next = table[i].next \/ table'[i].next = -1
    PROVE  NoLoopIn(D)'
<1>1. SUFFICES ASSUME NEW S \in SUBSET D, S # {} PROVE \E i \in S : table'[i].next \notin S
  BY Zenon DEF NoLoopIn
<1>2. PICK i \in S : table[i].next \notin S
  BY <1>1, Zenon DEF NoLoopIn
<1>3. -1 \notin S /\ i \in D
  BY SlotFacts
<1>. QED  BY <1>2, <1>3, Zenon

\* Closed and Finds, of the table t.
ClosedIn(t, S, id) == \A j \in S : t[j].id # id /\ t[j].next # -1 => t[j].next \in S
FoundIn(t, i, id) ==
    \A S \in SUBSET Slots : i \in S /\ ClosedIn(t, S, id) => \E j \in S : t[j].id = id

\* They are those of the table.
LEMMA FoundInIs ==
    /\ \A i, id : Finds(i, id) <=> FoundIn(table, i, id)
    /\ \A S, id : Closed(S, id) <=> ClosedIn(table, S, id)
  BY Zenon DEF Finds, FoundIn, Closed, ClosedIn

\* And after it.
LEMMA FoundInNext ==
    /\ \A i, id : FoundIn(table', i, id) <=> Finds(i, id)'
    /\ \A S, id : ClosedIn(table', S, id) <=> Closed(S, id)'
  BY Zenon DEF Finds, FoundIn, Closed, ClosedIn

\* The first step of a walk: it goes on to a slot from which it finds its id.
LEMMA FindsNext ==
    ASSUME NEW i \in Slots, NEW id, Finds(i, id), table[i].id # id, table[i].next \in Links
    PROVE  table[i].next \in Slots /\ Finds(table[i].next, id)
<1>1. table[i].next # -1
  <2>1. {i} \in SUBSET Slots /\ i \in {i} /\ \A j \in {i} : j = i
    OBVIOUS
  <2>. QED  BY <2>1, Zenon DEF Finds, Closed
<1>2. ASSUME NEW S \in SUBSET Slots, table[i].next \in S, Closed(S, id)
      PROVE  \E j \in S : table[j].id = id
  <2>. DEFINE R == S \cup {i}
  <2>2. R \in SUBSET Slots /\ i \in R
    OBVIOUS
  <2>3. Closed(R, id)
    BY <1>2, Zenon DEF Closed
  <2>4. PICK j \in R : table[j].id = id
    <3>. HIDE DEF R
    <3>. QED  BY <2>2, <2>3, Zenon DEF Finds
  <2>. QED  BY <2>4, Zenon
<1>3. Finds(table[i].next, id)
  BY <1>2, Zenon DEF Finds
<1>4. table[i].next \in Slots
  BY <1>1, Zenon DEF Links
<1>. QED  BY <1>3, <1>4, Zenon


-----------------------------------------------------------------------------
(***************************************************************************)
(* FindRoutineEx                                                           *)
(***************************************************************************)
\* The lock belongs to a client, to nobody, or to a removal that failed.
LockOK == lock \in Clients \cup {Free, Leaked}

\* A step outside of the lock that changes only a client's own locals leaves what the
\* clients have in hand, the count and the chains as they are.
LEMMA WalkStep ==
    ASSUME Inv, NEW c \in Clients, table' = table, rtCount' = rtCount, lock' = lock,
           Outside(c), Outside(c)', SameBut(c),
           (Walking(c) \/ rtpc[c] = "insert")' => arg'[c] \in Ids
    PROVE  TableOK' /\ NextOK' /\ Holds' /\ Counted' /\ Acyclic' /\ LockOK' /\ Settled' = Settled
<1>1. TableOK /\ NextOK /\ Holds /\ Counted /\ Acyclic /\ LockOK
  BY Zenon DEF Inv, LockOK
<1>2. TableOK' /\ LockOK'
  BY <1>1, Zenon DEF TableOK, LockOK
<1>3. Settled' = Settled
  <2>1. \A d \in Clients, i \in Slots :
           rtpc'[d] = "settle" /\ cur'[d] = i <=> rtpc[d] = "settle" /\ cur[d] = i
    BY PlaceFacts, NextPlaceFacts, Zenon DEF SameBut, Same
  <2>. QED  BY <2>1, Zenon DEF Settled
<1>4. NextOK'
  BY <1>1, <1>3, Zenon DEF NextOK
<1>5. Acyclic'
  BY <1>1, <1>3, SameTable, Zenon DEF Acyclic, NoLoopIn
<1>6. Live' = Live
  BY SameTable, Zenon
<1>7. ASSUME NEW d \in Clients PROVE InHand(d)' /\ CountOf(d)'
  <2>1. CASE d # c
    <3>1. Same(d) /\ InHand(d) /\ CountOf(d)
      BY <1>1, <2>1, Zenon DEF SameBut, Holds, Counted
    <3>2. InHand(d)'
      BY <3>1, Zenon DEF InHand, Adding, Removing, Walking, Same
    <3>3. CountOf(d)'
      BY <1>6, <3>1, Zenon DEF CountOf, Adding, Same
    <3>. QED  BY <3>2, <3>3
  <2>2. CASE d = c
    <3>1. lock # c
      BY <1>1, Zenon DEF Holds, InHand, Outside
    <3>2. /\ rtpc'[c] # "settle" /\ rtpc'[c] # "link" /\ rtpc'[c] # "relink" /\ rtpc'[c] # "clear"
          /\ rtpc'[c] \notin {"relink", "unlink", "uncount"}
          /\ rtpc'[c] \notin {"link", "relink", "clear", "unlink"}
      BY NextPlaceFacts, Zenon
    <3>3. InHand(c)'
      BY <3>1, <3>2, Zenon DEF InHand, Outside
    <3>4. CountOf(c)'
      BY <3>2, Zenon DEF CountOf, Outside
    <3>. QED  BY <2>2, <3>3, <3>4, Zenon
  <2>. QED  BY <2>1, <2>2
<1>8. Holds'
  BY <1>7, Zenon DEF Holds
<1>9. Counted'
  BY <1>1, <1>6, <1>7, Zenon DEF Counted
<1>. QED  BY <1>2, <1>3, <1>4, <1>5, <1>8, <1>9

\* The same for the table as it is before the first removal.
LEMMA GrownWalk ==
    ASSUME Grown, NEW c \in Clients, table' = table, rtCount' = rtCount,
           registered' = registered, lost' => rtCount > MaxIndex, Settled' = Settled,
           Outside(c)', SameBut(c), solid' \in SUBSET Clients, solid' \subseteq solid \cup {c},
           c \in solid' =>
              /\ Walking(c)' /\ op'[c] = "find" /\ Finds(cur'[c], arg'[c])
              /\ rtpc'[c] = "follow" => table[cur'[c]].id # arg'[c]
              /\ \A d \in Clients : d # c /\ rtpc[d] = "settle" => cur'[c] # cur[d]
    PROVE  Grown'
<1>1. \A d \in Clients : ~Removing(d)'
  BY Zenon DEF Grown, Removing, SameBut, Same, Outside
<1>2. ASSUME NEW d \in solid' PROVE OnItsWay(d)'
  <2>1. CASE d = c
    <3>1. Finds(cur[c], arg[c])'
      BY <2>1, Zenon DEF Finds, Closed
    <3>. QED  BY <2>1, <3>1, Zenon DEF OnItsWay
  <2>2. CASE d # c
    <3>1. d \in solid /\ d \in Clients
      BY <2>2
    <3>2. OnItsWay(d) /\ Same(d)
      BY <2>2, <3>1, Zenon DEF Grown, SameBut
    <3>. QED  BY <3>2, Zenon DEF OnItsWay, Walking, Finds, Closed, Same
  <2>. QED  BY <2>1, <2>2
<1>3. /\ \A i \in Slots : table'[i].id = 0 => table'[i].next = -1
      /\ \A i \in Settled' : table'[i].next # -1 => table'[table'[i].next].id # 0
      /\ lost' => rtCount' > MaxIndex
  BY Zenon DEF Grown
<1>4. \A x \in registered' : Finds(Hash(x), x)'
  BY Zenon DEF Grown, Finds, Closed, Hash
<1>5. ASSUME NEW d \in Clients PROVE Inserts(d)'
  <2>1. CASE d = c
    <3>1. rtpc'[c] \notin {"settle", "link"} /\ rtpc'[c] # "settle"
      BY NextPlaceFacts, Zenon
    <3>. QED  BY <2>1, <3>1, Zenon DEF Inserts, Outside
  <2>2. CASE d # c
    <3>1. Inserts(d) /\ Same(d)
      BY <2>2, Zenon DEF Grown, SameBut
    <3>2. ASSUME rtpc'[d] = "settle" PROVE OffTheWay(cur[d])'
      <4>1. OffTheWay(cur[d]) /\ rtpc[d] = "settle"
        BY <3>1, <3>2, Zenon DEF Inserts, Same
      <4>2. ASSUME NEW e \in solid' PROVE cur'[e] # cur[d]
        <5>1. CASE e = c
          BY <2>2, <4>1, <5>1, Zenon
        <5>2. CASE e # c
          <6>1. e \in solid /\ e \in Clients
            BY <5>2
          <6>. QED  BY <4>1, <5>2, <6>1, Zenon DEF OffTheWay, SameBut, Same
        <5>. QED  BY <5>1, <5>2
      <4>. QED  BY <3>1, <4>1, <4>2, Zenon DEF OffTheWay, Same, Hash
    <3>. QED  BY <3>1, <3>2, Zenon DEF Inserts, Adding, Closed, Same, Hash
  <2>. QED  BY <2>1, <2>2
<1>. QED  BY <1>1, <1>2, <1>3, <1>4, <1>5, Zenon DEF Grown

\* The invariant after a step, from its parts.
LEMMA Kept ==
    ASSUME TableOK', NextOK', Holds', Counted', Acyclic', LocalsOK', GhostsOK', LockOK',
           ~removed' => Grown'
    PROVE  Inv'
  BY Zenon DEF Inv, LockOK

\* A lookup, or an AddInRoutine, begins.
LEMMA FindInv ==
    ASSUME Inv, NEW c \in Clients, NEW id \in Ids, NEW o \in {"add", "find"},
           FindRoutineEx(c, id, o)
    PROVE  Inv'
<1>1. LocalsOK /\ GhostsOK /\ (~removed => Grown)
  BY Zenon DEF Inv
<1>2. /\ rtpc[c] = "idle" /\ table' = table /\ rtCount' = rtCount /\ lock' = lock
      /\ nxt' = nxt /\ registered' = registered /\ lost' = lost /\ released' = released
      /\ removed' = removed
      /\ solid' = IF o = "find" /\ id \in registered THEN solid \cup {c} ELSE solid
      /\ o = "add" => adds < MaxAdds
      /\ adds' = IF o = "add" THEN adds + 1 ELSE adds
  BY Zenon DEF FindRoutineEx, Idle, tableVars
<1>3. /\ rtpc' \in [Clients -> Places] /\ rtpc'[c] = "match"
      /\ \A d \in Clients : d # c => rtpc'[d] = rtpc[d]
  <2>1. "match" \in Places
    BY DEF Places
  <2>. QED  BY <1>1, <2>1, Update, Zenon DEF LocalsOK, FindRoutineEx, RtGoto
<1>4. /\ arg' \in [Clients -> Ids \cup {0}] /\ arg'[c] = id
      /\ \A d \in Clients : d # c => arg'[d] = arg[d]
  BY <1>1, Update, Zenon DEF LocalsOK, FindRoutineEx
<1>5. /\ cur' \in [Clients -> Slots] /\ cur'[c] = Hash(id)
      /\ \A d \in Clients : d # c => cur'[d] = cur[d]
  BY <1>1, HashFacts, Update, Zenon DEF LocalsOK, FindRoutineEx
<1>6. /\ op' \in [Clients -> {"add", "find"}] /\ op'[c] = o
      /\ \A d \in Clients : d # c => op'[d] = op[d]
  BY <1>1, Update, Zenon DEF LocalsOK, FindRoutineEx
<1>7. LocalsOK' /\ SameBut(c)
  BY <1>1, <1>2, <1>3, <1>4, <1>5, <1>6, Zenon DEF LocalsOK, SameBut, Same
<1>8. GhostsOK'
  <2>1. adds' \in 0 .. MaxAdds
    BY <1>1, <1>2, TableAssumption DEF GhostsOK
  <2>2. solid' \in SUBSET Clients
    BY <1>1, <1>2 DEF GhostsOK
  <2>. QED  BY <1>1, <1>2, <2>1, <2>2, Zenon DEF GhostsOK
<1>9. Outside(c) /\ Outside(c)' /\ ~Walking(c) /\ Walking(c)' /\ rtpc'[c] # "follow"
  BY <1>2, <1>3, PlaceFacts, NextPlaceFacts, Zenon
<1>10. TableOK' /\ NextOK' /\ Holds' /\ Counted' /\ Acyclic' /\ LockOK' /\ Settled' = Settled
  BY <1>2, <1>4, <1>7, <1>9, WalkStep, Zenon
<1>11. ASSUME ~removed' PROVE Grown'
  <2>1. Grown
    BY <1>1, <1>2, <1>11, Zenon
  <2>2. ASSUME c \in solid'
        PROVE  /\ o = "find" /\ Finds(cur'[c], arg'[c])
               /\ \A d \in Clients : d # c /\ rtpc[d] = "settle" => cur'[c] # cur[d]
    <3>1. c \notin solid
      BY <1>9, <2>1, Zenon DEF Grown, OnItsWay
    <3>2. o = "find" /\ id \in registered
      BY <1>2, <2>2, <3>1, Zenon
    <3>3. Finds(Hash(id), id)
      BY <2>1, <3>2, Zenon DEF Grown
    <3>4. \A d \in Clients : rtpc[d] = "settle" => Hash(id) # cur[d]
      BY <2>1, <3>2, Zenon DEF Grown, Inserts, OffTheWay
    <3>. QED  BY <1>4, <1>5, <3>2, <3>3, <3>4, Zenon
  <2>3. solid' \in SUBSET Clients /\ solid' \subseteq solid \cup {c}
    BY <1>1, <1>2 DEF GhostsOK
  <2>4. lost' => rtCount > MaxIndex
    BY <1>2, <2>1, Zenon DEF Grown
  <2>. QED  BY <1>2, <1>6, <1>7, <1>9, <1>10, <2>1, <2>2, <2>3, <2>4, GrownWalk, Zenon
<1>. QED  BY <1>7, <1>8, <1>10, <1>11, Kept, Zenon

\* FindRoutineEx refuses a table that is full.
LEMMA RefusedInv ==
    ASSUME Inv, NEW c \in Clients, NEW id \in Ids, FindRefused(c, id)
    PROVE  Inv'
<1>1. LocalsOK /\ GhostsOK /\ (~removed => Grown)
  BY Zenon DEF Inv
<1>2. /\ rtpc[c] = "idle" /\ table' = table /\ rtCount' = rtCount /\ lock' = lock
      /\ rtpc' = rtpc /\ arg' = arg /\ cur' = cur /\ nxt' = nxt /\ op' = op
      /\ registered' = registered /\ solid' = solid /\ released' = released
      /\ adds' = adds /\ removed' = removed /\ rtCount > MaxIndex
  BY Zenon DEF FindRefused, Idle, tableVars, walkVars
<1>3. lost' \in BOOLEAN
  BY DEF FindRefused
<1>4. GhostsOK' /\ LocalsOK' /\ SameBut(c)
  BY <1>1, <1>2, <1>3, Zenon DEF GhostsOK, LocalsOK, SameBut, Same
<1>5. Outside(c) /\ Outside(c)' /\ ~Walking(c) /\ ~Walking(c)' /\ rtpc'[c] # "insert"
  BY <1>2, PlaceFacts, NextPlaceFacts, Zenon
<1>6. TableOK' /\ NextOK' /\ Holds' /\ Counted' /\ Acyclic' /\ LockOK' /\ Settled' = Settled
  BY <1>2, <1>4, <1>5, WalkStep, Zenon
<1>7. ASSUME ~removed' PROVE Grown'
  <2>1. Grown
    BY <1>1, <1>2, <1>7, Zenon
  <2>2. solid' \in SUBSET Clients /\ solid' \subseteq solid \cup {c}
    BY <1>1, <1>2 DEF GhostsOK
  <2>3. c \notin solid'
    BY <1>2, <1>5, <2>1, Zenon DEF Grown, OnItsWay
  <2>. QED  BY <1>2, <1>4, <1>5, <1>6, <2>1, <2>2, <2>3, GrownWalk, Zenon
<1>. QED  BY <1>4, <1>6, <1>7, Kept, Zenon

\* A walk looks at the id of its slot.
LEMMA MatchInv ==
    ASSUME Inv, NEW c \in Clients, FindMatch(c)
    PROVE  Inv'
<1>1. LocalsOK /\ GhostsOK /\ (~removed => Grown) /\ InHand(c)
  BY Zenon DEF Inv, Holds
<1>2. /\ rtpc[c] = "match" /\ table' = table /\ rtCount' = rtCount /\ lock' = lock
      /\ registered' = registered /\ lost' = lost /\ released' = released
      /\ adds' = adds /\ removed' = removed
  BY Zenon DEF FindMatch, tableVars
<1>3. Outside(c) /\ Walking(c) /\ arg[c] \in Ids
  <2>1. Outside(c) /\ Walking(c)
    BY <1>2, PlaceFacts, Zenon
  <2>. QED  BY <1>1, <2>1, Zenon DEF InHand
<1>4. \/ Return(c) /\ solid' = solid \ {c}
      \/ /\ table[cur[c]].id # arg[c] /\ RtGoto(c, "follow") /\ solid' = solid
         /\ arg' = arg /\ cur' = cur /\ nxt' = nxt /\ op' = op
  BY Zenon DEF FindMatch, walkVars
<1>5. /\ LocalsOK' /\ SameBut(c)
      /\ \/ rtpc'[c] = "idle" /\ solid' = solid \ {c}
         \/ /\ table[cur[c]].id # arg[c] /\ rtpc'[c] = "follow" /\ solid' = solid
            /\ arg' = arg /\ cur' = cur /\ op' = op
  <2>1. CASE Return(c) /\ solid' = solid \ {c}
    BY <1>1, <2>1, ReturnFacts, Zenon
  <2>2. CASE /\ table[cur[c]].id # arg[c] /\ RtGoto(c, "follow") /\ solid' = solid
             /\ arg' = arg /\ cur' = cur /\ nxt' = nxt /\ op' = op
    <3>1. "follow" \in Places
      BY DEF Places
    <3>. QED  BY <1>1, <2>2, <3>1, GotoFacts, Zenon
  <2>. QED  BY <1>4, <2>1, <2>2, Zenon
<1>6. GhostsOK' /\ solid' \in SUBSET Clients /\ solid' \subseteq solid \cup {c}
  <2>1. solid' \in SUBSET Clients /\ solid' \subseteq solid \cup {c}
    BY <1>1, <1>5 DEF GhostsOK
  <2>. QED  BY <1>1, <1>2, <2>1, Zenon DEF GhostsOK
<1>7. Outside(c)' /\ (rtpc'[c] = "follow" => Walking(c)') /\ (rtpc'[c] = "idle" => ~Walking(c)')
      /\ rtpc'[c] # "insert"
  BY <1>5, NextPlaceFacts, Zenon
<1>8. (Walking(c) \/ rtpc[c] = "insert")' => arg'[c] \in Ids
  BY <1>3, <1>5, <1>7, Zenon
<1>9. TableOK' /\ NextOK' /\ Holds' /\ Counted' /\ Acyclic' /\ LockOK' /\ Settled' = Settled
  BY <1>2, <1>3, <1>5, <1>7, <1>8, WalkStep, Zenon
<1>10. ASSUME ~removed' PROVE Grown'
  <2>1. Grown
    BY <1>1, <1>2, <1>10, Zenon
  <2>2. c \in solid' => c \in solid /\ rtpc'[c] = "follow" /\ table[cur[c]].id # arg[c]
                        /\ arg' = arg /\ cur' = cur /\ op' = op
    BY <1>5
  <2>3. \A d \in Clients : rtpc[d] = "settle" /\ c \in solid => cur[c] # cur[d]
    BY <2>1, Zenon DEF Grown, Inserts, OffTheWay
  <2>4. c \in solid' => /\ Walking(c)' /\ op'[c] = "find" /\ Finds(cur'[c], arg'[c])
                        /\ rtpc'[c] = "follow" => table[cur'[c]].id # arg'[c]
                        /\ \A d \in Clients : d # c /\ rtpc[d] = "settle" => cur'[c] # cur[d]
    BY <1>7, <2>1, <2>2, <2>3, Zenon DEF Grown, OnItsWay
  <2>5. lost' => rtCount > MaxIndex
    BY <1>2, <2>1, Zenon DEF Grown
  <2>. QED  BY <1>2, <1>5, <1>6, <1>7, <1>9, <2>1, <2>4, <2>5, GrownWalk, Zenon
<1>. QED  BY <1>5, <1>6, <1>9, <1>10, Kept, Zenon

\* A walk follows the link of its slot.
LEMMA FollowInv ==
    ASSUME Inv, NEW c \in Clients, FindFollow(c)
    PROVE  Inv'
<1>. DEFINE n == table[cur[c]].next
<1>1. LocalsOK /\ GhostsOK /\ NextOK /\ (~removed => Grown) /\ InHand(c)
  BY Zenon DEF Inv, Holds
<1>2. /\ rtpc[c] = "follow" /\ table' = table /\ rtCount' = rtCount /\ lock' = lock
      /\ registered' = registered /\ released' = released
      /\ adds' = adds /\ removed' = removed
  BY Zenon DEF FindFollow, tableVars
<1>3. Outside(c) /\ Walking(c) /\ arg[c] \in Ids
  <2>1. Outside(c) /\ Walking(c)
    BY <1>2, PlaceFacts, Zenon
  <2>. QED  BY <1>1, <2>1, Zenon DEF InHand
<1>4. cur[c] \in Slots /\ op[c] \in {"add", "find"}
  BY <1>1, Zenon DEF LocalsOK
<1>. HIDE DEF n
<1>5. \/ /\ n \in Slots /\ cur' = [cur EXCEPT ![c] = n] /\ RtGoto(c, "match")
         /\ arg' = arg /\ nxt' = nxt /\ op' = op /\ solid' = solid /\ lost' = lost
      \/ /\ n \notin Slots /\ op[c] = "add" /\ RtGoto(c, "insert")
         /\ arg' = arg /\ cur' = cur /\ nxt' = nxt /\ op' = op /\ solid' = solid /\ lost' = lost
      \/ /\ n \notin Slots /\ Return(c) /\ lost' = (lost \/ c \in solid) /\ solid' = solid \ {c}
  <2>. DEFINE A == /\ cur' = [cur EXCEPT ![c] = n] /\ RtGoto(c, "match")
                   /\ UNCHANGED <<arg, nxt, op, solid, lost>>
              B == RtGoto(c, "insert") /\ UNCHANGED <<walkVars, solid, lost>>
              R == Return(c) /\ lost' = (lost \/ c \in solid) /\ solid' = solid \ {c}
  <2>1. (CASE n \in Slots -> A [] n \notin Slots /\ op[c] = "add" -> B
           [] n \notin Slots /\ op[c] = "find" -> R)
    BY Zenon DEF FindFollow, n
  <2>. HIDE DEF A, B, R
  <2>2. \/ n \in Slots /\ A
        \/ n \notin Slots /\ op[c] = "add" /\ B
        \/ n \notin Slots /\ op[c] = "find" /\ R
    BY <1>4, <2>1, Zenon
  <2>. QED  BY <2>2, Zenon DEF A, B, R, walkVars
<1>6. /\ LocalsOK' /\ SameBut(c)
      /\ \/ /\ n \in Slots /\ rtpc'[c] = "match" /\ cur'[c] = n
            /\ arg' = arg /\ op' = op /\ solid' = solid /\ lost' = lost
         \/ /\ n \notin Slots /\ op[c] = "add" /\ rtpc'[c] = "insert" /\ arg' = arg
            /\ solid' = solid /\ lost' = lost
         \/ /\ n \notin Slots /\ rtpc'[c] = "idle" /\ lost' = (lost \/ c \in solid)
            /\ solid' = solid \ {c}
  <2>1. CASE /\ n \in Slots /\ cur' = [cur EXCEPT ![c] = n] /\ RtGoto(c, "match")
             /\ arg' = arg /\ nxt' = nxt /\ op' = op /\ solid' = solid /\ lost' = lost
    <3>1. "match" \in Places
      BY DEF Places
    <3>2. /\ rtpc' \in [Clients -> Places]
          /\ rtpc'[c] = "match" /\ \A d \in Clients : d # c => rtpc'[d] = rtpc[d]
      BY <1>1, <2>1, <3>1, Update, Zenon DEF LocalsOK, RtGoto
    <3>3. /\ cur' \in [Clients -> Slots] /\ cur'[c] = n
          /\ \A d \in Clients : d # c => cur'[d] = cur[d]
      BY <1>1, <2>1, Update, Zenon DEF LocalsOK
    <3>. QED  BY <1>1, <2>1, <3>2, <3>3, Zenon DEF LocalsOK, SameBut, Same
  <2>2. CASE /\ n \notin Slots /\ op[c] = "add" /\ RtGoto(c, "insert")
             /\ arg' = arg /\ cur' = cur /\ nxt' = nxt /\ op' = op /\ solid' = solid /\ lost' = lost
    <3>1. "insert" \in Places
      BY DEF Places
    <3>. QED  BY <1>1, <2>2, <3>1, GotoFacts, Zenon
  <2>3. CASE /\ n \notin Slots /\ Return(c) /\ lost' = (lost \/ c \in solid) /\ solid' = solid \ {c}
    BY <1>1, <2>3, ReturnFacts, Zenon
  <2>. QED  BY <1>5, <2>1, <2>2, <2>3, Zenon
<1>7. GhostsOK' /\ solid' \in SUBSET Clients /\ solid' \subseteq solid \cup {c}
  <2>1. solid' \in SUBSET Clients /\ solid' \subseteq solid \cup {c}
    BY <1>1, <1>6 DEF GhostsOK
  <2>2. lost' \in BOOLEAN
    <3>1. lost \in BOOLEAN
      BY <1>1, Zenon DEF GhostsOK
    <3>. QED  BY <1>6, <3>1, Zenon
  <2>. QED  BY <1>1, <1>2, <2>1, <2>2, Zenon DEF GhostsOK
<1>8. /\ Outside(c)' /\ (rtpc'[c] = "match" => Walking(c)' /\ rtpc'[c] # "follow")
      /\ (Walking(c) \/ rtpc[c] = "insert")' => rtpc'[c] # "idle"
  BY <1>6, NextPlaceFacts, Zenon
<1>9. (Walking(c) \/ rtpc[c] = "insert")' => arg'[c] \in Ids
  BY <1>3, <1>6, <1>8, Zenon
<1>10. TableOK' /\ NextOK' /\ Holds' /\ Counted' /\ Acyclic' /\ LockOK' /\ Settled' = Settled
  BY <1>2, <1>3, <1>6, <1>8, <1>9, WalkStep, Zenon
<1>11. ASSUME ~removed' PROVE Grown'
  <2>1. Grown
    BY <1>1, <1>2, <1>11, Zenon
  <2>2. ASSUME c \in solid
        PROVE  /\ n \in Slots /\ Finds(n, arg[c]) /\ op[c] = "find"
               /\ \A d \in Clients : rtpc[d] = "settle" => n # cur[d]
    <3>1. Finds(cur[c], arg[c]) /\ table[cur[c]].id # arg[c] /\ op[c] = "find"
      BY <1>2, <2>1, <2>2, Zenon DEF Grown, OnItsWay
    <3>2. \A d \in Clients : rtpc[d] = "settle" => OffTheWay(cur[d]) /\ cur[c] # cur[d]
      BY <2>1, <2>2, Zenon DEF Grown, Inserts, OffTheWay
    <3>3. cur[c] \in Settled
      BY <1>4, <3>2, Zenon DEF Settled
    <3>4. table[cur[c]].next \in Slots /\ Finds(table[cur[c]].next, arg[c])
      BY <1>1, <1>4, <3>1, <3>3, FindsNext, Zenon DEF NextOK
    <3>5. ASSUME NEW d \in Clients, rtpc[d] = "settle" PROVE table[cur[c]].next # cur[d]
      <4>1. cur[c] \in Slots \ {cur[d]}
        BY <1>4, <3>2, <3>5, Zenon
      <4>. QED  BY <3>2, <3>5, <4>1, Zenon DEF OffTheWay
    <3>. QED  BY <3>1, <3>4, <3>5, Zenon DEF n
  <2>3. c \in solid' => rtpc'[c] = "match" /\ c \in solid /\ cur'[c] = n /\ arg' = arg /\ op' = op
    <3>1. n \notin Slots => c \notin solid
      BY <2>2, Zenon
    <3>2. c \in solid' => c \in solid
      BY <1>6
    <3>. QED  BY <1>6, <3>1, <3>2, Zenon
  <2>4. c \in solid' => /\ Walking(c)' /\ op'[c] = "find" /\ Finds(cur'[c], arg'[c])
                        /\ rtpc'[c] = "follow" => table[cur'[c]].id # arg'[c]
                        /\ \A d \in Clients : d # c /\ rtpc[d] = "settle" => cur'[c] # cur[d]
    BY <1>8, <2>2, <2>3, Zenon
  <2>5. lost' => lost
    BY <1>6, <2>2, Zenon
  <2>6. lost' => rtCount > MaxIndex
    BY <2>1, <2>5, Zenon DEF Grown
  <2>. QED  BY <1>2, <1>6, <1>7, <1>8, <1>10, <2>1, <2>4, <2>6, GrownWalk, Zenon
<1>. QED  BY <1>6, <1>7, <1>10, <1>11, Kept, Zenon

-----------------------------------------------------------------------------
(***************************************************************************)
(* AddInRoutine                                                            *)
(***************************************************************************)
\* A store of the client that has the lock, or gets it or gives it back: what the others
\* have in hand stays.
LEMMA WriterStep ==
    ASSUME Inv, NEW c \in Clients, SameBut(c),
           \A d \in Clients : d # c => Outside(d) /\ lock' # d,
           InHand(c)', CountOf(c)', lock' \in {Free, Leaked} => rtCount' = Cardinality(Live')
    PROVE  /\ Holds' /\ Counted'
           /\ \A d \in Clients : d # c => /\ Outside(d)' /\ Inserts(d)'
                                          /\ Walking(d)' <=> Walking(d)
<1>1. ASSUME NEW d \in Clients, d # c
      PROVE  /\ Outside(d)' /\ Inserts(d)' /\ CountOf(d)' /\ InHand(d)'
             /\ Walking(d)' <=> Walking(d)
  <2>1. Outside(d) /\ lock' # d /\ Same(d) /\ InHand(d)
    BY <1>1, Zenon DEF SameBut, Inv, Holds
  <2>. QED  BY <2>1, LeftAlone, Zenon
<1>2. Holds'
  BY <1>1, Zenon DEF Holds
<1>3. Counted'
  BY <1>1, Zenon DEF Counted
<1>. QED  BY <1>1, <1>2, <1>3, Zenon

\* The same for a store before the first removal that leaves each lookup on its way.
LEMMA GrownWrite ==
    ASSUME Grown, NEW c \in Clients, SameBut(c), ~Walking(c), ~Removing(c)', Inserts(c)',
           \A d \in Clients : d # c => /\ Outside(d)' /\ Inserts(d)'
                                       /\ Walking(d)' <=> Walking(d),
           registered' = registered, solid' = solid, solid \in SUBSET Clients,
           lost' => rtCount' > MaxIndex,
           \A i \in Slots : table'[i].id = 0 => table'[i].next = -1,
           \A i \in Settled' : table'[i].next # -1 => table'[table'[i].next].id # 0,
           \A id \in registered : FoundIn(table', Hash(id), id),
           \A d \in solid : /\ FoundIn(table', cur[d], arg[d])
                            /\ table'[cur[d]].id = table[cur[d]].id
    PROVE  Grown'
<1>1. \A d \in Clients : ~Removing(d)' /\ Inserts(d)'
  BY Zenon DEF Outside
<1>2. ASSUME NEW d \in solid' PROVE OnItsWay(d)'
  <2>1. OnItsWay(d) /\ d \in Clients /\ d \in solid
    BY Zenon DEF Grown
  <2>2. d # c
    BY <2>1, Zenon DEF OnItsWay
  <2>3. Same(d) /\ (Walking(d)' <=> Walking(d))
    BY <2>1, <2>2, Zenon DEF SameBut
  <2>4. FoundIn(table', cur'[d], arg'[d])
    BY <2>1, <2>3, Zenon DEF Same
  <2>5. Finds(cur[d], arg[d])'
    BY <2>4, Zenon DEF Finds, FoundIn, Closed, ClosedIn
  <2>. QED  BY <2>1, <2>3, <2>5, Zenon DEF OnItsWay, Same
<1>3. \A id \in registered' : Finds(Hash(id), id)'
  BY FoundInNext, Zenon DEF Hash
<1>. QED  BY <1>1, <1>2, <1>3, Zenon DEF Grown

\* A walk that does not come by the slot k comes to its id whatever is stored there.
LEMMA AroundSlot ==
    ASSUME NEW k \in Slots, \A i \in Slots \ {k} : table'[i] = table[i] /\ table[i].next # k,
           NEW i, i # k, NEW id, Finds(i, id)
    PROVE  FoundIn(table', i, id)
<1>1. SUFFICES ASSUME NEW S \in SUBSET Slots, i \in S, ClosedIn(table', S, id)
               PROVE  \E j \in S : table'[j].id = id
  BY Zenon DEF FoundIn
<1>. DEFINE R == S \ {k}
<1>2. R \in SUBSET Slots /\ i \in R
  BY <1>1
<1>3. ASSUME NEW j \in R, table[j].id # id, table[j].next # -1 PROVE table[j].next \in R
  <2>1. j \in Slots \ {k} /\ j \in S
    OBVIOUS
  <2>2. table[j].next \in S /\ table[j].next # k
    BY <1>1, <1>3, <2>1, Zenon DEF ClosedIn
  <2>. QED  BY <2>2, Zenon
<1>4. PICK j \in R : table[j].id = id
  <2>. HIDE DEF R
  <2>. QED  BY <1>2, <1>3, Zenon DEF Finds, Closed
<1>5. j \in Slots \ {k} /\ j \in S
  OBVIOUS
<1>. QED  BY <1>4, <1>5, Zenon

\* The first free overflow slot is a free slot.
LEMMA FirstFreeFacts ==
    ASSUME FreeOverflow # {}
    PROVE  FirstFree \in Slots /\ table[FirstFree].id = 0
<1>1. FreeOverflow \in SUBSET Nat /\ FreeOverflow \in SUBSET Slots
  BY TableAssumption DEF FreeOverflow, Slots, MaxIndex
<1>2. \E i \in FreeOverflow : \A j \in FreeOverflow : i <= j
  BY <1>1, LeastNat, Zenon
<1>3. FirstFree \in FreeOverflow
  BY <1>2, Zenon DEF FirstFree
<1>. QED  BY <1>1, <1>3 DEF FreeOverflow

\* The entry AddInRoutine copies.
Put(c) == [id |-> arg[c], cpu |-> Cpu[arg[c]], pid |-> c, word28 |-> NameWord, next |-> Word]
LEMMA PutFacts ==
    ASSUME NEW c \in Clients, arg[c] \in Ids
    PROVE  Put(c) \in Entry /\ Put(c).id = arg[c]
<1>1. Cpu[arg[c]] \in Nat
  BY TableAssumption, Zenon
<1>. DEFINE v == Cpu[arg[c]]
<1>. HIDE DEF v
<1>. QED  BY <1>1 DEF Put, Entry, v

\* The slot of the new entry is free and not linked, and p is the end of the chain, if
\* the entry does not begin it.
Room(c, k, p) ==
    /\ k \in Slots /\ table[k].id = 0 /\ table[k].next = -1 /\ p \in Links /\ p # k
    /\ Grown => /\ p # -1 => table[p].next = -1 /\ table[p].id # 0
                /\ \A S \in SUBSET Slots :
                      Hash(arg[c]) \in S /\ k \notin S /\ Closed(S, arg[c])
                      => p \in S \/ \E j \in S : table[j].id = arg[c]

\* The entry is copied to such a slot.
LEMMA CopyInv ==
    ASSUME Inv, NEW c \in Clients, rtpc[c] = "insert", lock = Free, NEW k, NEW p, Room(c, k, p),
           CopyTo(c, k, p), rtCount' = rtCount, UNCHANGED rtGhosts
    PROVE  Inv'
<1>1. /\ TableOK /\ NextOK /\ LocalsOK /\ GhostsOK /\ Counted /\ Holds /\ InHand(c)
      /\ (~removed => Grown)
  BY Zenon DEF Inv, Holds
<1>2. /\ \A d \in Clients : Outside(d)
      /\ Settled = Slots /\ LinksIn(Slots) /\ NoLoopIn(Slots)
  BY NobodyInside, Zenon
<1>3. arg[c] \in Ids /\ arg[c] # 0 /\ ~Walking(c)
  BY <1>1, IdFacts, PlaceFacts, Zenon DEF InHand
<1>4. k \in Slots /\ table[k].id = 0 /\ table[k].next = -1 /\ p \in Links /\ p # k
  BY Zenon DEF Room
<1>5. /\ table' = [table EXCEPT ![k] = Put(c)] /\ arg' = arg /\ op' = op /\ lock' = c
      /\ registered' = registered /\ solid' = solid /\ lost' = lost
      /\ released' = released /\ adds' = adds /\ removed' = removed
  BY Zenon DEF CopyTo, Put, rtGhosts
<1>6. /\ table' \in [Slots -> Entry] /\ table'[k] = Put(c) /\ Put(c).id = arg[c]
      /\ \A i \in Slots : i # k => table'[i] = table[i]
  BY <1>1, <1>3, <1>4, <1>5, PutFacts, Update, Zenon DEF TableOK
<1>7. /\ rtpc' \in [Clients -> Places] /\ rtpc'[c] = "settle"
      /\ \A d \in Clients : d # c => rtpc'[d] = rtpc[d]
  <2>1. "settle" \in Places
    BY DEF Places
  <2>. QED  BY <1>1, <2>1, Update, Zenon DEF LocalsOK, CopyTo, RtGoto
<1>8. /\ cur' \in [Clients -> Slots] /\ cur'[c] = k
      /\ \A d \in Clients : d # c => cur'[d] = cur[d]
  BY <1>1, <1>4, Update, Zenon DEF LocalsOK, CopyTo
<1>9. /\ nxt' \in [Clients -> Links] /\ nxt'[c] = p
      /\ \A d \in Clients : d # c => nxt'[d] = nxt[d]
  BY <1>1, <1>4, Update, Zenon DEF LocalsOK, CopyTo
<1>10. LocalsOK' /\ SameBut(c)
  BY <1>1, <1>5, <1>7, <1>8, <1>9, Zenon DEF LocalsOK, SameBut, Same
<1>11. GhostsOK' /\ LockOK' /\ TableOK'
  BY <1>1, <1>5, <1>6, Zenon DEF GhostsOK, LockOK, TableOK
<1>12. Adding(c)' /\ ~Removing(c)' /\ ~Walking(c)'
  BY <1>7, NextPlaceFacts, Zenon
<1>13. InHand(c)'
  <2>1. /\ rtpc'[c] # "link" /\ rtpc'[c] # "relink"
        /\ rtpc'[c] \notin {"link", "relink", "clear", "unlink"}
    BY <1>7
  <2>2. table'[cur'[c]].id # 0 /\ nxt'[c] # cur'[c] /\ arg'[c] \in Ids
    BY <1>3, <1>4, <1>5, <1>6, <1>8, <1>9, Zenon
  <2>. QED  BY <1>5, <1>12, <2>1, <2>2, Zenon DEF InHand
<1>14. CountOf(c)'
  <2>1. table'[k].id # 0 /\ \A i \in Slots : i # k => table'[i].id = table[i].id
    BY <1>3, <1>6, Zenon
  <2>2. Live' = Live \cup {k} /\ k \notin Live /\ Live \in SUBSET Slots
    BY <1>4, <2>1 DEF Live
  <2>3. Cardinality(Live') = Cardinality(Live) + 1
    BY <1>4, <2>2, Counting, Zenon
  <2>4. rtCount = Cardinality(Live)
    BY <1>1, Zenon DEF Counted
  <2>5. rtCount' + 1 = Cardinality(Live')
    BY <2>3, <2>4, Zenon
  <2>6. rtpc'[c] \notin {"relink", "unlink", "uncount"} /\ rtpc'[c] # "clear"
    BY <1>7
  <2>. QED  BY <2>5, <2>6, Zenon DEF CountOf
<1>15. /\ Holds' /\ Counted'
       /\ \A d \in Clients : d # c => Outside(d)' /\ Inserts(d)' /\ (Walking(d)' <=> Walking(d))
  <2>1. lock' \notin {Free, Leaked} /\ \A d \in Clients : d # c => lock' # d
    BY <1>5, IdFacts, Zenon
  <2>. QED  BY <1>2, <1>10, <1>13, <1>14, <2>1, WriterStep, Zenon
<1>16. Settled' = Slots \ {k} /\ \A i \in Slots \ {k} : table'[i] = table[i]
  <2>1. Settled' = Slots \ {cur'[c]}
    BY <1>7, <1>15, SettledNext, Zenon
  <2>2. \A i \in Slots \ {k} : table'[i] = table[i]
    BY <1>6, Zenon
  <2>. QED  BY <1>8, <2>1, <2>2, Zenon
<1>17. NextOK'
  BY <1>1, <1>2, <1>16, Zenon DEF NextOK
<1>18. Acyclic'
  <2>1. NoLoopIn(Slots \ {k})
    BY <1>2, Zenon DEF NoLoopIn
  <2>2. Slots \ {k} \in SUBSET Slots
    OBVIOUS
  <2>. DEFINE D == Slots \ {k}
  <2>3. D \in SUBSET Slots /\ NoLoopIn(D) /\ \A i \in D : table'[i].next = table[i].next
    BY <1>16, <2>1, <2>2, Zenon
  <2>4. Settled' = D
    BY <1>16
  <2>. HIDE DEF D
  <2>5. NoLoopIn(D)'
    BY <2>3, LinksCut, Zenon
  <2>. QED  BY <2>4, <2>5, Zenon DEF Acyclic, NoLoopIn
<1>19. ASSUME ~removed' PROVE Grown'
  <2>1. Grown
    BY <1>1, <1>5, <1>19, Zenon
  <2>2. ASSUME NEW i \in Slots PROVE table[i].next # k
    <3>1. k # -1
      BY <1>4, SlotFacts, Zenon
    <3>. QED  BY <1>2, <1>4, <2>1, <3>1, Zenon DEF Grown
  <2>3. ASSUME NEW i, NEW id \in Ids, Finds(i, id) PROVE i # k /\ FoundIn(table', i, id)
    <3>1. i # k
      <4>1. {k} \in SUBSET Slots /\ k \in {k} /\ \A j \in {k} : j = k
        BY <1>4
      <4>2. id # 0
        BY IdFacts, Zenon
      <4>. QED  BY <1>4, <2>3, <4>1, <4>2, Zenon DEF Finds, Closed
    <3>2. \A j \in Slots \ {k} : table'[j] = table[j] /\ table[j].next # k
      BY <1>16, <2>2, Zenon
    <3>. QED  BY <1>4, <2>3, <3>1, <3>2, AroundSlot, Zenon
  <2>4. \A id \in registered : Hash(id) # k /\ FoundIn(table', Hash(id), id)
    BY <1>1, <2>1, <2>3, Zenon DEF Grown, GhostsOK
  <2>5. ASSUME NEW d \in solid
        PROVE  /\ cur[d] # k /\ FoundIn(table', cur[d], arg[d])
               /\ table'[cur[d]].id = table[cur[d]].id
    <3>1. d \in Clients /\ Finds(cur[d], arg[d]) /\ Walking(d) /\ cur[d] \in Slots
      BY <1>1, <2>1, Zenon DEF Grown, OnItsWay, GhostsOK, LocalsOK
    <3>2. arg[d] \in Ids
      BY <1>1, <3>1, Zenon DEF Holds, InHand
    <3>. QED  BY <1>6, <2>3, <3>1, <3>2, Zenon
  <2>6. c \notin solid
    BY <1>3, <2>1, Zenon DEF Grown, OnItsWay
  <2>7. \A d \in solid : cur'[d] # k
    BY <1>1, <1>8, <2>5, <2>6, Zenon DEF GhostsOK
  <2>8. OffTheWay(cur[c])'
    <3>1. \A i \in Slots \ {k} : table'[i].next # k
      BY <1>16, <2>2, Zenon
    <3>. QED  BY <1>5, <1>8, <2>4, <2>7, <3>1, Zenon DEF OffTheWay, Hash
  <2>9. Inserts(c)'
    <3>1. nxt'[c] # -1 => table'[nxt'[c]].next = -1 /\ table'[nxt'[c]].id # 0
      <4>1. p # -1 => p \in Slots
        BY <1>4, Zenon DEF Links
      <4>. QED  BY <1>4, <1>6, <1>9, <2>1, <4>1, Zenon DEF Room
    <3>2. table'[cur'[c]].id = arg'[c]
      BY <1>5, <1>6, <1>8, Zenon
    <3>3. ASSUME NEW S \in SUBSET Slots, Hash(arg[c]) \in S, ClosedIn(table', S, arg[c])
          PROVE  p \in S \/ \E j \in S : table'[j].id = arg[c]
      <4>1. CASE k \in S
        BY <1>6, <4>1, Zenon
      <4>2. CASE k \notin S
        <5>1. \A j \in S : table'[j] = table[j]
          BY <1>6, <4>2, Zenon
        <5>2. Closed(S, arg[c])
          BY <3>3, <5>1, Zenon DEF Closed, ClosedIn
        <5>. QED  BY <2>1, <3>3, <4>2, <5>1, <5>2, Zenon DEF Room
      <4>. QED  BY <4>1, <4>2
    <3>4. \A S \in SUBSET Slots : Hash(arg'[c]) \in S /\ ClosedIn(table', S, arg'[c]) =>
             \/ \E j \in S : table'[j].id = arg'[c]
             \/ rtpc'[c] # "count" /\ nxt'[c] \in S
      <4>1. rtpc'[c] # "count"
        BY <1>7
      <4>. QED  BY <1>5, <1>9, <3>3, <4>1, Zenon
    <3>. QED  BY <2>8, <3>1, <3>2, <3>4, Zenon DEF Inserts, Closed, ClosedIn, Hash
  <2>10. \A i \in Slots : table'[i].id = 0 => table'[i].next = -1
    BY <1>3, <1>6, <2>1, Zenon DEF Grown
  <2>11. ASSUME NEW i \in Settled', table'[i].next # -1 PROVE table'[table'[i].next].id # 0
    <3>1. i \in Slots /\ table'[i].next = table[i].next /\ i \in Settled
      BY <1>2, <1>16, Zenon
    <3>2. table[i].next \in Slots
      BY <1>2, <2>11, <3>1, Zenon DEF LinksIn
    <3>3. table[table[i].next].id # 0
      BY <2>1, <2>11, <3>1, Zenon DEF Grown
    <3>. QED  BY <1>6, <2>2, <3>1, <3>2, <3>3, Zenon
  <2>12. lost' => rtCount' > MaxIndex
    BY <1>5, <2>1, Zenon DEF Grown
  <2>13. solid \in SUBSET Clients
    BY <1>1, Zenon DEF GhostsOK
  <2>. QED  BY <1>3, <1>5, <1>10, <1>12, <1>15, <2>1, <2>4, <2>5, <2>9, <2>10, <2>11, <2>12, <2>13,
               GrownWrite, Zenon
<1>. QED  BY <1>10, <1>11, <1>15, <1>17, <1>18, <1>19, Kept, Zenon

\* Lock, walk and copy: there is room where the walk ends, or in the first free overflow
\* slot behind it; otherwise nothing is done.
LEMMA AddInv ==
    ASSUME Inv, NEW c \in Clients, AddInRoutine(c)
    PROVE  Inv'
<1>. DEFINE h == Hash(arg[c])
            e == ChainEnd(h)
<1>1. LocalsOK /\ GhostsOK /\ InHand(c) /\ (~removed => Grown)
  BY Zenon DEF Inv, Holds
<1>2. rtpc[c] = "insert" /\ lock = Free /\ rtCount' = rtCount /\ UNCHANGED rtGhosts
  BY Zenon DEF AddInRoutine
<1>3. Settled = Slots /\ LinksIn(Slots) /\ NoLoopIn(Slots)
  BY <1>2, NobodyInside, Zenon
<1>4. arg[c] \in Ids /\ h \in Slots
  BY <1>1, <1>2, HashFacts, Zenon DEF InHand
<1>5. \/ EndsFree(e) /\ CopyTo(c, e.cur, -1)
      \/ /\ WantsOverflow(e) /\ FreeOverflow # {} /\ table[FirstFree].next = -1
         /\ CopyTo(c, FirstFree, e.prev)
      \/ AddFails(c, e)
  BY Zenon DEF AddInRoutine
<1>. HIDE DEF e, h
<1>6. /\ e.cur \in Links /\ e.prev \in Links
      /\ e.prev = -1 => e.cur = h
      /\ e.prev # -1 => table[e.prev].id # 0 /\ table[e.prev].next = e.cur
      /\ \A S \in SUBSET Slots :
            /\ h \in S
            /\ \A j \in S : table[j].id # 0 /\ table[j].next # -1 => table[j].next \in S
            => e.prev \in S \cup {-1}
  <2>1. e = ChainEnd(h)
    BY DEF e
  <2>. QED  BY <1>3, <1>4, <2>1, ChainEndFacts, Zenon
<1>7. e.cur >= 0 <=> e.cur \in Slots
  BY <1>6, SlotFacts, Zenon
<1>8. CASE EndsFree(e) /\ CopyTo(c, e.cur, -1)
  <2>1. e.cur \in Slots /\ table[e.cur].id = 0 /\ table[e.cur].next = -1
    BY <1>7, <1>8, Zenon DEF EndsFree
  <2>2. -1 \in Links /\ -1 # e.cur
    BY <2>1, SlotFacts, Zenon DEF Links
  <2>3. ASSUME Grown PROVE e.cur = h
    BY <1>3, <1>6, <2>1, <2>2, <2>3, SlotFacts, Zenon DEF Grown, Links
  <2>4. Room(c, e.cur, -1)
    BY <2>1, <2>2, <2>3, Zenon DEF Room, h
  <2>. QED  BY <1>2, <1>8, <2>4, CopyInv, Zenon
<1>9. CASE /\ WantsOverflow(e) /\ FreeOverflow # {} /\ table[FirstFree].next = -1
           /\ CopyTo(c, FirstFree, e.prev)
  <2>1. FirstFree \in Slots /\ table[FirstFree].id = 0
    BY <1>9, FirstFreeFacts, Zenon
  <2>2. FirstFree # -1 /\ h # -1
    BY <1>4, <2>1, SlotFacts, Zenon
  <2>3. e.prev # FirstFree
    BY <1>6, <2>1, <2>2, Zenon
  <2>4. ASSUME Grown PROVE e.cur = -1 /\ e.prev # -1
    <3>1. e.cur \notin Slots
      BY <1>7, <1>9, <2>4, Zenon DEF WantsOverflow, Grown
    <3>. QED  BY <1>4, <1>6, <3>1, Zenon DEF Links
  <2>5. ASSUME Grown, NEW S \in SUBSET Slots, h \in S, Closed(S, arg[c]),
               ~\E j \in S : table[j].id = arg[c]
        PROVE  e.prev \in S
    <3>1. \A j \in S : table[j].id # 0 /\ table[j].next # -1 => table[j].next \in S
      BY <2>5, Zenon DEF Closed
    <3>2. e.prev \in S \cup {-1}
      BY <1>6, <2>5, <3>1, Zenon
    <3>. QED  BY <2>4, <2>5, <3>2, Zenon
  <2>6. Room(c, FirstFree, e.prev)
    BY <1>6, <1>9, <2>1, <2>3, <2>4, <2>5, Zenon DEF Room, h
  <2>. QED  BY <1>2, <1>9, <2>6, CopyInv, Zenon
<1>10. CASE AddFails(c, e)
  <2>1. Return(c) /\ table' = table /\ lock' = lock
    BY <1>10, Zenon DEF AddFails
  <2>2. LocalsOK' /\ rtpc'[c] = "idle" /\ SameBut(c)
    BY <1>1, <2>1, ReturnFacts, Zenon
  <2>3. Outside(c) /\ ~Walking(c) /\ Outside(c)' /\ ~Walking(c)' /\ rtpc'[c] # "insert"
    BY <1>2, <2>2, PlaceFacts, NextPlaceFacts, Zenon
  <2>4. /\ registered' = registered /\ solid' = solid /\ lost' = lost
        /\ released' = released /\ adds' = adds /\ removed' = removed
    BY <1>2, Zenon DEF rtGhosts
  <2>5. GhostsOK'
    BY <1>1, <2>4, Zenon DEF GhostsOK
  <2>6. TableOK' /\ NextOK' /\ Holds' /\ Counted' /\ Acyclic' /\ LockOK' /\ Settled' = Settled
    BY <1>2, <2>1, <2>2, <2>3, WalkStep, Zenon
  <2>7. ASSUME ~removed' PROVE Grown'
    <3>1. Grown
      BY <1>1, <2>4, <2>7, Zenon
    <3>2. c \notin solid'
      BY <2>3, <2>4, <3>1, Zenon DEF Grown, OnItsWay
    <3>3. solid' \in SUBSET Clients /\ solid' \subseteq solid \cup {c}
      BY <1>1, <2>4 DEF GhostsOK
    <3>4. lost' => rtCount > MaxIndex
      BY <2>4, <3>1, Zenon DEF Grown
    <3>. QED  BY <1>2, <2>1, <2>2, <2>3, <2>4, <2>6, <3>1, <3>2, <3>3, <3>4, GrownWalk, Zenon
  <2>. QED  BY <2>2, <2>5, <2>6, <2>7, Kept, Zenon
<1>. QED  BY <1>5, <1>8, <1>9, <1>10, Zenon

\* A record whose link, or whose id, is replaced.
LEMMA Relinked ==
    ASSUME NEW r \in Entry
    PROVE  /\ \A n \in Links : /\ [r EXCEPT !.next = n] \in Entry
                               /\ [r EXCEPT !.next = n].next = n /\ [r EXCEPT !.next = n].id = r.id
           /\ [r EXCEPT !.id = 0] \in Entry
           /\ [r EXCEPT !.id = 0].id = 0 /\ [r EXCEPT !.id = 0].next = r.next
  BY DEF Entry, Links

\* The link of the slot k is set to n.
LEMMA LinkFacts ==
    ASSUME TableOK, NEW k \in Slots, NEW n \in Links, table' = [table EXCEPT ![k].next = n]
    PROVE  /\ table' \in [Slots -> Entry] /\ table'[k].next = n /\ Live' = Live
           /\ \A i \in Slots : table'[i].id = table[i].id
           /\ \A i \in Slots : i # k => table'[i] = table[i]
<1>. DEFINE v == [table[k] EXCEPT !.next = n]
<1>1. table[k] \in Entry
  BY EntryFacts, Zenon
<1>2. v \in Entry /\ v.next = n /\ v.id = table[k].id
  BY <1>1, Relinked, Zenon
<1>3. table' = [table EXCEPT ![k] = v]
  OBVIOUS
<1>. HIDE DEF v
<1>4. /\ table' \in [Slots -> Entry] /\ table'[k] = v
      /\ \A i \in Slots : i # k => table'[i] = table[i]
  <2>1. table \in [Slots -> Entry] /\ k \in Slots /\ v \in Entry
    BY <1>2, Zenon DEF TableOK
  <2>. QED  BY ONLY <1>3, <2>1, Update, Zenon
<1>5. \A i \in Slots : table'[i].id = table[i].id
  BY <1>2, <1>4, Zenon
<1>6. Live' = Live
  BY <1>5, Zenon DEF Live
<1>. QED  BY <1>2, <1>4, <1>5, <1>6, Zenon

\* The insertion goes on, with the lock, to the place s.
LEMMA AddGoesOn ==
    ASSUME Inv, NEW c \in Clients, Adding(c), NEW s \in {"link", "count"}, RtGoto(c, s),
           rtCount' = rtCount, lock' = lock, UNCHANGED walkVars, UNCHANGED rtGhosts, Live' = Live,
           \A i \in Slots : table'[i].id = table[i].id,
           s = "link" => table'[cur[c]].next = -1 /\ nxt[c] \in Slots \ {cur[c]}
    PROVE  /\ LocalsOK' /\ GhostsOK' /\ LockOK' /\ Holds' /\ Counted' /\ SameBut(c)
           /\ rtpc'[c] = s /\ cur' = cur /\ nxt' = nxt /\ arg' = arg /\ Settled' = Slots
           /\ ~Walking(c) /\ ~Removing(c)' /\ removed' = removed /\ registered' = registered
           /\ solid' = solid /\ lost' = lost /\ solid \in SUBSET Clients /\ arg[c] \in Ids
           /\ \A d \in Clients : d # c => Outside(d)' /\ Inserts(d)' /\ (Walking(d)' <=> Walking(d))
<1>1. LocalsOK /\ GhostsOK /\ LockOK /\ InHand(c) /\ CountOf(c) /\ cur[c] \in Slots
  BY Zenon DEF Inv, Holds, Counted, LockOK, LocalsOK
<1>2. lock = c /\ \A d \in Clients : d # c => Outside(d)
  BY OthersOutside, Zenon
<1>3. /\ arg' = arg /\ cur' = cur /\ nxt' = nxt /\ op' = op
      /\ registered' = registered /\ solid' = solid /\ lost' = lost
      /\ released' = released /\ adds' = adds /\ removed' = removed
  BY Zenon DEF walkVars, rtGhosts
<1>4. LocalsOK' /\ rtpc'[c] = s /\ SameBut(c)
  <2>1. s \in Places
    BY DEF Places
  <2>. QED  BY <1>1, <1>3, <2>1, GotoFacts, Zenon
<1>5. GhostsOK' /\ LockOK' /\ solid \in SUBSET Clients
  BY <1>1, <1>3, Zenon DEF GhostsOK, LockOK
<1>6. Adding(c)' /\ ~Removing(c)' /\ ~Walking(c)' /\ ~Walking(c)
  <2>1. rtpc'[c] \in {"settle", "link", "count"} /\ rtpc[c] \in {"settle", "link", "count"}
    BY <1>4 DEF Adding
  <2>. QED  BY <2>1, PlaceFacts, NextPlaceFacts, Zenon
<1>7. /\ rtpc'[c] # "settle" /\ rtpc'[c] # "relink" /\ rtpc'[c] # "clear"
      /\ rtpc'[c] \in {"link", "relink", "clear", "unlink"} => s = "link"
      /\ rtpc'[c] \notin {"relink", "unlink", "uncount"}
  BY <1>4
<1>8. InHand(c)'
  BY <1>1, <1>2, <1>3, <1>4, <1>6, <1>7, Zenon DEF InHand
<1>9. CountOf(c)'
  BY <1>1, <1>6, <1>7, Zenon DEF CountOf
<1>10. lock' \notin {Free, Leaked} /\ \A d \in Clients : d # c => Outside(d) /\ lock' # d
  BY <1>2, IdFacts, Zenon
<1>11. /\ Holds' /\ Counted'
       /\ \A d \in Clients : d # c => Outside(d)' /\ Inserts(d)' /\ (Walking(d)' <=> Walking(d))
  BY <1>4, <1>8, <1>9, <1>10, WriterStep, Zenon
<1>12. Settled' = Slots
  BY <1>7, <1>11, SettledNext, Zenon
<1>. QED  BY <1>1, <1>3, <1>4, <1>5, <1>6, <1>11, <1>12, Zenon DEF InHand

\* The caller's word in the link of the new entry is replaced by the end of the chain.
LEMMA SettleInv ==
    ASSUME Inv, NEW c \in Clients, AddSettle(c)
    PROVE  Inv'
<1>. DEFINE k == cur[c]
            s == IF nxt[c] >= 0 THEN "link" ELSE "count"
<1>1. /\ TableOK /\ NextOK /\ LocalsOK /\ Acyclic /\ InHand(c) /\ (~removed => Grown)
      /\ k \in Slots /\ nxt[c] \in Links
  BY Zenon DEF Inv, Holds, LocalsOK
<1>2. /\ rtpc[c] = "settle" /\ table' = [table EXCEPT ![k].next = -1] /\ RtGoto(c, s)
      /\ rtCount' = rtCount /\ lock' = lock /\ UNCHANGED walkVars /\ UNCHANGED rtGhosts
  BY Zenon DEF AddSettle
<1>3. /\ nxt[c] # -1 <=> s = "link"
      /\ s \in {"link", "count"} /\ nxt[c] # k /\ (nxt[c] # -1 => nxt[c] \in Slots)
  <2>1. nxt[c] >= 0 <=> nxt[c] # -1
    BY <1>1, SlotFacts, Zenon DEF Links
  <2>. QED  BY <1>1, <1>2, <2>1, Zenon DEF InHand, Links
<1>. HIDE DEF k, s
<1>4. Adding(c) /\ ~Walking(c)
  BY <1>2, PlaceFacts, Zenon
<1>5. Settled = Slots \ {k}
  BY <1>2, <1>4, OthersOutside, Zenon DEF k
<1>6. /\ table' \in [Slots -> Entry] /\ table'[k].next = -1 /\ Live' = Live
      /\ \A i \in Slots : table'[i].id = table[i].id
      /\ \A i \in Slots : i # k => table'[i] = table[i]
  <2>1. -1 \in Links
    BY Zenon DEF Links
  <2>. QED  BY <1>1, <1>2, <2>1, LinkFacts, Zenon
<1>7. /\ LocalsOK' /\ GhostsOK' /\ LockOK' /\ Holds' /\ Counted' /\ SameBut(c)
      /\ rtpc'[c] = s /\ cur' = cur /\ nxt' = nxt /\ arg' = arg /\ Settled' = Slots
      /\ ~Walking(c) /\ ~Removing(c)' /\ removed' = removed /\ registered' = registered
      /\ solid' = solid /\ lost' = lost /\ solid \in SUBSET Clients /\ arg[c] \in Ids
      /\ \A d \in Clients : d # c => Outside(d)' /\ Inserts(d)' /\ (Walking(d)' <=> Walking(d))
  <2>1. s = "link" => table'[cur[c]].next = -1 /\ nxt[c] \in Slots \ {cur[c]}
    BY <1>3, <1>6, Zenon DEF k
  <2>. QED  BY <1>2, <1>3, <1>4, <1>6, <2>1, AddGoesOn, Zenon
<1>8. TableOK'
  BY <1>1, <1>2, <1>6, Zenon DEF TableOK
<1>9. NextOK'
  <2>1. \A i \in Slots : table'[i].next \in Links
    BY <1>1, <1>5, <1>6, Zenon DEF NextOK, Links
  <2>. QED  BY <1>7, <2>1, Zenon DEF NextOK
<1>10. Acyclic'
  <2>1. ASSUME NEW S \in SUBSET Slots, S # {} PROVE \E i \in S : table'[i].next \notin S
    <3>1. CASE k \in S
      BY <1>6, <3>1, SlotFacts, Zenon
    <3>2. CASE k \notin S
      <4>1. S \in SUBSET (Slots \ {k})
        BY <3>2
      <4>2. PICK i \in S : table[i].next \notin S
        BY <1>1, <1>5, <2>1, <4>1, Zenon DEF Acyclic, NoLoopIn
      <4>3. table'[i] = table[i]
        BY <1>6, <3>2, <4>2, Zenon
      <4>. QED  BY <4>2, <4>3, Zenon
    <3>. QED  BY <3>1, <3>2
  <2>. QED  BY <1>7, <2>1, Zenon DEF Acyclic, NoLoopIn
<1>11. ASSUME ~removed' PROVE Grown'
  <2>1. Grown /\ Inserts(c)
    BY <1>1, <1>7, <1>11, Zenon DEF Grown
  <2>2. OffTheWay(k) /\ table[k].id = arg[c]
    BY <1>2, <1>4, <2>1, Zenon DEF Inserts, k
  <2>3. \A i \in Slots \ {k} : table'[i] = table[i] /\ table[i].next # k
    BY <1>6, <2>2, Zenon DEF OffTheWay
  <2>4. \A id \in registered : FoundIn(table', Hash(id), id)
    BY <1>1, <2>1, <2>2, <2>3, AroundSlot, Zenon DEF Grown, OffTheWay
  <2>5. ASSUME NEW d \in solid
        PROVE  FoundIn(table', cur[d], arg[d]) /\ table'[cur[d]].id = table[cur[d]].id
    <3>1. Finds(cur[d], arg[d]) /\ cur[d] # k /\ d \in Clients
      BY <1>7, <2>1, <2>2, Zenon DEF Grown, OnItsWay, OffTheWay
    <3>2. cur[d] \in Slots
      BY <1>1, <3>1, Zenon DEF LocalsOK
    <3>. QED  BY <1>1, <1>6, <2>3, <3>1, <3>2, AroundSlot, Zenon
  <2>6. Inserts(c)'
    <3>1. nxt'[c] # -1 => table'[nxt'[c]].next = -1 /\ table'[nxt'[c]].id # 0
      <4>1. rtpc[c] \in {"settle", "link"}
        BY <1>2
      <4>2. nxt[c] # -1 => table[nxt[c]].next = -1 /\ table[nxt[c]].id # 0
        BY <2>1, <4>1, Zenon DEF Inserts
      <4>. QED  BY <1>3, <1>6, <1>7, <4>2, Zenon
    <3>2. table'[cur'[c]].id = arg'[c] /\ rtpc'[c] # "settle"
      <4>1. rtpc'[c] # "settle"
        BY <1>3, <1>7
      <4>. QED  BY <1>1, <1>6, <1>7, <2>2, <4>1, Zenon DEF k
    <3>3. ASSUME NEW S \in SUBSET Slots, Hash(arg[c]) \in S, ClosedIn(table', S, arg[c])
          PROVE  \/ \E j \in S : table'[j].id = arg[c]
                 \/ rtpc'[c] # "count" /\ nxt[c] \in S
      <4>1. Closed(S, arg[c])
        BY <1>6, <2>2, <3>3, Zenon DEF Closed, ClosedIn
      <4>2. (\E j \in S : table[j].id = arg[c]) \/ nxt[c] \in S
        BY <1>4, <2>1, <3>3, <4>1, Zenon DEF Inserts
      <4>3. nxt[c] \in S => rtpc'[c] # "count"
        <5>1. nxt[c] \in S => s = "link"
          BY <1>3, SlotFacts, Zenon
        <5>. QED  BY <1>7, <5>1
      <4>. QED  BY <1>6, <4>2, <4>3, Zenon
    <3>. QED  BY <1>7, <3>1, <3>2, <3>3, Zenon DEF Inserts, Closed, ClosedIn, Hash
  <2>7. \A i \in Slots : table'[i].id = 0 => table'[i].next = -1
    BY <1>6, <2>1, Zenon DEF Grown
  <2>8. ASSUME NEW i \in Settled', table'[i].next # -1 PROVE table'[table'[i].next].id # 0
    <3>1. i \in Settled /\ table'[i] = table[i]
      BY <1>5, <1>6, <1>7, <2>8, Zenon
    <3>2. table[i].next \in Slots /\ table[table[i].next].id # 0
      BY <1>1, <2>1, <2>8, <3>1, Zenon DEF NextOK, Links, Grown
    <3>. QED  BY <1>6, <3>1, <3>2, Zenon
  <2>9. lost' => rtCount' > MaxIndex
    BY <1>2, <1>7, <2>1, Zenon DEF Grown
  <2>. QED  BY <1>7, <2>1, <2>4, <2>5, <2>6, <2>7, <2>8, <2>9, GrownWrite, Zenon
<1>. QED  BY <1>7, <1>8, <1>9, <1>10, <1>11, Kept, Zenon

\* The end of the chain is linked to the new entry, behind which nothing follows.
LEMMA LinkInv ==
    ASSUME Inv, NEW c \in Clients, AddLink(c)
    PROVE  Inv'
<1>. DEFINE k == cur[c]
            p == nxt[c]
<1>1. /\ TableOK /\ NextOK /\ LocalsOK /\ Acyclic /\ InHand(c) /\ (~removed => Grown)
      /\ k \in Slots
  BY Zenon DEF Inv, Holds, LocalsOK
<1>2. /\ rtpc[c] = "link" /\ table' = [table EXCEPT ![p].next = k] /\ RtGoto(c, "count")
      /\ rtCount' = rtCount /\ lock' = lock /\ UNCHANGED walkVars /\ UNCHANGED rtGhosts
  BY Zenon DEF AddLink
<1>3. p \in Slots /\ p # k /\ table[k].next = -1 /\ k # -1
  <2>1. rtpc[c] \in {"link", "relink", "clear", "unlink"}
    BY <1>2
  <2>2. p \in Slots \ {k} /\ table[k].next = -1
    BY <1>1, <1>2, <2>1, Zenon DEF InHand
  <2>. QED  BY <1>1, <2>2, SlotFacts, Zenon
<1>. HIDE DEF k, p
<1>4. Adding(c) /\ ~Walking(c) /\ rtpc[c] # "settle"
  BY <1>2, PlaceFacts, Zenon
<1>5. Settled = Slots /\ LinksIn(Slots) /\ NoLoopIn(Slots)
  BY <1>4, OthersOutside, Zenon
<1>6. /\ table' \in [Slots -> Entry] /\ table'[p].next = k /\ Live' = Live
      /\ \A i \in Slots : table'[i].id = table[i].id
      /\ \A i \in Slots : i # p => table'[i] = table[i]
  <2>1. k \in Links
    BY <1>1, Zenon DEF Links
  <2>. QED  BY <1>1, <1>2, <1>3, <2>1, LinkFacts, Zenon
<1>7. /\ LocalsOK' /\ GhostsOK' /\ LockOK' /\ Holds' /\ Counted' /\ SameBut(c)
      /\ rtpc'[c] = "count" /\ cur' = cur /\ nxt' = nxt /\ arg' = arg /\ Settled' = Slots
      /\ ~Walking(c) /\ ~Removing(c)' /\ removed' = removed /\ registered' = registered
      /\ solid' = solid /\ lost' = lost /\ solid \in SUBSET Clients /\ arg[c] \in Ids
      /\ \A d \in Clients : d # c => Outside(d)' /\ Inserts(d)' /\ (Walking(d)' <=> Walking(d))
  <2>1. "count" \in {"link", "count"} /\ "count" # "link"
    OBVIOUS
  <2>. QED  BY <1>2, <1>4, <1>6, <2>1, AddGoesOn, Zenon
<1>8. TableOK'
  BY <1>1, <1>2, <1>6, Zenon DEF TableOK
<1>9. NextOK'
  <2>1. \A i \in Slots : table'[i].next \in Links
    BY <1>1, <1>5, <1>6, Zenon DEF NextOK, Links
  <2>. QED  BY <1>7, <2>1, Zenon DEF NextOK
<1>10. Acyclic'
  <2>1. ASSUME NEW S \in SUBSET Slots, S # {} PROVE \E i \in S : table'[i].next \notin S
    <3>1. CASE k \in S
      <4>1. table'[k].next = -1
        BY <1>1, <1>3, <1>6, Zenon
      <4>. QED  BY <3>1, <4>1, SlotFacts, Zenon
    <3>2. CASE k \notin S /\ p \in S
      BY <1>6, <3>2, Zenon
    <3>3. CASE p \notin S
      <4>1. PICK i \in S : table[i].next \notin S
        BY <1>5, <2>1, Zenon DEF NoLoopIn
      <4>2. table'[i] = table[i]
        BY <1>6, <3>3, <4>1, Zenon
      <4>. QED  BY <4>1, <4>2, Zenon
    <3>. QED  BY <3>1, <3>2, <3>3
  <2>. QED  BY <1>7, <2>1, Zenon DEF Acyclic, NoLoopIn
<1>11. ASSUME ~removed' PROVE Grown'
  <2>1. Grown /\ Inserts(c)
    BY <1>1, <1>7, <1>11, Zenon DEF Grown
  <2>2. table[p].next = -1 /\ table[p].id # 0 /\ table[k].id = arg[c]
    <3>1. rtpc[c] \in {"settle", "link"} /\ p # -1
      BY <1>2, <1>3, SlotFacts, Zenon
    <3>. QED  BY <1>4, <2>1, <3>1, Zenon DEF Inserts, k, p
  <2>3. \A S \in SUBSET Slots : \A id : ClosedIn(table', S, id) => Closed(S, id)
    BY <1>6, <2>2, Zenon DEF ClosedIn, Closed
  <2>4. ASSUME NEW i, NEW id, Finds(i, id) PROVE FoundIn(table', i, id)
    BY <1>6, <2>3, <2>4, Zenon DEF Finds, FoundIn
  <2>5. \A id \in registered : FoundIn(table', Hash(id), id)
    BY <2>1, <2>4, Zenon DEF Grown
  <2>6. ASSUME NEW d \in solid
        PROVE  FoundIn(table', cur[d], arg[d]) /\ table'[cur[d]].id = table[cur[d]].id
    <3>1. Finds(cur[d], arg[d]) /\ d \in Clients
      BY <1>7, <2>1, Zenon DEF Grown, OnItsWay
    <3>2. cur[d] \in Slots
      BY <1>1, <3>1, Zenon DEF LocalsOK
    <3>. QED  BY <1>6, <2>4, <3>1, <3>2, Zenon
  <2>7. Inserts(c)'
    <3>1. rtpc'[c] \notin {"settle", "link"} /\ rtpc'[c] # "settle"
      BY <1>7
    <3>2. table'[cur'[c]].id = arg'[c]
      BY <1>1, <1>6, <1>7, <2>2, Zenon DEF k
    <3>3. ASSUME NEW S \in SUBSET Slots, Hash(arg[c]) \in S, ClosedIn(table', S, arg[c])
          PROVE  \E j \in S : table'[j].id = arg[c]
      <4>1. Closed(S, arg[c])
        BY <2>3, <3>3, Zenon
      <4>2. (\E j \in S : table[j].id = arg[c]) \/ p \in S
        BY <1>4, <2>1, <3>3, <4>1, Zenon DEF Inserts, p
      <4>3. CASE \E j \in S : table[j].id = arg[c]
        BY <1>6, <4>3, Zenon
      <4>4. CASE p \in S /\ table'[p].id # arg[c]
        <5>1. k \in S
          BY <1>3, <1>6, <3>3, <4>4, Zenon DEF ClosedIn
        <5>. QED  BY <1>1, <1>6, <2>2, <5>1, Zenon
      <4>. QED  BY <4>2, <4>3, <4>4, Zenon
    <3>. QED  BY <1>7, <3>1, <3>2, <3>3, Zenon DEF Inserts, Closed, ClosedIn, Hash
  <2>8. \A i \in Slots : table'[i].id = 0 => table'[i].next = -1
    BY <1>6, <2>1, <2>2, Zenon DEF Grown
  <2>9. ASSUME NEW i \in Settled', table'[i].next # -1 PROVE table'[table'[i].next].id # 0
    <3>1. CASE i = p
      <4>1. table[k].id # 0
        BY <1>7, <2>2, IdFacts, Zenon
      <4>. QED  BY <1>1, <1>6, <3>1, <4>1, Zenon
    <3>2. CASE i # p
      <4>1. i \in Slots /\ table'[i] = table[i]
        BY <1>6, <1>7, <3>2, Zenon
      <4>2. table[i].next \in Slots /\ table[table[i].next].id # 0
        BY <1>1, <1>5, <2>1, <2>9, <4>1, Zenon DEF NextOK, Links, Grown
      <4>. QED  BY <1>6, <4>1, <4>2, Zenon
    <3>. QED  BY <3>1, <3>2
  <2>10. lost' => rtCount' > MaxIndex
    BY <1>2, <1>7, <2>1, Zenon DEF Grown
  <2>. QED  BY <1>7, <2>1, <2>5, <2>6, <2>7, <2>8, <2>9, <2>10, GrownWrite, Zenon
<1>. QED  BY <1>7, <1>8, <1>9, <1>10, <1>11, Kept, Zenon

\* The entry is counted and its id is registered.
LEMMA AddCountInv ==
    ASSUME Inv, NEW c \in Clients, AddCount(c)
    PROVE  Inv'
<1>1. /\ TableOK /\ NextOK /\ LocalsOK /\ GhostsOK /\ Acyclic /\ InHand(c) /\ CountOf(c)
      /\ (~removed => Grown)
  BY Zenon DEF Inv, Holds, Counted
<1>2. /\ rtpc[c] = "count" /\ table' = table /\ rtCount' = rtCount + 1 /\ lock' = Free
      /\ registered' = registered \cup {arg[c]} /\ Return(c) /\ solid' = solid
      /\ lost' = lost /\ released' = released /\ adds' = adds /\ removed' = removed
  BY Zenon DEF AddCount
<1>3. Adding(c) /\ ~Walking(c) /\ rtpc[c] # "settle"
  BY <1>2, PlaceFacts, Zenon
<1>4. Settled = Slots /\ \A d \in Clients : d # c => Outside(d)
  BY <1>3, OthersOutside, Zenon
<1>5. LocalsOK' /\ rtpc'[c] = "idle" /\ SameBut(c)
  BY <1>1, <1>2, ReturnFacts, Zenon
<1>6. Outside(c)' /\ ~Walking(c)'
  BY <1>5, NextPlaceFacts, Zenon
<1>7. arg[c] \in Ids /\ GhostsOK'
  <2>1. arg[c] \in Ids
    BY <1>1, <1>3, Zenon DEF InHand
  <2>2. registered' \in SUBSET Ids
    BY <1>1, <1>2, <2>1 DEF GhostsOK
  <2>. QED  BY <1>1, <1>2, <2>1, <2>2, Zenon DEF GhostsOK
<1>8. Live' = Live /\ rtCount' = Cardinality(Live') /\ rtCount' \in 0 .. N
  <2>1. Live' = Live /\ Live \in SUBSET Slots
    <3>1. Live \in SUBSET Slots
      BY DEF Live
    <3>. QED  BY <1>2, <3>1, SameTable, Zenon
  <2>2. rtCount + 1 = Cardinality(Live)
    BY <1>1, <1>3, Zenon DEF CountOf
  <2>. QED  BY <1>2, <2>1, <2>2, Counting, Zenon
<1>9. InHand(c)' /\ CountOf(c)' /\ Inserts(c)' /\ \A d \in Clients : lock' # d
  <2>1. \A d \in Clients : lock' # d
    BY <1>2, IdFacts, Zenon
  <2>2. /\ rtpc'[c] # "settle" /\ rtpc'[c] # "link" /\ rtpc'[c] # "relink" /\ rtpc'[c] # "clear"
        /\ rtpc'[c] \notin {"relink", "unlink", "uncount"} /\ rtpc'[c] \notin {"settle", "link"}
        /\ rtpc'[c] \notin {"link", "relink", "clear", "unlink"} /\ rtpc'[c] # "insert"
    BY <1>5
  <2>. QED  BY <1>6, <2>1, <2>2, Zenon DEF InHand, CountOf, Inserts, Outside
<1>10. /\ Holds' /\ Counted'
       /\ \A d \in Clients : d # c => Outside(d)' /\ Inserts(d)' /\ (Walking(d)' <=> Walking(d))
  BY <1>4, <1>5, <1>8, <1>9, WriterStep, Zenon
<1>11. Settled' = Slots
  <2>1. rtpc'[c] # "settle"
    BY <1>5
  <2>. QED  BY <1>10, <2>1, SettledNext, Zenon
<1>12. TableOK' /\ NextOK' /\ LockOK' /\ Acyclic'
  BY <1>1, <1>2, <1>4, <1>8, <1>11, Zenon DEF TableOK, NextOK, LockOK, Acyclic, NoLoopIn
<1>13. ASSUME ~removed' PROVE Grown'
  <2>1. Grown /\ Inserts(c)
    BY <1>1, <1>2, <1>13, Zenon DEF Grown
  <2>2. Finds(Hash(arg[c]), arg[c])
    BY <1>2, <1>3, <2>1, Zenon DEF Inserts, Finds
  <2>3. \A id \in registered' : Finds(Hash(id), id)
    BY <1>2, <2>1, <2>2, Zenon DEF Grown
  <2>4. \A id \in registered' : Finds(Hash(id), id)'
    BY <1>2, <2>3, Zenon DEF Finds, Closed, Hash
  <2>5. ASSUME NEW d \in solid' PROVE OnItsWay(d)'
    <3>1. OnItsWay(d) /\ d \in Clients
      BY <1>1, <1>2, <2>1, Zenon DEF Grown, GhostsOK
    <3>2. d # c
      BY <1>3, <3>1, Zenon DEF OnItsWay
    <3>3. Same(d)
      BY <1>5, <3>1, <3>2, Zenon DEF SameBut
    <3>. QED  BY <1>2, <3>1, <3>3, Zenon DEF OnItsWay, Walking, Finds, Closed, Same
  <2>6. lost' => rtCount' > MaxIndex
    <3>1. rtCount \in Nat /\ MaxIndex \in Nat
      BY <1>1, SlotFacts DEF TableOK
    <3>2. rtCount > MaxIndex => rtCount + 1 > MaxIndex
      BY ONLY <3>1
    <3>. QED  BY <1>2, <2>1, <3>2, Zenon DEF Grown
  <2>7. \A d \in Clients : ~Removing(d)' /\ Inserts(d)'
    BY <1>6, <1>9, <1>10, Zenon DEF Outside
  <2>8. /\ \A i \in Slots : table'[i].id = 0 => table'[i].next = -1
        /\ \A i \in Settled' : table'[i].next # -1 => table'[table'[i].next].id # 0
    BY <1>2, <1>4, <1>11, <2>1, Zenon DEF Grown
  <2>. QED  BY <2>4, <2>5, <2>6, <2>7, <2>8, Zenon DEF Grown
<1>. QED  BY <1>5, <1>7, <1>10, <1>12, <1>13, Kept, Zenon

-----------------------------------------------------------------------------
(***************************************************************************)
(* RemoveRoutine                                                           *)
(***************************************************************************)
\* The id of the slot k is cleared.
LEMMA ClearFacts ==
    ASSUME TableOK, NEW k \in Slots, table' = [table EXCEPT ![k].id = 0]
    PROVE  /\ table' \in [Slots -> Entry] /\ table'[k].id = 0 /\ Live' = Live \ {k}
           /\ \A i \in Slots : table'[i].next = table[i].next
<1>. DEFINE v == [table[k] EXCEPT !.id = 0]
<1>1. table[k] \in Entry
  BY EntryFacts, Zenon
<1>2. v \in Entry /\ v.id = 0 /\ v.next = table[k].next
  BY <1>1, Relinked, Zenon
<1>3. table' = [table EXCEPT ![k] = v]
  OBVIOUS
<1>. HIDE DEF v
<1>4. /\ table' \in [Slots -> Entry] /\ table'[k] = v
      /\ \A i \in Slots : i # k => table'[i] = table[i]
  <2>1. table \in [Slots -> Entry] /\ k \in Slots /\ v \in Entry
    BY <1>2, Zenon DEF TableOK
  <2>. QED  BY ONLY <1>3, <2>1, Update, Zenon
<1>5. \A i \in Slots : table'[i].next = table[i].next
  BY <1>2, <1>4, Zenon
<1>6. table'[k].id = 0 /\ \A i \in Slots : i # k => table'[i].id = table[i].id
  BY <1>2, <1>4, Zenon
<1>7. Live' = Live \ {k}
  BY <1>6 DEF Live
<1>. QED  BY <1>4, <1>5, <1>6, <1>7, Zenon

\* The chains after a step with the lock, when every slot is settled and the links are
\* those of before or cut.
LEMMA LinksKept ==
    ASSUME Settled = Slots, Settled' = Slots, NextOK, Acyclic,
           \A i \in Slots : table'[i].next = table[i].next \/ table'[i].next = -1
    PROVE  NextOK' /\ Acyclic'
<1>1. NextOK'
  BY Zenon DEF NextOK, Links
<1>2. NoLoopIn(Slots) /\ Slots \in SUBSET Slots
  BY Zenon DEF Acyclic
<1>3. NoLoopIn(Slots)'
  BY <1>2, LinksCut, Zenon
<1>. QED  BY <1>1, <1>3, Zenon DEF Acyclic, NoLoopIn

\* The entry is located and its id cleared.
LEMMA RemoveInv ==
    ASSUME Inv, NEW c \in Clients, NEW id \in Ids, RemoveRoutine(c, id)
    PROVE  Inv'
<1>. DEFINE k == Locate(id)
            n == table[k].next
            s == IF n >= 0 THEN "relink" ELSE "uncount"
<1>1. TableOK /\ NextOK /\ LocalsOK /\ GhostsOK /\ Acyclic /\ Counted
  BY Zenon DEF Inv
<1>2. /\ rtpc[c] = "idle" /\ lock = Free /\ k >= 0 /\ lock' = c
      /\ cur' = [cur EXCEPT ![c] = k] /\ nxt' = [nxt EXCEPT ![c] = n]
      /\ table' = [table EXCEPT ![k].id = 0] /\ registered' = registered \ {id}
      /\ solid' = {d \in solid : arg[d] # id} /\ removed' = TRUE /\ RtGoto(c, s)
      /\ rtCount' = rtCount /\ arg' = arg /\ op' = op /\ lost' = lost /\ released' = released
      /\ adds' = adds
  BY Zenon DEF RemoveRoutine, Idle
<1>. HIDE DEF s, n, k
<1>3. /\ \A d \in Clients : Outside(d)
      /\ Settled = Slots /\ LinksIn(Slots) /\ NoLoopIn(Slots)
  BY <1>2, NobodyInside, Zenon
<1>4. k \in Slots /\ table[k].id = id /\ id # 0
  <2>1. Slots \in SUBSET Slots /\ Hash(id) \in Slots
    BY HashFacts, Zenon
  <2>2. k \in Slots \cup {-1} /\ (k # -1 => table[k].id = id)
    BY <1>3, <2>1, LocateFacts, Zenon DEF k
  <2>3. k # -1
    BY <1>2
  <2>. QED  BY <2>2, <2>3, IdFacts, Zenon
<1>5. /\ n \in Links /\ n # k
      /\ s \in {"relink", "uncount"} /\ (s = "relink" => n \in Slots)
  <2>1. n \in Links
    BY <1>3, <1>4, Zenon DEF LinksIn, Links, n
  <2>2. n # k
    <3>1. {k} \in SUBSET Slots /\ {k} # {} /\ \A j \in {k} : j = k
      BY <1>4
    <3>. QED  BY <1>3, <3>1, Zenon DEF NoLoopIn, n
  <2>3. n >= 0 => n \in Slots
    BY <2>1, SlotFacts, Zenon
  <2>4. s \in {"relink", "uncount"} /\ (s = "relink" => n >= 0)
    BY DEF s
  <2>. QED  BY <2>1, <2>2, <2>3, <2>4, Zenon
<1>6. /\ rtpc' \in [Clients -> Places] /\ rtpc'[c] = s
      /\ \A d \in Clients : d # c => rtpc'[d] = rtpc[d]
  <2>1. s \in Places
    BY <1>5 DEF Places
  <2>. QED  BY <1>1, <1>2, <2>1, Update, Zenon DEF LocalsOK, RtGoto
<1>7. /\ cur' \in [Clients -> Slots] /\ cur'[c] = k
      /\ \A d \in Clients : d # c => cur'[d] = cur[d]
  BY <1>1, <1>2, <1>4, Update, Zenon DEF LocalsOK
<1>8. /\ nxt' \in [Clients -> Links] /\ nxt'[c] = n
      /\ \A d \in Clients : d # c => nxt'[d] = nxt[d]
  BY <1>1, <1>2, <1>5, Update, Zenon DEF LocalsOK
<1>9. LocalsOK' /\ SameBut(c)
  BY <1>1, <1>2, <1>6, <1>7, <1>8, Zenon DEF LocalsOK, SameBut, Same
<1>10. GhostsOK' /\ LockOK'
  <2>1. registered' \in SUBSET Ids /\ solid' \in SUBSET Clients
    BY <1>1, <1>2 DEF GhostsOK
  <2>. QED  BY <1>1, <1>2, <2>1, Zenon DEF GhostsOK, LockOK
<1>11. /\ table' \in [Slots -> Entry] /\ table'[k].id = 0 /\ Live' = Live \ {k}
       /\ \A i \in Slots : table'[i].next = table[i].next
  BY <1>1, <1>2, <1>4, ClearFacts, Zenon
<1>12. TableOK'
  BY <1>1, <1>2, <1>11, Zenon DEF TableOK
<1>13. /\ Removing(c)' /\ ~Walking(c)' /\ ~Adding(c)' /\ rtpc'[c] # "settle" /\ rtpc'[c] # "link"
       /\ rtpc'[c] # "clear" /\ rtpc'[c] # "insert"
       /\ rtpc'[c] \in {"link", "relink", "clear", "unlink"} => s = "relink"
  <2>1. rtpc'[c] \in {"relink", "clear", "unlink", "uncount"}
    BY <1>5, <1>6
  <2>2. /\ rtpc'[c] # "settle" /\ rtpc'[c] # "link" /\ rtpc'[c] # "clear" /\ rtpc'[c] # "insert"
        /\ rtpc'[c] \in {"link", "relink", "clear", "unlink"} => s = "relink"
    BY <1>5, <1>6
  <2>. QED  BY <2>1, <2>2, NextPlaceFacts, Zenon
<1>14. InHand(c)'
  <2>1. table'[k].next = n
    BY <1>4, <1>11, Zenon DEF n
  <2>. QED  BY <1>2, <1>5, <1>6, <1>7, <1>8, <1>11, <1>13, <2>1, Zenon DEF InHand
<1>15. CountOf(c)'
  <2>1. k \in Live /\ Live \in SUBSET Slots
    BY <1>4 DEF Live
  <2>2. Cardinality(Live') = Cardinality(Live) - 1 /\ Cardinality(Live) \in 0 .. N
    BY <1>11, <2>1, Counting, Zenon
  <2>3. rtCount = Cardinality(Live)
    BY <1>1, <1>2, Zenon DEF Counted
  <2>4. rtCount' = Cardinality(Live') + 1
    BY <1>2, <2>2, <2>3
  <2>. QED  BY <1>13, <2>4, Zenon DEF CountOf
<1>16. /\ Holds' /\ Counted'
       /\ \A d \in Clients : d # c => Outside(d)'
  <2>1. lock' \notin {Free, Leaked} /\ \A d \in Clients : d # c => lock' # d
    BY <1>2, IdFacts, Zenon
  <2>. QED  BY <1>3, <1>9, <1>14, <1>15, <2>1, WriterStep, Zenon
<1>17. Settled' = Slots
  BY <1>13, <1>16, SettledNext, Zenon
<1>18. NextOK' /\ Acyclic'
  BY <1>1, <1>3, <1>11, <1>17, LinksKept, Zenon
<1>. QED  BY <1>2, <1>9, <1>10, <1>12, <1>16, <1>18, Kept, Zenon

\* The lock stays taken and nothing else is done.
LEMMA FaultsInv ==
    ASSUME Inv, NEW c \in Clients, NEW id \in Ids, RemoveFaults(c, id)
    PROVE  Inv'
<1>1. /\ TableOK /\ NextOK /\ LocalsOK /\ GhostsOK /\ Holds /\ Acyclic /\ Counted
      /\ (~removed => Grown)
  BY Zenon DEF Inv
<1>2. /\ lock = Free /\ lock' = Leaked /\ table' = table /\ rtCount' = rtCount
      /\ rtpc' = rtpc /\ arg' = arg /\ cur' = cur /\ nxt' = nxt /\ op' = op
      /\ registered' = registered /\ solid' = solid /\ lost' = lost
      /\ released' = released /\ adds' = adds /\ removed' = removed
  BY Zenon DEF RemoveFaults, tableVars, walkVars, rtGhosts
<1>3. \A d \in Clients : Outside(d) /\ lock' # d /\ Same(d)
  BY <1>2, NobodyInside, IdFacts, Zenon DEF Same
<1>4. \A d \in Clients : InHand(d)' /\ CountOf(d)' /\ Inserts(d)'
  BY <1>1, <1>3, LeftAlone, Zenon DEF Holds
<1>5. Live' = Live /\ Settled' = Settled
  BY <1>2, Zenon DEF Live, Settled
<1>6. Holds' /\ Counted'
  BY <1>1, <1>2, <1>4, <1>5, Zenon DEF Holds, Counted
<1>7. TableOK' /\ NextOK' /\ LocalsOK' /\ GhostsOK' /\ Acyclic' /\ LockOK'
  <2>1. TableOK' /\ LocalsOK' /\ GhostsOK' /\ LockOK'
    BY <1>1, <1>2, Zenon DEF TableOK, LocalsOK, GhostsOK, LockOK
  <2>2. NextOK' /\ Acyclic'
    BY <1>1, <1>2, <1>5, Zenon DEF NextOK, Acyclic, NoLoopIn
  <2>. QED  BY <2>1, <2>2
<1>8. ASSUME ~removed' PROVE Grown'
  <2>1. Grown
    BY <1>1, <1>2, <1>8, Zenon
  <2>2. \A d \in solid' : OnItsWay(d)'
    BY <1>2, <2>1, Zenon DEF Grown, OnItsWay, Walking, Finds, Closed
  <2>3. \A x \in registered' : Finds(Hash(x), x)'
    BY <1>2, <2>1, Zenon DEF Grown, Finds, Closed, Hash
  <2>4. /\ \A d \in Clients : ~Removing(d)' /\ Inserts(d)'
        /\ \A i \in Slots : table'[i].id = 0 => table'[i].next = -1
        /\ \A i \in Settled' : table'[i].next # -1 => table'[table'[i].next].id # 0
        /\ lost' => rtCount' > MaxIndex
    BY <1>2, <1>4, <1>5, <2>1, Zenon DEF Grown, Removing
  <2>. QED  BY <2>2, <2>3, <2>4, Zenon DEF Grown
<1>. QED  BY <1>6, <1>7, <1>8, Kept, Zenon

\* The removal goes on, with the lock, to the place s.
LEMMA RemoveGoesOn ==
    ASSUME Inv, NEW c \in Clients, Removing(c), NEW s \in {"clear", "unlink", "uncount"},
           RtGoto(c, s), rtCount' = rtCount, lock' = lock, UNCHANGED walkVars, UNCHANGED rtGhosts,
           s = "clear" => rtCount = Cardinality(Live' \ {nxt[c]}) + 1,
           s # "clear" => rtCount = Cardinality(Live') + 1,
           s # "uncount" => nxt[c] \in Slots \ {cur[c]}
    PROVE  LocalsOK' /\ GhostsOK' /\ LockOK' /\ Holds' /\ Counted' /\ Settled' = Slots /\ removed'
<1>1. LocalsOK /\ GhostsOK /\ LockOK /\ (~removed => Grown)
  BY Zenon DEF Inv, LockOK
<1>2. lock = c /\ \A d \in Clients : d # c => Outside(d)
  BY OthersOutside, Zenon
<1>3. /\ arg' = arg /\ cur' = cur /\ nxt' = nxt /\ op' = op
      /\ registered' = registered /\ solid' = solid /\ lost' = lost
      /\ released' = released /\ adds' = adds /\ removed' = removed
  BY Zenon DEF walkVars, rtGhosts
<1>4. removed'
  <2>1. ~Grown
    BY Zenon DEF Grown
  <2>. QED  BY <1>1, <1>3, <2>1, Zenon
<1>5. LocalsOK' /\ rtpc'[c] = s /\ SameBut(c)
  <2>1. s \in Places
    BY DEF Places
  <2>. QED  BY <1>1, <1>3, <2>1, GotoFacts, Zenon
<1>6. GhostsOK' /\ LockOK'
  BY <1>1, <1>3, Zenon DEF GhostsOK, LockOK
<1>7. Removing(c)' /\ ~Adding(c)' /\ ~Walking(c)'
  <2>1. rtpc'[c] \in {"relink", "clear", "unlink", "uncount"}
    BY <1>5
  <2>. QED  BY <2>1, NextPlaceFacts, Zenon
<1>8. /\ rtpc'[c] # "settle" /\ rtpc'[c] # "link" /\ rtpc'[c] # "relink" /\ rtpc'[c] # "insert"
      /\ rtpc'[c] \in {"link", "relink", "clear", "unlink"} => s # "uncount"
      /\ rtpc'[c] \in {"relink", "unlink", "uncount"} => s # "clear"
  BY <1>5
<1>9. InHand(c)'
  BY <1>2, <1>3, <1>7, <1>8, Zenon DEF InHand
<1>10. CountOf(c)'
  BY <1>3, <1>5, <1>7, <1>8, Zenon DEF CountOf
<1>11. Holds' /\ Counted' /\ \A d \in Clients : d # c => Outside(d)'
  <2>1. lock' \notin {Free, Leaked} /\ \A d \in Clients : d # c => lock' # d
    BY <1>2, IdFacts, Zenon
  <2>. QED  BY <1>2, <1>5, <1>9, <1>10, <2>1, WriterStep, Zenon
<1>12. Settled' = Slots
  BY <1>8, <1>11, SettledNext, Zenon
<1>. QED  BY <1>4, <1>5, <1>6, <1>11, <1>12, Zenon

\* A slot takes the link of the slot it is linked to: no loop comes of it.
LEMMA Shortcut ==
    ASSUME NoLoopIn(Slots), NEW k \in Slots, NEW x \in Slots, table[k].next = x,
           table'[k].next = table[x].next, \A i \in Slots : i # k => table'[i].next = table[i].next
    PROVE  NoLoopIn(Slots)'
<1>1. SUFFICES ASSUME NEW S \in SUBSET Slots, S # {} PROVE \E i \in S : table'[i].next \notin S
  BY Zenon DEF NoLoopIn
<1>2. CASE k \notin S
  <2>1. PICK i \in S : table[i].next \notin S
    BY <1>1, Zenon DEF NoLoopIn
  <2>. QED  BY <1>2, <2>1, Zenon
<1>3. CASE k \in S
  <2>. DEFINE R == S \cup {x}
  <2>1. R \in SUBSET Slots /\ R # {}
    OBVIOUS
  <2>2. PICK i \in R : table[i].next \notin R
    <3>. HIDE DEF R
    <3>. QED  BY <2>1, Zenon DEF NoLoopIn
  <2>3. i # k /\ i \in Slots /\ table[i].next \notin S
    BY <1>3, <2>2, Zenon
  <2>4. CASE i \in S
    BY <2>3, <2>4, Zenon
  <2>5. CASE i = x
    BY <1>3, <2>3, <2>5, Zenon
  <2>. QED  BY <2>2, <2>4, <2>5, Zenon
<1>. QED  BY <1>2, <1>3

\* The next entry is copied into the cleared slot: it is there twice.
LEMMA RelinkInv ==
    ASSUME Inv, NEW c \in Clients, RemoveRelink(c)
    PROVE  Inv'
<1>. DEFINE k == cur[c]
            x == nxt[c]
<1>1. /\ TableOK /\ NextOK /\ LocalsOK /\ InHand(c) /\ CountOf(c) /\ k \in Slots
  BY Zenon DEF Inv, Holds, Counted, LocalsOK
<1>2. /\ rtpc[c] = "relink" /\ table' = [table EXCEPT ![k] = table[x]] /\ RtGoto(c, "clear")
      /\ rtCount' = rtCount /\ lock' = lock /\ UNCHANGED walkVars /\ UNCHANGED rtGhosts
  BY Zenon DEF RemoveRelink
<1>3. x \in Slots /\ x # k /\ table[k].id = 0 /\ table[k].next = x
  <2>1. rtpc[c] \in {"link", "relink", "clear", "unlink"}
    BY <1>2
  <2>. QED  BY <1>1, <1>2, <2>1, Zenon DEF InHand
<1>. HIDE DEF k, x
<1>4. Removing(c) /\ rtpc[c] # "settle" /\ rtpc[c] \in {"relink", "unlink", "uncount"}
  BY <1>2, PlaceFacts, Zenon
<1>5. Settled = Slots /\ LinksIn(Slots) /\ NoLoopIn(Slots)
  BY <1>4, OthersOutside, Zenon
<1>6. /\ table' \in [Slots -> Entry] /\ table'[k] = table[x]
      /\ \A i \in Slots : i # k => table'[i] = table[i]
  <2>1. table \in [Slots -> Entry] /\ table[x] \in Entry
    BY <1>1, <1>3, EntryFacts, Zenon DEF TableOK
  <2>. QED  BY <1>1, <1>2, <2>1, Update, Zenon
<1>7. rtCount = Cardinality(Live' \ {x}) + 1
  <2>1. rtCount = Cardinality(Live) + 1
    BY <1>1, <1>4, Zenon DEF CountOf
  <2>2. k \notin Live /\ Live \in SUBSET Slots
    BY <1>3 DEF Live
  <2>3. \A i \in Slots : i # k => (i \in Live' <=> i \in Live)
    BY <1>6, Zenon DEF Live
  <2>4. k \in Live' <=> x \in Live
    BY <1>1, <1>3, <1>6, Zenon DEF Live
  <2>5. Live' \in SUBSET Slots
    BY DEF Live
  <2>6. CASE x \notin Live
    <3>1. Live' \ {x} = Live
      BY <1>3, <2>2, <2>3, <2>4, <2>5, <2>6
    <3>. QED  BY <2>1, <3>1, Zenon
  <2>7. CASE x \in Live
    <3>. DEFINE R == Live \ {x}
    <3>1. Live' \ {x} = R \cup {k}
      BY <1>1, <1>3, <2>2, <2>3, <2>4, <2>5, <2>7
    <3>2. R \in SUBSET Slots /\ k \notin R
      BY <2>2
    <3>3. Cardinality(R) = Cardinality(Live) - 1
      BY <2>2, <2>7, Counting, Zenon
    <3>. HIDE DEF R
    <3>4. Cardinality(R \cup {k}) = Cardinality(R) + 1
      BY <1>1, <3>2, Counting, Zenon
    <3>5. Cardinality(Live) \in 0 .. N /\ N \in Nat
      BY <2>2, Counting, SlotFacts, Zenon
    <3>6. Cardinality(R \cup {k}) = Cardinality(Live)
      BY <3>3, <3>4, <3>5
    <3>. QED  BY <2>1, <3>1, <3>6, Zenon
  <2>. QED  BY <2>6, <2>7
<1>8. LocalsOK' /\ GhostsOK' /\ LockOK' /\ Holds' /\ Counted' /\ Settled' = Slots /\ removed'
  <2>1. "clear" \in {"clear", "unlink", "uncount"} /\ "clear" # "uncount"
    OBVIOUS
  <2>2. nxt[c] \in Slots \ {cur[c]} /\ rtCount = Cardinality(Live' \ {nxt[c]}) + 1
    BY <1>3, <1>7, Zenon DEF k, x
  <2>. QED  BY <1>2, <1>4, <2>1, <2>2, RemoveGoesOn, Zenon
<1>9. TableOK'
  BY <1>1, <1>2, <1>6, Zenon DEF TableOK
<1>10. NextOK'
  <2>1. \A i \in Slots : table'[i].next \in Links
    BY <1>1, <1>3, <1>5, <1>6, Zenon DEF NextOK
  <2>. QED  BY <1>8, <2>1, Zenon DEF NextOK
<1>11. Acyclic'
  <2>1. NoLoopIn(Slots)'
    BY <1>1, <1>3, <1>5, <1>6, Shortcut, Zenon
  <2>. QED  BY <1>8, <2>1, Zenon DEF Acyclic, NoLoopIn
<1>. QED  BY <1>8, <1>9, <1>10, <1>11, Kept, Zenon

\* The id of the slot it came from is cleared.
LEMMA ClearInv ==
    ASSUME Inv, NEW c \in Clients, RemoveClear(c)
    PROVE  Inv'
<1>. DEFINE x == nxt[c]
<1>1. TableOK /\ NextOK /\ Acyclic /\ InHand(c) /\ CountOf(c)
  BY Zenon DEF Inv, Holds, Counted
<1>2. /\ rtpc[c] = "clear" /\ table' = [table EXCEPT ![x].id = 0] /\ RtGoto(c, "unlink")
      /\ rtCount' = rtCount /\ lock' = lock /\ UNCHANGED walkVars /\ UNCHANGED rtGhosts
  BY Zenon DEF RemoveClear
<1>3. x \in Slots \ {cur[c]} /\ rtCount = Cardinality(Live \ {x}) + 1
  <2>1. rtpc[c] \in {"link", "relink", "clear", "unlink"}
    BY <1>2
  <2>. QED  BY <1>1, <1>2, <2>1, Zenon DEF InHand, CountOf
<1>. HIDE DEF x
<1>4. Removing(c) /\ rtpc[c] # "settle"
  BY <1>2, PlaceFacts, Zenon
<1>5. Settled = Slots
  BY <1>4, OthersOutside, Zenon
<1>6. /\ table' \in [Slots -> Entry] /\ Live' = Live \ {x}
      /\ \A i \in Slots : table'[i].next = table[i].next
  BY <1>1, <1>2, <1>3, ClearFacts, Zenon
<1>7. LocalsOK' /\ GhostsOK' /\ LockOK' /\ Holds' /\ Counted' /\ Settled' = Slots /\ removed'
  <2>1. "unlink" \in {"clear", "unlink", "uncount"} /\ "unlink" # "clear"
    OBVIOUS
  <2>2. nxt[c] \in Slots \ {cur[c]} /\ rtCount = Cardinality(Live') + 1
    BY <1>3, <1>6, Zenon DEF x
  <2>. QED  BY <1>2, <1>4, <2>1, <2>2, RemoveGoesOn, Zenon
<1>8. TableOK' /\ NextOK' /\ Acyclic'
  BY <1>1, <1>2, <1>5, <1>6, <1>7, LinksKept, Zenon DEF TableOK
<1>. QED  BY <1>7, <1>8, Kept, Zenon

\* Its link is cut.
LEMMA UnlinkInv ==
    ASSUME Inv, NEW c \in Clients, RemoveUnlink(c)
    PROVE  Inv'
<1>. DEFINE x == nxt[c]
<1>1. TableOK /\ NextOK /\ Acyclic /\ InHand(c) /\ CountOf(c)
  BY Zenon DEF Inv, Holds, Counted
<1>2. /\ rtpc[c] = "unlink" /\ table' = [table EXCEPT ![x].next = -1] /\ RtGoto(c, "uncount")
      /\ rtCount' = rtCount /\ lock' = lock /\ UNCHANGED walkVars /\ UNCHANGED rtGhosts
  BY Zenon DEF RemoveUnlink
<1>3. x \in Slots /\ rtCount = Cardinality(Live) + 1
  <2>1. rtpc[c] \in {"link", "relink", "clear", "unlink"} /\ rtpc[c] \in {"relink", "unlink", "uncount"}
    BY <1>2
  <2>. QED  BY <1>1, <1>2, <2>1, Zenon DEF InHand, CountOf
<1>. HIDE DEF x
<1>4. Removing(c) /\ rtpc[c] # "settle"
  BY <1>2, PlaceFacts, Zenon
<1>5. Settled = Slots
  BY <1>4, OthersOutside, Zenon
<1>6. /\ table' \in [Slots -> Entry] /\ table'[x].next = -1 /\ Live' = Live
      /\ \A i \in Slots : i # x => table'[i] = table[i]
  <2>1. -1 \in Links
    BY Zenon DEF Links
  <2>. QED  BY <1>1, <1>2, <1>3, <2>1, LinkFacts, Zenon
<1>7. LocalsOK' /\ GhostsOK' /\ LockOK' /\ Holds' /\ Counted' /\ Settled' = Slots /\ removed'
  <2>1. /\ "uncount" \in {"clear", "unlink", "uncount"} /\ "uncount" # "clear"
        /\ rtCount = Cardinality(Live') + 1
    BY <1>3, <1>6
  <2>. QED  BY <1>2, <1>4, <2>1, RemoveGoesOn, Zenon
<1>8. TableOK' /\ NextOK' /\ Acyclic'
  <2>1. \A i \in Slots : table'[i].next = table[i].next \/ table'[i].next = -1
    BY <1>6, Zenon
  <2>. QED  BY <1>1, <1>2, <1>5, <1>6, <1>7, <2>1, LinksKept, Zenon DEF TableOK
<1>. QED  BY <1>7, <1>8, Kept, Zenon

\* The count goes down, and RemoveRoutine unlocks.
LEMMA RemoveCountInv ==
    ASSUME Inv, NEW c \in Clients, RemoveCount(c)
    PROVE  Inv'
<1>1. /\ TableOK /\ NextOK /\ LocalsOK /\ GhostsOK /\ Acyclic /\ CountOf(c)
      /\ (~removed => Grown)
  BY Zenon DEF Inv, Holds, Counted
<1>2. /\ rtpc[c] = "uncount" /\ table' = table /\ rtCount' = rtCount - 1 /\ lock' = Free
      /\ registered' = registered /\ solid' = solid /\ Return(c)
      /\ lost' = lost /\ released' = released /\ adds' = adds /\ removed' = removed
  BY Zenon DEF RemoveCount, rtGhosts
<1>3. Removing(c) /\ rtpc[c] # "settle" /\ rtpc[c] \in {"relink", "unlink", "uncount"}
  BY <1>2, PlaceFacts, Zenon
<1>4. removed'
  BY <1>1, <1>2, <1>3, Zenon DEF Grown
<1>5. Settled = Slots /\ \A d \in Clients : d # c => Outside(d)
  BY <1>3, OthersOutside, Zenon
<1>6. LocalsOK' /\ rtpc'[c] = "idle" /\ SameBut(c)
  BY <1>1, <1>2, ReturnFacts, Zenon
<1>7. Outside(c)' /\ ~Walking(c)'
  BY <1>6, NextPlaceFacts, Zenon
<1>8. Live' = Live /\ rtCount' = Cardinality(Live') /\ rtCount' \in 0 .. N
  <2>1. Live \in SUBSET Slots
    BY DEF Live
  <2>2. Live' = Live
    BY <1>2, SameTable, Zenon
  <2>3. rtCount = Cardinality(Live) + 1
    BY <1>1, <1>3, Zenon DEF CountOf
  <2>4. Cardinality(Live) \in 0 .. N /\ N \in Nat
    BY <2>1, Counting, SlotFacts, Zenon
  <2>5. rtCount - 1 = Cardinality(Live)
    BY <2>3, <2>4
  <2>. QED  BY <1>2, <2>2, <2>4, <2>5, Zenon
<1>9. InHand(c)' /\ CountOf(c)' /\ \A d \in Clients : lock' # d
  <2>1. \A d \in Clients : lock' # d
    BY <1>2, IdFacts, Zenon
  <2>2. /\ rtpc'[c] # "settle" /\ rtpc'[c] # "link" /\ rtpc'[c] # "relink" /\ rtpc'[c] # "clear"
        /\ rtpc'[c] \notin {"relink", "unlink", "uncount"} /\ rtpc'[c] # "insert"
        /\ rtpc'[c] \notin {"link", "relink", "clear", "unlink"}
    BY <1>6
  <2>. QED  BY <1>7, <2>1, <2>2, Zenon DEF InHand, CountOf, Outside
<1>10. Holds' /\ Counted' /\ \A d \in Clients : d # c => Outside(d)'
  BY <1>5, <1>6, <1>8, <1>9, WriterStep, Zenon
<1>11. Settled' = Slots
  <2>1. rtpc'[c] # "settle"
    BY <1>6
  <2>. QED  BY <1>10, <2>1, SettledNext, Zenon
<1>12. TableOK' /\ NextOK' /\ LockOK' /\ Acyclic' /\ GhostsOK'
  <2>1. TableOK' /\ LockOK' /\ GhostsOK'
    BY <1>1, <1>2, <1>8, Zenon DEF TableOK, LockOK, GhostsOK
  <2>2. NextOK' /\ Acyclic'
    BY <1>1, <1>2, <1>5, <1>11, Zenon DEF NextOK, Acyclic, NoLoopIn
  <2>. QED  BY <2>1, <2>2
<1>. QED  BY <1>4, <1>6, <1>10, <1>12, Kept, Zenon

-----------------------------------------------------------------------------
(***************************************************************************)
(* The sweeps                                                              *)
(***************************************************************************)
\* A sweep clears ids, counts them off, and leaves the clients where they are.
LEMMA SweepFacts ==
    ASSUME Inv, NEW gone, gone \subseteq Live, Sweep(gone), lock' = lock, rtpc' = rtpc,
           arg' = arg, cur' = cur, nxt' = nxt, op' = op
    PROVE  /\ TableOK' /\ NextOK' /\ LocalsOK' /\ LockOK' /\ Holds' /\ Counted' /\ Acyclic'
           /\ removed' = TRUE
<1>1. TableOK /\ NextOK /\ LocalsOK /\ Counted /\ Acyclic /\ Holds /\ LockOK
  BY Zenon DEF Inv, LockOK
<1>2. /\ lock = Free /\ rtCount' = rtCount - Cardinality(gone) /\ removed' = TRUE
      /\ table' = [i \in Slots |-> IF i \in gone THEN [table[i] EXCEPT !.id = 0] ELSE table[i]]
  BY Zenon DEF Sweep
<1>3. Settled = Slots /\ \A d \in Clients : Outside(d)
  BY <1>2, NobodyInside, Zenon
<1>4. ASSUME NEW i \in Slots
      PROVE  /\ (IF i \in gone THEN [table[i] EXCEPT !.id = 0] ELSE table[i]) \in Entry
             /\ i \in gone => table'[i].id = 0
             /\ i \notin gone => table'[i] = table[i]
             /\ table'[i].next = table[i].next
  <2>1. table[i] \in Entry
    BY <1>1, EntryFacts, Zenon
  <2>. QED  BY <1>2, <2>1, Relinked, Zenon
<1>5. table' \in [Slots -> Entry]
  BY <1>2, <1>4, Zenon
<1>6. Live' = Live \ gone
  BY <1>4, Zenon DEF Live
<1>7. rtCount' = Cardinality(Live') /\ Cardinality(Live') \in 0 .. N
  <2>1. Live \in SUBSET Slots /\ Live' \in SUBSET Slots /\ gone \in SUBSET Live
    BY <1>6 DEF Live
  <2>2. Cardinality(Live \ gone) = Cardinality(Live) - Cardinality(gone)
    BY <2>1, Counting, Zenon
  <2>3. rtCount = Cardinality(Live)
    BY <1>1, <1>2, Zenon DEF Counted
  <2>4. Cardinality(Live') \in 0 .. N
    BY <2>1, Counting, Zenon
  <2>. QED  BY <1>2, <1>6, <2>2, <2>3, <2>4, Zenon
<1>8. TableOK' /\ LocalsOK' /\ LockOK'
  BY <1>1, <1>5, <1>7, Zenon DEF TableOK, LocalsOK, LockOK
<1>9. Settled' = Slots
  BY <1>3, Zenon DEF Settled
<1>10. NextOK' /\ Acyclic'
  BY <1>1, <1>3, <1>4, <1>9, LinksKept, Zenon
<1>11. \A d \in Clients : Outside(d) /\ Same(d) /\ lock' # d
  BY <1>2, <1>3, IdFacts, Zenon DEF Same
<1>12. \A d \in Clients : InHand(d)' /\ CountOf(d)'
  BY <1>1, <1>11, LeftAlone, Zenon DEF Holds
<1>13. Holds' /\ Counted'
  BY <1>7, <1>12, Zenon DEF Holds, Counted
<1>. QED  BY <1>2, <1>8, <1>10, <1>13, Zenon

\* setCPUReset clears the routines of a processor.
LEMMA ResetInv ==
    ASSUME Inv, NEW cpu \in 0 .. 1, RoutineCleanupInCPUReset(cpu)
    PROVE  Inv'
<1>. DEFINE gone == {i \in Slots : table[i].id # 0 /\ table[i].cpu = cpu}
<1>1. /\ Sweep(gone) /\ registered' = {id \in registered : Cpu[id] # cpu}
      /\ solid' = {c \in solid : Cpu[arg[c]] # cpu} /\ lock' = lock /\ rtpc' = rtpc
      /\ arg' = arg /\ cur' = cur /\ nxt' = nxt /\ op' = op
      /\ lost' = lost /\ released' = released /\ adds' = adds
  BY Zenon DEF RoutineCleanupInCPUReset, walkVars
<1>2. gone \subseteq Live
  BY DEF Live
<1>. HIDE DEF gone
<1>3. /\ TableOK' /\ NextOK' /\ LocalsOK' /\ LockOK' /\ Holds' /\ Counted' /\ Acyclic'
      /\ removed' = TRUE
  BY <1>1, <1>2, SweepFacts, Zenon
<1>4. GhostsOK
  BY Zenon DEF Inv
<1>5. registered' \in SUBSET Ids /\ solid' \in SUBSET Clients
  BY <1>1, <1>4 DEF GhostsOK
<1>6. GhostsOK'
  BY <1>1, <1>3, <1>4, <1>5, Zenon DEF GhostsOK
<1>. QED  BY <1>3, <1>6, Kept, Zenon

\* cpu_comm_release clears what its client is recorded for.
LEMMA ReleaseInv ==
    ASSUME Inv, NEW c \in Clients, RemovePidRoutines(c)
    PROVE  Inv'
<1>. DEFINE gone == {i \in Slots : table[i].id # 0 /\ table[i].word28 = c}
<1>1. /\ Sweep(gone) /\ registered' = registered \ {table[i].id : i \in gone}
      /\ solid' = {d \in solid : arg[d] \in registered'} /\ lock' = lock /\ rtpc' = rtpc
      /\ arg' = arg /\ cur' = cur /\ nxt' = nxt /\ op' = op
      /\ lost' = lost /\ released' = released \cup {c} /\ adds' = adds
  BY Zenon DEF RemovePidRoutines, walkVars
<1>2. gone \subseteq Live
  BY DEF Live
<1>. HIDE DEF gone
<1>3. /\ TableOK' /\ NextOK' /\ LocalsOK' /\ LockOK' /\ Holds' /\ Counted' /\ Acyclic'
      /\ removed' = TRUE
  BY <1>1, <1>2, SweepFacts, Zenon
<1>4. GhostsOK
  BY Zenon DEF Inv
<1>5. registered' \in SUBSET Ids /\ solid' \in SUBSET Clients /\ released' \in SUBSET Clients
  BY <1>1, <1>4 DEF GhostsOK
<1>6. GhostsOK'
  BY <1>1, <1>3, <1>4, <1>5, Zenon DEF GhostsOK
<1>. QED  BY <1>3, <1>6, Kept, Zenon

-----------------------------------------------------------------------------
(***************************************************************************)
(* The theorems                                                            *)
(***************************************************************************)
\* InitCommMem leaves an empty table.
LEMMA RtInitInv == RtInit => Inv
<1>. SUFFICES ASSUME RtInit PROVE Inv
  OBVIOUS
<1>1. Empty \in Entry /\ Empty.id = 0 /\ Empty.next = -1
  BY DEF Empty, Entry, Links
<1>2. table = [i \in Slots |-> Empty] /\ \A i \in Slots : table[i] = Empty
  BY Zenon DEF RtInit
<1>3. table \in [Slots -> Entry]
  BY <1>1, <1>2, Zenon
<1>4. Live = {}
  BY <1>1, <1>2 DEF Live
<1>5. rtCount = 0 /\ Cardinality(Live) = 0 /\ 0 \in 0 .. N
  BY <1>4, SlotFacts, FS_EmptySet DEF RtInit
<1>6. 0 \in Slots /\ -1 \in Links /\ "idle" \in Places
  BY SlotFacts DEF Slots, Links, Places
<1>7. TableOK
  BY <1>3, <1>5, Zenon DEF TableOK
<1>8. LocalsOK
  BY <1>6 DEF LocalsOK, RtInit
<1>9. GhostsOK
  <2>1. 0 \in 0 .. MaxAdds
    BY TableAssumption
  <2>2. registered \in SUBSET Ids /\ solid \in SUBSET Clients /\ released \in SUBSET Clients
    BY DEF RtInit
  <2>. QED  BY <2>1, <2>2, Zenon DEF GhostsOK, RtInit
<1>10. \A c \in Clients : rtpc[c] = "idle"
  BY Zenon DEF RtInit
<1>11. \A c \in Clients : Outside(c) /\ ~Walking(c)
  BY <1>10, PlaceFacts, Zenon
<1>12. Settled = Slots
  <2>1. \A c \in Clients : rtpc[c] # "settle"
    BY <1>10
  <2>. QED  BY <2>1 DEF Settled
<1>13. NextOK /\ Acyclic
  BY <1>1, <1>2, <1>6, <1>12, SlotFacts, Zenon DEF NextOK, Acyclic, NoLoopIn
<1>14. lock = Free /\ lock \in Clients \cup {Free, Leaked} /\ \A c \in Clients : lock # c
  BY IdFacts, Zenon DEF RtInit
<1>15. ASSUME NEW c \in Clients PROVE InHand(c) /\ CountOf(c) /\ Inserts(c)
  <2>1. /\ rtpc[c] # "settle" /\ rtpc[c] # "link" /\ rtpc[c] # "relink" /\ rtpc[c] # "clear"
        /\ rtpc[c] \notin {"relink", "unlink", "uncount"} /\ rtpc[c] \notin {"settle", "link"}
        /\ rtpc[c] \notin {"link", "relink", "clear", "unlink"} /\ rtpc[c] # "insert"
    BY <1>10
  <2>. QED  BY <1>11, <1>14, <2>1, Zenon DEF InHand, CountOf, Inserts, Outside
<1>16. Holds /\ Counted
  BY <1>5, <1>15, Zenon DEF Holds, Counted
<1>17. Grown
  <2>1. registered = {} /\ solid = {} /\ ~lost
    BY Zenon DEF RtInit
  <2>2. \A i \in Slots : table[i].next = -1
    BY <1>1, <1>2, Zenon
  <2>3. \A c \in Clients : ~Removing(c) /\ Inserts(c)
    BY <1>11, <1>15, Zenon DEF Outside
  <2>. QED  BY <1>12, <2>1, <2>2, <2>3, Zenon DEF Grown
<1>. QED  BY <1>7, <1>8, <1>9, <1>13, <1>14, <1>16, <1>17, Zenon DEF Inv

\* Every step keeps the invariant.
LEMMA RtNextInv == Inv /\ [RtNext]_rtVars => Inv'
<1>. SUFFICES ASSUME Inv, [RtNext]_rtVars PROVE Inv'
  OBVIOUS
<1>1. ASSUME NEW c \in Clients, NEW id \in Ids, NEW o \in {"add", "find"}, FindRoutineEx(c, id, o)
      PROVE  Inv'
  BY <1>1, FindInv, Zenon
<1>2. ASSUME NEW c \in Clients, NEW id \in Ids,
             FindRefused(c, id) \/ RemoveRoutine(c, id) \/ RemoveFaults(c, id)
      PROVE  Inv'
  BY <1>2, RefusedInv, RemoveInv, FaultsInv, Zenon
<1>3. ASSUME NEW c \in Clients, FindMatch(c) \/ FindFollow(c) PROVE Inv'
  BY <1>3, MatchInv, FollowInv, Zenon
<1>4. ASSUME NEW c \in Clients, AddInRoutine(c) \/ AddSettle(c) \/ AddLink(c) \/ AddCount(c)
      PROVE  Inv'
  BY <1>4, AddInv, SettleInv, LinkInv, AddCountInv, Zenon
<1>5. ASSUME NEW c \in Clients,
             RemoveRelink(c) \/ RemoveClear(c) \/ RemoveUnlink(c) \/ RemoveCount(c)
      PROVE  Inv'
  BY <1>5, RelinkInv, ClearInv, UnlinkInv, RemoveCountInv, Zenon
<1>6. ASSUME NEW c \in Clients, RemovePidRoutines(c) PROVE Inv'
  BY <1>6, ReleaseInv, Zenon
<1>7. ASSUME NEW cpu \in 0 .. 1, RoutineCleanupInCPUReset(cpu) PROVE Inv'
  BY <1>7, ResetInv, Zenon
<1>8. CASE UNCHANGED rtVars
  <2>1. /\ table' = table /\ rtCount' = rtCount /\ lock' = lock /\ rtpc' = rtpc
        /\ arg' = arg /\ cur' = cur /\ nxt' = nxt /\ op' = op
        /\ registered' = registered /\ solid' = solid /\ lost' = lost
        /\ released' = released /\ adds' = adds /\ removed' = removed
    BY <1>8, Zenon DEF rtVars, tableVars, walkVars, rtGhosts
  <2>2. /\ TableOK /\ NextOK /\ LocalsOK /\ GhostsOK /\ LockOK /\ Holds /\ Counted /\ Acyclic
        /\ (~removed => Grown)
    BY Zenon DEF Inv, LockOK
  <2>3. TableOK' /\ LocalsOK' /\ GhostsOK' /\ LockOK'
    BY <2>1, <2>2, Zenon DEF TableOK, LocalsOK, GhostsOK, LockOK
  <2>4. Settled' = Settled /\ Live' = Live
    BY <2>1, Zenon DEF Settled, Live
  <2>5. NextOK' /\ Acyclic'
    BY <2>1, <2>2, <2>4, Zenon DEF NextOK, Acyclic, NoLoopIn
  <2>6. Holds'
    BY <2>1, <2>2, Zenon DEF Holds, InHand, Adding, Removing, Walking
  <2>7. Counted'
    BY <2>1, <2>2, <2>4, Zenon DEF Counted, CountOf, Adding
  <2>8. ASSUME Grown PROVE Grown'
    <3>1. \A d \in solid' : OnItsWay(d)'
      BY <2>1, <2>8, Zenon DEF Grown, OnItsWay, Walking, Finds, Closed
    <3>2. \A x \in registered' : Finds(Hash(x), x)'
      BY <2>1, <2>8, Zenon DEF Grown, Finds, Closed, Hash
    <3>3. \A d \in Clients : Inserts(d)'
      <4>1. ASSUME NEW d \in Clients PROVE Inserts(d)'
        <5>1. Inserts(d)
          BY <2>8, Zenon DEF Grown
        <5>2. rtpc'[d] = "settle" => OffTheWay(cur[d])'
          BY <2>1, <5>1, Zenon DEF Inserts, OffTheWay, Hash
        <5>. QED  BY <2>1, <5>1, <5>2, Zenon DEF Inserts, Adding, Closed, Hash
      <4>. QED  BY <4>1
    <3>4. /\ \A d \in Clients : ~Removing(d)'
          /\ \A i \in Slots : table'[i].id = 0 => table'[i].next = -1
          /\ \A i \in Settled' : table'[i].next # -1 => table'[table'[i].next].id # 0
          /\ lost' => rtCount' > MaxIndex
      BY <2>1, <2>4, <2>8, Zenon DEF Grown, Removing
    <3>. QED  BY <3>1, <3>2, <3>3, <3>4, Zenon DEF Grown
  <2>. QED  BY <2>1, <2>2, <2>3, <2>5, <2>6, <2>7, <2>8, Kept, Zenon
<1>. QED  BY <1>1, <1>2, <1>3, <1>4, <1>5, <1>6, <1>7, <1>8, Zenon DEF RtNext

\* The routine table has its type, its count and its chains through every store of
\* AddInRoutine and RemoveRoutine, every step of FindRoutineEx and both sweeps, with any
\* number of clients, ids and slots.
THEOREM RoutineInvariant == RtSpec => []RtIInv
  BY RtInitInv, RtNextInv, InvIsRtIInv, PTL DEF RtSpec

\* Links never leave the table, and its count stays between 0 and the number of slots.
THEOREM RoutineTypes == RtSpec => []RtTypeOK
<1>1. RtIInv => RtTypeOK
  BY Zenon DEF RtIInv
<1>. QED  BY <1>1, RoutineInvariant, PTL

\* RT_COUNT_OFF is the number of routines whenever spinlock 2 is free.
THEOREM CountExact == RtSpec => []CountAccurate
<1>1. RtIInv => CountAccurate
  BY Zenon DEF RtIInv, Counted, CountAccurate
<1>. QED  BY <1>1, RoutineInvariant, PTL

\* The while (1) loops of FindRoutineEx and RemoveRoutine never meet a loop of links.
THEOREM ChainsEnd == RtSpec => []ChainsAcyclic
<1>1. RtIInv => ChainsAcyclic
  BY Zenon DEF RtIInv
<1>. QED  BY <1>1, RoutineInvariant, PTL

\* Until the first removal every id AddInRoutine accepted is on its chain, and no lookup
\* misses an id that was there from its first step to its last.
THEOREM FoundUntilRemoval == RtSpec => []FindableUntilRemoval
<1>1. Inv => FindableUntilRemoval
  <2>. SUFFICES ASSUME Inv, ~removed
                PROVE  /\ \A id \in registered : Locate(id) >= 0
                       /\ lost => rtCount > MaxIndex
    BY Zenon DEF FindableUntilRemoval
  <2>1. NextOK /\ GhostsOK /\ Acyclic /\ Grown
    BY Zenon DEF Inv
  <2>2. Settled \in SUBSET Slots /\ NoLoopIn(Settled)
    <3>1. Settled \in SUBSET Slots
      BY DEF Settled
    <3>. QED  BY <2>1, <3>1, Zenon DEF Acyclic
  <2>3. \A c \in Clients : rtpc[c] = "settle" => OffTheWay(cur[c])
    BY <2>1, Zenon DEF Grown, Inserts
  <2>4. LinksIn(Settled)
    <3>1. ASSUME NEW i \in Settled, table[i].next # -1 PROVE table[i].next \in Settled
      <4>1. table[i].next \in Slots
        BY <2>1, <3>1, Zenon DEF NextOK, Links
      <4>2. ASSUME NEW c \in Clients, rtpc[c] = "settle" PROVE cur[c] # table[i].next
        <5>1. i \in Slots \ {cur[c]}
          BY <4>2 DEF Settled
        <5>. QED  BY <2>3, <4>2, <5>1, Zenon DEF OffTheWay
      <4>. QED  BY <4>1, <4>2, Zenon DEF Settled
    <3>. QED  BY <3>1, Zenon DEF LinksIn
  <2>5. ASSUME NEW id \in registered PROVE Locate(id) >= 0
    <3>1. id \in Ids /\ Finds(Hash(id), id) /\ Hash(id) \in Slots
      BY <2>1, HashFacts, Zenon DEF Grown, GhostsOK
    <3>2. Hash(id) \in Settled
      BY <2>3, <2>5, <3>1, Zenon DEF Settled, OffTheWay
    <3>3. Locate(id) \in Slots
      BY <2>2, <2>4, <3>1, <3>2, LocateFacts, Zenon
    <3>. QED  BY <3>3, SlotFacts, Zenon
  <2>6. lost => rtCount > MaxIndex
    BY <2>1, Zenon DEF Grown
  <2>. QED  BY <2>5, <2>6
<1>. QED  BY <1>1, RtInitInv, RtNextInv, PTL DEF RtSpec
=============================================================================
