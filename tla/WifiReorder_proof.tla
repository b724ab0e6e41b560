-------------------------- MODULE WifiReorder_proof --------------------------
(***************************************************************************)
(* The reorder buffer delivers in order, for every window and every ring   *)
(* of sequence numbers at least twice as large.                            *)
(*                                                                         *)
(* The code compares 12-bit numbers; the properties are about the          *)
(* unbounded ones.  The proof goes by an origin b: while every frame of    *)
(* the list lies within a window after b, comparing with SN_LESS is        *)
(* comparing the distances from b (LessIsLess), so the walk of             *)
(* reord_rxframes_process, the insertion of reord_rxframe_enqueue and the  *)
(* count of reord_rxframes_ind are those of plain integers (ProcessRun,    *)
(* EnqueueValue, UnitRun, WorkerRun).  That much needs the 12 bits only    *)
(* (InWindow).  That b is the number the peer meant needs the distance of  *)
(* what arrives (Stands, CarriedNear), and gives the order of delivery.    *)
(***************************************************************************)
EXTENDS WifiReorder, NaturalsInduction, WellFoundedInduction, TLAPS

-----------------------------------------------------------------------------
(* Numbers that wrap. *)

H == SnMod \div 2

\* The constants.
LEMMA RingFacts ==
    /\ SnMod \in Nat /\ H \in Nat /\ SnMod = 2 * H /\ H > 1
    /\ W \in Nat /\ W >= 1 /\ W + 2 <= H
    /\ NoSn \in Nat /\ NoSn >= SnMod
BY ReordAssumption DEF H, W, NoSn

\* A remainder, for numbers that are off by one turn at most.
LEMMA ModSmall ==
    ASSUME NEW x \in Int
    PROVE  /\ x % SnMod \in 0 .. SnMod - 1
           /\ 0 <= x /\ x < SnMod => x % SnMod = x
           /\ -SnMod <= x /\ x < 0 => x % SnMod = x + SnMod
           /\ SnMod <= x /\ x < 2 * SnMod => x % SnMod = x - SnMod
BY RingFacts

\* A remainder is what is left over from some multiple.
LEMMA Turns ==
    ASSUME NEW x \in Int
    PROVE  \E k \in Int : x = SnMod * k + (x % SnMod)
<1>1. SnMod \in Int /\ SnMod > 0
  BY RingFacts
<1>2. x \div SnMod \in Int
  BY <1>1
<1>3. x = SnMod * (x \div SnMod) + (x % SnMod)
  BY ONLY <1>1, x \in Int
<1>. QED  BY <1>2, <1>3

\* Only one remainder fits.
LEMMA OneRemainder ==
    ASSUME NEW x \in Int, NEW k \in Int, NEW r \in 0 .. SnMod - 1, x = SnMod * k + r
    PROVE  x % SnMod = r
<1>1. PICK m \in Int : x = SnMod * m + (x % SnMod)
  BY Turns
<1>2. PICK d \in Int : d = k - m
  OBVIOUS
<1>3. PICK r2 \in 0 .. SnMod - 1 : r2 = x % SnMod
  BY ModSmall
<1>4. SnMod * d = r2 - r
  <2>1. SnMod * (k - m) = SnMod * k - SnMod * m
    BY RingFacts
  <2>. QED  BY <1>1, <1>2, <1>3, <2>1, RingFacts
<1>5. SnMod > 0 /\ SnMod \in Nat
  BY RingFacts
<1>6. ~(d >= 1)
  <2>1. d >= 1 => SnMod * d >= SnMod
    BY <1>5
  <2>. QED  BY <1>4, <1>5, <2>1
<1>7. ~(d <= -1)
  <2>1. d <= -1 => SnMod * d <= -SnMod
    BY <1>5
  <2>. QED  BY <1>4, <1>5, <2>1
<1>8. d = 0
  BY <1>6, <1>7
<1>. QED  BY <1>3, <1>4, <1>5, <1>8

\* The distance of two numbers is the distance of what stands for them.
LEMMA SameDistance ==
    ASSUME NEW a \in Int, NEW b \in Int
    PROVE  /\ Ahead(Sn(a), Sn(b)) = (b - a) % SnMod
           /\ (b - Sn(a)) % SnMod = (b - a) % SnMod
           /\ Ahead(Sn(a), b % SnMod) = (b - a) % SnMod
<1>1. PICK ka \in Int : a = SnMod * ka + (a % SnMod)
  BY Turns
<1>2. PICK kb \in Int : b = SnMod * kb + (b % SnMod)
  BY Turns
<1>3. PICK kc \in Int : b - a = SnMod * kc + ((b - a) % SnMod)
  BY Turns
<1>4. PICK ra \in 0 .. SnMod - 1, rb \in 0 .. SnMod - 1, rc \in 0 .. SnMod - 1 :
        ra = a % SnMod /\ rb = b % SnMod /\ rc = (b - a) % SnMod
  BY ModSmall
<1>5. rb - ra = SnMod * (kc + ka - kb) + rc
  <2>1. SnMod * (kc + ka - kb) = SnMod * kc + SnMod * ka - SnMod * kb
    BY RingFacts
  <2>. QED  BY <1>1, <1>2, <1>3, <1>4, <2>1, RingFacts
<1>6. b - ra = SnMod * (kc + ka) + rc
  <2>1. SnMod * (kc + ka) = SnMod * kc + SnMod * ka
    BY RingFacts
  <2>. QED  BY <1>1, <1>2, <1>3, <1>4, <2>1, RingFacts
<1>7. (rb - ra) % SnMod = rc
  BY <1>5, OneRemainder
<1>8. (b - ra) % SnMod = rc
  BY <1>6, OneRemainder
<1>. QED  BY <1>4, <1>7, <1>8 DEF Ahead, Sn

\* What SN_LESS decides for two numbers less than half a turn apart.
LEMMA LessIsLess ==
    ASSUME NEW a \in Int, NEW b \in Int, b - a \in 1 - H .. H
    PROVE  /\ SN_LESS(Sn(a), Sn(b)) <=> a < b
           /\ Sn(a) = Sn(b) <=> a = b
<1>1. PICK d \in 1 - H .. H : d = b - a
  OBVIOUS
<1>2. SN_LESS(Sn(a), Sn(b)) <=> (a - b) % SnMod >= H
  BY SameDistance, Zenon DEF SN_LESS, Ahead, H
<1>3. PICK e \in -H .. H - 1 : e = a - b
  BY <1>1, RingFacts
<1>4. (e < 0 => e % SnMod = e + SnMod) /\ (e >= 0 => e % SnMod = e)
  <2>1. e \in Int /\ -SnMod <= e /\ e < SnMod
    BY RingFacts
  <2>. QED  BY <2>1, ModSmall
<1>5. SN_LESS(Sn(a), Sn(b)) <=> a < b
  BY <1>2, <1>3, <1>4, RingFacts
<1>6. Sn(a) = Sn(b) => a = b
  <2>1. Sn(a) = Sn(b) => (b - a) % SnMod = 0
    <3>1. Sn(a) \in 0 .. SnMod - 1
      BY ModSmall DEF Sn
    <3>2. Ahead(Sn(a), Sn(a)) = 0
      BY <3>1, RingFacts, ModSmall DEF Ahead
    <3>. QED  BY <3>2, SameDistance
  <2>2. d % SnMod = 0 => d = 0
    BY <1>1, RingFacts, ModSmall
  <2>. QED  BY <1>1, <2>1, <2>2
<1>. QED  BY <1>5, <1>6

\* Counting on from the remainder or from the number is the same.
LEMMA SnOfSum ==
    ASSUME NEW a \in Int, NEW d \in Int
    PROVE  Sn(Sn(a) + d) = Sn(a + d) /\ Sn(a) \in 0 .. SnMod - 1
<1>1. PICK ka \in Int : a = SnMod * ka + (a % SnMod)
  BY Turns
<1>. DEFINE c == a + d
<1>c. c \in Int /\ c - a = d
  OBVIOUS
<1>. HIDE DEF c
<1>2. PICK kc \in Int : c = SnMod * kc + (c % SnMod)
  BY <1>c, Turns
<1>3. PICK ra \in 0 .. SnMod - 1, rc \in 0 .. SnMod - 1 :
        ra = a % SnMod /\ rc = c % SnMod
  BY <1>c, ModSmall
<1>4. ra + d = SnMod * (kc - ka) + rc
  <2>1. SnMod * (kc - ka) = SnMod * kc - SnMod * ka
    BY RingFacts
  <2>2. PICK pc \in Int, pa \in Int : pc = SnMod * kc /\ pa = SnMod * ka
    BY RingFacts
  <2>3. a = pa + ra /\ c = pc + rc /\ SnMod * (kc - ka) = pc - pa
    BY <1>1, <1>2, <1>3, <2>1, <2>2, Zenon
  <2>4. ra \in Int /\ rc \in Int
    BY RingFacts
  <2>. QED  BY ONLY <1>c, <2>3, <2>4, a \in Int, d \in Int, pa \in Int, pc \in Int
<1>5. (ra + d) % SnMod = rc
  BY <1>4, OneRemainder
<1>. QED  BY <1>3, <1>5 DEF Sn, c


-----------------------------------------------------------------------------
(* Numbers and sequences. *)

\* A set of numbers has a least one.
LEMMA LeastNat ==
    ASSUME NEW T \in SUBSET Nat, T # {}
    PROVE  \E n \in T : \A m \in T : n <= m
<1>. DEFINE R == {ss \in Nat \X Nat : ss[1] < ss[2]}
<1>1. IsWellFoundedOn(R, Nat)
  BY NatLessThanWellFounded, Zenon DEF OpToRel
<1>2. \E n \in T : \A m \in T : <<m, n>> \notin R
  <2>. HIDE DEF R
  <2>. QED  BY <1>1, WFMin, Zenon
<1>3. PICK n \in T : \A m \in T : <<m, n>> \notin R
  BY <1>2
<1>4. ASSUME NEW m \in T PROVE n <= m
  <2>1. m \in Nat /\ n \in Nat
    OBVIOUS
  <2>2. m < n => <<m, n>> \in R
    <3>1. <<m, n>> \in Nat \X Nat /\ <<m, n>>[1] = m /\ <<m, n>>[2] = n
      BY <2>1
    <3>. QED  BY <3>1, Zenon
  <2>. HIDE DEF R
  <2>. QED  BY <1>3, <2>1, <2>2
<1>. QED  BY <1>4

\* Induction, on the set of the numbers that have the property.
LEMMA Induction ==
    ASSUME NEW T \in SUBSET Nat, 0 \in T, \A n \in T : n + 1 \in T
    PROVE  \A n \in Nat : n \in T
<1>1. SUFFICES ASSUME Nat \ T # {} PROVE FALSE
  OBVIOUS
<1>2. PICK m \in Nat \ T : \A k \in Nat \ T : m <= k
  BY <1>1, LeastNat, Zenon
<1>3. m # 0 /\ m - 1 \in Nat /\ m - 1 \in T
  BY <1>2
<1>4. m - 1 + 1 \in T /\ m - 1 + 1 = m
  BY <1>3
<1>. QED  BY <1>2, <1>4

\* How far a list belongs to Q from its head.
LEMMA Leading ==
    ASSUME NEW n \in Nat, NEW Q
    PROVE  \E k \in 0 .. n : (\A j \in 1 .. k : j \in Q) /\ (k < n => k + 1 \notin Q)
<1>1. CASE \A j \in 1 .. n : j \in Q
  BY <1>1
<1>2. CASE \E j \in 1 .. n : j \notin Q
  <2>. DEFINE T == {j \in 1 .. n : j \notin Q}
  <2>1. T \in SUBSET Nat /\ T # {}
    BY <1>2
  <2>2. PICK m \in T : \A j \in T : m <= j
    <3>. HIDE DEF T
    <3>. QED  BY <2>1, LeastNat, Zenon
  <2>3. m - 1 \in 0 .. n /\ m - 1 + 1 = m /\ m \notin Q
    OBVIOUS
  <2>4. \A j \in 1 .. m - 1 : j \in Q
    BY <2>2
  <2>. QED  BY <2>3, <2>4
<1>. QED  BY <1>1, <1>2

\* Only one length fits.
LEMMA OneLeading ==
    ASSUME NEW n \in Nat, NEW Q, NEW a \in 0 .. n, NEW b \in 0 .. n,
           \A j \in 1 .. a : j \in Q, a < n => a + 1 \notin Q,
           \A j \in 1 .. b : j \in Q, b < n => b + 1 \notin Q
    PROVE  a = b
OBVIOUS

\* The entries of a sequence of numbers.
LEMMA SeqEntries ==
    ASSUME NEW s \in Seq(Nat)
    PROVE  /\ Len(s) \in Nat /\ DOMAIN s = 1 .. Len(s) /\ \A i \in 1 .. Len(s) : s[i] \in Nat
           /\ s = <<>> <=> Len(s) = 0
OBVIOUS

\* A list cut in two.
LEMMA CutInTwo ==
    ASSUME NEW s \in Seq(Nat), NEW k \in 0 .. Len(s)
    PROVE  /\ SubSeq(s, 1, k) \in Seq(Nat) /\ Len(SubSeq(s, 1, k)) = k
           /\ \A i \in 1 .. k : SubSeq(s, 1, k)[i] = s[i]
           /\ SubSeq(s, k + 1, Len(s)) \in Seq(Nat) /\ Len(SubSeq(s, k + 1, Len(s))) = Len(s) - k
           /\ \A i \in 1 .. Len(s) - k : SubSeq(s, k + 1, Len(s))[i] = s[k + i]
OBVIOUS

\* Two lists put together.
LEMMA PutTogether ==
    ASSUME NEW s \in Seq(Nat), NEW t \in Seq(Nat)
    PROVE  /\ s \o t \in Seq(Nat) /\ Len(s \o t) = Len(s) + Len(t)
           /\ \A i \in 1 .. Len(s) : (s \o t)[i] = s[i]
           /\ \A i \in 1 .. Len(t) : (s \o t)[Len(s) + i] = t[i]
OBVIOUS

\* A frame put into the list.
Inserted(s, k, n) == SubSeq(s, 1, k) \o <<n>> \o SubSeq(s, k + 1, Len(s))
LEMMA PutIn ==
    ASSUME NEW s \in Seq(Nat), NEW k \in 0 .. Len(s), NEW n \in Nat
    PROVE  /\ Inserted(s, k, n) \in Seq(Nat) /\ Len(Inserted(s, k, n)) = Len(s) + 1
           /\ \A i \in 1 .. k : Inserted(s, k, n)[i] = s[i]
           /\ Inserted(s, k, n)[k + 1] = n
           /\ \A i \in k + 2 .. Len(s) + 1 : Inserted(s, k, n)[i] = s[i - 1]
<1>. DEFINE a == SubSeq(s, 1, k)  b == SubSeq(s, k + 1, Len(s))  c == a \o <<n>>
<1>1. /\ a \in Seq(Nat) /\ Len(a) = k /\ \A i \in 1 .. k : a[i] = s[i]
      /\ b \in Seq(Nat) /\ Len(b) = Len(s) - k /\ \A i \in 1 .. Len(s) - k : b[i] = s[k + i]
  BY CutInTwo
<1>2. <<n>> \in Seq(Nat) /\ Len(<<n>>) = 1 /\ <<n>>[1] = n /\ Len(s) \in Nat
  BY SeqEntries
<1>3. /\ c \in Seq(Nat) /\ Len(c) = k + 1
      /\ \A i \in 1 .. k : c[i] = s[i]
      /\ c[k + 1] = n
  <2>. HIDE DEF a
  <2>. QED  BY <1>1, <1>2, PutTogether
<1>4. /\ c \o b \in Seq(Nat) /\ Len(c \o b) = Len(s) + 1
      /\ \A i \in 1 .. k + 1 : (c \o b)[i] = c[i]
      /\ \A i \in 1 .. Len(s) - k : (c \o b)[k + 1 + i] = s[k + i]
  <2>. HIDE DEF a, b, c
  <2>1. /\ c \o b \in Seq(Nat) /\ Len(c \o b) = Len(c) + Len(b)
        /\ \A i \in 1 .. Len(c) : (c \o b)[i] = c[i]
        /\ \A i \in 1 .. Len(b) : (c \o b)[Len(c) + i] = b[i]
    BY <1>1, <1>3, PutTogether, Zenon
  <2>2. k + 1 + (Len(s) - k) = Len(s) + 1
    BY <1>2
  <2>. QED  BY <1>1, <1>3, <2>1, <2>2, ZenonT(60)
<1>5. Inserted(s, k, n) = c \o b
  BY Zenon DEF Inserted
<1>6. \A i \in k + 2 .. Len(s) + 1 : (c \o b)[i] = s[i - 1]
  <2>. HIDE DEF a, b, c
  <2>. SUFFICES ASSUME NEW i \in k + 2 .. Len(s) + 1 PROVE (c \o b)[i] = s[i - 1]
    BY Zenon
  <2>1. i - (k + 1) \in 1 .. Len(s) - k
    BY <1>2
  <2>2. k + 1 + (i - (k + 1)) = i /\ k + (i - (k + 1)) = i - 1
    BY <1>2
  <2>. QED  BY <1>4, <2>1, <2>2, Zenon
<1>. HIDE DEF a, b, c
<1>7. \A i \in 1 .. k : i \in 1 .. k + 1
  OBVIOUS
<1>8. k + 1 \in 1 .. k + 1
  OBVIOUS
<1>9. \A i \in 1 .. k : (c \o b)[i] = s[i]
  BY <1>3, <1>4, <1>7, Zenon
<1>. QED  BY <1>3, <1>4, <1>5, <1>6, <1>8, <1>9, Zenon

-----------------------------------------------------------------------------
(* reord_rxframes_process and reord_rxframes_ind. *)

Ring == 0 .. SnMod - 1

\* The ring is closed under counting.
LEMMA RingClosed ==
    /\ \A n \in Int : Sn(n) \in Ring
    /\ \A x \in Ring, n \in Nat : Advance(x, n) \in Ring
<1>1. \A n \in Int : Sn(n) \in Ring
  BY ModSmall DEF Sn, Ring
<1>2. ASSUME NEW x \in Ring, NEW n \in Nat PROVE Advance(x, n) \in Ring
  <2>1. x + 1 \in Int
    BY RingFacts DEF Ring
  <2>. QED  BY <1>1, <2>1, Zenon DEF Advance
<1>. QED  BY <1>1, <1>2

\* The values ind_sn runs through when n frames are looked at.
Walks(ind, list, n) ==
    {g \in [0 .. n -> Ring] : g[0] = ind /\ \A i \in 1 .. n : g[i] = Advance(g[i - 1], list[i])}

\* There are such values.
LEMMA WalkExists ==
    ASSUME NEW list \in Seq(Nat), NEW ind \in Ring, NEW n \in 0 .. Len(list)
    PROVE  Walks(ind, list, n) # {}
<1>. DEFINE T == {m \in Nat : m <= Len(list) => Walks(ind, list, m) # {}}
<1>0. Len(list) \in Nat
  BY SeqEntries
<1>1. 0 \in T
  <2>1. [k \in 0 .. 0 |-> ind] \in Walks(ind, list, 0)
    BY DEF Walks
  <2>. QED  BY <2>1
<1>2. ASSUME NEW m \in T PROVE m + 1 \in T
  <2>1. m \in Nat /\ m + 1 \in Nat
    OBVIOUS
  <2>. SUFFICES ASSUME m + 1 <= Len(list) PROVE Walks(ind, list, m + 1) # {}
    BY <2>1
  <2>2. m <= Len(list) /\ m + 1 \in 1 .. Len(list)
    BY <1>0, <2>1
  <2>3. PICK g \in [0 .. m -> Ring] : g[0] = ind /\ \A i \in 1 .. m : g[i] = Advance(g[i - 1], list[i])
    BY <2>2, Zenon DEF Walks
  <2>. DEFINE x == Advance(g[m], list[m + 1])
              h == [k \in 0 .. m + 1 |-> IF k = m + 1 THEN x ELSE g[k]]
  <2>4. x \in Ring
    <3>1. g[m] \in Ring /\ list[m + 1] \in Nat
      BY <2>1, <2>2, <2>3, SeqEntries
    <3>. QED  BY <3>1, RingClosed, Zenon
  <2>. HIDE DEF x
  <2>5. h \in [0 .. m + 1 -> Ring]
    BY <2>1, <2>3, <2>4
  <2>6. h[0] = ind
    BY <2>1, <2>3
  <2>7. ASSUME NEW k \in 1 .. m + 1 PROVE h[k] = Advance(h[k - 1], list[k])
    <3>1. CASE k = m + 1
      <4>1. h[k] = x /\ h[k - 1] = g[m]
        BY <2>1, <3>1
      <4>. QED  BY <3>1, <4>1, Zenon DEF x
    <3>2. CASE k \in 1 .. m
      <4>1. h[k] = g[k] /\ h[k - 1] = g[k - 1]
        BY <2>1, <3>2
      <4>. QED  BY <2>3, <3>2, <4>1, Zenon
    <3>. QED  BY <2>1, <3>1, <3>2
  <2>8. h \in Walks(ind, list, m + 1)
    BY <2>5, <2>6, <2>7, Zenon DEF Walks
  <2>. QED  BY <2>8, Zenon
<1>3. n \in T
  <2>. HIDE DEF T
  <2>1. T \in SUBSET Nat
    BY DEF T
  <2>2. n \in Nat
    BY <1>0
  <2>. QED  BY <1>1, <1>2, <2>1, <2>2, Induction, Zenon
<1>. QED  BY <1>3

\* What the walk of reord_rxframes_process is.
LEMMA ProcessWalk ==
    ASSUME NEW list \in Seq(Nat), NEW ind \in Ring
    PROVE  \E a \in Walks(ind, list, Len(list)), k \in 0 .. Len(list) :
             /\ \A j \in 1 .. k : ~SN_LESS(a[j - 1], Sn(list[j]))
             /\ k < Len(list) => SN_LESS(a[k], Sn(list[k + 1]))
             /\ reord_rxframes_process(ind, list) = [ind |-> a[k], left |-> k < Len(list)]
<1>. DEFINE L == Len(list)
            Def(f) == f = [i \in 0 .. L |-> IF i = 0 THEN ind ELSE Advance(f[i - 1], list[i])]
            after == CHOOSE f : Def(f)
            Fits(k) == /\ \A j \in 1 .. k : ~SN_LESS(after[j - 1], Sn(list[j]))
                       /\ k < L => SN_LESS(after[k], Sn(list[k + 1]))
            stop == CHOOSE k \in 0 .. L : Fits(k)
<1>0. L \in Nat
  BY SeqEntries
<1>1. PICK g : g \in Walks(ind, list, L)
  <2>1. L \in 0 .. Len(list)
    BY <1>0
  <2>. QED  BY <2>1, WalkExists, Zenon
<1>2. Def(g)
  <2>1. g \in [0 .. L -> Ring] /\ g[0] = ind /\ \A i \in 1 .. L : g[i] = Advance(g[i - 1], list[i])
    BY <1>1, Zenon DEF Walks
  <2>2. \A i \in 0 .. L : i # 0 => i \in 1 .. L
    BY <1>0
  <2>3. \A i \in 0 .. L : g[i] = IF i = 0 THEN ind ELSE Advance(g[i - 1], list[i])
    BY <2>1, <2>2, Zenon
  <2>4. g = [i \in 0 .. L |-> g[i]]
    BY <2>1, Zenon
  <2>. HIDE DEF L
  <2>. QED  BY <2>3, <2>4, Zenon
<1>3. Def(after)
  <2>. HIDE DEF Def
  <2>. QED  BY <1>2, Zenon
<1>4. reord_rxframes_process(ind, list) = [ind |-> after[stop], left |-> stop < L]
  BY Zenon DEF reord_rxframes_process, after, stop, Fits, Def, L
<1>. HIDE DEF after, L
<1>5. after[0] = ind /\ \A k \in 1 .. L : after[k] = Advance(after[k - 1], list[k])
  <2>1. \A k \in 0 .. L : after[k] = IF k = 0 THEN ind ELSE Advance(after[k - 1], list[k])
    BY <1>3, Zenon
  <2>2. 0 \in 0 .. L /\ \A k \in 1 .. L : k \in 0 .. L /\ k # 0
    BY <1>0
  <2>. QED  BY <2>1, <2>2, Zenon
<1>6. \A k \in 0 .. L : after[k] \in Ring
  <2>. DEFINE T == {m \in Nat : m <= L => after[m] \in Ring}
  <2>1. 0 \in T
    BY <1>5
  <2>2. ASSUME NEW m \in T PROVE m + 1 \in T
    <3>1. m \in Nat /\ m + 1 \in Nat /\ (m + 1) - 1 = m
      OBVIOUS
    <3>. SUFFICES ASSUME m + 1 <= L PROVE after[m + 1] \in Ring
      BY <3>1
    <3>2. m <= L /\ m + 1 \in 1 .. L
      BY <1>0, <3>1
    <3>3. after[m] \in Ring
      BY <3>2
    <3>4. list[m + 1] \in Nat
      BY <3>2, SeqEntries DEF L
    <3>5. after[m + 1] = Advance(after[(m + 1) - 1], list[m + 1])
      BY <1>5, <3>2, Zenon
    <3>6. after[m + 1] = Advance(after[m], list[m + 1])
      BY ONLY <3>1, <3>5, Zenon
    <3>. QED  BY <3>3, <3>4, <3>6, RingClosed, Zenon
  <2>3. T \in SUBSET Nat
    OBVIOUS
  <2>4. \A k \in Nat : k \in T
    <3>. HIDE DEF T
    <3>. QED  BY <2>1, <2>2, <2>3, Induction, Zenon
  <2>. QED  BY <1>0, <2>4
<1>7. after \in Walks(ind, list, L)
  <2>1. \A k \in 0 .. L : (IF k = 0 THEN ind ELSE Advance(after[k - 1], list[k])) \in Ring
    BY <1>3, <1>6, Zenon
  <2>2. after \in [0 .. L -> Ring]
    BY <1>3, <2>1, Zenon
  <2>. QED  BY <1>5, <2>2, Zenon DEF Walks
<1>8. stop \in 0 .. L /\ Fits(stop)
  <2>. DEFINE Q == {j \in 1 .. L : ~SN_LESS(after[j - 1], Sn(list[j]))}
  <2>1. PICK k \in 0 .. L : (\A j \in 1 .. k : j \in Q) /\ (k < L => k + 1 \notin Q)
    <3>. HIDE DEF Q
    <3>. QED  BY <1>0, Leading, Zenon
  <2>2. k < L => k + 1 \in 1 .. L /\ (k + 1) - 1 = k
    BY <1>0
  <2>3. k < L => SN_LESS(after[(k + 1) - 1], Sn(list[k + 1]))
    BY <2>1, <2>2, Zenon
  <2>4. k < L => SN_LESS(after[k], Sn(list[k + 1]))
    BY ONLY <2>2, <2>3, Zenon
  <2>5. Fits(k)
    BY <2>1, <2>4, Zenon
  <2>. HIDE DEF Fits
  <2>. QED  BY <2>5, Zenon
<1>. HIDE DEF stop
<1>. QED  BY <1>4, <1>7, <1>8, Zenon DEF L

\* The frames of the list stand for numbers p, in order, near b.
Placed(list, b, p) ==
    /\ \A i \in 1 .. Len(list) : /\ p[i] \in Int /\ Sn(list[i]) = Sn(p[i])
                                 /\ b + 1 - H + W <= p[i] /\ p[i] < b + W
    /\ \A i, j \in 1 .. Len(list) : i < j => p[i] < p[j]

\* After m frames, none of them ahead, ind_sn stands for b + k.
Reached(p, b, k, m) ==
    /\ \A i \in 1 .. m : p[i] < b + k
    /\ k = 0 \/ \E i \in 1 .. m : p[i] = b + k - 1

\* One frame more.
LEMMA ReachOne ==
    ASSUME NEW list \in Seq(Nat), NEW b \in Int, NEW p, Placed(list, b, p),
           NEW m \in Nat, m + 1 <= Len(list), NEW k \in 0 .. W, Reached(p, b, k, m)
    PROVE  /\ SN_LESS(Sn(b + k), Sn(list[m + 1])) <=> p[m + 1] > b + k
           /\ ~SN_LESS(Sn(b + k), Sn(list[m + 1])) =>
                \E k1 \in 0 .. W : /\ Advance(Sn(b + k), list[m + 1]) = Sn(b + k1)
                                   /\ Reached(p, b, k1, m + 1)
<1>. DEFINE x == p[m + 1]  y == b + k
<1>1. m + 1 \in 1 .. Len(list) /\ Len(list) \in Nat
  BY SeqEntries
<1>2. x \in Int /\ Sn(list[m + 1]) = Sn(x) /\ b + 1 - H + W <= x /\ x < b + W
  BY <1>1, Zenon DEF Placed
<1>3. y \in Int /\ y = b + k /\ b <= y /\ y <= b + W
  BY RingFacts
<1>4. x - y \in 1 - H .. H
  <2>. HIDE DEF x, y
  <2>. QED  BY <1>2, <1>3, RingFacts
<1>5. (SN_LESS(Sn(y), Sn(x)) <=> y < x) /\ (Sn(y) = Sn(x) <=> y = x)
  <2>. HIDE DEF x, y
  <2>. QED  BY <1>2, <1>3, <1>4, LessIsLess
<1>6. SN_LESS(Sn(y), Sn(list[m + 1])) <=> x > y
  <2>. HIDE DEF x, y
  <2>. QED  BY <1>2, <1>3, <1>5
<1>7. ASSUME ~(x > y)
      PROVE  \E k1 \in 0 .. W : /\ Advance(Sn(y), list[m + 1]) = Sn(b + k1)
                                /\ Reached(p, b, k1, m + 1)
  <2>1. \A i \in 1 .. m + 1 : i \in 1 .. m \/ i = m + 1
    OBVIOUS
  <2>2. \A i \in 1 .. m : i \in 1 .. m + 1 /\ i \in 1 .. Len(list)
    BY <1>1
  <2>3. m + 1 \in 1 .. m + 1
    OBVIOUS
  <2>4. CASE x = y
    <3>1. k + 1 \in 0 .. W
      <4>. HIDE DEF x
      <4>. QED  BY <1>2, <2>4, RingFacts
    <3>2. Advance(Sn(y), list[m + 1]) = Sn(Sn(y) + 1)
      BY <1>2, <2>4, Zenon DEF Advance
    <3>3. Sn(Sn(y) + 1) = Sn(y + 1)
      <4>. HIDE DEF y
      <4>. QED  BY <1>3, SnOfSum
    <3>4. y + 1 = b + (k + 1)
      OBVIOUS
    <3>5. \A i \in 1 .. m : p[i] < b + (k + 1)
      <4>1. \A i \in 1 .. m : p[i] < b + k /\ p[i] \in Int
        BY <2>2, Zenon DEF Reached, Placed
      <4>. QED  BY <4>1
    <3>6. p[m + 1] < b + (k + 1) /\ p[m + 1] = b + (k + 1) - 1
      BY <2>4
    <3>7. Reached(p, b, k + 1, m + 1)
      BY <2>1, <2>3, <3>5, <3>6, Zenon DEF Reached
    <3>. QED  BY <3>1, <3>2, <3>3, <3>4, <3>7, Zenon
  <2>5. CASE x # y
    <3>1. Advance(Sn(y), list[m + 1]) = Sn(b + k)
      BY <1>2, <1>5, <2>5, Zenon DEF Advance
    <3>2. p[m + 1] < b + k
      <4>. HIDE DEF y
      <4>1. x < y
        <5>. HIDE DEF x
        <5>. QED  BY <1>2, <1>3, <1>7, <2>5
      <4>. QED  BY <4>1 DEF y
    <3>3. Reached(p, b, k, m + 1)
      BY <2>1, <2>2, <3>2, Zenon DEF Reached
    <3>. QED  BY <3>1, <3>3, Zenon
  <2>. QED  BY <2>4, <2>5, Zenon
<1>. QED  BY <1>6, <1>7, Zenon

\* The pass over the list: ind_sn comes to stand for b + k, the first c frames are
\* before it and are handed up, the others lie ahead of it and wait.
LEMMA ProcessRun ==
    ASSUME NEW list \in Seq(Nat), NEW b \in Int, NEW p, Placed(list, b, p)
    PROVE  \E k \in 0 .. W, c \in 0 .. Len(list) :
             /\ reord_rxframes_process(Sn(b), list) = [ind |-> Sn(b + k), left |-> c < Len(list)]
             /\ reord_rxframes_ind(Sn(b + k), list) = c
             /\ Reached(p, b, k, c)
             /\ \A i \in c + 1 .. Len(list) : p[i] > b + k
<1>. DEFINE L == Len(list)
<1>0. L \in Nat /\ Sn(b) \in Ring /\ b + 0 = b
  BY SeqEntries, RingClosed
<1>1. PICK a \in Walks(Sn(b), list, L), c \in 0 .. L :
             /\ \A j \in 1 .. c : ~SN_LESS(a[j - 1], Sn(list[j]))
             /\ c < L => SN_LESS(a[c], Sn(list[c + 1]))
             /\ reord_rxframes_process(Sn(b), list) = [ind |-> a[c], left |-> c < L]
  BY <1>0, ProcessWalk, Zenon
<1>2. a[0] = Sn(b) /\ \A i \in 1 .. L : a[i] = Advance(a[i - 1], list[i])
  BY Zenon DEF Walks
<1>3. PICK k \in 0 .. W : a[c] = Sn(b + k) /\ Reached(p, b, k, c)
  <2>. DEFINE T == {m \in Nat : m <= c => \E k \in 0 .. W : a[m] = Sn(b + k) /\ Reached(p, b, k, m)}
  <2>1. 0 \in T
    <3>1. 0 \in 0 .. W
      BY RingFacts
    <3>2. Reached(p, b, 0, 0)
      BY DEF Reached
    <3>. QED  BY <1>0, <1>2, <3>1, <3>2
  <2>2. ASSUME NEW m \in T PROVE m + 1 \in T
    <3>1. m \in Nat /\ m + 1 \in Nat /\ (m + 1) - 1 = m
      OBVIOUS
    <3>. SUFFICES ASSUME m + 1 <= c
                  PROVE  \E k \in 0 .. W : a[m + 1] = Sn(b + k) /\ Reached(p, b, k, m + 1)
      BY <3>1
    <3>2. m <= c /\ m + 1 \in 1 .. c /\ m + 1 \in 1 .. L /\ m + 1 <= L
      BY <1>0, <3>1
    <3>3. PICK k \in 0 .. W : a[m] = Sn(b + k) /\ Reached(p, b, k, m)
      BY <3>2
    <3>4. ~SN_LESS(a[(m + 1) - 1], Sn(list[m + 1])) /\ a[m + 1] = Advance(a[(m + 1) - 1], list[m + 1])
      BY <1>1, <1>2, <3>2, Zenon
    <3>5. ~SN_LESS(Sn(b + k), Sn(list[m + 1])) /\ a[m + 1] = Advance(Sn(b + k), list[m + 1])
      BY ONLY <3>1, <3>3, <3>4, Zenon
    <3>. QED  BY <3>1, <3>2, <3>3, <3>5, ReachOne, Zenon
  <2>3. T \in SUBSET Nat
    OBVIOUS
  <2>4. \A m \in Nat : m \in T
    <3>. HIDE DEF T
    <3>. QED  BY <2>1, <2>2, <2>3, Induction, Zenon
  <2>. QED  BY <1>0, <2>4
<1>4. \A i \in c + 1 .. L : p[i] > b + k
  <2>. SUFFICES ASSUME NEW i \in c + 1 .. L PROVE p[i] > b + k
    OBVIOUS
  <2>1. c \in Nat /\ c + 1 <= L /\ c < L /\ c + 1 \in 1 .. L /\ i \in 1 .. L
    BY <1>0
  <2>2. p[c + 1] > b + k
    BY <1>1, <1>3, <2>1, ReachOne, Zenon
  <2>3. p[c + 1] \in Int /\ p[i] \in Int
    BY <2>1, Zenon DEF Placed
  <2>4. i = c + 1 \/ p[c + 1] < p[i]
    <3>1. i = c + 1 \/ c + 1 < i
      OBVIOUS
    <3>. QED  BY <2>1, <3>1, Zenon DEF Placed
  <2>5. k \in Int
    BY RingFacts
  <2>. QED  BY ONLY <2>2, <2>3, <2>4, <2>5, b \in Int
<1>5. ASSUME NEW i \in 1 .. L PROVE SN_LESS(Sn(b + k), Sn(list[i])) <=> i > c
  <2>1. p[i] \in Int /\ Sn(list[i]) = Sn(p[i]) /\ b + 1 - H + W <= p[i] /\ p[i] < b + W
    BY Zenon DEF Placed
  <2>2. PICK y \in Int : y = b + k
    BY RingFacts
  <2>3. p[i] - y \in 1 - H .. H
    BY <2>1, <2>2, RingFacts
  <2>4. SN_LESS(Sn(y), Sn(p[i])) <=> y < p[i]
    BY <2>1, <2>2, <2>3, LessIsLess
  <2>5. CASE i > c
    <3>1. i \in c + 1 .. L
      BY <1>0, <2>5
    <3>. QED  BY <1>4, <2>1, <2>2, <2>4, <2>5, <3>1
  <2>6. CASE ~(i > c)
    <3>1. i \in 1 .. c
      BY <1>0, <2>6
    <3>2. p[i] < b + k
      BY <1>3, <3>1, Zenon DEF Reached
    <3>. QED  BY <2>1, <2>2, <2>4, <2>6, <3>2
  <2>. QED  BY <2>5, <2>6
<1>6. reord_rxframes_ind(Sn(b + k), list) = c
  <2>. DEFINE Q == {j \in 1 .. L : ~SN_LESS(Sn(b + k), Sn(list[j]))}
              Fits(e) == /\ \A j \in 1 .. e : ~SN_LESS(Sn(b + k), Sn(list[j]))
                         /\ e < L => SN_LESS(Sn(b + k), Sn(list[e + 1]))
              r == CHOOSE e \in 0 .. L : Fits(e)
  <2>1. reord_rxframes_ind(Sn(b + k), list) = r
    BY Zenon DEF reord_rxframes_ind
  <2>2. Fits(c)
    <3>1. \A j \in 1 .. c : j \in 1 .. L /\ ~(j > c)
      BY <1>0
    <3>2. c < L => c + 1 \in 1 .. L /\ c + 1 > c
      BY <1>0
    <3>. QED  BY <1>5, <3>1, <3>2, Zenon
  <2>3. r \in 0 .. L /\ Fits(r)
    <3>. HIDE DEF Fits
    <3>. QED  BY <2>2, Zenon
  <2>4. \A e \in 0 .. L : Fits(e) => e = c
    <3>. SUFFICES ASSUME NEW e \in 0 .. L, Fits(e) PROVE e = c
      OBVIOUS
    <3>1. ~(e > c)
      <4>1. e > c => c + 1 \in 1 .. e /\ c + 1 \in 1 .. L /\ c + 1 > c
        BY <1>0
      <4>. QED  BY <1>5, <4>1, Zenon
    <3>2. ~(e < c)
      <4>1. e < c => e < L /\ e + 1 \in 1 .. L /\ ~(e + 1 > c)
        BY <1>0
      <4>. QED  BY <1>5, <4>1, Zenon
    <3>. QED  BY <1>0, <3>1, <3>2
  <2>. HIDE DEF r, Fits
  <2>. QED  BY <2>1, <2>3, <2>4, Zenon
<1>7. reord_rxframes_process(Sn(b), list) = [ind |-> Sn(b + k), left |-> c < Len(list)]
  BY <1>1, <1>3, Zenon
<1>. QED  BY <1>3, <1>4, <1>6, <1>7, Zenon

-----------------------------------------------------------------------------
(* A new frame: reord_need_check and reord_rxframe_enqueue. *)

\* ind stands for b and the frames that wait for the numbers p, in the window.
Waiting(ind, list, b, p) ==
    /\ ind = Sn(b)
    /\ \A i \in 1 .. Len(list) : /\ p[i] \in Int /\ Sn(list[i]) = Sn(p[i])
                                 /\ b < p[i] /\ p[i] < b + W
    /\ \A i, j \in 1 .. Len(list) : i < j => p[i] < p[j]

\* z stands for the new frame; with ind_sn 0xffff it is the first one.
Incoming(ind, list, b, p, n, z) ==
    /\ Sn(n) = Sn(z) /\ b - H <= z /\ z < b + H
    /\ Waiting(ind, list, b, p) \/ (ind = NoSn /\ b = z /\ list = <<>>)

\* Where the window starts once the frame is in.
Start(b, z) == IF z = b THEN b + 1 ELSE IF z >= b + W THEN z - W + 1 ELSE b

\* reord_need_check decides on the numbers.
LEMMA CheckValue ==
    ASSUME NEW list \in Seq(Nat), NEW ind \in Ring \cup {NoSn}, NEW b \in Int, NEW p,
           NEW n \in Nat, NEW z \in Int, Incoming(ind, list, b, p, n, z)
    PROVE  /\ reord_need_check(ind, Sn(n)).late <=> z < b
           /\ z < b => reord_need_check(ind, Sn(n)).ind = ind
           /\ z >= b => reord_need_check(ind, Sn(n)).ind = Sn(Start(b, z))
<1>. DEFINE sn == Sn(n)
            wend == Sn(ind + W - 1)
            cur == IF ind = NoSn THEN sn ELSE ind
            moved == IF sn >= W - 1 THEN sn - (W - 1) ELSE SnMod - W + sn + 1
            late == SN_LESS(sn, cur)
            next == IF SN_LESS(sn, cur) THEN cur
                    ELSE IF sn = cur THEN Sn(cur + 1)
                    ELSE IF SN_LESS(wend, sn) THEN moved
                    ELSE cur
<1>1. reord_need_check(ind, Sn(n)) = [late |-> late, ind |-> next]
  BY Zenon DEF reord_need_check
<1>2. cur = Sn(b) /\ sn = Sn(z) /\ b - H <= z /\ z < b + H
  <2>1. Sn(b) \in Ring /\ NoSn \notin Ring
    BY RingFacts, RingClosed DEF Ring
  <2>. QED  BY <2>1, Zenon DEF Incoming, Waiting
<1>3. (SN_LESS(sn, cur) <=> z < b) /\ (sn = cur <=> z = b)
  <2>1. b - z \in 1 - H .. H
    BY <1>2, RingFacts
  <2>2. (SN_LESS(Sn(z), Sn(b)) <=> z < b) /\ (Sn(z) = Sn(b) <=> z = b)
    BY <2>1, LessIsLess, Zenon
  <2>. QED  BY <1>2, <2>2, Zenon
<1>4. z < b => ind # NoSn
  <2>1. z = b => ~(z < b)
    OBVIOUS
  <2>2. ind = NoSn => z = b
    <3>1. Sn(b) \in Ring /\ NoSn \notin Ring
      BY RingFacts, RingClosed DEF Ring
    <3>. QED  BY <3>1, Zenon DEF Incoming, Waiting
  <2>. QED  BY <2>1, <2>2, Zenon
<1>5. Sn(cur + 1) = Sn(b + 1)
  <2>1. Sn(Sn(b) + 1) = Sn(b + 1)
    BY SnOfSum
  <2>. QED  BY <1>2, <2>1, Zenon
<1>6. moved = Sn(z - W + 1)
  <2>1. PICK x \in Ring : x = sn
    BY <1>2, RingClosed, Zenon
  <2>2. PICK d \in Int : d = 1 - W
    BY RingFacts
  <2>3. Sn(x + d) = Sn(z + d)
    BY <1>2, <2>1, <2>2, SnOfSum
  <2>4. x + d \in Int /\ -SnMod <= x + d /\ x + d < SnMod
    BY <2>2, RingFacts DEF Ring
  <2>5. Sn(x + d) = IF x + d >= 0 THEN x + d ELSE x + d + SnMod
    <3>1. PICK y \in Int : y = x + d /\ -SnMod <= y /\ y < SnMod
      BY <2>4
    <3>2. (y >= 0 => y % SnMod = y) /\ (y < 0 => y % SnMod = y + SnMod)
      BY <3>1, ModSmall
    <3>3. y >= 0 \/ y < 0
      OBVIOUS
    <3>. QED  BY <3>1, <3>2, <3>3, Zenon DEF Sn
  <2>6. moved = IF x + d >= 0 THEN x + d ELSE x + d + SnMod
    BY <2>1, <2>2, RingFacts DEF Ring
  <2>7. z + d = z - W + 1
    BY <2>2, RingFacts
  <2>. QED  BY <2>3, <2>5, <2>6, <2>7, Zenon
<1>7. z > b => (SN_LESS(wend, sn) <=> z >= b + W)
  <2>. SUFFICES ASSUME z > b PROVE SN_LESS(wend, sn) <=> z >= b + W
    OBVIOUS
  <2>1. ind = Sn(b)
    <3>1. z # b
      OBVIOUS
    <3>. QED  BY <3>1, Zenon DEF Incoming, Waiting
  <2>2. PICK d \in Int, x \in Int : d = W - 1 /\ x = b + d
    BY RingFacts
  <2>3. ind + W - 1 = Sn(b) + d
    <3>1. Sn(b) \in Int
      BY RingClosed, RingFacts DEF Ring
    <3>. QED  BY <2>1, <2>2, <3>1, RingFacts
  <2>4. wend = Sn(x)
    BY <2>2, <2>3, SnOfSum
  <2>5. z - x \in 1 - H .. H
    BY <1>2, <2>2, RingFacts
  <2>6. SN_LESS(Sn(x), Sn(z)) <=> x < z
    BY <2>5, LessIsLess
  <2>7. x < z <=> z >= b + W
    BY <2>2, RingFacts
  <2>. QED  BY <1>2, <2>4, <2>6, <2>7, Zenon
<1>8. z < b => cur = ind
  BY <1>4, Zenon
<1>9. z >= b => next = Sn(Start(b, z))
  <2>. SUFFICES ASSUME z >= b PROVE next = Sn(Start(b, z))
    OBVIOUS
  <2>1. ~(z < b) /\ (z = b \/ z > b) /\ (z = b => ~(z > b))
    OBVIOUS
  <2>. HIDE DEF sn, cur, wend, moved
  <2>. QED  BY <1>2, <1>3, <1>5, <1>6, <1>7, <2>1, Zenon DEF Start
<1>. HIDE DEF cur, wend, moved, sn
<1>10. z < b => next = ind
  BY <1>3, <1>8, Zenon
<1>11. reord_need_check(ind, Sn(n)).late = late /\ reord_need_check(ind, Sn(n)).ind = next
  <2>. HIDE DEF late, next
  <2>. QED  BY <1>1
<1>. QED  BY <1>3, <1>9, <1>10, <1>11, Zenon

\* The place of the frame in the list is its place in the order.
LEMMA BeforeValue ==
    ASSUME NEW list \in Seq(Nat), NEW ind \in Ring \cup {NoSn}, NEW b \in Int, NEW p,
           NEW n \in Nat, NEW z \in Int, Incoming(ind, list, b, p, n, z), z >= b
    PROVE  /\ Before(list, Sn(n)) \in 0 .. Len(list)
           /\ \A i \in 1 .. Before(list, Sn(n)) : p[i] < z
           /\ \A i \in Before(list, Sn(n)) + 1 .. Len(list) : p[i] >= z
           /\ Held(list, n) <=> \E i \in 1 .. Len(list) : p[i] = z
           /\ \A i \in 1 .. Len(list) : /\ p[i] \in Int /\ Sn(list[i]) = Sn(p[i])
                                        /\ b < p[i] /\ p[i] < b + W
           /\ \A i, j \in 1 .. Len(list) : i < j => p[i] < p[j]
<1>. DEFINE L == Len(list)
            Fits(e) == /\ \A j \in 1 .. e : SN_LESS(Sn(list[j]), Sn(n))
                       /\ e < L => ~SN_LESS(Sn(list[e + 1]), Sn(n))
            k == CHOOSE e \in 0 .. L : Fits(e)
<1>0. L \in Nat /\ (list = <<>> => L = 0)
  BY SeqEntries
<1>1. Before(list, Sn(n)) = k
  BY Zenon DEF Before
<1>2. /\ \A i \in 1 .. L : p[i] \in Int /\ Sn(list[i]) = Sn(p[i]) /\ b < p[i] /\ p[i] < b + W
      /\ \A i, j \in 1 .. L : i < j => p[i] < p[j]
  <2>1. CASE Waiting(ind, list, b, p)
    BY <2>1, Zenon DEF Waiting
  <2>2. CASE list = <<>>
    <3>1. \A i \in 1 .. L : FALSE
      BY <1>0, <2>2
    <3>. QED  BY <3>1, Zenon
  <2>. QED  BY <2>1, <2>2, Zenon DEF Incoming
<1>3. ASSUME NEW i \in 1 .. L
      PROVE  (SN_LESS(Sn(list[i]), Sn(n)) <=> p[i] < z) /\ (Sn(list[i]) = Sn(n) <=> p[i] = z)
  <2>1. PICK x \in Int : x = p[i] /\ Sn(list[i]) = Sn(x) /\ b < x /\ x < b + W
    BY <1>2, Zenon
  <2>2. Sn(n) = Sn(z) /\ z < b + H
    BY Zenon DEF Incoming
  <2>3. z - x \in 1 - H .. H
    BY <2>1, <2>2, RingFacts
  <2>4. (SN_LESS(Sn(x), Sn(z)) <=> x < z) /\ (Sn(x) = Sn(z) <=> x = z)
    BY <2>3, LessIsLess, Zenon
  <2>. QED  BY <2>1, <2>2, <2>4, Zenon
<1>4. k \in 0 .. L /\ Fits(k)
  <2>. DEFINE Q == {j \in 1 .. L : SN_LESS(Sn(list[j]), Sn(n))}
  <2>1. PICK e \in 0 .. L : (\A j \in 1 .. e : j \in Q) /\ (e < L => e + 1 \notin Q)
    <3>. HIDE DEF Q
    <3>. QED  BY <1>0, Leading, Zenon
  <2>2. e < L => e + 1 \in 1 .. L
    BY <1>0
  <2>3. Fits(e)
    BY <2>1, <2>2, Zenon
  <2>. HIDE DEF Fits
  <2>. QED  BY <2>3, Zenon
<1>. HIDE DEF k, L
<1>5. \A i \in 1 .. k : i \in 1 .. L
  BY <1>0, <1>4
<1>6. \A i \in 1 .. k : p[i] < z
  BY <1>3, <1>4, <1>5, Zenon
<1>7. k < L => k + 1 \in 1 .. L /\ ~(p[k + 1] < z)
  <2>1. k < L => k + 1 \in 1 .. L
    BY <1>0, <1>4
  <2>. QED  BY <1>3, <1>4, <2>1, Zenon
<1>8. ASSUME NEW i \in k + 1 .. L PROVE p[i] >= z /\ (i = k + 1 \/ p[i] > z)
  <2>1. k < L /\ i \in 1 .. L /\ (i = k + 1 \/ k + 1 < i)
    BY <1>0, <1>4
  <2>2. p[i] \in Int /\ p[k + 1] \in Int /\ ~(p[k + 1] < z)
    BY <1>2, <1>7, <2>1, Zenon
  <2>3. i = k + 1 \/ p[k + 1] < p[i]
    BY <1>2, <1>7, <2>1, Zenon
  <2>. QED  BY ONLY <2>2, <2>3, z \in Int
<1>9. Held(list, n) <=> (k < L /\ Sn(list[k + 1]) = Sn(n))
  BY <1>1, Zenon DEF Held, L
<1>10. Held(list, n) <=> \E i \in 1 .. L : p[i] = z
  <2>1. Held(list, n) => \E i \in 1 .. L : p[i] = z
    BY <1>3, <1>7, <1>9, Zenon
  <2>2. ASSUME NEW i \in 1 .. L, p[i] = z PROVE Held(list, n)
    <3>1. ~(p[i] < z) /\ ~(p[i] > z)
      BY <2>2
    <3>2. i \in 1 .. k \/ i \in k + 1 .. L
      BY <1>0, <1>4
    <3>3. i = k + 1
      BY <1>6, <1>8, <3>1, <3>2, Zenon
    <3>4. k < L
      BY <1>0, <1>4, <3>3
    <3>. QED  BY <1>3, <1>9, <2>2, <3>3, <3>4, Zenon
  <2>. QED  BY <2>1, <2>2, Zenon
<1>. QED  BY <1>1, <1>2, <1>4, <1>6, <1>8, <1>10, Zenon DEF L

\* The positions with z put in after the first q.
Put(p, q, z) == [i \in Nat |-> IF i <= q THEN p[i] ELSE IF i = q + 1 THEN z ELSE p[i - 1]]

\* l is the list with frame n behind the first q, seen from the start of the window.
Enqueued(list, b, p, n, z, q, l) ==
    /\ reord_rxframe_enqueue(list, n) = l
    /\ Len(l) = Len(list) + 1
    /\ \A i \in 1 .. q : l[i] = list[i]
    /\ l[q + 1] = n
    /\ \A i \in q + 2 .. Len(list) + 1 : l[i] = list[i - 1]
    /\ Start(b, z) \in Int /\ Placed(l, Start(b, z), Put(p, q, z))

\* The list with the new frame, seen from the start of the window.
LEMMA EnqueueValue ==
    ASSUME NEW list \in Seq(Nat), NEW ind \in Ring \cup {NoSn}, NEW b \in Int, NEW p,
           NEW n \in Nat, NEW z \in Int, Incoming(ind, list, b, p, n, z), z >= b,
           ~Held(list, n)
    PROVE  \E q \in 0 .. Len(list), l \in Seq(Nat) : Enqueued(list, b, p, n, z, q, l)
<1>. DEFINE L == Len(list)  q == Before(list, Sn(n))  l == Inserted(list, q, n)
            P == Put(p, q, z)  b1 == Start(b, z)
<1>0. reord_rxframe_enqueue(list, n) = l
  BY Zenon DEF reord_rxframe_enqueue, Inserted
<1>1. /\ q \in 0 .. L
      /\ \A i \in 1 .. q : p[i] < z
      /\ \A i \in q + 1 .. L : p[i] >= z
      /\ \A i \in 1 .. L : p[i] # z
      /\ \A i \in 1 .. L : p[i] \in Int /\ Sn(list[i]) = Sn(p[i]) /\ b < p[i] /\ p[i] < b + W
      /\ \A i, j \in 1 .. L : i < j => p[i] < p[j]
  <2>1. /\ q \in 0 .. Len(list)
        /\ \A i \in 1 .. q : p[i] < z
        /\ \A i \in q + 1 .. Len(list) : p[i] >= z
        /\ Held(list, n) <=> \E i \in 1 .. Len(list) : p[i] = z
        /\ \A i \in 1 .. Len(list) : /\ p[i] \in Int /\ Sn(list[i]) = Sn(p[i])
                                     /\ b < p[i] /\ p[i] < b + W
        /\ \A i, j \in 1 .. Len(list) : i < j => p[i] < p[j]
    BY BeforeValue, Zenon
  <2>2. \A i \in 1 .. L : p[i] # z
    BY <2>1, Zenon
  <2>. QED  BY <2>1, <2>2, Zenon
<1>2. /\ l \in Seq(Nat) /\ Len(l) = L + 1
      /\ \A i \in 1 .. q : l[i] = list[i]
      /\ l[q + 1] = n
      /\ \A i \in q + 2 .. L + 1 : l[i] = list[i - 1]
  <2>. HIDE DEF q
  <2>1. q \in 0 .. Len(list)
    BY <1>1
  <2>. QED  BY <2>1, PutIn, Zenon
<1>. HIDE DEF q, l
<1>3. L \in Nat /\ q \in Nat /\ q + 1 \in Nat
  BY <1>1, SeqEntries
<1>4. Sn(n) = Sn(z) /\ z < b + H
  BY Zenon DEF Incoming
<1>5. b1 \in Int /\ b <= b1 /\ b1 <= z + 1 /\ z < b1 + W /\ b1 < b + H
  BY <1>4, RingFacts DEF Start
<1>6. /\ \A i \in 1 .. q : P[i] = p[i] /\ i \in 1 .. L
      /\ P[q + 1] = z
      /\ \A i \in q + 2 .. L + 1 : P[i] = p[i - 1] /\ i - 1 \in 1 .. L /\ i - 1 \in q + 1 .. L
  <2>1. ASSUME NEW i \in 1 .. q PROVE P[i] = p[i] /\ i \in 1 .. L
    BY <1>1, <1>3 DEF Put
  <2>2. P[q + 1] = z
    BY <1>3 DEF Put
  <2>3. ASSUME NEW i \in q + 2 .. L + 1 PROVE P[i] = p[i - 1] /\ i - 1 \in 1 .. L /\ i - 1 \in q + 1 .. L
    BY <1>3 DEF Put
  <2>. QED  BY <2>1, <2>2, <2>3
<1>7. \A i \in 1 .. L + 1 : i \in 1 .. q \/ i = q + 1 \/ i \in q + 2 .. L + 1
  BY <1>1, <1>3
<1>. HIDE DEF P, L, b1
<1>8. ASSUME NEW i \in 1 .. L + 1
      PROVE  /\ P[i] \in Int /\ Sn(l[i]) = Sn(P[i])
             /\ b1 + 1 - H + W <= P[i] /\ P[i] < b1 + W
  <2>1. CASE i \in 1 .. q
    <3>1. P[i] = p[i] /\ p[i] \in Int /\ Sn(list[i]) = Sn(p[i]) /\ b < p[i] /\ p[i] < z /\ l[i] = list[i]
      BY <1>1, <1>2, <1>6, <2>1, Zenon
    <3>2. b1 + 1 - H + W <= p[i] /\ p[i] < b1 + W
      <4>1. PICK x \in Int : x = p[i]
        BY <3>1
      <4>2. b < x /\ x < z
        BY <3>1, <4>1
      <4>3. b1 = b \/ (b1 = b + 1 /\ z = b) \/ b1 = z - W + 1
        BY Zenon DEF Start, b1
      <4>4. b1 - H + W + 1 <= x
        BY ONLY <1>4, <1>5, <4>2, <4>3, RingFacts, z \in Int, b \in Int, x \in Int
      <4>5. x < b1 + W
        BY ONLY <1>5, <4>2, RingFacts, z \in Int, x \in Int
      <4>. QED  BY <4>1, <4>4, <4>5, <1>5, RingFacts
    <3>. QED  BY <3>1, <3>2, Zenon
  <2>2. CASE i = q + 1
    <3>1. P[i] = z /\ l[i] = n
      BY <1>2, <1>6, <2>2, Zenon
    <3>2. b1 + 1 - H + W <= z
      BY <1>5, RingFacts
    <3>. QED  BY <1>4, <1>5, <3>1, <3>2, Zenon
  <2>3. CASE i \in q + 2 .. L + 1
    <3>1. /\ P[i] = p[i - 1] /\ l[i] = list[i - 1] /\ p[i - 1] \in Int /\ Sn(list[i - 1]) = Sn(p[i - 1])
          /\ p[i - 1] >= z /\ p[i - 1] < b + W
      BY <1>1, <1>2, <1>6, <2>3, Zenon
    <3>2. b1 + 1 - H + W <= p[i - 1] /\ p[i - 1] < b1 + W
      <4>1. PICK x \in Int : x = p[i - 1] /\ x >= z /\ x < b + W
        BY <3>1
      <4>. QED  BY <1>5, <4>1, RingFacts
    <3>. QED  BY <3>1, <3>2, Zenon
  <2>. QED  BY <1>7, <2>1, <2>2, <2>3, Zenon
<1>9. ASSUME NEW i \in 1 .. L + 1, NEW j \in 1 .. L + 1, i < j PROVE P[i] < P[j]
  <2>1. CASE i \in 1 .. q /\ j \in 1 .. q
    BY <1>1, <1>6, <1>9, <2>1, Zenon
  <2>2. CASE i \in 1 .. q /\ j = q + 1
    BY <1>1, <1>6, <2>2, Zenon
  <2>3. CASE i \in 1 .. q /\ j \in q + 2 .. L + 1
    <3>1. i < j - 1
      BY <1>3, <2>3
    <3>. QED  BY <1>1, <1>6, <2>3, <3>1, Zenon
  <2>4. CASE i = q + 1 /\ j \in q + 2 .. L + 1
    <3>1. P[i] = z /\ P[j] = p[j - 1] /\ p[j - 1] >= z /\ p[j - 1] # z /\ p[j - 1] \in Int
      BY <1>1, <1>6, <2>4, Zenon
    <3>. QED  BY <3>1
  <2>5. CASE i \in q + 2 .. L + 1 /\ j \in q + 2 .. L + 1
    <3>1. i - 1 < j - 1
      BY <1>3, <1>9, <2>5
    <3>. QED  BY <1>1, <1>6, <2>5, <3>1, Zenon
  <2>6. \/ i \in 1 .. q /\ j \in 1 .. q
        \/ i \in 1 .. q /\ j = q + 1
        \/ i \in 1 .. q /\ j \in q + 2 .. L + 1
        \/ i = q + 1 /\ j \in q + 2 .. L + 1
        \/ i \in q + 2 .. L + 1 /\ j \in q + 2 .. L + 1
    BY <1>3, <1>9
  <2>. QED  BY <2>1, <2>2, <2>3, <2>4, <2>5, <2>6, Zenon
<1>10. Placed(l, b1, P)
  BY <1>2, <1>8, <1>9, Zenon DEF Placed
<1>. QED  BY <1>0, <1>1, <1>2, <1>5, <1>10, Zenon DEF L, P, b1, Enqueued

\* The numbers that a window gives to its frames.
Numbers(ind, list) == [i \in 1 .. Len(list) |-> ind + Ahead(ind, Sn(list[i]))]

LEMMA WindowWaiting ==
    ASSUME NEW list \in Seq(Nat), NEW ind \in Ring, InWindow(ind, list)
    PROVE  Waiting(ind, list, ind, Numbers(ind, list))
<1>. DEFINE p == Numbers(ind, list)
<1>0. ind \in Int /\ ind % SnMod = ind
  BY RingFacts, ModSmall DEF Ring
<1>1. ASSUME NEW i \in 1 .. Len(list)
      PROVE  /\ p[i] = ind + Ahead(ind, Sn(list[i])) /\ p[i] \in Int
             /\ Sn(list[i]) = Sn(p[i]) /\ ind < p[i] /\ p[i] < ind + W
  <2>1. PICK s \in Ring : s = Sn(list[i])
    <3>1. list[i] \in Int
      BY SeqEntries
    <3>. QED  BY <3>1, RingClosed
  <2>2. PICK d \in 1 .. W - 1 : d = Ahead(ind, s)
    BY <2>1, Zenon DEF InWindow
  <2>3. p[i] = ind + d
    BY <2>1, <2>2, Zenon DEF Numbers
  <2>4. d = (s - ind) % SnMod
    BY <2>2 DEF Ahead
  <2>5. s - ind = d \/ s - ind = d - SnMod
    <3>1. PICK e \in Int : e = s - ind /\ -SnMod <= e /\ e < SnMod
      BY RingFacts DEF Ring
    <3>2. (e >= 0 => e % SnMod = e) /\ (e < 0 => e % SnMod = e + SnMod)
      BY <3>1, ModSmall, Zenon
    <3>. QED  BY <2>4, <3>1, <3>2, RingFacts
  <2>6. Sn(ind + d) = s
    <3>1. PICK e \in Int : e = ind + d /\ 0 <= e /\ e < 2 * SnMod
      BY RingFacts DEF Ring
    <3>2. (e < SnMod => e % SnMod = e) /\ (e >= SnMod => e % SnMod = e - SnMod)
      BY <3>1, ModSmall, Zenon
    <3>3. e % SnMod = s
      BY <2>5, <3>1, <3>2, RingFacts DEF Ring
    <3>. QED  BY <3>1, <3>3, Zenon DEF Sn
  <2>7. ind + d \in Int /\ ind < ind + d /\ ind + d < ind + W
    BY RingFacts DEF Ring
  <2>. QED  BY <2>1, <2>2, <2>3, <2>6, <2>7, Zenon
<1>2. ASSUME NEW i \in 1 .. Len(list), NEW j \in 1 .. Len(list), i < j PROVE p[i] < p[j]
  <2>1. Ahead(ind, Sn(list[i])) < Ahead(ind, Sn(list[j]))
    BY <1>2, Zenon DEF InWindow
  <2>2. PICK d \in Int, e \in Int : d = Ahead(ind, Sn(list[i])) /\ e = Ahead(ind, Sn(list[j]))
    <3>1. Ahead(ind, Sn(list[i])) \in 1 .. W - 1 /\ Ahead(ind, Sn(list[j])) \in 1 .. W - 1
      BY Zenon DEF InWindow
    <3>. QED  BY <3>1
  <2>3. p[i] = ind + d /\ p[j] = ind + e
    BY <1>1, <2>2, Zenon
  <2>. QED  BY <1>0, <2>1, <2>2, <2>3
<1>3. ind = Sn(ind)
  BY <1>0 DEF Sn
<1>. HIDE DEF p
<1>4. Waiting(ind, list, ind, p)
  BY <1>1, <1>2, <1>3, Zenon DEF Waiting
<1>. QED  BY <1>4 DEF p

\* And back.
LEMMA WaitingWindow ==
    ASSUME NEW list \in Seq(Nat), NEW ind, NEW b \in Int, NEW p, Waiting(ind, list, b, p)
    PROVE  /\ InWindow(ind, list)
           /\ \A i \in 1 .. Len(list) : Ahead(ind, Sn(list[i])) = p[i] - b
<1>1. ASSUME NEW i \in 1 .. Len(list)
      PROVE  Ahead(ind, Sn(list[i])) = p[i] - b /\ p[i] - b \in 1 .. W - 1 /\ p[i] \in Int
  <2>1. PICK x \in Int : x = p[i] /\ Sn(list[i]) = Sn(x) /\ b < x /\ x < b + W
    BY Zenon DEF Waiting
  <2>2. Ahead(ind, Sn(list[i])) = (x - b) % SnMod
    BY <2>1, SameDistance, Zenon DEF Waiting
  <2>3. PICK e \in Int : e = x - b /\ 1 <= e /\ e <= W - 1
    BY <2>1, RingFacts
  <2>4. e % SnMod = e
    <3>1. 0 <= e /\ e < SnMod
      BY <2>3, RingFacts
    <3>. QED  BY <3>1, ModSmall, Zenon
  <2>. QED  BY <2>1, <2>2, <2>3, <2>4, RingFacts
<1>2. ASSUME NEW i \in 1 .. Len(list), NEW j \in 1 .. Len(list), i < j
      PROVE  Ahead(ind, Sn(list[i])) < Ahead(ind, Sn(list[j]))
  <2>1. p[i] < p[j]
    BY <1>2, Zenon DEF Waiting
  <2>2. PICK x \in Int, y \in Int : x = p[i] /\ y = p[j]
    BY <1>1, Zenon
  <2>3. Ahead(ind, Sn(list[i])) = x - b /\ Ahead(ind, Sn(list[j])) = y - b /\ x < y
    BY <1>1, <2>1, <2>2, Zenon
  <2>. QED  BY <2>3
<1>. QED  BY <1>1, <1>2, Zenon DEF InWindow

\* The places of the frames behind the first c.
Behind(p, c) == [i \in Nat |-> p[c + i]]

\* What stays in the list waits in the new window.
LEMMA RestWaits ==
    ASSUME NEW l \in Seq(Nat), NEW b \in Int, NEW p, Placed(l, b, p),
           NEW k \in 0 .. W, NEW c \in 0 .. Len(l), \A i \in c + 1 .. Len(l) : p[i] > b + k
    PROVE  Waiting(Sn(b + k), SubSeq(l, c + 1, Len(l)), b + k, Behind(p, c))
<1>. DEFINE r == SubSeq(l, c + 1, Len(l))  L == Len(l)
<1>1. /\ r \in Seq(Nat) /\ Len(r) = L - c /\ \A i \in 1 .. L - c : r[i] = l[c + i]
  BY CutInTwo
<1>0. L \in Nat
  BY SeqEntries
<1>. HIDE DEF r, L
<1>2. ASSUME NEW i \in 1 .. L - c
      PROVE  /\ Behind(p, c)[i] = p[c + i] /\ c + i \in 1 .. L /\ c + i \in c + 1 .. L
  <2>1. i \in Nat
    BY <1>0
  <2>2. Behind(p, c)[i] = p[c + i]
    BY <2>1, Zenon DEF Behind
  <2>. QED  BY <1>0, <2>2 DEF L
<1>3. ASSUME NEW i \in 1 .. L - c
      PROVE  /\ Behind(p, c)[i] \in Int /\ Sn(r[i]) = Sn(Behind(p, c)[i])
             /\ b + k < Behind(p, c)[i] /\ Behind(p, c)[i] < b + k + W
  <2>1. PICK x \in Int : x = p[c + i] /\ Sn(l[c + i]) = Sn(x) /\ x < b + W /\ x > b + k
    BY <1>2, Zenon DEF Placed, L
  <2>2. b + k < x /\ x < b + k + W
    BY <2>1, RingFacts
  <2>. QED  BY <1>1, <1>2, <2>1, <2>2, Zenon
<1>4. ASSUME NEW i \in 1 .. L - c, NEW j \in 1 .. L - c, i < j
      PROVE  Behind(p, c)[i] < Behind(p, c)[j]
  <2>1. c + i < c + j
    BY <1>0, <1>4 DEF L
  <2>. QED  BY <1>2, <2>1, Zenon DEF Placed, L
<1>5. Waiting(Sn(b + k), r, b + k, Behind(p, c))
  BY <1>1, <1>3, <1>4, Zenon DEF Waiting
<1>. QED  BY <1>5, Zenon DEF r, L

-----------------------------------------------------------------------------
(* What the operations return, whatever the list. *)

\* The new ind_sn of reord_need_check is a sequence number.
LEMMA CheckType ==
    ASSUME NEW ind \in Ring \cup {NoSn}, NEW n \in Nat
    PROVE  /\ reord_need_check(ind, Sn(n)).ind \in Ring
           /\ reord_need_check(ind, Sn(n)).late \in BOOLEAN
<1>. DEFINE sn == Sn(n)
            wend == Sn(ind + W - 1)
            cur == IF ind = NoSn THEN sn ELSE ind
            moved == IF sn >= W - 1 THEN sn - (W - 1) ELSE SnMod - W + sn + 1
            next == IF SN_LESS(sn, cur) THEN cur
                    ELSE IF sn = cur THEN Sn(cur + 1)
                    ELSE IF SN_LESS(wend, sn) THEN moved
                    ELSE cur
<1>1. reord_need_check(ind, sn) = [late |-> SN_LESS(sn, cur), ind |-> next]
  BY Zenon DEF reord_need_check
<1>2. sn \in Ring
  BY RingClosed
<1>3. cur \in Ring
  BY <1>2
<1>4. moved \in Ring
  <2>. HIDE DEF sn
  <2>. QED  BY <1>2, RingFacts DEF Ring
<1>5. Sn(cur + 1) \in Ring
  <2>. HIDE DEF cur
  <2>1. cur + 1 \in Int
    BY <1>3, RingFacts DEF Ring
  <2>. QED  BY <2>1, RingClosed, Zenon
<1>6. SN_LESS(sn, cur) \in BOOLEAN
  BY DEF SN_LESS
<1>. HIDE DEF sn, wend, cur, moved
<1>7. next \in Ring
  BY <1>3, <1>4, <1>5
<1>. HIDE DEF next
<1>. QED  BY <1>1, <1>6, <1>7 DEF sn

\* reord_rxframes_process and reord_rxframes_ind stay in the ring and in the list.
LEMMA ProcessType ==
    ASSUME NEW list \in Seq(Nat), NEW ind \in Ring
    PROVE  /\ reord_rxframes_process(ind, list).ind \in Ring
           /\ reord_rxframes_process(ind, list).left \in BOOLEAN
           /\ reord_rxframes_ind(ind, list) \in 0 .. Len(list)
<1>1. PICK a \in Walks(ind, list, Len(list)), k \in 0 .. Len(list) :
         reord_rxframes_process(ind, list) = [ind |-> a[k], left |-> k < Len(list)]
  BY ProcessWalk, Zenon
<1>2. a[k] \in Ring
  BY Zenon DEF Walks
<1>. DEFINE Q == {j \in 1 .. Len(list) : ~SN_LESS(ind, Sn(list[j]))}
            Fits(e) == /\ \A j \in 1 .. e : ~SN_LESS(ind, Sn(list[j]))
                       /\ e < Len(list) => SN_LESS(ind, Sn(list[e + 1]))
<1>3. Len(list) \in Nat
  BY SeqEntries
<1>4. PICK m \in 0 .. Len(list) : (\A j \in 1 .. m : j \in Q) /\ (m < Len(list) => m + 1 \notin Q)
  <2>. HIDE DEF Q
  <2>. QED  BY <1>3, Leading, Zenon
<1>5. m < Len(list) => m + 1 \in 1 .. Len(list)
  BY <1>3
<1>6. Fits(m)
  BY <1>4, <1>5, Zenon
<1>7. reord_rxframes_ind(ind, list) = CHOOSE e \in 0 .. Len(list) : Fits(e)
  BY Zenon DEF reord_rxframes_ind
<1>8. reord_rxframes_ind(ind, list) \in 0 .. Len(list)
  <2>. HIDE DEF Fits
  <2>. QED  BY <1>6, <1>7, Zenon
<1>9. (k < Len(list)) \in BOOLEAN
  BY <1>3
<1>10. /\ reord_rxframes_process(ind, list).ind = a[k]
       /\ reord_rxframes_process(ind, list).left = (k < Len(list))
  BY <1>1
<1>. QED  BY <1>2, <1>8, <1>9, <1>10, Zenon

\* reord_rxframe_enqueue adds one frame.
LEMMA EnqueueType ==
    ASSUME NEW list \in Seq(Nat), NEW n \in Nat
    PROVE  /\ reord_rxframe_enqueue(list, n) \in Seq(Nat)
           /\ Len(reord_rxframe_enqueue(list, n)) = Len(list) + 1
<1>. DEFINE Q == {j \in 1 .. Len(list) : SN_LESS(Sn(list[j]), Sn(n))}
            Fits(e) == /\ \A j \in 1 .. e : SN_LESS(Sn(list[j]), Sn(n))
                       /\ e < Len(list) => ~SN_LESS(Sn(list[e + 1]), Sn(n))
            k == Before(list, Sn(n))
<1>1. Len(list) \in Nat
  BY SeqEntries
<1>2. PICK m \in 0 .. Len(list) : (\A j \in 1 .. m : j \in Q) /\ (m < Len(list) => m + 1 \notin Q)
  <2>. HIDE DEF Q
  <2>. QED  BY <1>1, Leading, Zenon
<1>3. m < Len(list) => m + 1 \in 1 .. Len(list)
  BY <1>1
<1>4. Fits(m)
  BY <1>2, <1>3, Zenon
<1>5. k = CHOOSE e \in 0 .. Len(list) : Fits(e)
  BY Zenon DEF Before
<1>6. k \in 0 .. Len(list)
  <2>. HIDE DEF Fits, k
  <2>. QED  BY <1>4, <1>5, Zenon
<1>7. reord_rxframe_enqueue(list, n) = Inserted(list, k, n)
  BY Zenon DEF reord_rxframe_enqueue, Inserted
<1>. HIDE DEF k
<1>8. Inserted(list, k, n) \in Seq(Nat) /\ Len(Inserted(list, k, n)) = Len(list) + 1
  BY ONLY <1>6, PutIn, list \in Seq(Nat), n \in Nat
<1>. QED  BY ONLY <1>7, <1>8, Zenon

-----------------------------------------------------------------------------
(* A frame goes through the buffer, and a forced pass of the worker. *)

UnitList(list, n) == reord_rxframe_enqueue(list, n)
UnitPass(ind, list, n) ==
    reord_rxframes_process(reord_need_check(ind, Sn(n)).ind, UnitList(list, n))
UnitDue(ind, list, n) == reord_rxframes_ind(UnitPass(ind, list, n).ind, UnitList(list, n))
UnitRest(ind, list, n) ==
    SubSeq(UnitList(list, n), UnitDue(ind, list, n) + 1, Len(UnitList(list, n)))
UnitOut(ind, list, n, out) == out \o SubSeq(UnitList(list, n), 1, UnitDue(ind, list, n))

\* What a frame does: c frames are handed up, before the new start of the window at
\* k past the start that reord_need_check gives, the others wait behind it.
UnitResult(ind, list, b, p, n, z, q, l, k, c) ==
    /\ UnitDue(ind, list, n) = c
    /\ UnitPass(ind, list, n) = [ind |-> Sn(Start(b, z) + k), left |-> c < Len(l)]
    /\ Reached(Put(p, q, z), Start(b, z), k, c)
    /\ \A i \in c + 1 .. Len(l) : Put(p, q, z)[i] > Start(b, z) + k
    /\ Waiting(Sn(Start(b, z) + k), SubSeq(l, c + 1, Len(l)),
               Start(b, z) + k, Behind(Put(p, q, z), c))

\* A frame that is neither late nor held: what is handed up lies before the new
\* start of the window, what waits lies in the window behind it.
LEMMA UnitRun ==
    ASSUME NEW list \in Seq(Nat), NEW ind \in Ring \cup {NoSn}, NEW b \in Int, NEW p,
           NEW n \in Nat, NEW z \in Int, Incoming(ind, list, b, p, n, z), z >= b,
           ~Held(list, n)
    PROVE  \E q \in 0 .. Len(list), l \in Seq(Nat), k \in 0 .. W, c \in 0 .. Len(list) + 1 :
             Enqueued(list, b, p, n, z, q, l) /\ UnitResult(ind, list, b, p, n, z, q, l, k, c)
<1>1. PICK q \in 0 .. Len(list), l \in Seq(Nat) : Enqueued(list, b, p, n, z, q, l)
  BY EnqueueValue, Zenon
<1>. DEFINE s == Start(b, z)  P == Put(p, q, z)
<1>2. s \in Int /\ Placed(l, s, P) /\ reord_rxframe_enqueue(list, n) = l /\ Len(l) = Len(list) + 1
  BY <1>1, Zenon DEF Enqueued
<1>3. reord_need_check(ind, Sn(n)).ind = Sn(s)
  BY CheckValue
<1>. HIDE DEF s, P
<1>4. PICK k \in 0 .. W, c \in 0 .. Len(l) :
             /\ reord_rxframes_process(Sn(s), l) = [ind |-> Sn(s + k), left |-> c < Len(l)]
             /\ reord_rxframes_ind(Sn(s + k), l) = c
             /\ Reached(P, s, k, c)
             /\ \A i \in c + 1 .. Len(l) : P[i] > s + k
  BY <1>2, ProcessRun, Zenon
<1>5. Waiting(Sn(s + k), SubSeq(l, c + 1, Len(l)), s + k, Behind(P, c))
  BY <1>2, <1>4, RestWaits, Zenon
<1>6. UnitList(list, n) = l
  BY <1>2, Zenon DEF UnitList
<1>7. UnitPass(ind, list, n) = [ind |-> Sn(s + k), left |-> c < Len(l)]
  BY <1>3, <1>4, <1>6, Zenon DEF UnitPass
<1>8. UnitPass(ind, list, n).ind = Sn(s + k)
  BY <1>7
<1>9. UnitDue(ind, list, n) = c
  BY <1>4, <1>6, <1>8, Zenon DEF UnitDue
<1>10. c \in 0 .. Len(list) + 1
  BY <1>2
<1>11. UnitResult(ind, list, b, p, n, z, q, l, k, c)
  BY <1>4, <1>5, <1>7, <1>9, Zenon DEF s, P, UnitResult
<1>. QED  BY <1>1, <1>10, <1>11, Zenon

\* Every sequence number is that of a number less than half a turn from ind_sn.
LEMMA Nearby ==
    ASSUME NEW ind \in Ring, NEW n \in Nat
    PROVE  \E z \in Int : Sn(n) = Sn(z) /\ ind - H <= z /\ z < ind + H
<1>1. PICK s \in Ring : s = Sn(n)
  BY RingClosed
<1>2. s \in Int /\ ind \in Int /\ 0 <= s /\ s < SnMod /\ 0 <= ind /\ ind < SnMod
  BY RingFacts DEF Ring
<1>3. PICK z \in Int : /\ z = s \/ z = s + SnMod \/ z = s - SnMod
                       /\ ind - H <= z /\ z < ind + H
  <2>1. CASE s < ind - H
    <3>1. s + SnMod \in Int /\ ind - H <= s + SnMod /\ s + SnMod < ind + H
      BY <1>2, <2>1, RingFacts
    <3>. QED  BY <3>1, Zenon
  <2>2. CASE s >= ind + H
    <3>1. s - SnMod \in Int /\ ind - H <= s - SnMod /\ s - SnMod < ind + H
      BY <1>2, <2>2, RingFacts
    <3>. QED  BY <3>1, Zenon
  <2>. QED  BY <1>2, <2>1, <2>2, RingFacts
<1>4. z % SnMod = s
  <2>1. /\ 0 <= z /\ z < SnMod => z % SnMod = z
        /\ -SnMod <= z /\ z < 0 => z % SnMod = z + SnMod
        /\ SnMod <= z /\ z < 2 * SnMod => z % SnMod = z - SnMod
    BY ModSmall, Zenon
  <2>. QED  BY <1>2, <1>3, <2>1, RingFacts
<1>. QED  BY <1>1, <1>3, <1>4, Zenon DEF Sn

\* A frame keeps the list in the window; it leaves frames waiting only if it says so.
LEMMA UnitWindow ==
    ASSUME NEW list \in Seq(Nat), NEW ind \in Ring \cup {NoSn}, NEW n \in Nat,
           InWindow(ind, list), ind = NoSn => list = <<>>
    PROVE  /\ reord_need_check(ind, Sn(n)).late \/ Held(list, n)
                 => reord_need_check(ind, Sn(n)).ind = ind
           /\ ~reord_need_check(ind, Sn(n)).late /\ ~Held(list, n) =>
                 /\ InWindow(UnitPass(ind, list, n).ind, UnitRest(ind, list, n))
                 /\ UnitPass(ind, list, n).left = (UnitDue(ind, list, n) < Len(UnitList(list, n)))
<1>0. PICK b \in Int, z \in Int : \E p : Incoming(ind, list, b, p, n, z)
  <2>1. CASE ind \in Ring
    <3>1. Waiting(ind, list, ind, Numbers(ind, list))
      BY <2>1, WindowWaiting
    <3>2. PICK z \in Int : Sn(n) = Sn(z) /\ ind - H <= z /\ z < ind + H
      BY <2>1, Nearby
    <3>3. ind \in Int
      BY <2>1, RingFacts DEF Ring
    <3>. QED  BY <3>1, <3>2, <3>3, Zenon DEF Incoming
  <2>2. CASE ind = NoSn
    <3>1. n \in Int /\ n - H <= n /\ n < n + H
      BY RingFacts
    <3>. QED  BY <2>2, <3>1, Zenon DEF Incoming
  <2>. QED  BY <2>1, <2>2
<1>1. PICK p : Incoming(ind, list, b, p, n, z)
  BY <1>0
<1>. DEFINE check == reord_need_check(ind, Sn(n))
            l == UnitList(list, n)  c == UnitDue(ind, list, n)
<1>2. (check.late <=> z < b) /\ (z < b => check.ind = ind) /\ (z >= b => check.ind = Sn(Start(b, z)))
  BY <1>1, CheckValue
<1>. HIDE DEF check
<1>3. check.late => check.ind = ind
  BY <1>2, Zenon
<1>4. ~check.late => z >= b
  <2>1. z < b \/ z >= b
    OBVIOUS
  <2>. QED  BY <1>2, <2>1, Zenon
<1>5. ASSUME ~check.late, Held(list, n) PROVE check.ind = ind
  <2>1. PICK i \in 1 .. Len(list) : p[i] = z
    BY <1>1, <1>4, <1>5, BeforeValue
  <2>2. Waiting(ind, list, b, p)
    <3>1. list # <<>>
      BY SeqEntries
    <3>. QED  BY <1>1, <3>1, Zenon DEF Incoming
  <2>3. b < z /\ z < b + W
    BY <2>1, <2>2, Zenon DEF Waiting
  <2>4. Start(b, z) = b
    BY <2>3, RingFacts DEF Start
  <2>. QED  BY <1>2, <1>4, <1>5, <2>2, <2>4, Zenon DEF Waiting
<1>6. ASSUME ~check.late, ~Held(list, n)
      PROVE  /\ InWindow(UnitPass(ind, list, n).ind, SubSeq(l, c + 1, Len(l)))
             /\ UnitPass(ind, list, n).left = (c < Len(l))
  <2>1. PICK q \in 0 .. Len(list), m \in Seq(Nat), k \in 0 .. W, d \in 0 .. Len(list) + 1 :
           Enqueued(list, b, p, n, z, q, m) /\ UnitResult(ind, list, b, p, n, z, q, m, k, d)
    BY <1>1, <1>4, <1>6, UnitRun, Zenon
  <2>2. l = m /\ Start(b, z) \in Int /\ Len(m) = Len(list) + 1
    BY <2>1, Zenon DEF Enqueued, UnitList
  <2>3. c = d /\ UnitPass(ind, list, n) = [ind |-> Sn(Start(b, z) + k), left |-> d < Len(m)]
    BY <2>1, Zenon DEF UnitResult
  <2>4. Waiting(Sn(Start(b, z) + k), SubSeq(m, d + 1, Len(m)), Start(b, z) + k, Behind(Put(p, q, z), d))
    BY <2>1, Zenon DEF UnitResult
  <2>5. SubSeq(m, d + 1, Len(m)) \in Seq(Nat)
    <3>1. d \in 0 .. Len(m)
      BY <2>2
    <3>. QED  BY <3>1, CutInTwo
  <2>6. Start(b, z) + k \in Int
    BY <2>2, RingFacts
  <2>7. InWindow(Sn(Start(b, z) + k), SubSeq(m, d + 1, Len(m)))
    BY <2>4, <2>5, <2>6, WaitingWindow, Zenon
  <2>8. UnitPass(ind, list, n).ind = Sn(Start(b, z) + k) /\ UnitPass(ind, list, n).left = (d < Len(m))
    BY <2>3
  <2>. HIDE DEF l, c
  <2>. QED  BY <2>2, <2>3, <2>7, <2>8, Zenon
<1>. HIDE DEF l, c
<1>7. /\ check.late \/ Held(list, n) => check.ind = ind
      /\ ~check.late /\ ~Held(list, n) =>
           /\ InWindow(UnitPass(ind, list, n).ind, SubSeq(l, c + 1, Len(l)))
           /\ UnitPass(ind, list, n).left = (c < Len(l))
  BY <1>3, <1>5, <1>6, Zenon
<1>. QED  BY <1>7, Zenon DEF check, l, c, UnitRest

\* The forced pass: it starts at the first frame that waits.
WorkerPass(list) == reord_rxframes_process(Sn(list[1]), list)
WorkerDue(list) == reord_rxframes_ind(WorkerPass(list).ind, list)

WorkerResult(list, p, k, c) ==
    /\ WorkerDue(list) = c
    /\ WorkerPass(list) = [ind |-> Sn(p[1] + k), left |-> c < Len(list)]
    /\ Reached(p, p[1], k, c)
    /\ \A i \in c + 1 .. Len(list) : p[i] > p[1] + k
    /\ Waiting(Sn(p[1] + k), SubSeq(list, c + 1, Len(list)), p[1] + k, Behind(p, c))

\* What a forced pass does.
LEMMA WorkerRun ==
    ASSUME NEW list \in Seq(Nat), NEW ind, NEW b \in Int, NEW p,
           Waiting(ind, list, b, p), list # <<>>
    PROVE  \E k \in 0 .. W, c \in 0 .. Len(list) : WorkerResult(list, p, k, c)
<1>1. Len(list) \in Nat /\ 1 \in 1 .. Len(list)
  BY SeqEntries
<1>2. PICK s \in Int : s = p[1] /\ Sn(list[1]) = Sn(s) /\ b < s
  BY <1>1, Zenon DEF Waiting
<1>3. Placed(list, s, p)
  <2>1. ASSUME NEW i \in 1 .. Len(list)
        PROVE  /\ p[i] \in Int /\ Sn(list[i]) = Sn(p[i])
               /\ s + 1 - H + W <= p[i] /\ p[i] < s + W
    <3>1. PICK x \in Int : x = p[i] /\ Sn(list[i]) = Sn(x) /\ x < b + W
      BY Zenon DEF Waiting
    <3>2. s <= x
      <4>1. i = 1 \/ 1 < i
        BY <1>1
      <4>2. i = 1 \/ s < x
        BY <1>1, <1>2, <3>1, <4>1, Zenon DEF Waiting
      <4>. QED  BY <1>2, <3>1, <4>2
    <3>3. s + 1 - H + W <= x /\ x < s + W
      <4>1. b < s /\ x < b + W /\ s <= x
        BY <1>2, <3>1, <3>2
      <4>. QED  BY ONLY <4>1, RingFacts, b \in Int, s \in Int, x \in Int
    <3>. QED  BY <3>1, <3>3, Zenon
  <2>2. \A i, j \in 1 .. Len(list) : i < j => p[i] < p[j]
    BY Zenon DEF Waiting
  <2>. QED  BY <2>1, <2>2, Zenon DEF Placed
<1>4. PICK k \in 0 .. W, c \in 0 .. Len(list) :
             /\ reord_rxframes_process(Sn(s), list) = [ind |-> Sn(s + k), left |-> c < Len(list)]
             /\ reord_rxframes_ind(Sn(s + k), list) = c
             /\ Reached(p, s, k, c)
             /\ \A i \in c + 1 .. Len(list) : p[i] > s + k
  BY <1>3, ProcessRun, Zenon
<1>5. Waiting(Sn(s + k), SubSeq(list, c + 1, Len(list)), s + k, Behind(p, c))
  BY <1>3, <1>4, RestWaits, Zenon
<1>6. WorkerPass(list) = [ind |-> Sn(s + k), left |-> c < Len(list)]
  BY <1>2, <1>4, Zenon DEF WorkerPass
<1>7. WorkerPass(list).ind = Sn(s + k)
  BY <1>6
<1>8. WorkerDue(list) = c
  BY <1>4, <1>7, Zenon DEF WorkerDue
<1>9. WorkerResult(list, p, k, c)
  BY <1>2, <1>4, <1>5, <1>6, <1>8, Zenon DEF WorkerResult
<1>. QED  BY <1>9, Zenon

\* It keeps the list in the window too.
LEMMA WorkerWindow ==
    ASSUME NEW list \in Seq(Nat), NEW ind \in Ring, InWindow(ind, list), list # <<>>
    PROVE  /\ InWindow(WorkerPass(list).ind, SubSeq(list, WorkerDue(list) + 1, Len(list)))
           /\ WorkerPass(list).left = (WorkerDue(list) < Len(list))
<1>. DEFINE p == Numbers(ind, list)
<1>1. Waiting(ind, list, ind, p)
  BY WindowWaiting
<1>2. ind \in Int
  BY RingFacts DEF Ring
<1>. HIDE DEF p
<1>3. PICK k \in 0 .. W, c \in 0 .. Len(list) : WorkerResult(list, p, k, c)
  BY <1>1, <1>2, WorkerRun, Zenon
<1>4. /\ WorkerDue(list) = c
      /\ WorkerPass(list) = [ind |-> Sn(p[1] + k), left |-> c < Len(list)]
      /\ Waiting(Sn(p[1] + k), SubSeq(list, c + 1, Len(list)), p[1] + k, Behind(p, c))
  BY <1>3, Zenon DEF WorkerResult
<1>5. p[1] + k \in Int
  <2>1. 1 \in 1 .. Len(list)
    BY SeqEntries
  <2>2. p[1] \in Int
    BY <1>1, <2>1, Zenon DEF Waiting
  <2>. QED  BY <2>2, RingFacts
<1>6. SubSeq(list, c + 1, Len(list)) \in Seq(Nat)
  BY CutInTwo
<1>7. InWindow(Sn(p[1] + k), SubSeq(list, c + 1, Len(list)))
  BY <1>4, <1>5, <1>6, WaitingWindow, Zenon
<1>8. WorkerPass(list).ind = Sn(p[1] + k) /\ WorkerPass(list).left = (c < Len(list))
  BY <1>4
<1>. QED  BY <1>4, <1>7, <1>8, Zenon

-----------------------------------------------------------------------------
(* The numbers the peer gave: what is delivered and what waits is in order. *)

\* Stands(N), of any state.
StandsFor(ind, list, out, hi, N) ==
    /\ ind = Sn(N)
    /\ \A i \in 1 .. Len(list) : N < list[i] /\ list[i] < N + W /\ list[i] <= hi
    /\ \A i \in 1 .. Len(out) : out[i] < N
    /\ hi < N + W
    /\ N = hi - W + 1 \/ \E i \in 1 .. Len(out) : out[i] = N - 1

\* In the window the frames are numbered in their order.
LEMMA NumbersWaiting ==
    ASSUME NEW list \in Seq(Nat), NEW out, NEW hi, NEW ind, NEW N \in Nat,
           InWindow(ind, list), StandsFor(ind, list, out, hi, N)
    PROVE  Waiting(ind, list, N, list)
<1>1. ASSUME NEW i \in 1 .. Len(list)
      PROVE  /\ list[i] \in Int /\ N < list[i] /\ list[i] < N + W
             /\ Ahead(ind, Sn(list[i])) = list[i] - N
  <2>1. PICK x \in Int : x = list[i] /\ N < x /\ x < N + W
    <3>1. list[i] \in Int
      BY SeqEntries
    <3>. QED  BY <3>1, Zenon DEF StandsFor
  <2>2. Ahead(ind, Sn(x)) = (x - N) % SnMod
    <3>1. N \in Int
      OBVIOUS
    <3>. QED  BY <3>1, SameDistance, Zenon DEF StandsFor
  <2>3. PICK d \in Int : d = x - N /\ 0 <= d /\ d < SnMod
    BY <2>1, RingFacts
  <2>4. d % SnMod = d
    BY <2>3, ModSmall, Zenon
  <2>. QED  BY <2>1, <2>2, <2>3, <2>4, Zenon
<1>2. ASSUME NEW i \in 1 .. Len(list), NEW j \in 1 .. Len(list), i < j PROVE list[i] < list[j]
  <2>1. Ahead(ind, Sn(list[i])) < Ahead(ind, Sn(list[j]))
    BY <1>2, Zenon DEF InWindow
  <2>2. PICK x \in Int, y \in Int : x = list[i] /\ y = list[j]
    BY <1>1, Zenon
  <2>3. x - N < y - N
    BY <1>1, <2>1, <2>2, Zenon
  <2>. QED  BY <2>2, <2>3
<1>. QED  BY <1>1, <1>2, Zenon DEF Waiting, StandsFor

\* The frame that arrives is near enough for its sequence number to tell.
LEMMA NumbersIncoming ==
    ASSUME NEW list \in Seq(Nat), NEW out, NEW hi \in Nat, NEW ind, NEW N \in Nat, N <= hi + 1,
           InWindow(ind, list), StandsFor(ind, list, out, hi, N),
           NEW n \in Nat, hi - W + 1 <= n, n <= hi + H - W
    PROVE  Incoming(ind, list, N, list, n, n)
<1>1. Waiting(ind, list, N, list)
  BY NumbersWaiting
<1>2. hi < N + W
  BY Zenon DEF StandsFor
<1>3. N - H <= n /\ n < N + H
  BY <1>2, RingFacts
<1>. QED  BY <1>1, <1>3, Zenon DEF Incoming

\* The list is in order, what it holds lies before or behind N.
LEMMA Ordered ==
    ASSUME NEW list \in Seq(Nat), NEW b \in Int, NEW p, Placed(list, b, p),
           \A i \in 1 .. Len(list) : p[i] = list[i]
    PROVE  Sorted(list)
BY Zenon DEF Placed, Sorted

\* Comparisons put together.
LEMMA Between ==
    /\ \A x, y, z \in Int : x < y /\ y <= z => x < z
    /\ \A x, y, z \in Int : x <= y /\ y <= z => x <= z
    /\ \A x, y \in Int : x < y => x <= y
    /\ \A x, y, z \in Int : x < y + W /\ y <= z => x < z + W
    /\ \A x, y \in Int : x > y => y < x
    /\ \A x \in Nat : x \in Int
BY RingFacts

\* Two parts in order, the first before the second.
LEMMA SortedJoin ==
    ASSUME NEW s \in Seq(Nat), NEW t \in Seq(Nat), Sorted(s), Sorted(t),
           \A i \in 1 .. Len(s), j \in 1 .. Len(t) : s[i] < t[j]
    PROVE  Sorted(s \o t)
<1>. DEFINE u == s \o t
<1>1. Len(s) \in Nat /\ Len(t) \in Nat
  BY SeqEntries
<1>2. /\ Len(u) = Len(s) + Len(t)
      /\ \A i \in 1 .. Len(s) : u[i] = s[i]
      /\ \A i \in 1 .. Len(t) : u[Len(s) + i] = t[i]
  BY PutTogether
<1>. HIDE DEF u
<1>3. ASSUME NEW i \in 1 .. Len(u), ~(i \in 1 .. Len(s))
      PROVE  i - Len(s) \in 1 .. Len(t) /\ u[i] = t[i - Len(s)]
  <2>1. i - Len(s) \in 1 .. Len(t) /\ i = Len(s) + (i - Len(s))
    <3>1. Len(u) = Len(s) + Len(t)
      BY <1>2
    <3>. QED  BY ONLY <1>1, <1>3, <3>1, i \in 1 .. Len(u)
  <2>. QED  BY <1>2, <2>1, Zenon
<1>4. ASSUME NEW i \in 1 .. Len(u), NEW j \in 1 .. Len(u), i < j PROVE u[i] < u[j]
  <2>1. CASE i \in 1 .. Len(s) /\ j \in 1 .. Len(s)
    BY <1>2, <1>4, <2>1, Zenon DEF Sorted
  <2>2. CASE i \in 1 .. Len(s) /\ ~(j \in 1 .. Len(s))
    BY <1>2, <1>3, <2>2, Zenon
  <2>3. CASE ~(i \in 1 .. Len(s)) /\ ~(j \in 1 .. Len(s))
    <3>1. i - Len(s) \in 1 .. Len(t) /\ u[i] = t[i - Len(s)]
      BY <1>3, <2>3, Zenon
    <3>2. j - Len(s) \in 1 .. Len(t) /\ u[j] = t[j - Len(s)]
      BY <1>3, <2>3, Zenon
    <3>3. i - Len(s) < j - Len(s)
      <4>1. Len(u) \in Nat
        BY <1>1, <1>2
      <4>. QED  BY ONLY <1>1, <1>4, <4>1, i \in 1 .. Len(u), j \in 1 .. Len(u)
    <3>. QED  BY <3>1, <3>2, <3>3, Zenon DEF Sorted
  <2>4. CASE ~(i \in 1 .. Len(s)) /\ j \in 1 .. Len(s)
    BY <1>1, <1>2, <1>4, <2>4
  <2>. QED  BY <2>1, <2>2, <2>3, <2>4
<1>5. Sorted(u)
  BY <1>4, Zenon DEF Sorted
<1>. QED  BY <1>5 DEF u

\* What a pass that starts at b and reaches M, at the numbers themselves, leaves:
\* the deliveries in order, all of them before M, the rest in the window behind M.
LEMMA PassNumbers ==
    ASSUME NEW out \in Seq(Nat), NEW l \in Seq(Nat), NEW hi \in Nat, NEW b \in Nat,
           NEW M \in Nat, NEW c \in 0 .. Len(l), Sorted(out), Sorted(l), b <= M,
           \A i \in 1 .. Len(out) : out[i] < b,
           \A i \in 1 .. Len(l) : b <= l[i] /\ l[i] <= hi,
           \A i \in 1 .. c : l[i] < M,
           \A i \in c + 1 .. Len(l) : M < l[i] /\ l[i] < M + W,
           hi < M + W, b <= hi + 1,
           \/ M = hi - W + 1
           \/ \E i \in 1 .. Len(out) : out[i] = M - 1
           \/ \E i \in 1 .. c : l[i] = M - 1
    PROVE  /\ out \o SubSeq(l, 1, c) \in Seq(Nat) /\ Sorted(out \o SubSeq(l, 1, c))
           /\ M \in 0 .. hi + 1
           /\ StandsFor(Sn(M), SubSeq(l, c + 1, Len(l)), out \o SubSeq(l, 1, c), hi, M)
<1>. DEFINE s == SubSeq(l, 1, c)  r == SubSeq(l, c + 1, Len(l))  u == out \o s
<1>1. Len(l) \in Nat /\ Len(out) \in Nat /\ c \in Nat /\ c <= Len(l)
  BY SeqEntries
<1>2. /\ s \in Seq(Nat) /\ Len(s) = c /\ \A i \in 1 .. c : s[i] = l[i]
      /\ r \in Seq(Nat) /\ Len(r) = Len(l) - c /\ \A i \in 1 .. Len(l) - c : r[i] = l[c + i]
  BY CutInTwo, ZenonT(30)
<1>. HIDE DEF s, r
<1>3. /\ u \in Seq(Nat) /\ Len(u) = Len(out) + c
      /\ \A i \in 1 .. Len(out) : u[i] = out[i]
      /\ \A i \in 1 .. c : u[Len(out) + i] = s[i]
  BY <1>2, PutTogether, Zenon
<1>4. \A i \in 1 .. c : i \in 1 .. Len(l)
  BY <1>1
<1>5. Sorted(u)
  <2>1. Sorted(s)
    BY <1>2, <1>4, Zenon DEF Sorted
  <2>2. ASSUME NEW i \in 1 .. Len(out), NEW j \in 1 .. Len(s) PROVE out[i] < s[j]
    <3>1. out[i] < b /\ b <= l[j] /\ s[j] = l[j] /\ out[i] \in Nat /\ l[j] \in Nat
      BY <1>2, <1>4, SeqEntries, Zenon
    <3>. QED  BY <3>1, Between, Zenon
  <2>. QED  BY <1>2, <2>1, <2>2, SortedJoin, Zenon
<1>. HIDE DEF u
<1>6. ASSUME NEW i \in 1 .. Len(u) PROVE u[i] < M
  <2>1. CASE i \in 1 .. Len(out)
    <3>1. u[i] = out[i] /\ out[i] < b /\ out[i] \in Nat
      BY <1>3, <2>1, SeqEntries, Zenon
    <3>. QED  BY ONLY <3>1, b \in Nat, M \in Nat, b <= M
  <2>2. CASE ~(i \in 1 .. Len(out))
    <3>1. i - Len(out) \in 1 .. c /\ i = Len(out) + (i - Len(out))
      <4>1. Len(u) = Len(out) + c
        BY <1>3
      <4>. QED  BY ONLY <1>1, <2>2, <4>1, i \in 1 .. Len(u)
    <3>2. u[i] = l[i - Len(out)] /\ l[i - Len(out)] < M
      BY <1>2, <1>3, <3>1, Zenon
    <3>. QED  BY <3>2, Zenon
  <2>. QED  BY <2>1, <2>2
<1>7. ASSUME NEW i \in 1 .. Len(r) PROVE M < r[i] /\ r[i] < M + W /\ r[i] <= hi
  <2>1. r[i] = l[c + i] /\ c + i \in 1 .. Len(l) /\ c + i \in c + 1 .. Len(l)
    BY <1>1, <1>2
  <2>. QED  BY <2>1, Zenon
<1>8. M = hi - W + 1 \/ \E i \in 1 .. Len(u) : u[i] = M - 1
  <2>1. CASE \E i \in 1 .. Len(out) : out[i] = M - 1
    <3>1. \A i \in 1 .. Len(out) : i \in 1 .. Len(u)
      BY <1>1, <1>3
    <3>. QED  BY <1>3, <2>1, <3>1, Zenon
  <2>2. CASE \E i \in 1 .. c : l[i] = M - 1
    <3>1. \A i \in 1 .. c : Len(out) + i \in 1 .. Len(u)
      BY <1>1, <1>3
    <3>2. PICK i \in 1 .. c : l[i] = M - 1
      BY <2>2
    <3>3. u[Len(out) + i] = M - 1 /\ Len(out) + i \in 1 .. Len(u)
      BY <1>2, <1>3, <3>1, <3>2, Zenon
    <3>. QED  BY <3>3, Zenon
  <2>. QED  BY <2>1, <2>2, Zenon
<1>9. M <= hi + 1
  <2>1. CASE \E i \in 1 .. c : l[i] = M - 1
    <3>1. PICK i \in 1 .. c : l[i] = M - 1
      BY <2>1
    <3>2. l[i] <= hi
      BY <1>4, <3>1, Zenon
    <3>. QED  BY <3>1, <3>2
  <2>2. CASE M = hi - W + 1
    BY <2>2, RingFacts
  <2>3. CASE \E i \in 1 .. Len(out) : out[i] = M - 1
    <3>1. PICK i \in 1 .. Len(out) : out[i] = M - 1
      BY <2>3
    <3>2. out[i] < b
      BY <3>1
    <3>. QED  BY <3>1, <3>2
  <2>. QED  BY <2>1, <2>2, <2>3
<1>10. StandsFor(Sn(M), r, u, hi, M)
  BY <1>6, <1>7, <1>8, Zenon DEF StandsFor
<1>11. M \in 0 .. hi + 1
  BY <1>9
<1>. QED  BY <1>3, <1>5, <1>10, <1>11, Zenon DEF s, r, u

Higher(n, hi) == IF n > hi THEN n ELSE hi

\* Frame n meets a buffer that stands for N.
Ready(ind, list, out, hi, n, N) ==
    /\ Incoming(ind, list, N, list, n, n) /\ N <= hi + 1 /\ hi < N + W
    /\ \A i \in 1 .. Len(list) : N < list[i] /\ list[i] < N + W /\ list[i] <= hi
    /\ \A i \in 1 .. Len(out) : out[i] < N
    /\ n = N \/ N = hi - W + 1 \/ \E i \in 1 .. Len(out) : out[i] = N - 1

\* A frame the buffer has seen the like of: the deliveries stay in order.
LEMMA UnitNumbers ==
    ASSUME NEW list \in Seq(Nat), NEW out \in Seq(Nat), NEW hi \in Nat,
           NEW ind \in Ring \cup {NoSn}, NEW n \in Nat, NEW N \in Nat, Sorted(out),
           Ready(ind, list, out, hi, n, N), n >= N, ~Held(list, n)
    PROVE  /\ Sorted(UnitOut(ind, list, n, out))
           /\ \E M \in 0 .. Higher(n, hi) + 1 :
                 StandsFor(UnitPass(ind, list, n).ind, UnitRest(ind, list, n),
                           UnitOut(ind, list, n, out), Higher(n, hi), M)
<1>. DEFINE top == Higher(n, hi)
<1>r. /\ Incoming(ind, list, N, list, n, n) /\ N <= hi + 1 /\ hi < N + W
      /\ \A i \in 1 .. Len(list) : N < list[i] /\ list[i] < N + W /\ list[i] <= hi
      /\ \A i \in 1 .. Len(out) : out[i] < N
      /\ n = N \/ N = hi - W + 1 \/ \E i \in 1 .. Len(out) : out[i] = N - 1
  BY Zenon DEF Ready
<1>0. /\ N \in Int /\ n \in Int /\ top \in Nat /\ n <= top /\ hi <= top /\ Len(list) \in Nat
      /\ top = (IF n > hi THEN n ELSE hi)
  BY SeqEntries DEF Higher
<1>1. PICK q \in 0 .. Len(list), l \in Seq(Nat), k \in 0 .. W, c \in 0 .. Len(list) + 1 :
         Enqueued(list, N, list, n, n, q, l) /\ UnitResult(ind, list, N, list, n, n, q, l, k, c)
  BY <1>0, <1>r, UnitRun, Zenon
<1>. DEFINE P == Put(list, q, n)  b == Start(N, n)
<1>2. /\ UnitList(list, n) = l /\ Len(l) = Len(list) + 1
      /\ \A i \in 1 .. q : l[i] = list[i]
      /\ l[q + 1] = n
      /\ \A i \in q + 2 .. Len(list) + 1 : l[i] = list[i - 1]
      /\ b \in Int /\ Placed(l, b, P)
  BY <1>1, Zenon DEF Enqueued, UnitList
<1>3. /\ UnitDue(ind, list, n) = c
      /\ UnitPass(ind, list, n) = [ind |-> Sn(b + k), left |-> c < Len(l)]
      /\ Reached(P, b, k, c)
      /\ \A i \in c + 1 .. Len(l) : P[i] > b + k
  BY <1>1, Zenon DEF UnitResult
<1>4. \A i \in 1 .. Len(l) : i \in 1 .. q \/ i = q + 1 \/ i \in q + 2 .. Len(list) + 1
  BY <1>0, <1>2
<1>5. ASSUME NEW i \in 1 .. Len(l) PROVE P[i] = l[i] /\ N <= l[i] /\ l[i] <= top
  <2>0. i \in Nat /\ q \in Nat
    BY <1>0, <1>2
  <2>1. CASE i \in 1 .. q
    <3>1. P[i] = list[i] /\ i \in 1 .. Len(list)
      BY <1>0, <2>0, <2>1 DEF Put
    <3>2. l[i] = list[i] /\ N < list[i] /\ list[i] <= hi /\ list[i] \in Nat
      BY <1>2, <1>r, <2>1, <3>1, SeqEntries, Zenon
    <3>3. N <= l[i] /\ l[i] <= top
      <4>. HIDE DEF top
      <4>1. PICK x \in Nat : x = l[i] /\ N < x /\ x <= hi
        BY <3>2, Zenon
      <4>2. N <= x /\ x <= top
        BY <1>0, <4>1, Between, Zenon
      <4>. QED  BY ONLY <4>1, <4>2, Zenon
    <3>. QED  BY ONLY <3>1, <3>2, <3>3, Zenon
  <2>2. CASE i = q + 1
    <3>1. P[i] = n
      BY <2>0, <2>2 DEF Put
    <3>. QED  BY <1>0, <1>2, <2>2, <3>1, Zenon
  <2>3. CASE i \in q + 2 .. Len(list) + 1
    <3>1. P[i] = list[i - 1] /\ i - 1 \in 1 .. Len(list)
      BY <1>0, <2>0, <2>3 DEF Put
    <3>2. l[i] = list[i - 1] /\ N < list[i - 1] /\ list[i - 1] <= hi /\ list[i - 1] \in Nat
      BY <1>2, <1>r, <2>3, <3>1, SeqEntries, Zenon
    <3>3. N <= l[i] /\ l[i] <= top
      <4>. HIDE DEF top
      <4>1. PICK x \in Nat : x = l[i] /\ N < x /\ x <= hi
        BY <3>2, Zenon
      <4>2. N <= x /\ x <= top
        BY <1>0, <4>1, Between, Zenon
      <4>. QED  BY ONLY <4>1, <4>2, Zenon
    <3>. QED  BY ONLY <3>1, <3>2, <3>3, Zenon
  <2>. QED  BY <1>4, <2>1, <2>2, <2>3
<1>6. Len(l) \in Nat /\ c \in 0 .. Len(l)
  BY <1>0, <1>2
<1>7. N <= b /\ b <= n + 1 /\ n < b + W
  BY <1>0, RingFacts DEF Start
<1>8. PICK M \in Nat : M = b + k /\ N <= M /\ b <= M
  <2>. HIDE DEF b
  <2>1. b \in Int /\ k \in Nat
    BY <1>2, RingFacts
  <2>2. b + k \in Nat /\ N <= b + k /\ b <= b + k
    BY ONLY <1>7, <2>1, N \in Nat
  <2>. QED  BY <2>2, Zenon
<1>. HIDE DEF b, P
<1>9. \A i \in 1 .. c : i \in 1 .. Len(l) /\ l[i] < M
  <2>1. \A i \in 1 .. c : i \in 1 .. Len(l)
    BY <1>6
  <2>. QED  BY <1>3, <1>5, <1>8, <2>1, Zenon DEF Reached
<1>10. ASSUME NEW i \in c + 1 .. Len(l) PROVE M < l[i] /\ l[i] < M + W
  <2>1. i \in 1 .. Len(l)
    BY <1>6
  <2>2. P[i] > b + k /\ P[i] < b + W /\ P[i] \in Int /\ P[i] = l[i]
    BY <1>2, <1>3, <1>5, <2>1, Zenon DEF Placed
  <2>3. P[i] > M
    BY <1>8, <2>2, Zenon
  <2>. QED  BY <1>2, <1>8, <2>2, <2>3, Between, Zenon
<1>11. top < M + W
  <2>. HIDE DEF top
  <2>1. hi < N + W /\ n < b + W /\ b \in Int
    BY <1>2, <1>7, <1>r, Zenon
  <2>. QED  BY ONLY <1>0, <1>8, <2>1, RingFacts, hi \in Nat
<1>12. \/ M = top - W + 1
       \/ \E i \in 1 .. Len(out) : out[i] = M - 1
       \/ \E i \in 1 .. c : l[i] = M - 1
  <2>1. CASE k # 0
    <3>1. PICK i \in 1 .. c : P[i] = b + k - 1
      BY <1>3, <2>1, Zenon DEF Reached
    <3>2. l[i] = P[i]
      BY <1>5, <1>9, <3>1, Zenon
    <3>3. b + k - 1 = M - 1
      BY <1>2, <1>8, RingFacts
    <3>. QED  BY <3>1, <3>2, <3>3, Zenon
  <2>2. CASE k = 0
    <3>0. M = b
      BY <1>2, <1>8, <2>2
    <3>1. CASE n = N
      <4>1. M = n + 1
        BY <1>0, <3>0, <3>1 DEF b, Start
      <4>2. q + 1 \in 1 .. c
        <5>1. q + 1 \in 1 .. Len(l)
          BY <1>0, <1>2
        <5>2. q + 1 \in c + 1 .. Len(l) => FALSE
          <6>1. q + 1 \in c + 1 .. Len(l) => n + 1 < n
            BY <1>2, <1>10, <4>1, Zenon
          <6>. QED  BY ONLY <1>0, <6>1
        <5>. QED  BY <1>6, <5>1, <5>2
      <4>. QED  BY <1>0, <1>2, <4>1, <4>2
    <3>2. CASE n >= N + W
      <4>1. b = n - W + 1
        <5>1. n # N
          BY ONLY <1>0, <3>2, RingFacts
        <5>. QED  BY <3>2, <5>1, Zenon DEF b, Start
      <4>2. top = n
        <5>1. hi < N + W
          BY <1>r, Zenon
        <5>. HIDE DEF top
        <5>. QED  BY ONLY <1>0, <3>2, <5>1, RingFacts, hi \in Nat
      <4>. QED  BY <3>0, <4>1, <4>2, Zenon
    <3>3. CASE n # N /\ ~(n >= N + W)
      <4>1. M = N
        BY <1>0, <3>0, <3>3 DEF b, Start
      <4>2. N = hi - W + 1 => top = hi
        BY <1>0, <1>r, <3>3, RingFacts
      <4>. QED  BY <1>r, <3>3, <4>1, <4>2, Zenon
    <3>. QED  BY <3>1, <3>2, <3>3
  <2>. QED  BY <2>1, <2>2
<1>13. Sorted(l)
  BY <1>2, <1>5, Ordered, Zenon
<1>14. N <= top + 1
  BY <1>0, <1>r
<1>. HIDE DEF top
<1>15. /\ out \o SubSeq(l, 1, c) \in Seq(Nat) /\ Sorted(out \o SubSeq(l, 1, c))
       /\ M \in 0 .. top + 1
       /\ StandsFor(Sn(M), SubSeq(l, c + 1, Len(l)), out \o SubSeq(l, 1, c), top, M)
  <2>1. \A i \in 1 .. Len(l) : N <= l[i] /\ l[i] <= top
    BY <1>5, Zenon
  <2>2. \A i \in 1 .. c : l[i] < M
    BY <1>9, Zenon
  <2>3. \A i \in c + 1 .. Len(l) : M < l[i] /\ l[i] < M + W
    BY <1>10, Zenon
  <2>. QED  BY <1>0, <1>6, <1>8, <2>2, <2>3, <1>11, <1>12, <1>13, <1>14, <1>r, <2>1,
            PassNumbers, ZenonT(60)
<1>16. UnitPass(ind, list, n).ind = Sn(M)
  BY <1>3, <1>8
<1>. QED  BY <1>2, <1>3, <1>15, <1>16, Zenon DEF top, UnitRest, UnitOut

\* The same of a forced pass.
LEMMA WorkerNumbers ==
    ASSUME NEW list \in Seq(Nat), NEW out \in Seq(Nat), NEW hi \in Nat,
           NEW ind, NEW N \in Nat, Sorted(out), InWindow(ind, list), list # <<>>,
           StandsFor(ind, list, out, hi, N), N <= hi + 1
    PROVE  /\ Sorted(out \o SubSeq(list, 1, WorkerDue(list)))
           /\ \E M \in 0 .. hi + 1 :
                 StandsFor(WorkerPass(list).ind, SubSeq(list, WorkerDue(list) + 1, Len(list)),
                           out \o SubSeq(list, 1, WorkerDue(list)), hi, M)
<1>0. N \in Int /\ Len(list) \in Nat /\ 1 \in 1 .. Len(list)
  BY SeqEntries
<1>1. Waiting(ind, list, N, list)
  BY NumbersWaiting
<1>2. PICK k \in 0 .. W, c \in 0 .. Len(list) : WorkerResult(list, list, k, c)
  BY <1>0, <1>1, WorkerRun, Zenon
<1>3. /\ WorkerDue(list) = c
      /\ WorkerPass(list) = [ind |-> Sn(list[1] + k), left |-> c < Len(list)]
      /\ Reached(list, list[1], k, c)
      /\ \A i \in c + 1 .. Len(list) : list[i] > list[1] + k
  BY <1>2, Zenon DEF WorkerResult
<1>4. /\ \A i \in 1 .. Len(list) : N < list[i] /\ list[i] < N + W /\ list[i] <= hi
      /\ \A i \in 1 .. Len(out) : out[i] < N
      /\ hi < N + W
  BY Zenon DEF StandsFor
<1>5. Sorted(list)
  BY <1>1, Zenon DEF Waiting, Sorted
<1>6. PICK f \in Nat : f = list[1] /\ N < f
  BY <1>0, <1>4, SeqEntries
<1>7. PICK M \in Nat : M = f + k /\ N <= M
  BY <1>6, RingFacts
<1>8. \A i \in 1 .. c : i \in 1 .. Len(list) /\ list[i] < M
  <2>1. \A i \in 1 .. c : i \in 1 .. Len(list)
    BY <1>0
  <2>. QED  BY <1>3, <1>6, <1>7, <2>1, Zenon DEF Reached
<1>9. ASSUME NEW i \in c + 1 .. Len(list) PROVE M < list[i] /\ list[i] < M + W
  <2>1. i \in 1 .. Len(list)
    BY <1>0
  <2>2. list[i] > f + k /\ list[i] < N + W /\ list[i] \in Nat
    BY <1>3, <1>4, <1>6, <2>1, SeqEntries
  <2>. QED  BY <1>7, <2>2, RingFacts
<1>10. hi < M + W
  BY <1>4, <1>7, RingFacts
<1>11. k # 0
  <2>1. 1 \in 1 .. c \/ 1 \in c + 1 .. Len(list)
    BY <1>0
  <2>2. k = 0 => ~(f < f + k) /\ ~(f > f + k)
    OBVIOUS
  <2>. QED  BY <1>3, <1>6, <2>1, <2>2, Zenon DEF Reached
<1>12. \E i \in 1 .. c : list[i] = M - 1
  <2>1. PICK i \in 1 .. c : list[i] = list[1] + k - 1
    BY <1>3, <1>11, Zenon DEF Reached
  <2>2. f + k - 1 = M - 1
    <3>1. k \in Int
      BY RingFacts
    <3>. QED  BY ONLY <1>7, <3>1, f \in Nat
  <2>. QED  BY <1>6, <2>1, <2>2, Zenon
<1>13. \A i \in 1 .. Len(list) : N <= list[i] /\ list[i] <= hi
  BY <1>4, SeqEntries
<1>14. /\ out \o SubSeq(list, 1, c) \in Seq(Nat) /\ Sorted(out \o SubSeq(list, 1, c))
       /\ M \in 0 .. hi + 1
       /\ StandsFor(Sn(M), SubSeq(list, c + 1, Len(list)), out \o SubSeq(list, 1, c), hi, M)
  <2>1. \A i \in 1 .. c : list[i] < M
    BY <1>8, Zenon
  <2>2. \A i \in c + 1 .. Len(list) : M < list[i] /\ list[i] < M + W
    BY <1>9, Zenon
  <2>. QED  BY <1>4, <1>5, <1>7, <1>10, <1>12, <1>13, <2>1, <2>2, PassNumbers, Zenon
<1>15. WorkerPass(list).ind = Sn(M)
  BY <1>3, <1>6, <1>7
<1>. QED  BY <1>3, <1>14, <1>15, Zenon

-----------------------------------------------------------------------------
(* The actions keep the invariant. *)

\* The invariant taken apart.
Waits(linked, list) == IF linked THEN Len(list) ELSE 0
InUnit(pc) == IF pc = "unit" THEN 1 ELSE 0
Balance ==
    freequeue + Waits(ctrl.linked, ctrl.list) + InUnit(unit.pc) + seen.leaked = MAX_REORD_RXFRAME

InOrder(ind, list, enable, out, hi, lateOk) ==
    /\ Sorted(out)
    /\ lateOk
    /\ ind # NoSn /\ (enable \/ list # <<>>) =>
          \E N \in 0 .. hi + 1 : StandsFor(ind, list, out, hi, N)

Parts ==
    /\ ReordTypeOK /\ SeenTypeOK /\ Balance
    /\ Places /\ Empties /\ Fresh /\ CarriedNear /\ HeldIsTimed
    /\ ~seen.raced => InWindow(ctrl.ind_sn, ctrl.list)
    /\ ~seen.raced /\ ~seen.far =>
          InOrder(ctrl.ind_sn, ctrl.list, ctrl.enable, seen.out, seen.hi, seen.lateOk)

\* The parts are the invariant.
LEMMA PartsAre == ReordIInv <=> Parts
<1>1. Numbering <=> (~seen.raced /\ ~seen.far =>
          InOrder(ctrl.ind_sn, ctrl.list, ctrl.enable, seen.out, seen.hi, seen.lateOk))
  BY Zenon DEF Numbering, InOrder, Stands, StandsFor
<1>2. DescriptorsKept <=> ReordTypeOK /\ Balance
  BY Zenon DEF DescriptorsKept, Balance, Waits, InUnit
<1>. QED  BY <1>1, <1>2, Zenon DEF ReordIInv, Parts

\* And of the next state.
LEMMA PartsAreNext == Parts' => ReordIInv'
<1>1. (~seen.raced /\ ~seen.far =>
          InOrder(ctrl.ind_sn, ctrl.list, ctrl.enable, seen.out, seen.hi, seen.lateOk))'
        => Numbering'
  BY Zenon DEF Numbering, InOrder, Stands, StandsFor
<1>2. ReordTypeOK' /\ Balance' => DescriptorsKept'
  BY Zenon DEF DescriptorsKept, Balance, Waits, InUnit
<1>. QED  BY <1>1, <1>2, Zenon DEF ReordIInv, Parts

Pcs == {"idle", "unit", "timer", "work"}
Steps == {"idle", "timer", "work", "list", "free"}

\* The fields, one by one.
LEMMA Fields ==
    ASSUME ReordTypeOK, SeenTypeOK
    PROVE  /\ ctrl.linked \in BOOLEAN /\ ctrl.enable \in BOOLEAN /\ ctrl.timer \in BOOLEAN
           /\ ctrl.work \in BOOLEAN /\ ctrl.ind_sn \in Ring \cup {NoSn} /\ ctrl.list \in Seq(Nat)
           /\ unit.pc \in Pcs /\ unit.n \in Nat /\ deinit \in Steps
           /\ freequeue \in Nat /\ freequeue <= MAX_REORD_RXFRAME /\ dangling \in BOOLEAN
           /\ seen.out \in Seq(Nat) /\ seen.hi \in Nat /\ seen.lateOk \in BOOLEAN
           /\ seen.leaked \in Nat /\ seen.raced \in BOOLEAN /\ seen.far \in BOOLEAN
           /\ air.left \in Nat /\ air.flush \in Nat /\ air.hi \in Int
<1>1. /\ ctrl.linked \in BOOLEAN /\ ctrl.enable \in BOOLEAN /\ ctrl.timer \in BOOLEAN
      /\ ctrl.work \in BOOLEAN /\ ctrl.ind_sn \in Ring \cup {NoSn} /\ ctrl.list \in Seq(Nat)
  BY DEF ReordTypeOK, Ring
<1>2. unit.pc \in Pcs /\ unit.n \in Nat /\ deinit \in Steps
  BY DEF ReordTypeOK, Pcs, Steps
<1>3. freequeue \in Nat /\ freequeue <= MAX_REORD_RXFRAME /\ dangling \in BOOLEAN
  BY ReordAssumption DEF ReordTypeOK
<1>4. /\ seen.out \in Seq(Nat) /\ seen.hi \in Nat /\ seen.lateOk \in BOOLEAN
      /\ seen.leaked \in Nat /\ seen.raced \in BOOLEAN /\ seen.far \in BOOLEAN
      /\ air.left \in Nat /\ air.flush \in Nat /\ air.hi \in Int
  BY DEF SeenTypeOK
<1>. QED  BY <1>1, <1>2, <1>3, <1>4, Zenon

\* The descriptors that the rx thread and the list hold.
LEMMA Holders ==
    /\ InUnit("unit") = 1 /\ InUnit("idle") = 0 /\ InUnit("timer") = 0 /\ InUnit("work") = 0
    /\ \A pc \in Pcs : InUnit(pc) \in 0 .. 1 /\ (pc # "unit" => InUnit(pc) = 0)
    /\ \A linked \in BOOLEAN, list \in Seq(Nat) :
          /\ Waits(linked, list) \in Nat
          /\ linked => Waits(linked, list) = Len(list)
          /\ ~linked => Waits(linked, list) = 0
<1>1. /\ InUnit("unit") = 1 /\ InUnit("idle") = 0 /\ InUnit("timer") = 0 /\ InUnit("work") = 0
      /\ \A pc \in Pcs : InUnit(pc) \in 0 .. 1 /\ (pc # "unit" => InUnit(pc) = 0)
  BY DEF InUnit, Pcs
<1>2. ASSUME NEW linked \in BOOLEAN, NEW list \in Seq(Nat)
      PROVE  /\ Waits(linked, list) \in Nat
             /\ linked => Waits(linked, list) = Len(list)
             /\ ~linked => Waits(linked, list) = 0
  BY SeqEntries DEF Waits
<1>. QED  BY <1>1, <1>2

\* The timer is deleted: nothing waits.
LEMMA FlushTimerKeeps ==
    ASSUME Parts, FlushTimer
    PROVE  Parts'
<1>0. ReordTypeOK /\ SeenTypeOK
  BY Zenon DEF Parts
<1>1. /\ ctrl' = [ctrl EXCEPT !.timer = FALSE] /\ unit' = [unit EXCEPT !.pc = "work"]
      /\ unit.pc = "timer" /\ ~dangling
      /\ mode' = mode /\ deinit' = deinit /\ freequeue' = freequeue
      /\ dangling' = dangling /\ air' = air /\ seen' = seen
  BY Zenon DEF FlushTimer
<1>2. /\ ctrl'.linked = ctrl.linked /\ ctrl'.enable = ctrl.enable /\ ctrl'.ind_sn = ctrl.ind_sn
      /\ ctrl'.list = ctrl.list /\ ctrl'.timer = FALSE /\ ctrl'.work = ctrl.work
      /\ unit'.pc = "work" /\ unit'.n = unit.n
  BY <1>0, <1>1 DEF ReordTypeOK
<1>3. ReordTypeOK' /\ SeenTypeOK'
  <2>1. ctrl' \in [linked : BOOLEAN, enable : BOOLEAN, ind_sn : 0 .. SnMod - 1 \cup {NoSn},
                   list : Seq(Nat), timer : BOOLEAN, work : BOOLEAN]
    BY <1>0, <1>1, Zenon DEF ReordTypeOK
  <2>2. unit' \in [pc : {"idle", "unit", "timer", "work"}, n : Nat]
    BY <1>0, <1>1, Zenon DEF ReordTypeOK
  <2>. QED  BY <1>0, <1>1, <2>1, <2>2, Zenon DEF ReordTypeOK, SeenTypeOK
<1>4. ctrl.list = <<>> /\ ~ctrl.enable
  BY <1>1, Zenon DEF Parts, Places
<1>5. Balance'
  <2>1. Balance
    BY Zenon DEF Parts
  <2>. QED  BY <1>1, <1>2, <2>1, Holders, Zenon DEF Balance
<1>6. Places'
  BY <1>1, <1>2, <1>4, Zenon DEF Parts, Places
<1>7. Empties' /\ Fresh' /\ CarriedNear' /\ HeldIsTimed'
  BY <1>1, <1>2, <1>4, Zenon DEF Parts, Places, Empties, Fresh, CarriedNear, HeldIsTimed
<1>8. (~seen.raced => InWindow(ctrl.ind_sn, ctrl.list))'
  BY <1>1, <1>2, Zenon DEF Parts
<1>9. (~seen.raced /\ ~seen.far =>
          InOrder(ctrl.ind_sn, ctrl.list, ctrl.enable, seen.out, seen.hi, seen.lateOk))'
  BY <1>1, <1>2, Zenon DEF Parts
<1>. QED  BY <1>3, <1>5, <1>6, <1>7, <1>8, <1>9, Zenon DEF Parts

\* The work item is waited for: nothing waits.
LEMMA FlushWorkKeeps ==
    ASSUME Parts, FlushWork
    PROVE  Parts'
<1>0. ReordTypeOK /\ SeenTypeOK
  BY Zenon DEF Parts
<1>1. /\ ctrl' = [ctrl EXCEPT !.work = FALSE] /\ unit' = Idle
      /\ unit.pc = "work" /\ ~dangling
      /\ mode' = mode /\ deinit' = deinit /\ freequeue' = freequeue
      /\ dangling' = dangling /\ air' = air /\ seen' = seen
  BY Zenon DEF FlushWork
<1>2. /\ ctrl'.linked = ctrl.linked /\ ctrl'.enable = ctrl.enable /\ ctrl'.ind_sn = ctrl.ind_sn
      /\ ctrl'.list = ctrl.list /\ ctrl'.timer = ctrl.timer /\ ctrl'.work = FALSE
      /\ unit'.pc = "idle" /\ unit'.n = 0
  BY <1>0, <1>1 DEF ReordTypeOK, Idle
<1>3. ReordTypeOK' /\ SeenTypeOK'
  <2>1. ctrl' \in [linked : BOOLEAN, enable : BOOLEAN, ind_sn : 0 .. SnMod - 1 \cup {NoSn},
                   list : Seq(Nat), timer : BOOLEAN, work : BOOLEAN]
    BY <1>0, <1>1, Zenon DEF ReordTypeOK
  <2>2. unit' \in [pc : {"idle", "unit", "timer", "work"}, n : Nat]
    BY <1>0, <1>1 DEF ReordTypeOK, Idle
  <2>. QED  BY <1>0, <1>1, <2>1, <2>2, Zenon DEF ReordTypeOK, SeenTypeOK
<1>4. ctrl.list = <<>> /\ ~ctrl.enable
  BY <1>1, Zenon DEF Parts, Places
<1>5. Balance'
  <2>1. Balance
    BY Zenon DEF Parts
  <2>. QED  BY <1>1, <1>2, <2>1, Holders, Zenon DEF Balance
<1>6. Places'
  BY <1>1, <1>2, <1>4, Zenon DEF Parts, Places
<1>7. Empties' /\ Fresh' /\ CarriedNear' /\ HeldIsTimed'
  BY <1>1, <1>2, <1>4, Zenon DEF Parts, Places, Empties, Fresh, CarriedNear, HeldIsTimed
<1>8. (~seen.raced => InWindow(ctrl.ind_sn, ctrl.list))'
  BY <1>1, <1>2, Zenon DEF Parts
<1>9. (~seen.raced /\ ~seen.far =>
          InOrder(ctrl.ind_sn, ctrl.list, ctrl.enable, seen.out, seen.hi, seen.lateOk))'
  BY <1>1, <1>2, Zenon DEF Parts
<1>. QED  BY <1>3, <1>5, <1>6, <1>7, <1>8, <1>9, Zenon DEF Parts

\* The timer expires and its work is queued.
LEMMA HandlerKeeps ==
    ASSUME Parts, reord_timeout_handler
    PROVE  Parts'
<1>0. ReordTypeOK /\ SeenTypeOK
  BY Zenon DEF Parts
<1>1. /\ ctrl' = [ctrl EXCEPT !.timer = FALSE, !.work = TRUE] /\ unit' = unit
      /\ ctrl.timer /\ ~dangling
      /\ mode' = mode /\ deinit' = deinit /\ freequeue' = freequeue
      /\ dangling' = dangling /\ air' = air /\ seen' = seen
  BY Zenon DEF reord_timeout_handler
<1>2. /\ ctrl'.linked = ctrl.linked /\ ctrl'.enable = ctrl.enable /\ ctrl'.ind_sn = ctrl.ind_sn
      /\ ctrl'.list = ctrl.list /\ ctrl'.timer = FALSE /\ ctrl'.work = TRUE
  BY <1>0, <1>1 DEF ReordTypeOK
<1>3. ReordTypeOK' /\ SeenTypeOK'
  <2>1. ctrl' \in [linked : BOOLEAN, enable : BOOLEAN, ind_sn : 0 .. SnMod - 1 \cup {NoSn},
                   list : Seq(Nat), timer : BOOLEAN, work : BOOLEAN]
    BY <1>0, <1>1, Zenon DEF ReordTypeOK
  <2>. QED  BY <1>0, <1>1, <2>1, Zenon DEF ReordTypeOK, SeenTypeOK
<1>5. Balance'
  <2>1. Balance
    BY Zenon DEF Parts
  <2>. QED  BY <1>1, <1>2, <2>1, Holders, Zenon DEF Balance
<1>6. Places'
  BY <1>1, <1>2, Zenon DEF Parts, Places
<1>7. Empties' /\ Fresh' /\ CarriedNear' /\ HeldIsTimed'
  BY <1>1, <1>2, Zenon DEF Parts, Places, Empties, Fresh, CarriedNear, HeldIsTimed
<1>8. (~seen.raced => InWindow(ctrl.ind_sn, ctrl.list))'
  BY <1>1, <1>2, Zenon DEF Parts
<1>9. (~seen.raced /\ ~seen.far =>
          InOrder(ctrl.ind_sn, ctrl.list, ctrl.enable, seen.out, seen.hi, seen.lateOk))'
  BY <1>1, <1>2, Zenon DEF Parts
<1>. QED  BY <1>3, <1>5, <1>6, <1>7, <1>8, <1>9, Zenon DEF Parts

\* The teardown deletes the timer.
LEMMA DeinitTimerKeeps ==
    ASSUME Parts, DeinitTimer
    PROVE  Parts'
<1>0. ReordTypeOK /\ SeenTypeOK
  BY Zenon DEF Parts
<1>1. /\ ctrl' = [ctrl EXCEPT !.timer = FALSE] /\ unit' = unit
      /\ deinit = "timer" /\ ~dangling
      /\ mode' = mode /\ deinit' = "work" /\ freequeue' = freequeue
      /\ dangling' = dangling /\ air' = air /\ seen' = seen
  BY Zenon DEF DeinitTimer, Deinit
<1>2. /\ ctrl'.linked = ctrl.linked /\ ctrl'.enable = ctrl.enable /\ ctrl'.ind_sn = ctrl.ind_sn
      /\ ctrl'.list = ctrl.list /\ ctrl'.timer = FALSE /\ ctrl'.work = ctrl.work
  BY <1>0, <1>1 DEF ReordTypeOK
<1>3. ReordTypeOK' /\ SeenTypeOK'
  <2>1. ctrl' \in [linked : BOOLEAN, enable : BOOLEAN, ind_sn : 0 .. SnMod - 1 \cup {NoSn},
                   list : Seq(Nat), timer : BOOLEAN, work : BOOLEAN]
    BY <1>0, <1>1, Zenon DEF ReordTypeOK
  <2>3. deinit' \in {"idle", "timer", "work", "list", "free"}
    BY <1>1
  <2>. QED  BY <1>0, <1>1, <2>1, <2>3, Zenon DEF ReordTypeOK, SeenTypeOK
<1>4. ctrl.linked /\ (ctrl.enable => seen.raced)
  BY <1>1, Zenon DEF Parts, Places
<1>5. Balance'
  <2>1. Balance
    BY Zenon DEF Parts
  <2>. QED  BY <1>1, <1>2, <2>1, Holders, Zenon DEF Balance
<1>6. Places'
  BY <1>1, <1>2, <1>4, Zenon DEF Parts, Places
<1>7. Empties' /\ Fresh' /\ CarriedNear' /\ HeldIsTimed'
  BY <1>1, <1>2, <1>4, Zenon DEF Parts, Places, Empties, Fresh, CarriedNear, HeldIsTimed
<1>8. (~seen.raced => InWindow(ctrl.ind_sn, ctrl.list))'
  BY <1>1, <1>2, Zenon DEF Parts
<1>9. (~seen.raced /\ ~seen.far =>
          InOrder(ctrl.ind_sn, ctrl.list, ctrl.enable, seen.out, seen.hi, seen.lateOk))'
  BY <1>1, <1>2, Zenon DEF Parts
<1>. QED  BY <1>3, <1>5, <1>6, <1>7, <1>8, <1>9, Zenon DEF Parts

\* The teardown waits for the work item.
LEMMA DeinitWorkKeeps ==
    ASSUME Parts, DeinitWork
    PROVE  Parts'
<1>0. ReordTypeOK /\ SeenTypeOK
  BY Zenon DEF Parts
<1>1. /\ ctrl' = [ctrl EXCEPT !.work = FALSE] /\ unit' = unit
      /\ deinit = "work" /\ ~dangling
      /\ mode' = mode /\ deinit' = "list" /\ freequeue' = freequeue
      /\ dangling' = dangling /\ air' = air /\ seen' = seen
  BY Zenon DEF DeinitWork, Deinit
<1>2. /\ ctrl'.linked = ctrl.linked /\ ctrl'.enable = ctrl.enable /\ ctrl'.ind_sn = ctrl.ind_sn
      /\ ctrl'.list = ctrl.list /\ ctrl'.timer = ctrl.timer /\ ctrl'.work = FALSE
  BY <1>0, <1>1 DEF ReordTypeOK
<1>3. ReordTypeOK' /\ SeenTypeOK'
  <2>1. ctrl' \in [linked : BOOLEAN, enable : BOOLEAN, ind_sn : 0 .. SnMod - 1 \cup {NoSn},
                   list : Seq(Nat), timer : BOOLEAN, work : BOOLEAN]
    BY <1>0, <1>1, Zenon DEF ReordTypeOK
  <2>3. deinit' \in {"idle", "timer", "work", "list", "free"}
    BY <1>1
  <2>. QED  BY <1>0, <1>1, <2>1, <2>3, Zenon DEF ReordTypeOK, SeenTypeOK
<1>4. ctrl.linked /\ (ctrl.enable => seen.raced)
  BY <1>1, Zenon DEF Parts, Places
<1>5. Balance'
  <2>1. Balance
    BY Zenon DEF Parts
  <2>. QED  BY <1>1, <1>2, <2>1, Holders, Zenon DEF Balance
<1>6. Places'
  BY <1>1, <1>2, <1>4, Zenon DEF Parts, Places
<1>7. Empties' /\ Fresh' /\ CarriedNear' /\ HeldIsTimed'
  BY <1>1, <1>2, <1>4, Zenon DEF Parts, Places, Empties, Fresh, CarriedNear, HeldIsTimed
<1>8. (~seen.raced => InWindow(ctrl.ind_sn, ctrl.list))'
  BY <1>1, <1>2, Zenon DEF Parts
<1>9. (~seen.raced /\ ~seen.far =>
          InOrder(ctrl.ind_sn, ctrl.list, ctrl.enable, seen.out, seen.hi, seen.lateOk))'
  BY <1>1, <1>2, Zenon DEF Parts
<1>. QED  BY <1>3, <1>5, <1>6, <1>7, <1>8, <1>9, Zenon DEF Parts

\* The teardown switches ordering off.
LEMMA DeinitDisableKeeps ==
    ASSUME Parts, DeinitDisable
    PROVE  Parts'
<1>0. ReordTypeOK /\ SeenTypeOK
  BY Zenon DEF Parts
<1>1. /\ ctrl' = [ctrl EXCEPT !.enable = FALSE] /\ unit' = unit
      /\ ctrl.linked /\ deinit = "idle" /\ ~dangling /\ deinit' \in {"timer", "list"}
      /\ mode' = mode /\ freequeue' = freequeue
      /\ dangling' = dangling /\ air' = air
      /\ seen' = [seen EXCEPT !.raced = @ \/ unit.pc # "idle"]
  BY Zenon DEF DeinitDisable, Deinit
<1>2. /\ ctrl'.linked = ctrl.linked /\ ctrl'.enable = FALSE /\ ctrl'.ind_sn = ctrl.ind_sn
      /\ ctrl'.list = ctrl.list /\ ctrl'.timer = ctrl.timer /\ ctrl'.work = ctrl.work
  BY <1>0, <1>1, ZenonT(30) DEF ReordTypeOK
<1>s. /\ seen'.out = seen.out /\ seen'.hi = seen.hi /\ seen'.lateOk = seen.lateOk
      /\ seen'.leaked = seen.leaked /\ seen'.raced = (seen.raced \/ unit.pc # "idle") /\ seen'.far = seen.far
  BY <1>0, <1>1 DEF SeenTypeOK
<1>3. ReordTypeOK' /\ SeenTypeOK'
  <2>1. ctrl' \in [linked : BOOLEAN, enable : BOOLEAN, ind_sn : 0 .. SnMod - 1 \cup {NoSn},
                   list : Seq(Nat), timer : BOOLEAN, work : BOOLEAN]
    BY <1>0, <1>1, Zenon DEF ReordTypeOK
  <2>3. deinit' \in {"idle", "timer", "work", "list", "free"}
    BY <1>1
  <2>5. seen' \in [out : Seq(Nat), hi : Nat, lateOk : BOOLEAN, leaked : Nat,
                   raced : BOOLEAN, far : BOOLEAN]
    BY <1>0, <1>1, Zenon DEF SeenTypeOK
  <2>. QED  BY <1>0, <1>1, <2>1, <2>3, <2>5, Zenon DEF ReordTypeOK, SeenTypeOK
<1>5. Balance'
  <2>1. Balance
    BY Zenon DEF Parts
  <2>. QED  BY <1>1, <1>2, <1>s, <2>1, Holders, Zenon DEF Balance
<1>6. Places'
  BY <1>1, <1>2, <1>s, Zenon DEF Parts, Places
<1>7. Empties' /\ Fresh' /\ CarriedNear' /\ HeldIsTimed'
  BY <1>1, <1>2, <1>s, Zenon DEF Parts, Places, Empties, Fresh, CarriedNear, HeldIsTimed
<1>8. (~seen.raced => InWindow(ctrl.ind_sn, ctrl.list))'
  BY <1>1, <1>2, <1>s, Zenon DEF Parts
<1>9. (~seen.raced /\ ~seen.far =>
          InOrder(ctrl.ind_sn, ctrl.list, ctrl.enable, seen.out, seen.hi, seen.lateOk))'
  BY <1>1, <1>2, <1>s, Zenon DEF Parts, InOrder
<1>. QED  BY <1>3, <1>5, <1>6, <1>7, <1>8, <1>9, Zenon DEF Parts

\* The teardown empties the list.
LEMMA DeinitListKeeps ==
    ASSUME Parts, DeinitList
    PROVE  Parts'
<1>0. ReordTypeOK /\ SeenTypeOK
  BY Zenon DEF Parts
<1>1. /\ ctrl' = [ctrl EXCEPT !.list = <<>>] /\ unit' = unit
      /\ deinit = "list" /\ ~dangling
      /\ mode' = mode /\ deinit' = "free" /\ freequeue' = freequeue + Len(ctrl.list)
      /\ dangling' = dangling /\ air' = air /\ seen' = seen
  BY Zenon DEF DeinitList, Deinit
<1>2. /\ ctrl'.linked = ctrl.linked /\ ctrl'.enable = ctrl.enable /\ ctrl'.ind_sn = ctrl.ind_sn
      /\ ctrl'.list = <<>> /\ ctrl'.timer = ctrl.timer /\ ctrl'.work = ctrl.work
  BY <1>0, <1>1 DEF ReordTypeOK
<1>4. ctrl.linked /\ (ctrl.enable => seen.raced)
  BY <1>1, Zenon DEF Parts, Places
<1>5. Balance' /\ freequeue' \in 0 .. MAX_REORD_RXFRAME
  <2>1. Balance
    BY Zenon DEF Parts
  <2>2. PICK k \in Nat, u \in Nat, q \in Nat, m \in Nat :
          /\ k = Len(ctrl.list) /\ u = InUnit(unit.pc) /\ q = freequeue /\ m = seen.leaked
          /\ Waits(ctrl.linked, ctrl.list) = k
    BY <1>0, <1>4, Fields, Holders, SeqEntries, Zenon
  <2>3. q + k + u + m = MAX_REORD_RXFRAME
    BY <2>1, <2>2, Zenon DEF Balance
  <2>4. Waits(ctrl'.linked, ctrl'.list) = 0
    BY <1>2, <1>4 DEF Waits
  <2>5. (q + k) + 0 + u + m = MAX_REORD_RXFRAME /\ q + k \in 0 .. MAX_REORD_RXFRAME
    BY ONLY <2>3, q \in Nat, k \in Nat, u \in Nat, m \in Nat
  <2>. QED  BY <1>1, <2>2, <2>4, <2>5, Zenon DEF Balance
<1>3. ReordTypeOK' /\ SeenTypeOK'
  <2>0. <<>> \in Seq(Nat)
    OBVIOUS
  <2>1. ctrl' \in [linked : BOOLEAN, enable : BOOLEAN, ind_sn : 0 .. SnMod - 1 \cup {NoSn},
                   list : Seq(Nat), timer : BOOLEAN, work : BOOLEAN]
    BY <1>0, <1>1, <2>0, Zenon DEF ReordTypeOK
  <2>2. deinit' \in {"idle", "timer", "work", "list", "free"}
    BY <1>1
  <2>. QED  BY <1>0, <1>1, <1>5, <2>1, <2>2, Zenon DEF ReordTypeOK, SeenTypeOK
<1>6. Places'
  BY <1>1, <1>2, <1>4, Zenon DEF Parts, Places
<1>7. Empties' /\ Fresh' /\ CarriedNear' /\ HeldIsTimed'
  BY <1>1, <1>2, <1>4, Zenon DEF Parts, Places, Empties, Fresh, CarriedNear, HeldIsTimed
<1>8. (~seen.raced => InWindow(ctrl.ind_sn, ctrl.list))'
  BY <1>2 DEF InWindow
<1>9. (~seen.raced /\ ~seen.far =>
          InOrder(ctrl.ind_sn, ctrl.list, ctrl.enable, seen.out, seen.hi, seen.lateOk))'
  BY <1>1, <1>2, <1>4, Zenon DEF Parts, InOrder
<1>. QED  BY <1>3, <1>5, <1>6, <1>7, <1>8, <1>9, Zenon DEF Parts

\* The teardown frees the control block, with what was queued behind its back.
LEMMA DeinitFreeKeeps ==
    ASSUME Parts, DeinitFree
    PROVE  Parts'
<1>0. ReordTypeOK /\ SeenTypeOK
  BY Zenon DEF Parts
<1>1. /\ ctrl' = [ctrl EXCEPT !.linked = FALSE] /\ unit' = unit
      /\ deinit = "free" /\ ~dangling
      /\ mode' = mode /\ deinit' = "idle" /\ freequeue' = freequeue
      /\ dangling' = (ctrl.timer \/ ctrl.work \/ unit.pc # "idle") /\ air' = air
      /\ seen' = [seen EXCEPT !.leaked = @ + Len(ctrl.list)]
  BY Zenon DEF DeinitFree, Deinit
<1>f. Len(ctrl.list) \in Nat /\ seen.leaked \in Nat
  BY <1>0, Fields, SeqEntries
<1>2. /\ ctrl'.linked = FALSE /\ ctrl'.enable = ctrl.enable /\ ctrl'.ind_sn = ctrl.ind_sn
      /\ ctrl'.list = ctrl.list /\ ctrl'.timer = ctrl.timer /\ ctrl'.work = ctrl.work
  BY <1>0, <1>1 DEF ReordTypeOK
<1>s. /\ seen'.out = seen.out /\ seen'.hi = seen.hi /\ seen'.lateOk = seen.lateOk
      /\ seen'.leaked = seen.leaked + Len(ctrl.list) /\ seen'.raced = seen.raced
      /\ seen'.far = seen.far
  BY <1>0, <1>1 DEF SeenTypeOK
<1>3. ReordTypeOK' /\ SeenTypeOK'
  <2>1. ctrl' \in [linked : BOOLEAN, enable : BOOLEAN, ind_sn : 0 .. SnMod - 1 \cup {NoSn},
                   list : Seq(Nat), timer : BOOLEAN, work : BOOLEAN]
    BY <1>0, <1>1, Zenon DEF ReordTypeOK
  <2>3. deinit' \in {"idle", "timer", "work", "list", "free"}
    BY <1>1
  <2>4. dangling' \in BOOLEAN
    BY <1>1
  <2>5. seen.leaked + Len(ctrl.list) \in Nat
    BY <1>f
  <2>6. seen' \in [out : Seq(Nat), hi : Nat, lateOk : BOOLEAN, leaked : Nat,
                   raced : BOOLEAN, far : BOOLEAN]
    BY <1>0, <1>1, <2>5, Zenon DEF SeenTypeOK
  <2>. QED  BY <1>0, <1>1, <2>1, <2>3, <2>4, <2>6, Zenon DEF ReordTypeOK, SeenTypeOK
<1>4. ctrl.linked
  BY <1>1, Zenon DEF Parts, Places
<1>5. Balance'
  <2>1. Balance
    BY Zenon DEF Parts
  <2>2. PICK k \in Nat, u \in Nat, q \in Nat, m \in Nat :
          /\ k = Len(ctrl.list) /\ u = InUnit(unit.pc) /\ q = freequeue /\ m = seen.leaked
          /\ Waits(ctrl.linked, ctrl.list) = k
    BY <1>0, <1>4, Fields, Holders, SeqEntries, Zenon
  <2>3. q + k + u + m = MAX_REORD_RXFRAME
    BY <2>1, <2>2, Zenon DEF Balance
  <2>4. Waits(ctrl'.linked, ctrl'.list) = 0
    BY <1>2 DEF Waits
  <2>5. q + 0 + u + (m + k) = MAX_REORD_RXFRAME
    BY ONLY <2>3, q \in Nat, k \in Nat, u \in Nat, m \in Nat
  <2>. QED  BY <1>1, <1>s, <2>2, <2>4, <2>5, Zenon DEF Balance
<1>6. Places'
  BY <1>1, <1>2, <1>s, <1>4, Zenon DEF Parts, Places
<1>7. Empties' /\ Fresh' /\ CarriedNear' /\ HeldIsTimed'
  BY <1>1, <1>2, <1>s, <1>4, Zenon DEF Parts, Empties, Fresh, CarriedNear, HeldIsTimed
<1>8. (~seen.raced => InWindow(ctrl.ind_sn, ctrl.list))'
  BY <1>1, <1>2, <1>s, Zenon DEF Parts
<1>9. (~seen.raced /\ ~seen.far =>
          InOrder(ctrl.ind_sn, ctrl.list, ctrl.enable, seen.out, seen.hi, seen.lateOk))'
  BY <1>1, <1>2, <1>s, Zenon DEF Parts
<1>. QED  BY <1>3, <1>5, <1>6, <1>7, <1>8, <1>9, Zenon DEF Parts

\* What an arrival says of the frame and of the air.
LEMMA ArrivesFacts ==
    ASSUME ReordTypeOK, SeenTypeOK, CarriedNear, NEW n \in FirstFrame .. air.hi + W, Arrives(n)
    PROVE  /\ n \in Nat /\ seen.hi - W + 1 <= n
           /\ unit.pc = "idle" /\ ~dangling /\ (mode = "sta" => deinit = "idle")
           /\ air' \in [left : Nat, flush : Nat, hi : Int]
           /\ air'.hi >= n /\ air'.hi >= air.hi
<1>1. air.left \in Nat /\ air.flush \in Nat /\ air.hi \in Int /\ seen.hi \in Nat /\ FirstFrame \in Nat
  BY Fields, ReordAssumption, Zenon
<1>2. n \in Nat /\ n >= FirstFrame
  BY <1>1
<1>3. /\ unit.pc = "idle" /\ ~dangling /\ (mode = "sta" => deinit = "idle")
      /\ air.left > 0 /\ n \in air.hi - W + 1 .. air.hi + W
      /\ air' = [air EXCEPT !.left = @ - 1, !.hi = IF n > @ THEN n ELSE @]
  BY Zenon DEF Arrives, RxIdle
<1>4. air \in [left : Nat, flush : Nat, hi : Int]
  BY Zenon DEF SeenTypeOK
<1>5. air' \in [left : Nat, flush : Nat, hi : Int] /\ air'.hi = IF n > air.hi THEN n ELSE air.hi
  <2>1. PICK m \in Nat, h \in Int : m = air.left - 1 /\ h = IF n > air.hi THEN n ELSE air.hi
    BY <1>1, <1>2, <1>3
  <2>2. air' = [air EXCEPT !.left = m, !.hi = h]
    BY <1>3, <2>1
  <2>3. air' \in [left : Nat, flush : Nat, hi : Int] /\ air'.hi = h
    BY ONLY <1>4, <2>2, m \in Nat, h \in Int, Zenon
  <2>. QED  BY <2>1, <2>3
<1>6. air'.hi >= n /\ air'.hi >= air.hi
  BY <1>1, <1>2, <1>5
<1>7. air.hi >= seen.hi \/ seen.hi = FirstFrame
  BY Zenon DEF CarriedNear
<1>8. seen.hi - W + 1 <= n
  BY <1>1, <1>2, <1>3, <1>7, RingFacts
<1>. QED  BY <1>2, <1>3, <1>5, <1>6, <1>8, Zenon

\* Once air.hi has reached seen.hi it stays there.
LEMMA AirFar ==
    ASSUME SeenTypeOK, air'.hi \in Int, air'.hi >= air.hi, air.hi >= seen.hi
    PROVE  air'.hi >= seen.hi
BY DEF SeenTypeOK

\* A frame that passes by.
LEMMA BypassKeeps ==
    ASSUME Parts, NEW n \in FirstFrame .. air.hi + W, Bypass(n)
    PROVE  Parts'
<1>0. ReordTypeOK /\ SeenTypeOK /\ CarriedNear
  BY Zenon DEF Parts
<1>1. /\ mode' = mode /\ ctrl' = ctrl /\ unit' = unit /\ deinit' = deinit
      /\ freequeue' = freequeue /\ dangling' = dangling /\ seen' = seen /\ Arrives(n)
  BY Zenon DEF Bypass
<1>2. air' \in [left : Nat, flush : Nat, hi : Int] /\ air'.hi >= air.hi /\ unit.pc = "idle"
  BY <1>0, <1>1, ArrivesFacts, Zenon
<1>3. air'.hi \in Int
  BY <1>2
<1>4. CarriedNear'
  <2>1. air'.hi >= seen.hi \/ seen.hi = FirstFrame
    BY <1>0, <1>2, <1>3, AirFar, Zenon DEF CarriedNear
  <2>. QED  BY <1>1, <1>2, <2>1, Zenon DEF CarriedNear
<1>5. ReordTypeOK' /\ SeenTypeOK' /\ Balance'
  <2>1. ReordTypeOK'
    BY <1>0, <1>1, ZenonT(30) DEF ReordTypeOK
  <2>2. SeenTypeOK'
    BY <1>0, <1>1, <1>2, Zenon DEF SeenTypeOK
  <2>3. Balance'
    BY <1>1, Zenon DEF Parts, Balance
  <2>. QED  BY <2>1, <2>2, <2>3
<1>. QED  BY <1>1, <1>4, <1>5, Zenon DEF Parts, Places, Empties, Fresh, HeldIsTimed

\* reord_init_sta fails and a descriptor is lost.
LEMMA InitFailsKeeps ==
    ASSUME Parts, NEW n \in FirstFrame .. air.hi + W, InitFails(n)
    PROVE  Parts'
<1>0. ReordTypeOK /\ SeenTypeOK /\ CarriedNear
  BY Zenon DEF Parts
<1>1. /\ mode' = mode /\ ctrl' = ctrl /\ unit' = unit /\ deinit' = deinit
      /\ freequeue > 0 /\ freequeue' = freequeue - 1 /\ dangling' = dangling
      /\ seen' = [seen EXCEPT !.leaked = @ + 1] /\ Arrives(n)
  BY Zenon DEF InitFails
<1>2. air' \in [left : Nat, flush : Nat, hi : Int] /\ air'.hi >= air.hi /\ unit.pc = "idle"
  BY <1>0, <1>1, ArrivesFacts, Zenon
<1>3. air'.hi \in Int
  BY <1>2
<1>s. /\ seen'.out = seen.out /\ seen'.hi = seen.hi /\ seen'.lateOk = seen.lateOk
      /\ seen'.leaked = seen.leaked + 1 /\ seen'.raced = seen.raced
      /\ seen'.far = seen.far
  BY <1>0, <1>1 DEF SeenTypeOK
<1>4. CarriedNear'
  <2>1. air'.hi >= seen.hi \/ seen.hi = FirstFrame
    BY <1>0, <1>2, <1>3, AirFar, Zenon DEF CarriedNear
  <2>. QED  BY <1>1, <1>2, <1>s, <2>1, Zenon DEF CarriedNear
<1>5. PICK w \in Nat, u \in Nat, q \in Nat, m \in Nat :
        /\ w = Waits(ctrl.linked, ctrl.list) /\ u = InUnit(unit.pc) /\ q = freequeue
        /\ m = seen.leaked /\ q <= MAX_REORD_RXFRAME
  BY <1>0, Fields, Holders, Zenon
<1>6. MAX_REORD_RXFRAME \in Nat
  BY ReordAssumption
<1>7. freequeue' \in 0 .. MAX_REORD_RXFRAME /\ Balance' /\ seen.leaked + 1 \in Nat
  <2>1. q + w + u + m = MAX_REORD_RXFRAME
    BY <1>5, Zenon DEF Parts, Balance
  <2>2. /\ (q - 1) + w + u + (m + 1) = MAX_REORD_RXFRAME
        /\ q - 1 \in 0 .. MAX_REORD_RXFRAME /\ m + 1 \in Nat
    <3>1. q > 0
      BY <1>1, <1>5
    <3>. QED  BY ONLY <1>5, <1>6, <2>1, <3>1, q \in Nat, w \in Nat, u \in Nat, m \in Nat
  <2>. QED  BY <1>1, <1>5, <1>s, <2>2, Zenon DEF Balance
<1>8. ReordTypeOK' /\ SeenTypeOK'
  <2>1. seen' \in [out : Seq(Nat), hi : Nat, lateOk : BOOLEAN, leaked : Nat,
                   raced : BOOLEAN, far : BOOLEAN]
    BY <1>0, <1>1, <1>7, Zenon DEF SeenTypeOK
  <2>2. ReordTypeOK'
    BY <1>0, <1>1, <1>7, ZenonT(30) DEF ReordTypeOK
  <2>3. SeenTypeOK'
    BY <1>2, <2>1, Zenon DEF SeenTypeOK
  <2>. QED  BY <2>2, <2>3
<1>. QED  BY <1>1, <1>s, <1>4, <1>7, <1>8, Zenon DEF Parts, Places, Empties, Fresh, HeldIsTimed

\* A frame enters the buffer: the control block is found, made, or switched on.
LEMMA LookUpKeeps ==
    ASSUME Parts, NEW n \in FirstFrame .. air.hi + W, LookUp(n)
    PROVE  Parts'
<1>0. ReordTypeOK /\ SeenTypeOK /\ CarriedNear /\ Balance
  BY Zenon DEF Parts
<1>1. /\ mode' = mode /\ deinit' = deinit /\ dangling' = dangling /\ unit' = [pc |-> "unit", n |-> n]
      /\ freequeue > 0 /\ freequeue' = freequeue - 1 /\ Arrives(n)
  BY Zenon DEF LookUp
<1>2. /\ n \in Nat /\ seen.hi - W + 1 <= n
      /\ unit.pc = "idle" /\ ~dangling /\ (mode = "sta" => deinit = "idle")
      /\ air' \in [left : Nat, flush : Nat, hi : Int]
      /\ air'.hi >= n /\ air'.hi >= air.hi
  BY <1>0, <1>1, ArrivesFacts, Zenon
<1>3. /\ ctrl.linked \in BOOLEAN /\ ctrl.enable \in BOOLEAN /\ seen.lateOk \in BOOLEAN
      /\ seen.raced \in BOOLEAN /\ seen.far \in BOOLEAN /\ seen.hi \in Nat /\ ctrl.list \in Seq(Nat)
      /\ seen.out \in Seq(Nat) /\ air.hi \in Int /\ freequeue \in Nat /\ seen.leaked \in Nat
      /\ freequeue <= MAX_REORD_RXFRAME
  BY <1>0, Fields, Zenon
<1>4. unit'.pc = "unit" /\ unit'.n = n /\ unit' \in [pc : {"idle", "unit", "timer", "work"}, n : Nat]
  BY <1>1, <1>2
<1>c. /\ ctrl'.linked = TRUE /\ ctrl'.enable = TRUE
      /\ ~ctrl.linked => /\ ctrl'.ind_sn = NoSn /\ ctrl'.list = <<>>
                         /\ ctrl'.timer = FALSE /\ ctrl'.work = FALSE
      /\ ctrl.linked => /\ ctrl'.list = ctrl.list /\ ctrl'.timer = ctrl.timer /\ ctrl'.work = ctrl.work
                        /\ ~ctrl.enable => ctrl'.ind_sn = NoSn
                        /\ ctrl.enable => ctrl'.ind_sn = ctrl.ind_sn
      /\ ctrl' \in [linked : BOOLEAN, enable : BOOLEAN, ind_sn : 0 .. SnMod - 1 \cup {NoSn},
                    list : Seq(Nat), timer : BOOLEAN, work : BOOLEAN]
  <2>1. ctrl' = CASE ~ctrl.linked -> NewCtrl
                 [] ctrl.linked /\ ~ctrl.enable -> [ctrl EXCEPT !.enable = TRUE, !.ind_sn = NoSn]
                 [] OTHER -> ctrl
    BY Zenon DEF LookUp
  <2>2. CASE ~ctrl.linked
    <3>1. ctrl' = NewCtrl
      BY <2>1, <2>2, <1>3
    <3>2. /\ ctrl'.linked = TRUE /\ ctrl'.enable = TRUE /\ ctrl'.ind_sn = NoSn
          /\ ctrl'.list = <<>> /\ ctrl'.timer = FALSE /\ ctrl'.work = FALSE
      BY <3>1 DEF NewCtrl
    <3>3. <<>> \in Seq(Nat)
      OBVIOUS
    <3>4. ctrl' \in [linked : BOOLEAN, enable : BOOLEAN, ind_sn : 0 .. SnMod - 1 \cup {NoSn},
                    list : Seq(Nat), timer : BOOLEAN, work : BOOLEAN]
      BY <3>1, <3>3, Zenon DEF NewCtrl
    <3>. QED  BY <2>2, <3>2, <3>4, Zenon
  <2>3. CASE ctrl.linked /\ ~ctrl.enable
    <3>1. ctrl' = [ctrl EXCEPT !.enable = TRUE, !.ind_sn = NoSn]
      BY <2>1, <2>3, <1>3
    <3>2. ctrl' \in [linked : BOOLEAN, enable : BOOLEAN, ind_sn : 0 .. SnMod - 1 \cup {NoSn},
                    list : Seq(Nat), timer : BOOLEAN, work : BOOLEAN]
      BY <1>0, <3>1, Zenon DEF ReordTypeOK
    <3>3. /\ ctrl'.linked = ctrl.linked /\ ctrl'.enable = TRUE /\ ctrl'.ind_sn = NoSn
          /\ ctrl'.list = ctrl.list /\ ctrl'.timer = ctrl.timer /\ ctrl'.work = ctrl.work
      BY <1>0, <3>1 DEF ReordTypeOK
    <3>. QED  BY <1>3, <2>3, <3>2, <3>3, Zenon
  <2>4. CASE ctrl.linked /\ ctrl.enable
    <3>1. ctrl' = ctrl
      BY <2>1, <2>4, <1>3
    <3>. QED  BY <1>0, <1>3, <2>4, <3>1, Zenon DEF ReordTypeOK
  <2>. QED  BY <1>3, <2>2, <2>3, <2>4, Zenon
<1>s. /\ seen'.out = (IF ctrl'.ind_sn = NoSn THEN <<>> ELSE seen.out)
      /\ seen'.hi = (IF ctrl'.ind_sn = NoSn THEN n ELSE seen.hi)
      /\ seen'.lateOk = (seen.lateOk \/ ctrl'.ind_sn = NoSn)
      /\ seen'.raced = (ctrl.linked /\ (seen.raced \/ deinit # "idle"))
      /\ seen'.far = (ctrl'.ind_sn # NoSn /\ (seen.far \/ n > seen.hi + H - W))
      /\ seen'.leaked = seen.leaked
      /\ seen' \in [out : Seq(Nat), hi : Nat, lateOk : BOOLEAN, leaked : Nat,
                    raced : BOOLEAN, far : BOOLEAN]
  <2>. DEFINE o == IF ctrl'.ind_sn = NoSn THEN <<>> ELSE seen.out
              h == IF ctrl'.ind_sn = NoSn THEN n ELSE seen.hi
              k == seen.lateOk \/ ctrl'.ind_sn = NoSn
              r == ctrl.linked /\ (seen.raced \/ deinit # "idle")
              f == ctrl'.ind_sn # NoSn /\ (seen.far \/ n > seen.hi + H - W)
  <2>1. seen' = [seen EXCEPT !.out = o, !.hi = h, !.lateOk = k, !.raced = r, !.far = f]
    BY <1>0 DEF LookUp, SeenTypeOK, H
  <2>2. o \in Seq(Nat) /\ h \in Nat /\ k \in BOOLEAN /\ r \in BOOLEAN /\ f \in BOOLEAN
    BY <1>2, <1>3
  <2>. HIDE DEF o, h, k, r, f
  <2>3. seen' \in [out : Seq(Nat), hi : Nat, lateOk : BOOLEAN, leaked : Nat,
                    raced : BOOLEAN, far : BOOLEAN]
    BY <1>0, <2>1, <2>2, Zenon DEF SeenTypeOK
  <2>4. /\ seen'.out = o /\ seen'.hi = h /\ seen'.lateOk = k /\ seen'.raced = r /\ seen'.far = f
        /\ seen'.leaked = seen.leaked
    BY <1>0, <2>1 DEF SeenTypeOK
  <2>. QED  BY <2>3, <2>4, Zenon DEF o, h, k, r, f
<1>5. Balance' /\ freequeue' \in 0 .. MAX_REORD_RXFRAME
  <2>1. PICK w \in Nat, q \in Nat, m \in Nat :
        /\ w = Waits(ctrl.linked, ctrl.list) /\ q = freequeue /\ m = seen.leaked
    BY <1>3, Holders, Zenon
  <2>2. q + w + 0 + m = MAX_REORD_RXFRAME
    BY <1>0, <1>2, <2>1, Holders, Zenon DEF Balance
  <2>3. Waits(ctrl'.linked, ctrl'.list) = w
    <3>1. CASE ctrl.linked
      BY <1>c, <2>1, <3>1 DEF Waits
    <3>2. CASE ~ctrl.linked
      BY <1>c, <2>1, <3>2 DEF Waits
    <3>. QED  BY <3>1, <3>2
  <2>4. (q - 1) + w + 1 + m = MAX_REORD_RXFRAME /\ q - 1 \in 0 .. MAX_REORD_RXFRAME
    <3>1. q > 0
      BY <1>1, <2>1
    <3>. QED  BY ONLY <2>2, <3>1, w \in Nat, q \in Nat, m \in Nat
  <2>. QED  BY <1>1, <1>4, <1>s, <2>1, <2>3, <2>4, Holders, Zenon DEF Balance
<1>6. ReordTypeOK' /\ SeenTypeOK'
  <2>1. ReordTypeOK'
    BY <1>0, <1>1, <1>4, <1>c, <1>5, Zenon DEF ReordTypeOK
  <2>2. SeenTypeOK'
    BY <1>2, <1>s, Zenon DEF SeenTypeOK
  <2>. QED  BY <2>1, <2>2
<1>7. /\ ~ctrl.linked => deinit = "idle"
      /\ ctrl.linked /\ deinit = "idle" => ~seen.raced
      /\ ~seen'.raced => ~ctrl.linked \/ (ctrl.linked /\ ~seen.raced /\ deinit = "idle")
  BY <1>2, <1>s, Zenon DEF Parts, Places
<1>8. ~seen'.raced /\ ctrl'.ind_sn = NoSn => ctrl'.list = <<>>
  BY <1>c, <1>7, Zenon DEF Parts, Empties
<1>9. Places'
  BY <1>1, <1>4, <1>c, <1>s, <1>7, Zenon DEF Places
<1>10. Empties'
  BY <1>1, <1>c, <1>s, <1>7, <1>8, Zenon DEF Empties
<1>11. Fresh'
  BY <1>4, <1>s, Zenon DEF Fresh
<1>12. CarriedNear'
  <2>0. air'.hi \in Int
    BY <1>2
  <2>1. air'.hi >= seen'.hi \/ seen'.hi = FirstFrame
    <3>1. CASE ctrl'.ind_sn = NoSn
      BY <1>2, <1>s, <3>1, Zenon
    <3>2. CASE ctrl'.ind_sn # NoSn
      BY <1>0, <1>2, <1>s, <2>0, <3>2, AirFar, Zenon DEF CarriedNear
    <3>. QED  BY <3>1, <3>2
  <2>2. ~seen'.far => n \in seen'.hi - W + 1 .. seen'.hi + H - W
    <3>1. CASE ctrl'.ind_sn = NoSn
      <4>1. seen'.hi = n
        BY <1>s, <3>1, Zenon
      <4>2. n \in n - W + 1 .. n + H - W
        BY <1>2, RingFacts
      <4>. QED  BY <4>1, <4>2, Zenon
    <3>2. CASE ctrl'.ind_sn # NoSn
      <4>1. seen'.hi = seen.hi /\ (~seen'.far => ~(n > seen.hi + H - W))
        BY <1>s, <3>2, Zenon
      <4>2. ~(n > seen.hi + H - W) => n \in seen.hi - W + 1 .. seen.hi + H - W
        <5>1. seen.hi - W + 1 <= n /\ n \in Nat /\ seen.hi \in Nat
          BY <1>2, <1>3, Zenon
        <5>. QED  BY ONLY <5>1, RingFacts
      <4>. QED  BY <4>1, <4>2, Zenon
    <3>. QED  BY <3>1, <3>2
  <2>. QED  BY <1>2, <1>4, <2>1, <2>2, Zenon DEF CarriedNear, H
<1>13. HeldIsTimed'
  BY <1>1, <1>c, <1>7, Zenon DEF Parts, Empties, HeldIsTimed
<1>14. (~seen.raced => InWindow(ctrl.ind_sn, ctrl.list))'
  <2>1. CASE ctrl'.ind_sn = NoSn
    <3>1. ctrl'.list = <<>> => InWindow(ctrl'.ind_sn, ctrl'.list)
      BY DEF InWindow
    <3>. QED  BY <1>8, <2>1, <3>1, Zenon
  <2>2. CASE ctrl'.ind_sn # NoSn
    BY <1>c, <1>7, <2>2, Zenon DEF Parts
  <2>. QED  BY <2>1, <2>2
<1>15. (~seen.raced /\ ~seen.far =>
          InOrder(ctrl.ind_sn, ctrl.list, ctrl.enable, seen.out, seen.hi, seen.lateOk))'
  <2>1. CASE ctrl'.ind_sn = NoSn
    <3>1. Sorted(<<>>)
      BY DEF Sorted
    <3>2. seen'.out = <<>> /\ seen'.lateOk
      BY <1>s, <2>1
    <3>. QED  BY <2>1, <3>1, <3>2, Zenon DEF InOrder
  <2>2. CASE ctrl'.ind_sn # NoSn
    <3>1. /\ ctrl.linked /\ ctrl.enable /\ ctrl'.ind_sn = ctrl.ind_sn /\ ctrl'.list = ctrl.list
          /\ seen'.out = seen.out /\ seen'.hi = seen.hi /\ (seen.lateOk => seen'.lateOk)
          /\ (~seen'.raced /\ ~seen'.far => ~seen.raced /\ ~seen.far)
      BY <1>c, <1>s, <1>7, <2>2, Zenon
    <3>. QED  BY <3>1, Zenon DEF Parts, InOrder
  <2>. QED  BY <2>1, <2>2
<1>. QED  BY <1>5, <1>6, <1>9, <1>10, <1>11, <1>12, <1>13, <1>14, <1>15, Zenon DEF Parts

\* A frame outside a session flushes the buffer.
LEMMA FlushKeeps ==
    ASSUME Parts, reord_flush_tid
    PROVE  Parts'
<1>0. ReordTypeOK /\ SeenTypeOK /\ CarriedNear /\ Balance
  BY Zenon DEF Parts
<1>1. /\ mode' = mode /\ deinit' = deinit /\ dangling' = dangling
      /\ unit' = [unit EXCEPT !.pc = "timer"] /\ air' = [air EXCEPT !.flush = @ - 1] /\ air.flush > 0
      /\ freequeue' = freequeue + Len(ctrl.list) /\ seen' = [seen EXCEPT !.out = @ \o ctrl.list]
      /\ ctrl' = [ctrl EXCEPT !.list = <<>>, !.enable = FALSE] /\ ctrl.linked /\ ctrl.enable
      /\ unit.pc = "idle" /\ ~dangling
  BY Zenon DEF reord_flush_tid, reord_single_frame_ind, RxIdle
<1>3. /\ seen.hi \in Nat /\ ctrl.list \in Seq(Nat) /\ seen.out \in Seq(Nat) /\ air.flush \in Nat
      /\ freequeue \in Nat /\ seen.leaked \in Nat /\ ctrl.ind_sn \in Ring \cup {NoSn} /\ unit.n \in Nat
      /\ air.hi \in Int /\ air.left \in Nat /\ ctrl.linked \in BOOLEAN
  BY <1>0, Fields, Zenon
<1>c. /\ ctrl'.linked = ctrl.linked /\ ctrl'.enable = FALSE /\ ctrl'.ind_sn = ctrl.ind_sn
      /\ ctrl'.list = <<>> /\ ctrl'.timer = ctrl.timer /\ ctrl'.work = ctrl.work
      /\ unit'.pc = "timer" /\ unit'.n = unit.n
  BY <1>0, <1>1, Zenon DEF ReordTypeOK
<1>s. /\ seen'.out = seen.out \o ctrl.list /\ seen'.hi = seen.hi /\ seen'.lateOk = seen.lateOk
      /\ seen'.leaked = seen.leaked /\ seen'.raced = seen.raced /\ seen'.far = seen.far
  BY <1>0, <1>1, Zenon DEF SeenTypeOK
<1>4. seen.out \o ctrl.list \in Seq(Nat)
  BY <1>3, PutTogether
<1>5. Balance' /\ freequeue' \in 0 .. MAX_REORD_RXFRAME
  <2>1. PICK k \in Nat, q \in Nat, m \in Nat :
          k = Len(ctrl.list) /\ q = freequeue /\ m = seen.leaked /\ Waits(ctrl.linked, ctrl.list) = k
    BY <1>1, <1>3, Holders, SeqEntries, Zenon
  <2>2. q + k + 0 + m = MAX_REORD_RXFRAME
    BY <1>0, <1>1, <2>1, Holders, Zenon DEF Balance
  <2>3. Waits(ctrl'.linked, ctrl'.list) = 0
    BY <1>1, <1>c DEF Waits
  <2>4. (q + k) + 0 + 0 + m = MAX_REORD_RXFRAME /\ q + k \in 0 .. MAX_REORD_RXFRAME
    BY ONLY <2>2, q \in Nat, k \in Nat, m \in Nat
  <2>. QED  BY <1>1, <1>c, <1>s, <2>1, <2>3, <2>4, Holders, Zenon DEF Balance
<1>6. ReordTypeOK' /\ SeenTypeOK'
  <2>0. <<>> \in Seq(Nat)
    OBVIOUS
  <2>1. ctrl' \in [linked : BOOLEAN, enable : BOOLEAN, ind_sn : 0 .. SnMod - 1 \cup {NoSn},
                   list : Seq(Nat), timer : BOOLEAN, work : BOOLEAN]
    BY <1>0, <1>1, <2>0, Zenon DEF ReordTypeOK
  <2>2. unit' \in [pc : {"idle", "unit", "timer", "work"}, n : Nat]
    BY <1>0, <1>1, Zenon DEF ReordTypeOK
  <2>3. ReordTypeOK'
    BY <1>0, <1>1, <1>5, <2>1, <2>2, Zenon DEF ReordTypeOK
  <2>4. seen' \in [out : Seq(Nat), hi : Nat, lateOk : BOOLEAN, leaked : Nat,
                   raced : BOOLEAN, far : BOOLEAN]
    BY <1>0, <1>1, <1>4, Zenon DEF SeenTypeOK
  <2>5. PICK f \in Nat : f = air.flush - 1
    BY <1>1, <1>3
  <2>6. air' \in [left : Nat, flush : Nat, hi : Int]
    <3>1. air' = [air EXCEPT !.flush = f]
      BY <1>1, <2>5, Zenon
    <3>. QED  BY <1>0, <3>1, Zenon DEF SeenTypeOK
  <2>. QED  BY <2>3, <2>4, <2>6, Zenon DEF SeenTypeOK
<1>7. air'.hi = air.hi
  BY <1>0, <1>1 DEF SeenTypeOK
<1>8. Places'
  BY <1>1, <1>c, <1>s, Zenon DEF Parts, Places
<1>9. ~seen.raced /\ ctrl.ind_sn = NoSn => seen.out = <<>> /\ ctrl.list = <<>>
  BY Zenon DEF Parts, Fresh, Empties
<1>10. <<>> \o <<>> = <<>>
  OBVIOUS
<1>11. Empties' /\ Fresh' /\ CarriedNear' /\ HeldIsTimed'
  <2>1. Fresh'
    BY <1>c, <1>s, <1>9, <1>10, Zenon DEF Fresh
  <2>2. CarriedNear'
    BY <1>0, <1>c, <1>s, <1>7, Zenon DEF CarriedNear
  <2>. QED  BY <1>c, <2>1, <2>2, Zenon DEF Empties, HeldIsTimed
<1>12. (~seen.raced => InWindow(ctrl.ind_sn, ctrl.list))'
  BY <1>c DEF InWindow
<1>13. (~seen.raced /\ ~seen.far =>
          InOrder(ctrl.ind_sn, ctrl.list, ctrl.enable, seen.out, seen.hi, seen.lateOk))'
  <2>. SUFFICES ASSUME ~seen.raced, ~seen.far
                PROVE  Sorted(seen.out \o ctrl.list) /\ seen.lateOk
    BY <1>c, <1>s, Zenon DEF InOrder
  <2>1. /\ InWindow(ctrl.ind_sn, ctrl.list)
        /\ InOrder(ctrl.ind_sn, ctrl.list, ctrl.enable, seen.out, seen.hi, seen.lateOk)
    BY Zenon DEF Parts
  <2>2. Sorted(seen.out) /\ seen.lateOk
    BY <2>1, Zenon DEF InOrder
  <2>3. CASE ctrl.ind_sn = NoSn
    BY <1>9, <1>10, <2>2, <2>3, Zenon
  <2>4. CASE ctrl.ind_sn # NoSn
    <3>1. PICK N \in 0 .. seen.hi + 1 : StandsFor(ctrl.ind_sn, ctrl.list, seen.out, seen.hi, N)
      BY <1>1, <2>1, <2>4, Zenon DEF InOrder
    <3>2. N \in Nat
      BY <1>3
    <3>3. Waiting(ctrl.ind_sn, ctrl.list, N, ctrl.list)
      BY <1>3, <2>1, <3>1, <3>2, NumbersWaiting, Zenon
    <3>4. Sorted(ctrl.list)
      BY <3>3, Zenon DEF Waiting, Sorted
    <3>5. ASSUME NEW i \in 1 .. Len(seen.out), NEW j \in 1 .. Len(ctrl.list)
          PROVE  seen.out[i] < ctrl.list[j]
      <4>1. seen.out[i] < N /\ N < ctrl.list[j]
        BY <3>1, Zenon DEF StandsFor
      <4>2. seen.out[i] \in Nat /\ ctrl.list[j] \in Nat
        BY <1>3, SeqEntries, Zenon
      <4>. QED  BY ONLY <3>2, <4>1, <4>2
    <3>. QED  BY <1>3, <2>2, <3>4, <3>5, SortedJoin, Zenon
  <2>. QED  BY <2>3, <2>4
<1>. QED  BY <1>5, <1>6, <1>8, <1>11, <1>12, <1>13, Zenon DEF Parts

\* The work item of the timer.
LEMMA WorkerKeeps ==
    ASSUME Parts, reord_timeout_worker
    PROVE  Parts'
<1>0. ReordTypeOK /\ SeenTypeOK /\ CarriedNear /\ Balance
  BY Zenon DEF Parts
<1>1. /\ mode' = mode /\ deinit' = deinit /\ dangling' = dangling /\ unit' = unit /\ air' = air
      /\ ctrl.work /\ ~dangling
  BY Zenon DEF reord_timeout_worker
<1>2. ctrl.linked
  BY <1>1, Zenon DEF Parts, Places
<1>3. CASE ctrl.list = <<>>
  <2>1. ctrl' = [ctrl EXCEPT !.work = FALSE] /\ freequeue' = freequeue /\ seen' = seen
    BY <1>3, Zenon DEF reord_timeout_worker
  <2>c. /\ ctrl'.linked = ctrl.linked /\ ctrl'.enable = ctrl.enable /\ ctrl'.ind_sn = ctrl.ind_sn
        /\ ctrl'.list = ctrl.list /\ ctrl'.timer = ctrl.timer /\ ctrl'.work = FALSE
    BY <1>0, <2>1 DEF ReordTypeOK
  <2>2. ctrl' \in [linked : BOOLEAN, enable : BOOLEAN, ind_sn : 0 .. SnMod - 1 \cup {NoSn},
                   list : Seq(Nat), timer : BOOLEAN, work : BOOLEAN]
    BY <1>0, <2>1, Zenon DEF ReordTypeOK
  <2>3. ReordTypeOK' /\ SeenTypeOK' /\ Balance'
    BY <1>0, <1>1, <2>1, <2>c, <2>2, Zenon DEF ReordTypeOK, SeenTypeOK, Balance
  <2>4. Places' /\ Empties' /\ Fresh' /\ CarriedNear' /\ HeldIsTimed'
    BY <1>1, <1>2, <1>3, <2>1, <2>c, Zenon
       DEF Parts, Places, Empties, Fresh, CarriedNear, HeldIsTimed
  <2>. QED  BY <2>1, <2>c, <2>3, <2>4, Zenon DEF Parts
<1>4. CASE ctrl.list # <<>>
  <2>. DEFINE list == ctrl.list  c == WorkerDue(list)  r == SubSeq(list, c + 1, Len(list))
              new == seen.out \o SubSeq(list, 1, c)
  <2>1. /\ ctrl' = [ctrl EXCEPT !.work = FALSE, !.ind_sn = WorkerPass(list).ind,
                                !.timer = @ \/ WorkerPass(list).left, !.list = r]
        /\ freequeue' = freequeue + Len(SubSeq(list, 1, c)) /\ seen' = [seen EXCEPT !.out = new]
    BY <1>4, Zenon DEF reord_timeout_worker, reord_single_frame_ind, WorkerPass, WorkerDue
  <2>2. /\ list \in Seq(Nat) /\ seen.out \in Seq(Nat) /\ ctrl.timer \in BOOLEAN /\ freequeue \in Nat
        /\ seen.leaked \in Nat /\ ctrl.ind_sn \in Ring \cup {NoSn} /\ seen.hi \in Nat /\ unit.pc \in Pcs
        /\ ctrl.linked \in BOOLEAN
    BY <1>0, Fields, Zenon
  <2>3. Sn(list[1]) \in Ring
    <3>1. list[1] \in Int
      BY <1>4, <2>2, SeqEntries
    <3>. QED  BY <3>1, RingClosed, Zenon
  <2>4. WorkerPass(list).ind \in Ring /\ WorkerPass(list).left \in BOOLEAN
    BY <2>2, <2>3, ProcessType, Zenon DEF WorkerPass
  <2>5. c \in 0 .. Len(list)
    BY <2>2, <2>4, ProcessType, Zenon DEF WorkerDue
  <2>. HIDE DEF list, c
  <2>6. /\ r \in Seq(Nat) /\ Len(r) = Len(list) - c /\ SubSeq(list, 1, c) \in Seq(Nat)
        /\ Len(SubSeq(list, 1, c)) = c
    BY <2>2, <2>5, CutInTwo
  <2>7. new \in Seq(Nat)
    BY <2>2, <2>6, PutTogether, Zenon
  <2>. HIDE DEF r, new
  <2>c. /\ ctrl'.linked = ctrl.linked /\ ctrl'.enable = ctrl.enable
        /\ ctrl'.ind_sn = WorkerPass(list).ind /\ ctrl'.list = r
        /\ ctrl'.timer = (ctrl.timer \/ WorkerPass(list).left) /\ ctrl'.work = FALSE
    BY <1>0, <2>1 DEF ReordTypeOK
  <2>s. /\ seen'.out = new /\ seen'.hi = seen.hi /\ seen'.lateOk = seen.lateOk
        /\ seen'.leaked = seen.leaked /\ seen'.raced = seen.raced /\ seen'.far = seen.far
    BY <1>0, <2>1 DEF SeenTypeOK
  <2>8. Balance' /\ freequeue' \in 0 .. MAX_REORD_RXFRAME
    <3>1. PICK k \in Nat, q \in Nat, m \in Nat, u \in Nat :
            /\ k = Len(list) /\ q = freequeue /\ m = seen.leaked /\ u = InUnit(unit.pc)
            /\ Waits(ctrl.linked, ctrl.list) = k
      <4>1. Len(list) \in Nat /\ Waits(ctrl.linked, ctrl.list) = Len(list)
        BY <1>2, <2>2, Holders, SeqEntries, Zenon DEF list
      <4>2. InUnit(unit.pc) \in Nat
        BY <2>2 DEF InUnit
      <4>. QED  BY <2>2, <4>1, <4>2, Zenon
    <3>2. q + k + u + m = MAX_REORD_RXFRAME
      BY <1>0, <3>1, Zenon DEF Balance
    <3>3. Waits(ctrl'.linked, ctrl'.list) = k - c /\ c \in 0 .. k
      BY <1>2, <2>5, <2>6, <2>c, <3>1 DEF Waits
    <3>4. (q + c) + (k - c) + u + m = MAX_REORD_RXFRAME /\ q + c \in 0 .. MAX_REORD_RXFRAME
      BY ONLY <3>2, <3>3, q \in Nat, k \in Nat, m \in Nat, u \in Nat
    <3>5. freequeue' = q + c
      BY <2>1, <2>6, <3>1, Zenon
    <3>. QED  BY <1>1, <2>s, <3>1, <3>3, <3>4, <3>5, Zenon DEF Balance
  <2>9. ReordTypeOK' /\ SeenTypeOK'
    <3>1. (ctrl.timer \/ WorkerPass(list).left) \in BOOLEAN
      BY <2>2, <2>4
    <3>2. WorkerPass(list).ind \in 0 .. SnMod - 1 \cup {NoSn}
      BY <2>4 DEF Ring
    <3>3. ctrl' \in [linked : BOOLEAN, enable : BOOLEAN, ind_sn : 0 .. SnMod - 1 \cup {NoSn},
                     list : Seq(Nat), timer : BOOLEAN, work : BOOLEAN]
      BY <1>0, <2>1, <2>6, <3>1, <3>2, Zenon DEF ReordTypeOK
    <3>4. seen' \in [out : Seq(Nat), hi : Nat, lateOk : BOOLEAN, leaked : Nat,
                     raced : BOOLEAN, far : BOOLEAN]
      BY <1>0, <2>1, <2>7, Zenon DEF SeenTypeOK
    <3>5. ReordTypeOK'
      BY <1>0, <1>1, <2>8, <3>3, Zenon DEF ReordTypeOK
    <3>6. SeenTypeOK'
      BY <1>0, <1>1, <3>4, Zenon DEF SeenTypeOK
    <3>. QED  BY <3>5, <3>6
  <2>10. ctrl'.ind_sn # NoSn
    BY <2>4, <2>c, RingFacts DEF Ring
  <2>11. /\ ~(unit.pc \in {"timer", "work"})
         /\ ~seen.raced => /\ ctrl.ind_sn \in Ring /\ deinit # "free"
                           /\ ctrl.enable \/ deinit # "idle"
    BY <1>2, <1>4, <2>2 DEF Parts, Places, Empties
  <2>12. Places' /\ Empties' /\ Fresh' /\ CarriedNear'
    BY <1>1, <1>2, <2>c, <2>s, <2>10, <2>11, Zenon DEF Parts, Places, Empties, Fresh, CarriedNear
  <2>13. ~seen.raced => InWindow(WorkerPass(list).ind, r) /\ WorkerPass(list).left = (c < Len(list))
    <3>. SUFFICES ASSUME ~seen.raced
                  PROVE  InWindow(WorkerPass(list).ind, r) /\ WorkerPass(list).left = (c < Len(list))
      OBVIOUS
    <3>1. InWindow(ctrl.ind_sn, list) /\ list # <<>>
      BY <1>4, Zenon DEF Parts, list
    <3>. QED  BY <2>2, <2>11, <3>1, WorkerWindow, Zenon DEF r, c
  <2>14. HeldIsTimed'
    <3>1. ctrl.linked /\ deinit = "idle" => ~seen.raced
      BY Zenon DEF Parts, Places
    <3>2. r # <<>> => c < Len(list)
      BY <2>2, <2>5, <2>6, SeqEntries
    <3>. QED  BY <1>1, <1>2, <2>c, <2>13, <3>1, <3>2, Zenon DEF HeldIsTimed
  <2>15. (~seen.raced /\ ~seen.far =>
            InOrder(ctrl.ind_sn, ctrl.list, ctrl.enable, seen.out, seen.hi, seen.lateOk))'
    <3>. SUFFICES ASSUME ~seen.raced, ~seen.far
                  PROVE  /\ Sorted(new) /\ seen.lateOk
                         /\ \E M \in 0 .. seen.hi + 1 :
                              StandsFor(WorkerPass(list).ind, r, new, seen.hi, M)
      BY <2>c, <2>s, Zenon DEF InOrder
    <3>1. /\ InWindow(ctrl.ind_sn, list) /\ list # <<>>
          /\ InOrder(ctrl.ind_sn, list, ctrl.enable, seen.out, seen.hi, seen.lateOk)
      BY <1>4, Zenon DEF Parts, list
    <3>2. ctrl.ind_sn # NoSn
      BY <2>11, RingFacts DEF Ring
    <3>3. PICK N \in 0 .. seen.hi + 1 : StandsFor(ctrl.ind_sn, list, seen.out, seen.hi, N)
      BY <3>1, <3>2, Zenon DEF InOrder
    <3>4. N \in Nat /\ N <= seen.hi + 1
      BY <2>2
    <3>5. Sorted(seen.out) /\ seen.lateOk
      BY <3>1, Zenon DEF InOrder
    <3>. QED  BY <2>2, <3>1, <3>3, <3>4, <3>5, WorkerNumbers, Zenon DEF r, new, c
  <2>16. (~seen.raced => InWindow(ctrl.ind_sn, ctrl.list))'
    BY <2>13, <2>c, <2>s, Zenon
  <2>. QED  BY <2>8, <2>9, <2>12, <2>14, <2>15, <2>16, Zenon DEF Parts
<1>. QED  BY <1>3, <1>4

\* reord_process_unit with ordering switched off: a teardown runs beside it.
LEMMA UnitOffKeeps ==
    ASSUME Parts, reord_process_unit, ~ctrl.enable
    PROVE  Parts'
<1>0. ReordTypeOK /\ SeenTypeOK /\ CarriedNear /\ Balance
  BY Zenon DEF Parts
<1>1. /\ unit.pc = "unit" /\ unit' = Idle /\ ~dangling /\ mode' = mode /\ deinit' = deinit
      /\ dangling' = dangling /\ air' = air /\ ctrl' = [ctrl EXCEPT !.ind_sn = Sn(unit.n + 1)]
      /\ freequeue' = freequeue + 1 /\ seen' = seen
  BY Zenon DEF reord_process_unit
<1>2. /\ unit.n \in Nat /\ ctrl.list \in Seq(Nat) /\ ctrl.linked \in BOOLEAN /\ freequeue \in Nat
      /\ seen.leaked \in Nat
  BY <1>0, Fields, Zenon
<1>3. Sn(unit.n + 1) \in Ring
  <2>1. unit.n + 1 \in Int
    BY <1>2
  <2>. QED  BY <2>1, RingClosed, Zenon
<1>c. /\ ctrl'.linked = ctrl.linked /\ ctrl'.enable = ctrl.enable /\ ctrl'.ind_sn = Sn(unit.n + 1)
      /\ ctrl'.list = ctrl.list /\ ctrl'.timer = ctrl.timer /\ ctrl'.work = ctrl.work
      /\ unit'.pc = "idle" /\ unit' \in [pc : {"idle", "unit", "timer", "work"}, n : Nat]
  <2>1. unit'.pc = "idle" /\ unit' \in [pc : {"idle", "unit", "timer", "work"}, n : Nat]
    BY <1>1 DEF Idle
  <2>. QED  BY <1>0, <1>1, <2>1, Zenon DEF ReordTypeOK
<1>4. seen.raced
  BY <1>1, Zenon DEF Parts, Places
<1>5. Balance' /\ freequeue' \in 0 .. MAX_REORD_RXFRAME
  <2>1. PICK w \in Nat, q \in Nat, m \in Nat :
          w = Waits(ctrl.linked, ctrl.list) /\ q = freequeue /\ m = seen.leaked
    BY <1>2, Holders, Zenon
  <2>2. q + w + 1 + m = MAX_REORD_RXFRAME
    BY <1>0, <1>1, <2>1, Holders, Zenon DEF Balance
  <2>3. (q + 1) + w + 0 + m = MAX_REORD_RXFRAME /\ q + 1 \in 0 .. MAX_REORD_RXFRAME
    BY ONLY <2>2, w \in Nat, q \in Nat, m \in Nat
  <2>. QED  BY <1>1, <1>c, <2>1, <2>3, Holders, Zenon DEF Balance
<1>6. ReordTypeOK' /\ SeenTypeOK'
  <2>1. Sn(unit.n + 1) \in 0 .. SnMod - 1 \cup {NoSn}
    BY <1>3 DEF Ring
  <2>2. ctrl' \in [linked : BOOLEAN, enable : BOOLEAN, ind_sn : 0 .. SnMod - 1 \cup {NoSn},
                   list : Seq(Nat), timer : BOOLEAN, work : BOOLEAN]
    BY <1>0, <1>1, <2>1, Zenon DEF ReordTypeOK
  <2>3. ReordTypeOK'
    BY <1>0, <1>1, <1>c, <1>5, <2>2, Zenon DEF ReordTypeOK
  <2>. QED  BY <1>0, <1>1, <2>3, Zenon DEF SeenTypeOK
<1>7. Places' /\ Empties' /\ Fresh' /\ CarriedNear' /\ HeldIsTimed'
  BY <1>1, <1>c, <1>4, Zenon DEF Parts, Places, Empties, Fresh, CarriedNear, HeldIsTimed
<1>. QED  BY <1>1, <1>4, <1>5, <1>6, <1>7, Zenon DEF Parts

\* A frame that is late, or that waits already: it is handed up or dropped.
LEMMA UnitPassesKeeps ==
    ASSUME Parts, reord_process_unit, ctrl.enable,
           reord_need_check(ctrl.ind_sn, Sn(unit.n)).late \/ Held(ctrl.list, unit.n)
    PROVE  Parts'
<1>. DEFINE n == unit.n  check == reord_need_check(ctrl.ind_sn, Sn(n))
            ok == n <= seen.hi - W \/ \E i \in DOMAIN seen.out : n <= seen.out[i]
<1>0. ReordTypeOK /\ SeenTypeOK /\ CarriedNear /\ Balance
  BY Zenon DEF Parts
<1>1. /\ unit.pc = "unit" /\ unit' = Idle /\ ~dangling /\ mode' = mode /\ deinit' = deinit
      /\ dangling' = dangling /\ air' = air /\ ctrl' = [ctrl EXCEPT !.ind_sn = check.ind]
      /\ freequeue' = freequeue + 1
      /\ (check.late /\ seen' = [seen EXCEPT !.lateOk = @ /\ ok]) \/ (~check.late /\ seen' = seen)
  BY Zenon DEF reord_process_unit
<1>2. /\ unit.n \in Nat /\ ctrl.list \in Seq(Nat) /\ ctrl.linked \in BOOLEAN /\ freequeue \in Nat
      /\ seen.leaked \in Nat /\ ctrl.ind_sn \in Ring \cup {NoSn} /\ seen.lateOk \in BOOLEAN
      /\ seen.hi \in Nat /\ seen.out \in Seq(Nat)
  BY <1>0, Fields, Zenon
<1>3. check.ind \in Ring /\ check.late \in BOOLEAN
  BY <1>2, CheckType, Zenon
<1>4. ok \in BOOLEAN
  OBVIOUS
<1>5. ~seen.raced => check.ind = ctrl.ind_sn
  <2>. SUFFICES ASSUME ~seen.raced PROVE check.ind = ctrl.ind_sn
    OBVIOUS
  <2>1. InWindow(ctrl.ind_sn, ctrl.list) /\ (ctrl.ind_sn = NoSn => ctrl.list = <<>>)
    BY Zenon DEF Parts, Empties
  <2>2. check.late \/ Held(ctrl.list, n)
    OBVIOUS
  <2>. QED  BY <1>2, <2>1, <2>2, UnitWindow, ZenonT(30)
<1>6. ~seen.raced /\ ~seen.far /\ check.late => ok
  <2>. SUFFICES ASSUME ~seen.raced, ~seen.far, check.late PROVE ok
    OBVIOUS
  <2>1. /\ InWindow(ctrl.ind_sn, ctrl.list)
        /\ InOrder(ctrl.ind_sn, ctrl.list, ctrl.enable, seen.out, seen.hi, seen.lateOk)
    BY Zenon DEF Parts
  <2>2. ctrl.ind_sn # NoSn
    <3>1. NoSn \notin Ring
      BY RingFacts DEF Ring
    <3>. QED  BY <1>3, <1>5, <3>1, Zenon
  <2>3. PICK N \in 0 .. seen.hi + 1 : StandsFor(ctrl.ind_sn, ctrl.list, seen.out, seen.hi, N)
    BY <2>1, <2>2, Zenon DEF InOrder
  <2>4. N \in Nat /\ N <= seen.hi + 1 /\ N \in Int /\ n \in Int
    BY <1>2
  <2>5. seen.hi - W + 1 <= n /\ n <= seen.hi + H - W
    <3>1. n \in seen.hi - W + 1 .. seen.hi + H - W
      BY <1>0, <1>1, Zenon DEF CarriedNear, H
    <3>. QED  BY <1>2, <3>1, RingFacts
  <2>6. Incoming(ctrl.ind_sn, ctrl.list, N, ctrl.list, n, n)
    BY <1>2, <2>1, <2>3, <2>4, <2>5, NumbersIncoming, Zenon
  <2>7. n < N
    BY <1>2, <2>4, <2>6, CheckValue, Zenon
  <2>8. N = seen.hi - W + 1 \/ \E i \in 1 .. Len(seen.out) : seen.out[i] = N - 1
    BY <2>3, Zenon DEF StandsFor
  <2>9. CASE N = seen.hi - W + 1
    BY <1>2, <2>7, <2>9, RingFacts
  <2>10. CASE \E i \in 1 .. Len(seen.out) : seen.out[i] = N - 1
    <3>1. PICK i \in 1 .. Len(seen.out) : seen.out[i] = N - 1
      BY <2>10
    <3>2. n <= N - 1
      BY ONLY <2>4, <2>7
    <3>3. i \in DOMAIN seen.out
      BY <1>2, SeqEntries, Zenon
    <3>. QED  BY <3>1, <3>2, <3>3, Zenon
  <2>. QED  BY <2>8, <2>9, <2>10
<1>. HIDE DEF check, ok
<1>c. /\ ctrl'.linked = ctrl.linked /\ ctrl'.enable = ctrl.enable /\ ctrl'.ind_sn = check.ind
      /\ ctrl'.list = ctrl.list /\ ctrl'.timer = ctrl.timer /\ ctrl'.work = ctrl.work
      /\ unit'.pc = "idle" /\ unit' \in [pc : {"idle", "unit", "timer", "work"}, n : Nat]
  <2>1. unit'.pc = "idle" /\ unit' \in [pc : {"idle", "unit", "timer", "work"}, n : Nat]
    BY <1>1 DEF Idle
  <2>. QED  BY <1>0, <1>1, <2>1, Zenon DEF ReordTypeOK
<1>s. /\ seen'.out = seen.out /\ seen'.hi = seen.hi /\ seen'.leaked = seen.leaked
      /\ seen'.raced = seen.raced /\ seen'.far = seen.far
      /\ seen.lateOk /\ (check.late => ok) => seen'.lateOk
      /\ seen' \in [out : Seq(Nat), hi : Nat, lateOk : BOOLEAN, leaked : Nat,
                    raced : BOOLEAN, far : BOOLEAN]
  <2>1. CASE check.late /\ seen' = [seen EXCEPT !.lateOk = @ /\ ok]
    <3>1. (seen.lateOk /\ ok) \in BOOLEAN
      BY <1>4
    <3>2. seen' \in [out : Seq(Nat), hi : Nat, lateOk : BOOLEAN, leaked : Nat,
                     raced : BOOLEAN, far : BOOLEAN]
      BY <1>0, <2>1, <3>1, Zenon DEF SeenTypeOK
    <3>3. /\ seen'.out = seen.out /\ seen'.hi = seen.hi /\ seen'.leaked = seen.leaked
          /\ seen'.raced = seen.raced /\ seen'.far = seen.far /\ seen'.lateOk = (seen.lateOk /\ ok)
      BY <1>0, <2>1, Zenon DEF SeenTypeOK
    <3>. QED  BY <2>1, <3>2, <3>3, Zenon
  <2>2. CASE ~check.late /\ seen' = seen
    BY <1>0, <2>2, Zenon DEF SeenTypeOK
  <2>. QED  BY <1>1, <2>1, <2>2
<1>7. Balance' /\ freequeue' \in 0 .. MAX_REORD_RXFRAME
  <2>1. PICK w \in Nat, q \in Nat, m \in Nat :
          w = Waits(ctrl.linked, ctrl.list) /\ q = freequeue /\ m = seen.leaked
    BY <1>2, Holders, Zenon
  <2>2. q + w + 1 + m = MAX_REORD_RXFRAME
    BY <1>0, <1>1, <2>1, Holders, Zenon DEF Balance
  <2>3. (q + 1) + w + 0 + m = MAX_REORD_RXFRAME /\ q + 1 \in 0 .. MAX_REORD_RXFRAME
    BY ONLY <2>2, w \in Nat, q \in Nat, m \in Nat
  <2>. QED  BY <1>1, <1>c, <1>s, <2>1, <2>3, Holders, Zenon DEF Balance
<1>8. ReordTypeOK' /\ SeenTypeOK'
  <2>1. check.ind \in 0 .. SnMod - 1 \cup {NoSn}
    BY <1>3 DEF Ring
  <2>2. ctrl' \in [linked : BOOLEAN, enable : BOOLEAN, ind_sn : 0 .. SnMod - 1 \cup {NoSn},
                   list : Seq(Nat), timer : BOOLEAN, work : BOOLEAN]
    BY <1>0, <1>1, <2>1, Zenon DEF ReordTypeOK
  <2>3. ReordTypeOK'
    BY <1>0, <1>1, <1>c, <1>7, <2>2, Zenon DEF ReordTypeOK
  <2>4. SeenTypeOK'
    BY <1>0, <1>1, <1>s, Zenon DEF SeenTypeOK
  <2>. QED  BY <2>3, <2>4
<1>9. Places' /\ CarriedNear' /\ HeldIsTimed'
  BY <1>1, <1>c, <1>s, Zenon DEF Parts, Places, CarriedNear, HeldIsTimed
<1>10. Empties' /\ Fresh'
  BY <1>1, <1>c, <1>s, <1>5, Zenon DEF Parts, Empties, Fresh
<1>11. (~seen.raced => InWindow(ctrl.ind_sn, ctrl.list))'
  BY <1>c, <1>s, <1>5, Zenon DEF Parts
<1>12. (~seen.raced /\ ~seen.far =>
          InOrder(ctrl.ind_sn, ctrl.list, ctrl.enable, seen.out, seen.hi, seen.lateOk))'
  <2>. SUFFICES ASSUME ~seen.raced, ~seen.far
                PROVE  InOrder(ctrl.ind_sn, ctrl.list, ctrl.enable, seen.out, seen.hi, seen'.lateOk)
    BY <1>c, <1>s, <1>5, Zenon
  <2>1. InOrder(ctrl.ind_sn, ctrl.list, ctrl.enable, seen.out, seen.hi, seen.lateOk)
    BY Zenon DEF Parts
  <2>. QED  BY <1>s, <1>6, <2>1, Zenon DEF InOrder
<1>. QED  BY <1>7, <1>8, <1>9, <1>10, <1>11, <1>12, Zenon DEF Parts

\* A frame that is ordered: it may open the way for the frames that wait.
LEMMA UnitOrdersKeeps ==
    ASSUME Parts, reord_process_unit, ctrl.enable,
           ~reord_need_check(ctrl.ind_sn, Sn(unit.n)).late, ~Held(ctrl.list, unit.n)
    PROVE  Parts'
<1>. DEFINE n == unit.n  ind == ctrl.ind_sn  list == ctrl.list
            l == UnitList(list, n)  pass == UnitPass(ind, list, n)  c == UnitDue(ind, list, n)
            r == UnitRest(ind, list, n)  new == UnitOut(ind, list, n, seen.out)
            top == Higher(n, seen.hi)
<1>0. ReordTypeOK /\ SeenTypeOK /\ CarriedNear /\ Balance
  BY Zenon DEF Parts
<1>1. /\ unit.pc = "unit" /\ unit' = Idle /\ ~dangling /\ mode' = mode /\ deinit' = deinit
      /\ dangling' = dangling /\ air' = air
      /\ ctrl' = [ctrl EXCEPT !.ind_sn = pass.ind, !.timer = pass.left, !.list = r]
      /\ freequeue' = freequeue + c /\ seen' = [seen EXCEPT !.out = new, !.hi = top]
  BY Zenon DEF reord_process_unit, UnitList, UnitPass, UnitDue, UnitRest, UnitOut, Higher
<1>2. /\ n \in Nat /\ list \in Seq(Nat) /\ ctrl.linked \in BOOLEAN /\ freequeue \in Nat
      /\ seen.leaked \in Nat /\ ind \in Ring \cup {NoSn} /\ seen.lateOk \in BOOLEAN
      /\ seen.hi \in Nat /\ seen.out \in Seq(Nat)
  BY <1>0, Fields, Zenon
<1>3. ctrl.linked
  BY <1>1, Zenon DEF Parts, Places
<1>4. l \in Seq(Nat) /\ Len(l) = Len(list) + 1
  BY <1>2, EnqueueType, Zenon DEF UnitList
<1>5. pass.ind \in Ring /\ pass.left \in BOOLEAN
  <2>1. reord_need_check(ind, Sn(n)).ind \in Ring
    BY <1>2, CheckType, Zenon
  <2>. HIDE DEF l
  <2>2. pass = reord_rxframes_process(reord_need_check(ind, Sn(n)).ind, l)
    BY Zenon DEF UnitPass, l
  <2>. HIDE DEF pass
  <2>. QED  BY <1>4, <2>1, <2>2, ProcessType, Zenon
<1>6. c \in 0 .. Len(l)
  <2>1. c = reord_rxframes_ind(pass.ind, l)
    BY Zenon DEF UnitDue
  <2>. HIDE DEF c, pass, l
  <2>. QED  BY <1>4, <1>5, <2>1, ProcessType, Zenon
<1>w. ~seen.raced => InWindow(pass.ind, r) /\ pass.left = (c < Len(l))
  <2>1. ~seen.raced => InWindow(ind, list) /\ (ind = NoSn => list = <<>>)
    BY Zenon DEF Parts, Empties
  <2>. QED  BY <1>2, <2>1, UnitWindow, ZenonT(30)
<1>n. ~seen.raced /\ ~seen.far =>
         /\ Sorted(new) /\ seen.lateOk
         /\ \E M \in 0 .. top + 1 : StandsFor(pass.ind, r, new, top, M)
  <2>. SUFFICES ASSUME ~seen.raced, ~seen.far
                PROVE  /\ Sorted(new) /\ seen.lateOk
                       /\ \E M \in 0 .. top + 1 : StandsFor(pass.ind, r, new, top, M)
    OBVIOUS
  <2>1. /\ InWindow(ind, list)
        /\ InOrder(ind, list, ctrl.enable, seen.out, seen.hi, seen.lateOk)
    BY Zenon DEF Parts
  <2>2. Sorted(seen.out) /\ seen.lateOk
    BY <2>1, Zenon DEF InOrder
  <2>3. n \in Int /\ (~reord_need_check(ind, Sn(n)).late)
    BY <1>2
  <2>4. PICK N \in Nat : Ready(ind, list, seen.out, seen.hi, n, N)
    <3>1. CASE ind = NoSn
      <4>1. list = <<>> /\ seen.out = <<>> /\ seen.hi = n
        BY <1>1, <3>1, Zenon DEF Parts, Empties, Fresh
      <4>2. n - H <= n /\ n < n + H /\ n <= n + 1 /\ n < n + W
        BY <1>2, RingFacts
      <4>3. Len(list) = 0 /\ Len(seen.out) = 0
        BY <4>1
      <4>4. \A i \in 1 .. 0 : FALSE
        OBVIOUS
      <4>5. Incoming(ind, list, n, list, n, n)
        BY <3>1, <4>1, <4>2, Zenon DEF Incoming
      <4>. HIDE DEF list, n, ind
      <4>. QED  BY <1>2, <4>1, <4>2, <4>3, <4>4, <4>5, Zenon DEF Ready
    <3>2. CASE ind # NoSn
      <4>1. PICK N \in 0 .. seen.hi + 1 : StandsFor(ind, list, seen.out, seen.hi, N)
        BY <2>1, <3>2, Zenon DEF InOrder
      <4>2. N \in Nat /\ N <= seen.hi + 1
        BY <1>2
      <4>3. seen.hi - W + 1 <= n /\ n <= seen.hi + H - W
        <5>1. n \in seen.hi - W + 1 .. seen.hi + H - W
          BY <1>0, <1>1, Zenon DEF CarriedNear, H
        <5>. QED  BY <1>2, <5>1, RingFacts
      <4>4. Incoming(ind, list, N, list, n, n)
        BY <1>2, <2>1, <4>1, <4>2, <4>3, NumbersIncoming, Zenon
      <4>. QED  BY <4>1, <4>2, <4>4, Zenon DEF StandsFor, Ready
    <3>. QED  BY <3>1, <3>2
  <2>5. n >= N
    <3>1. N \in Int
      OBVIOUS
    <3>2. ~(n < N)
      <4>1. Incoming(ind, list, N, list, n, n)
        BY <2>4, Zenon DEF Ready
      <4>. QED  BY <1>2, <2>3, <3>1, <4>1, CheckValue, Zenon
    <3>. QED  BY <2>3, <3>1, <3>2
  <2>6. ~Held(list, n)
    OBVIOUS
  <2>. HIDE DEF ind, list, n
  <2>7. /\ Sorted(UnitOut(ind, list, n, seen.out))
        /\ \E M \in 0 .. Higher(n, seen.hi) + 1 :
             StandsFor(UnitPass(ind, list, n).ind, UnitRest(ind, list, n),
                       UnitOut(ind, list, n, seen.out), Higher(n, seen.hi), M)
    BY <1>2, <2>2, <2>4, <2>5, <2>6, UnitNumbers, ZenonT(30)
  <2>. QED  BY <2>2, <2>7, Zenon
<1>7. /\ r \in Seq(Nat) /\ Len(r) = Len(l) - c /\ SubSeq(l, 1, c) \in Seq(Nat)
  <2>1. r = SubSeq(l, c + 1, Len(l))
    BY Zenon DEF UnitRest
  <2>. HIDE DEF l, c, r
  <2>. QED  BY <1>4, <1>6, <2>1, CutInTwo, ZenonT(30)
<1>8. new \in Seq(Nat) /\ top \in Nat /\ seen.hi <= top /\ n <= top /\ (top = n \/ top = seen.hi)
  <2>1. new \in Seq(Nat)
    BY <1>2, <1>7, PutTogether, Zenon DEF UnitOut
  <2>. QED  BY <1>2, <2>1 DEF Higher
<1>9. Len(list) \in Nat
  BY <1>2, SeqEntries
<1>. HIDE DEF l, pass, c, r, new, top
<1>c. /\ ctrl'.linked = ctrl.linked /\ ctrl'.enable = ctrl.enable /\ ctrl'.ind_sn = pass.ind
      /\ ctrl'.list = r /\ ctrl'.timer = pass.left /\ ctrl'.work = ctrl.work
      /\ unit'.pc = "idle" /\ unit' \in [pc : {"idle", "unit", "timer", "work"}, n : Nat]
  <2>1. unit'.pc = "idle" /\ unit' \in [pc : {"idle", "unit", "timer", "work"}, n : Nat]
    BY <1>1 DEF Idle
  <2>. QED  BY <1>0, <1>1, <2>1, Zenon DEF ReordTypeOK
<1>s. /\ seen'.out = new /\ seen'.hi = top /\ seen'.leaked = seen.leaked
      /\ seen'.raced = seen.raced /\ seen'.far = seen.far /\ seen'.lateOk = seen.lateOk
      /\ seen' \in [out : Seq(Nat), hi : Nat, lateOk : BOOLEAN, leaked : Nat,
                    raced : BOOLEAN, far : BOOLEAN]
  BY <1>0, <1>1, <1>8, Zenon DEF SeenTypeOK
<1>10. Balance' /\ freequeue' \in 0 .. MAX_REORD_RXFRAME
  <2>1. PICK k \in Nat, q \in Nat, m \in Nat :
          k = Len(list) /\ q = freequeue /\ m = seen.leaked /\ Waits(ctrl.linked, ctrl.list) = k
    BY <1>2, <1>3, <1>9, Holders, Zenon
  <2>2. q + k + 1 + m = MAX_REORD_RXFRAME
    BY <1>0, <1>1, <2>1, Holders, Zenon DEF Balance
  <2>3. Len(r) = (k + 1) - c /\ c \in 0 .. k + 1
    BY <1>4, <1>6, <1>7, <2>1, Zenon
  <2>4. Waits(ctrl'.linked, ctrl'.list) = Len(r)
    BY <1>3, <1>c, Zenon DEF Waits
  <2>5. (q + c) + ((k + 1) - c) + 0 + m = MAX_REORD_RXFRAME /\ q + c \in 0 .. MAX_REORD_RXFRAME
    BY ONLY <2>2, <2>3, k \in Nat, q \in Nat, m \in Nat
  <2>. QED  BY <1>1, <1>c, <1>s, <2>1, <2>3, <2>4, <2>5, Holders, Zenon DEF Balance
<1>11. ReordTypeOK' /\ SeenTypeOK'
  <2>1. pass.ind \in 0 .. SnMod - 1 \cup {NoSn}
    BY <1>5 DEF Ring
  <2>2. ctrl' \in [linked : BOOLEAN, enable : BOOLEAN, ind_sn : 0 .. SnMod - 1 \cup {NoSn},
                   list : Seq(Nat), timer : BOOLEAN, work : BOOLEAN]
    BY <1>0, <1>1, <1>5, <1>7, <2>1, Zenon DEF ReordTypeOK
  <2>3. ReordTypeOK'
    BY <1>0, <1>1, <1>c, <1>10, <2>2, Zenon DEF ReordTypeOK
  <2>4. SeenTypeOK'
    BY <1>0, <1>1, <1>s, Zenon DEF SeenTypeOK
  <2>. QED  BY <2>3, <2>4
<1>12. ctrl'.ind_sn # NoSn
  BY <1>5, <1>c, RingFacts DEF Ring
<1>13. Places'
  BY <1>1, <1>3, <1>c, <1>s, Zenon DEF Parts, Places
<1>14. Empties'
  <2>1. ~seen.raced => deinit = "idle"
    BY <1>1, Zenon DEF Parts, Places
  <2>2. deinit = "idle" => deinit # "free"
    OBVIOUS
  <2>. QED  BY <1>1, <1>3, <1>c, <1>s, <1>12, <2>1, <2>2, Zenon DEF Empties
<1>15. CarriedNear' /\ Fresh'
  <2>1. air'.hi >= seen'.hi \/ seen'.hi = FirstFrame
    <3>1. air.hi >= n /\ (air.hi >= seen.hi \/ seen.hi = FirstFrame)
      BY <1>0, <1>1, Zenon DEF CarriedNear
    <3>. QED  BY <1>1, <1>8, <1>s, <3>1, Zenon
  <2>. QED  BY <1>c, <1>12, <2>1, Zenon DEF CarriedNear, Fresh
<1>16. HeldIsTimed'
  <2>1. ctrl.linked /\ deinit = "idle" => ~seen.raced
    BY Zenon DEF Parts, Places
  <2>2. r # <<>> => c < Len(l)
    BY <1>4, <1>6, <1>7, SeqEntries
  <2>. QED  BY <1>1, <1>3, <1>c, <1>w, <2>1, <2>2, Zenon DEF HeldIsTimed
<1>17. (~seen.raced => InWindow(ctrl.ind_sn, ctrl.list))'
  BY <1>c, <1>s, <1>w, Zenon
<1>18. (~seen.raced /\ ~seen.far =>
          InOrder(ctrl.ind_sn, ctrl.list, ctrl.enable, seen.out, seen.hi, seen.lateOk))'
  BY <1>c, <1>s, <1>n, Zenon DEF InOrder
<1>. QED  BY <1>10, <1>11, <1>13, <1>14, <1>15, <1>16, <1>17, <1>18, Zenon DEF Parts

-----------------------------------------------------------------------------
(* The theorems. *)

\* Before the first frame the invariant holds.
LEMMA InitParts ==
    ASSUME ReordInit
    PROVE  Parts
<1>1. /\ mode \in {"sta", "ap"} /\ unit = Idle /\ deinit = "idle"
      /\ freequeue = MAX_REORD_RXFRAME /\ dangling = FALSE
      /\ air = [left |-> MaxArrivals, flush |-> MaxFlush, hi |-> FirstFrame - 1]
      /\ seen = NewSeen
      /\ ctrl = [NewCtrl EXCEPT !.linked = FALSE, !.enable = FALSE]
  BY Zenon DEF ReordInit
<1>2. /\ ctrl = [linked |-> FALSE, enable |-> FALSE, ind_sn |-> NoSn, list |-> <<>>,
                 timer |-> FALSE, work |-> FALSE]
      /\ seen = [out |-> <<>>, hi |-> FirstFrame, lateOk |-> TRUE, leaked |-> 0,
                 raced |-> FALSE, far |-> FALSE]
      /\ unit = [pc |-> "idle", n |-> 0]
  BY <1>1, Zenon DEF NewCtrl, NewSeen, Idle
<1>3. /\ ctrl.linked = FALSE /\ ctrl.enable = FALSE /\ ctrl.ind_sn = NoSn /\ ctrl.list = <<>>
      /\ ctrl.timer = FALSE /\ ctrl.work = FALSE
      /\ seen.out = <<>> /\ seen.hi = FirstFrame /\ seen.lateOk = TRUE /\ seen.leaked = 0
      /\ seen.raced = FALSE /\ seen.far = FALSE /\ unit.pc = "idle"
  BY <1>2
<1>4. ReordTypeOK
  <2>1. ctrl \in [linked : BOOLEAN, enable : BOOLEAN, ind_sn : 0 .. SnMod - 1 \cup {NoSn},
                  list : Seq(Nat), timer : BOOLEAN, work : BOOLEAN]
    <3>1. <<>> \in Seq(Nat)
      OBVIOUS
    <3>. QED  BY <1>2, <3>1, Zenon
  <2>2. unit \in [pc : {"idle", "unit", "timer", "work"}, n : Nat]
    BY <1>2
  <2>3. freequeue \in 0 .. MAX_REORD_RXFRAME
    BY <1>1, ReordAssumption
  <2>. QED  BY <1>1, <2>1, <2>2, <2>3, Zenon DEF ReordTypeOK
<1>5. SeenTypeOK
  BY <1>1, <1>2, ReordAssumption DEF SeenTypeOK
<1>6. Balance
  <2>1. Waits(ctrl.linked, ctrl.list) = 0 /\ InUnit(unit.pc) = 0
    BY <1>3 DEF Waits, InUnit
  <2>2. MAX_REORD_RXFRAME + 0 + 0 + 0 = MAX_REORD_RXFRAME
    BY ReordAssumption
  <2>. QED  BY <1>1, <1>3, <2>1, <2>2, Zenon DEF Balance
<1>7. Places /\ Empties /\ Fresh /\ HeldIsTimed
  BY <1>1, <1>3, Zenon DEF Places, Empties, Fresh, HeldIsTimed
<1>8. CarriedNear
  BY <1>3, Zenon DEF CarriedNear
<1>9. InWindow(ctrl.ind_sn, ctrl.list)
  <2>1. InWindow(NoSn, <<>>)
    BY DEF InWindow
  <2>. QED  BY <1>3, <2>1, Zenon
<1>10. InOrder(ctrl.ind_sn, ctrl.list, ctrl.enable, seen.out, seen.hi, seen.lateOk)
  <2>1. Sorted(<<>>)
    BY DEF Sorted
  <2>. QED  BY <1>3, <2>1, Zenon DEF InOrder
<1>. QED  BY <1>4, <1>5, <1>6, <1>7, <1>8, <1>9, <1>10, Zenon DEF Parts

\* reord_process_unit, whichever way it goes.
LEMMA UnitKeeps ==
    ASSUME Parts, reord_process_unit
    PROVE  Parts'
<1>1. CASE ~ctrl.enable
  BY <1>1, UnitOffKeeps, Zenon
<1>2. CASE ctrl.enable /\ (reord_need_check(ctrl.ind_sn, Sn(unit.n)).late \/ Held(ctrl.list, unit.n))
  BY <1>2, UnitPassesKeeps, Zenon
<1>3. CASE /\ ctrl.enable /\ ~reord_need_check(ctrl.ind_sn, Sn(unit.n)).late
           /\ ~Held(ctrl.list, unit.n)
  BY <1>3, UnitOrdersKeeps, Zenon
<1>. QED  BY <1>1, <1>2, <1>3, Zenon

\* Every step keeps the invariant.
LEMMA NextKeeps ==
    ASSUME Parts, [ReordNext]_reordVars
    PROVE  Parts'
<1>1. ASSUME NEW n \in FirstFrame .. air.hi + W, LookUp(n) \/ Bypass(n) \/ InitFails(n)
      PROVE  Parts'
  BY <1>1, LookUpKeeps, BypassKeeps, InitFailsKeeps, Zenon
<1>2. CASE reord_process_unit
  BY <1>2, UnitKeeps, Zenon
<1>3. CASE reord_flush_tid \/ FlushTimer \/ FlushWork
  BY <1>3, FlushKeeps, FlushTimerKeeps, FlushWorkKeeps, Zenon
<1>4. CASE reord_timeout_handler \/ reord_timeout_worker
  BY <1>4, HandlerKeeps, WorkerKeeps, Zenon
<1>5. CASE reord_deinit_sta
  BY <1>5, DeinitDisableKeeps, DeinitTimerKeeps, DeinitWorkKeeps, DeinitListKeeps, DeinitFreeKeeps,
     Zenon DEF reord_deinit_sta
<1>6. CASE UNCHANGED reordVars
  <2>1. /\ mode' = mode /\ ctrl' = ctrl /\ unit' = unit /\ deinit' = deinit
        /\ freequeue' = freequeue /\ dangling' = dangling /\ air' = air /\ seen' = seen
    BY <1>6, Zenon DEF reordVars
  <2>2. ReordTypeOK' /\ SeenTypeOK' /\ Balance'
    <3>1. ReordTypeOK /\ SeenTypeOK /\ Balance
      BY Zenon DEF Parts
    <3>2. ReordTypeOK'
      BY <2>1, <3>1 DEF ReordTypeOK
    <3>3. SeenTypeOK' /\ Balance'
      BY <2>1, <3>1, Zenon DEF SeenTypeOK, Balance
    <3>. QED  BY <3>2, <3>3, Zenon
  <2>3. Places' /\ Empties'
    BY <2>1, Zenon DEF Parts, Places, Empties
  <2>4. Fresh' /\ CarriedNear' /\ HeldIsTimed'
    BY <2>1, Zenon DEF Parts, Fresh, CarriedNear, HeldIsTimed
  <2>5. (~seen.raced => InWindow(ctrl.ind_sn, ctrl.list))'
    BY <2>1, Zenon DEF Parts
  <2>6. (~seen.raced /\ ~seen.far =>
           InOrder(ctrl.ind_sn, ctrl.list, ctrl.enable, seen.out, seen.hi, seen.lateOk))'
    BY <2>1, Zenon DEF Parts
  <2>. QED  BY <2>2, <2>3, <2>4, <2>5, <2>6, Zenon DEF Parts
<1>. QED  BY <1>1, <1>2, <1>3, <1>4, <1>5, <1>6, Zenon DEF ReordNext

\* What the invariant says of the numbers delivered and of those that wait.
LEMMA OrderFollows ==
    ASSUME ReordIInv
    PROVE  DeliveredInOrder
<1>. DEFINE out == seen.out  list == ctrl.list  ind == ctrl.ind_sn
<1>. SUFFICES ASSUME ~seen.raced /\ ~seen.far
              PROVE  /\ Increasing(out \o list)
                     /\ \A i \in DOMAIN list : (list[i] - ind) % SnMod \in 1 .. W - 1
                     /\ seen.lateOk
  BY Zenon DEF DeliveredInOrder
<1>1. Parts
  BY PartsAre, Zenon
<1>2. ReordTypeOK /\ SeenTypeOK
  BY <1>1, Zenon DEF Parts
<1>3. out \in Seq(Nat) /\ list \in Seq(Nat) /\ ind \in Ring \cup {NoSn} /\ seen.hi \in Nat
  BY <1>2, Fields, Zenon
<1>4. InWindow(ind, list) /\ InOrder(ind, list, ctrl.enable, out, seen.hi, seen.lateOk)
  BY <1>1, Zenon DEF Parts
<1>5. ind = NoSn => list = <<>>
  BY <1>1, Zenon DEF Parts, Empties
<1>. HIDE DEF out, list, ind
<1>6. Sorted(out) /\ seen.lateOk
  BY <1>4, Zenon DEF InOrder
<1>7. Sorted(out \o list)
  <2>1. CASE list = <<>>
    BY <1>3, <1>6, <2>1
  <2>2. CASE list # <<>>
    <3>1. PICK N \in 0 .. seen.hi + 1 : StandsFor(ind, list, out, seen.hi, N)
      BY <1>4, <1>5, <2>2, Zenon DEF InOrder
    <3>2. ind = Sn(N) /\ (\A i \in 1 .. Len(list) : N < list[i] /\ list[i] < N + W)
          /\ \A i \in 1 .. Len(out) : out[i] < N
      BY <3>1, Zenon DEF StandsFor
    <3>3. N \in Nat /\ ind \in Ring
      BY <1>3, <1>5, <2>2
    <3>4. Sorted(list)
      <4>1. Waiting(ind, list, N, list)
        BY <1>3, <1>4, <3>1, <3>3, NumbersWaiting, Zenon
      <4>. QED  BY <4>1, Zenon DEF Waiting, Sorted
    <3>5. ASSUME NEW i \in 1 .. Len(out), NEW j \in 1 .. Len(list) PROVE out[i] < list[j]
      <4>1. out[i] \in Nat /\ list[j] \in Nat
        BY <1>3, SeqEntries
      <4>2. out[i] < N /\ N < list[j]
        BY <3>2, Zenon
      <4>. QED  BY ONLY <3>3, <4>1, <4>2
    <3>. QED  BY <1>3, <1>6, <3>4, <3>5, SortedJoin, Zenon
  <2>. QED  BY <2>1, <2>2, Zenon
<1>8. Increasing(out \o list)
  <2>1. Len(out \o list) \in Nat
    BY <1>3
  <2>. SUFFICES ASSUME NEW i \in 1 .. Len(out \o list) - 1
                PROVE  (out \o list)[i] < (out \o list)[i + 1]
    BY Zenon DEF Increasing
  <2>2. i \in 1 .. Len(out \o list) /\ i + 1 \in 1 .. Len(out \o list) /\ i < i + 1
    BY ONLY <2>1, i \in 1 .. Len(out \o list) - 1
  <2>. QED  BY <1>7, <2>2, Zenon DEF Sorted
<1>9. ASSUME NEW i \in DOMAIN list PROVE (list[i] - ind) % SnMod \in 1 .. W - 1
  <2>1. i \in 1 .. Len(list) /\ list[i] \in Nat /\ list # <<>>
    BY <1>3, SeqEntries
  <2>2. ind \in Int /\ Sn(ind) = ind
    <3>1. ind \in Ring
      BY <1>3, <1>5, <2>1
    <3>2. PICK x \in Int : x = ind /\ 0 <= x /\ x < SnMod
      BY <3>1, RingFacts DEF Ring
    <3>3. x % SnMod = x
      BY <3>2, ModSmall, Zenon
    <3>. QED  BY <3>2, <3>3, Zenon DEF Sn
  <2>3. Ahead(ind, Sn(list[i])) = (list[i] - ind) % SnMod
    BY <2>1, <2>2, SameDistance
  <2>. QED  BY <1>4, <2>1, <2>3, Zenon DEF InWindow
<1>. QED  BY <1>6, <1>8, <1>9, Zenon

\* The inductive invariant of the reorder buffer: its descriptors are accounted for,
\* who is at work on the control block, and which unbounded number the 12 bits of
\* ind_sn stand for.
THEOREM ReordInvariant == ReordSpec => []ReordIInv
<1>1. ReordInit => ReordIInv
  BY InitParts, PartsAre, Zenon
<1>2. ReordIInv /\ [ReordNext]_reordVars => ReordIInv'
  BY PartsAre, NextKeeps, PartsAreNext, Zenon
<1>. QED  BY <1>1, <1>2, PTL DEF ReordSpec

\* For every window of at most half of the sequence numbers less two, comparing the
\* 12-bit numbers gives the order of the unbounded ones: reord_process_unit, the
\* timer's work and reord_flush_tid deliver in the peer's order, nothing twice.
THEOREM InOrderDelivery == ReordSpec => []DeliveredInOrder
<1>1. ReordIInv => DeliveredInOrder
  BY OrderFollows, Zenon
<1>. QED  BY <1>1, ReordInvariant, PTL

\* A frame that waits always has the timer or its work behind it, so a gap that is
\* never filled does not hold back what follows it.
THEOREM WaitingIsTimed == ReordSpec => []HeldIsTimed
<1>1. ReordIInv => HeldIsTimed
  BY Zenon DEF ReordIInv
<1>. QED  BY <1>1, ReordInvariant, PTL

\* rxframes_freequeue loses a descriptor only where reord_init_sta fails or a
\* teardown frees a list that was filled behind its back.
THEOREM DescriptorsStay == ReordSpec => []DescriptorsKept
<1>1. ReordIInv => DescriptorsKept
  BY Zenon DEF ReordIInv
<1>. QED  BY <1>1, ReordInvariant, PTL

=============================================================================
