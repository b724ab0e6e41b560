--------------------------- MODULE DecdFrame_proof ---------------------------
(***************************************************************************)
(* The decoder's frames, for any number of frames and repetitions.         *)
(*                                                                         *)
(* DecdIInv says where every reference of a frame is: FramesCounted adds   *)
(* them up place by place (Times counts a list, Is a single pointer).  A   *)
(* step moves a reference from one place to another.  The helpers of the   *)
(* heap are shown once to keep HeapSound and to change ref by what their   *)
(* names say, and so are the helpers of the queue and of the manager; the  *)
(* lemma of an action then only adds up the places the action touches.     *)
(***************************************************************************)
EXTENDS DecdFrame, FiniteSetTheorems, TLAPS

-----------------------------------------------------------------------------
(* The places of a list that hold f. *)
At(s, f) == {i \in DOMAIN s : s[i] = f}

\* The domain of a sequence, and its appending and its tail.
LEMMA DecdSeq ==
    ASSUME NEW S, NEW s \in Seq(S)
    PROVE  /\ Len(s) \in Nat /\ DOMAIN s = 1 .. Len(s)
           /\ \A x \in S : /\ Append(s, x) \in Seq(S) /\ DOMAIN Append(s, x) = 1 .. Len(s) + 1
                           /\ Append(s, x)[Len(s) + 1] = x
                           /\ \A i \in 1 .. Len(s) : Append(s, x)[i] = s[i]
           /\ s # << >> => /\ Len(s) > 0 /\ Head(s) = s[1] /\ Head(s) \in S /\ Tail(s) \in Seq(S)
                           /\ DOMAIN Tail(s) = 1 .. Len(s) - 1
                           /\ \A i \in 1 .. Len(s) - 1 : Tail(s)[i] = s[i + 1]
  OBVIOUS

\* How often a sequence names a frame is a number.
LEMMA TimesNat ==
    ASSUME NEW S, NEW s \in Seq(S), NEW f
    PROVE  /\ IsFiniteSet(At(s, f)) /\ Times(s, f) \in Nat /\ Times(s, f) = Cardinality(At(s, f))
<1>1. At(s, f) \subseteq 1 .. Len(s) /\ IsFiniteSet(1 .. Len(s))
  <2>1. 0 \in Int /\ 1 \in Int /\ Len(s) \in Int /\ DOMAIN s = 1 .. Len(s)
    BY DecdSeq
  <2>. QED  BY <2>1, FS_Interval, Zenon DEF At
<1>2. IsFiniteSet(At(s, f))
  BY <1>1, FS_Subset, Zenon
<1>3. Times(s, f) = Cardinality(At(s, f))
  BY Zenon DEF Times, At
<1>. QED  BY <1>2, <1>3, FS_CardinalityType, Zenon

\* A frame that is appended is named once more.
LEMMA TimesAppend ==
    ASSUME NEW S, NEW s \in Seq(S), NEW x \in S, NEW f
    PROVE  Times(Append(s, x), f) = Times(s, f) + Is(x, f)
<1>. DEFINE n == Len(s) + 1
            r == Append(s, x)
<1>1. /\ DOMAIN s = 1 .. Len(s) /\ DOMAIN r = 1 .. n /\ n \notin 1 .. Len(s)
      /\ 1 .. n = (1 .. Len(s)) \cup {n} /\ r[n] = x /\ \A i \in 1 .. Len(s) : r[i] = s[i]
  BY DecdSeq
<1>2. /\ IsFiniteSet(At(s, f)) /\ Times(s, f) = Cardinality(At(s, f))
      /\ Times(s, f) \in Nat /\ n \notin At(s, f)
  BY <1>1, TimesNat, Zenon DEF At
<1>3. Times(r, f) = Cardinality(At(r, f))
  BY Zenon DEF Times, At
<1>. HIDE DEF n, r
<1>4. CASE x = f
  <2>1. At(r, f) = At(s, f) \cup {n}
    BY <1>1, <1>4, Zenon DEF At
  <2>2. Cardinality(At(r, f)) = Cardinality(At(s, f)) + 1
    BY <1>2, <2>1, FS_AddElement, Zenon
  <2>. QED  BY <1>2, <1>3, <1>4, <2>2, Zenon DEF Is, r
<1>5. CASE x # f
  <2>1. At(r, f) = At(s, f)
    BY <1>1, <1>5, Zenon DEF At
  <2>2. Is(x, f) = 0
    BY <1>5, Zenon DEF Is
  <2>3. Times(r, f) = Times(s, f) /\ Times(s, f) + 0 = Times(s, f)
    BY <1>2, <1>3, <2>1
  <2>. QED  BY <2>2, <2>3, Zenon DEF r
<1>. QED  BY <1>4, <1>5, Zenon

\* A frame that is taken off the head was named there.
LEMMA TimesTail ==
    ASSUME NEW S, NEW s \in Seq(S), s # << >>, NEW f
    PROVE  Times(s, f) = Times(Tail(s), f) + Is(Head(s), f)
<1>. DEFINE r == Tail(s)
            U == At(s, f) \ {1}
            b == [i \in At(r, f) |-> i + 1]
<1>1. /\ DOMAIN s = 1 .. Len(s) /\ DOMAIN r = 1 .. Len(s) - 1 /\ Len(s) \in Nat /\ Len(s) > 0
      /\ Head(s) = s[1] /\ r \in Seq(S) /\ \A i \in 1 .. Len(s) - 1 : r[i] = s[i + 1]
  BY DecdSeq
<1>. HIDE DEF r
<1>2. /\ IsFiniteSet(At(r, f)) /\ Times(r, f) = Cardinality(At(r, f)) /\ Times(r, f) \in Nat
      /\ Times(s, f) = Cardinality(At(s, f))
  BY <1>1, TimesNat, Zenon
<1>3. \A i \in At(r, f) : i \in Int /\ i + 1 \in U
  BY <1>1 DEF At
<1>4. ASSUME NEW u \in U PROVE \E i \in At(r, f) : u = i + 1
  <2>1. u \in 1 .. Len(s) /\ u # 1 /\ s[u] = f
    BY <1>1, Zenon DEF At
  <2>2. u - 1 \in 1 .. Len(s) - 1 /\ u = (u - 1) + 1
    BY <1>1, <2>1
  <2>3. u - 1 \in At(r, f)
    BY <1>1, <2>1, <2>2, Zenon DEF At
  <2>. QED  BY <2>2, <2>3, Zenon
<1>. HIDE DEF U
<1>5. \A i, j \in At(r, f) : b[i] = b[j] => i = j
  BY <1>3
<1>6. b \in Bijection(At(r, f), U)
  BY <1>3, <1>4, <1>5, Zenon DEF Bijection, Injection, Surjection, IsInjective
<1>7. IsFiniteSet(U) /\ Cardinality(U) = Times(r, f)
  <2>. HIDE DEF b
  <2>. QED  BY <1>2, <1>6, FS_Bijection, Zenon DEF ExistsBijection
<1>8. CASE Head(s) = f
  <2>1. At(s, f) = U \cup {1} /\ 1 \notin U
    <3>1. 1 \in 1 .. Len(s)
      BY <1>1
    <3>2. 1 \in At(s, f)
      BY <1>1, <1>8, <3>1, Zenon DEF At
    <3>. QED  BY <3>2, Zenon DEF U
  <2>2. Cardinality(At(s, f)) = Cardinality(U) + 1
    BY <1>7, <2>1, FS_AddElement, Zenon
  <2>. QED  BY <1>2, <1>7, <1>8, <2>2, Zenon DEF Is, r
<1>9. CASE Head(s) # f
  <2>1. At(s, f) = U
    BY <1>1, <1>9, Zenon DEF At, U
  <2>2. Is(Head(s), f) = 0
    BY <1>9, Zenon DEF Is
  <2>3. Times(s, f) = Times(r, f) /\ Times(r, f) + 0 = Times(r, f)
    BY <1>2, <1>7, <2>1
  <2>. QED  BY <2>2, <2>3, Zenon DEF r
<1>. QED  BY <1>8, <1>9, Zenon

\* The pair, and no sequence at all.
LEMMA TimesPair ==
    ASSUME NEW S, NEW a \in S, NEW b \in S, NEW f
    PROVE  Times(<<a, b>>, f) = Is(a, f) + Is(b, f) /\ Times(<< >>, f) = 0
<1>1. Times(<< >>, f) = 0
  <2>1. At(<< >>, f) = {} /\ Times(<< >>, f) = Cardinality(At(<< >>, f))
    BY DEF At, Times
  <2>. QED  BY <2>1, FS_EmptySet, Zenon
<1>2. /\ << >> \in Seq(S) /\ Append(<< >>, a) \in Seq(S)
      /\ <<a, b>> = Append(Append(<< >>, a), b)
  OBVIOUS
<1>3. Times(<<a, b>>, f) = Times(Append(<< >>, a), f) + Is(b, f)
  BY <1>2, TimesAppend, Zenon
<1>4. Times(Append(<< >>, a), f) = Times(<< >>, f) + Is(a, f)
  BY <1>2, TimesAppend, Zenon
<1>5. Is(a, f) \in Int /\ Is(b, f) \in Int
  BY DEF Is
<1>. QED  BY <1>1, <1>3, <1>4, <1>5

\* The fields of a heap.
LEMMA HeapFields ==
    ASSUME NEW h \in Heaps
    PROVE  /\ h.ref \in [Frame -> Nat] /\ h.payload \in [Frame -> FrameOrNone]
           /\ h.itemref \in [Frame -> Nat] /\ h.page \in [Frame -> 0 .. InfoPages]
           /\ h.signaled \subseteq Frame /\ h.next \in 1 .. MaxFrames + 1
           /\ h.free \in Seq(1 .. InfoPages)
  BY Zenon DEF Heaps

\* The frames of an item are finitely many.
LEMMA ShowingFinite ==
    ASSUME NEW h, NEW i
    PROVE  IsFiniteSet(Showing(h, i)) /\ Cardinality(Showing(h, i)) \in Nat
<1>1. Showing(h, i) \subseteq Frame
  BY Zenon DEF Showing
<1>2. IsFiniteSet(Frame)
  <2>1. 1 \in Int /\ MaxFrames \in Int
    BY DecdAssumption
  <2>. QED  BY <2>1, FS_Interval, Zenon DEF Frame
<1>. QED  BY <1>1, <1>2, FS_Subset, FS_CardinalityType, Zenon

\* What frame_item_release does.
LEMMA ReleaseFields ==
    ASSUME NEW h \in Heaps, NEW i \in Frame, h.itemref[i] > 0
    PROVE  LET g == frame_item_release(h, i) IN
           /\ g \in Heaps /\ g.ref = h.ref /\ g.payload = h.payload /\ g.next = h.next
           /\ g.itemref[i] = h.itemref[i] - 1
           /\ \A j \in Frame \ {i} : g.itemref[j] = h.itemref[j]
           /\ g.signaled = IF h.itemref[i] = 1 THEN h.signaled \cup {i} ELSE h.signaled
           /\ IF h.itemref[i] = 1 THEN g.page = [h.page EXCEPT ![i] = None] ELSE g.page = h.page
           /\ g.free = IF h.itemref[i] = 1 /\ h.page[i] # None
                       THEN Append(h.free, h.page[i]) ELSE h.free
<1>. DEFINE g == frame_item_release(h, i)
            p == h.page[i]
            n == h.itemref[i]
<1>0. n \in Nat /\ n > 0 /\ p \in 0 .. InfoPages
  BY HeapFields, Zenon
<1>1. CASE n # 1
  <2>. DEFINE m == [h.itemref EXCEPT ![i] = n - 1]
  <2>1. g = [h EXCEPT !.itemref = m]
    BY <1>1, Zenon DEF frame_item_release
  <2>2. n - 1 \in Nat
    BY <1>0
  <2>3. m \in [Frame -> Nat] /\ m[i] = n - 1 /\ \A j \in Frame \ {i} : m[j] = h.itemref[j]
    BY <2>2, HeapFields, Zenon
  <2>. HIDE DEF m, g
  <2>4. /\ g \in Heaps /\ g.ref = h.ref /\ g.payload = h.payload /\ g.next = h.next
        /\ g.itemref = m /\ g.signaled = h.signaled /\ g.page = h.page /\ g.free = h.free
    BY <2>1, <2>3, Zenon DEF Heaps
  <2>. QED  BY <1>1, <2>3, <2>4, Zenon DEF g
<1>2. CASE n = 1
  <2>. DEFINE m == [h.itemref EXCEPT ![i] = 0]
              w == [h.page EXCEPT ![i] = None]
              x == IF p = None THEN h.free ELSE Append(h.free, p)
  <2>1. g = [h EXCEPT !.itemref = m, !.signaled = h.signaled \cup {i}, !.page = w, !.free = x]
    BY <1>2, Zenon DEF frame_item_release
  <2>2. /\ m \in [Frame -> Nat] /\ m[i] = 0 /\ \A j \in Frame \ {i} : m[j] = h.itemref[j]
        /\ 0 = n - 1
    <3>1. 0 \in Nat /\ 0 = n - 1
      BY <1>2
    <3>. QED  BY <3>1, HeapFields, Zenon
  <2>3. w \in [Frame -> 0 .. InfoPages]
    <3>1. None \in 0 .. InfoPages
      BY DecdAssumption DEF None
    <3>. QED  BY <3>1, HeapFields, Zenon
  <2>4. x \in Seq(1 .. InfoPages)
    <3>1. p # None => p \in 1 .. InfoPages
      BY <1>0, DecdAssumption DEF None
    <3>. QED  BY <3>1, HeapFields, DecdSeq, Zenon
  <2>5. h.signaled \cup {i} \in SUBSET Frame
    BY HeapFields, Zenon
  <2>. HIDE DEF m, w, x, g
  <2>6. /\ g \in Heaps /\ g.ref = h.ref /\ g.payload = h.payload /\ g.next = h.next
        /\ g.itemref = m /\ g.signaled = h.signaled \cup {i} /\ g.page = w /\ g.free = x
    BY <2>1, <2>2, <2>3, <2>4, <2>5, Zenon DEF Heaps
  <2>. QED  BY <1>2, <2>2, <2>6, Zenon DEF g, w, x
<1>. QED  BY <1>1, <1>2, Zenon

\* The pages stay apart when one goes back to the free list.
LEMMA ReleasePages ==
    ASSUME NEW h \in Heaps, NEW g \in Heaps, NEW i \in Frame, PagesApart(h),
           \/ g.page = h.page /\ g.free = h.free
           \/ /\ g.page = [h.page EXCEPT ![i] = None]
              /\ g.free = IF h.page[i] # None THEN Append(h.free, h.page[i]) ELSE h.free
    PROVE  PagesApart(g)
<1>1. CASE g.page = h.page /\ g.free = h.free
  BY <1>1, Zenon DEF PagesApart
<1>2. CASE /\ g.page = [h.page EXCEPT ![i] = None]
           /\ g.free = IF h.page[i] # None THEN Append(h.free, h.page[i]) ELSE h.free
  <2>1. /\ h.page \in [Frame -> 0 .. InfoPages] /\ h.free \in Seq(1 .. InfoPages)
    BY HeapFields, Zenon
  <2>2. g.page[i] = None /\ \A j \in Frame \ {i} : g.page[j] = h.page[j]
    BY <1>2, <2>1, Zenon
  <2>3. CASE h.page[i] = None
    <3>1. g.free = h.free /\ g.page = h.page
      BY <1>2, <2>1, <2>3, Zenon
    <3>. QED  BY <3>1, Zenon DEF PagesApart
  <2>4. CASE h.page[i] # None
    <3>. DEFINE n == Len(h.free) + 1
                p == h.page[i]
    <3>1. p \in 1 .. InfoPages
      BY <2>1, <2>4, DecdAssumption DEF None
    <3>0. g.free = Append(h.free, p)
      BY <1>2, <2>4, Zenon
    <3>2. /\ DOMAIN h.free = 1 .. Len(h.free) /\ DOMAIN g.free = 1 .. n
          /\ g.free[n] = p /\ \A k \in 1 .. Len(h.free) : g.free[k] = h.free[k]
      <4>. DEFINE s == h.free
      <4>. HIDE DEF p, s
      <4>1. s \in Seq(1 .. InfoPages) /\ p \in 1 .. InfoPages
        BY <2>1, <3>1, Zenon DEF s
      <4>2. /\ DOMAIN s = 1 .. Len(s) /\ DOMAIN Append(s, p) = 1 .. Len(s) + 1
            /\ Append(s, p)[Len(s) + 1] = p /\ \A k \in 1 .. Len(s) : Append(s, p)[k] = s[k]
        BY ONLY <4>1, DecdSeq
      <4>. QED  BY <3>0, <4>2, Zenon DEF s
    <3>3. 1 .. n = (1 .. Len(h.free)) \cup {n}
      BY <2>1, DecdSeq
    <3>. HIDE DEF n, p
    <3>4. \A k \in DOMAIN h.free : h.free[k] # p
      BY <2>4, Zenon DEF PagesApart, p
    <3>5. \A j, k \in DOMAIN g.free : j # k => g.free[j] # g.free[k]
      <4>1. \A k \in 1 .. Len(h.free) : g.free[k] = h.free[k] /\ g.free[k] # g.free[n]
        BY <3>2, <3>4, Zenon
      <4>2. \A j, k \in 1 .. Len(h.free) : j # k => g.free[j] # g.free[k]
        BY <3>2, <4>1, Zenon DEF PagesApart
      <4>3. ASSUME NEW j \in DOMAIN g.free, NEW k \in DOMAIN g.free, j # k
            PROVE  g.free[j] # g.free[k]
        <5>1. (j = n \/ j \in 1 .. Len(h.free)) /\ (k = n \/ k \in 1 .. Len(h.free))
          BY <3>2, <3>3, Zenon
        <5>. QED  BY <4>1, <4>2, <4>3, <5>1, Zenon
      <4>. QED  BY <4>3, Zenon
    <3>6. ASSUME NEW j \in Frame, g.page[j] # None
          PROVE  /\ \A k \in DOMAIN g.free : g.free[k] # g.page[j]
                 /\ \A l \in Frame \ {j} : g.page[l] # g.page[j]
      <4>1. j # i /\ g.page[j] = h.page[j] /\ h.page[j] # p
        BY <2>2, <2>4, <3>6, Zenon DEF PagesApart, p
      <4>2. \A k \in DOMAIN h.free : h.free[k] # h.page[j]
        BY <3>6, <4>1, Zenon DEF PagesApart
      <4>3. \A l \in Frame \ {j} : g.page[l] # g.page[j]
        BY <2>2, <3>6, <4>1, Zenon DEF PagesApart
      <4>. QED  BY <3>2, <3>3, <4>1, <4>2, <4>3, Zenon
    <3>. QED  BY <3>5, <3>6, Zenon DEF PagesApart
  <2>. QED  BY <2>3, <2>4, Zenon
<1>. QED  BY <1>1, <1>2, Zenon

\* The heap g has the frames of h with the same counts.
SameRef(g, h) == g.ref = h.ref /\ g.next = h.next

\* frame_item_release gives up one of the references e.
LEMMA ReleaseSound ==
    ASSUME NEW h, NEW e, HeapSound(h, e), NEW i \in Frame, e[i] \in Nat, e[i] > 0, i < h.next,
           NEW d, d[i] = e[i] - 1, \A j \in Frame \ {i} : d[j] = e[j],
           NEW g, g = frame_item_release(h, i)
    PROVE  HeapSound(g, d) /\ SameRef(g, h)
<1>0. h \in Heaps /\ PagesApart(h)
  BY Zenon DEF HeapSound
<1>1. h.itemref[i] = Cardinality(Showing(h, i)) + e[i] /\ Cardinality(Showing(h, i)) \in Nat
  BY ShowingFinite, Zenon DEF HeapSound
<1>2. h.itemref[i] > 0
  BY ONLY <1>1, e[i] \in Nat, e[i] > 0
<1>3. /\ g \in Heaps /\ g.ref = h.ref /\ g.payload = h.payload /\ g.next = h.next
      /\ g.itemref[i] = h.itemref[i] - 1
      /\ \A j \in Frame \ {i} : g.itemref[j] = h.itemref[j]
      /\ g.signaled = IF h.itemref[i] = 1 THEN h.signaled \cup {i} ELSE h.signaled
      /\ IF h.itemref[i] = 1 THEN g.page = [h.page EXCEPT ![i] = None] ELSE g.page = h.page
      /\ g.free = IF h.itemref[i] = 1 /\ h.page[i] # None
                  THEN Append(h.free, h.page[i]) ELSE h.free
  BY <1>0, <1>2, ReleaseFields, ZenonT(30)
<1>4. \A f \in Frame : /\ f >= g.next => g.ref[f] = 0
                       /\ g.ref[f] > 0 => g.payload[f] \in 1 .. f
  BY <1>3, Zenon DEF HeapSound
<1>5. \A j \in Frame : Showing(g, j) = Showing(h, j)
  BY <1>3, Zenon DEF Showing
<1>6. \A j \in Frame : g.itemref[j] = Cardinality(Showing(g, j)) + d[j]
  <2>1. g.itemref[i] = Cardinality(Showing(g, i)) + d[i]
    <3>1. h.itemref[i] - 1 = Cardinality(Showing(h, i)) + (e[i] - 1)
      BY ONLY <1>1, e[i] \in Nat
    <3>. QED  BY <1>3, <1>5, <3>1, Zenon
  <2>2. \A j \in Frame \ {i} : g.itemref[j] = Cardinality(Showing(g, j)) + d[j]
    BY <1>3, <1>5, Zenon DEF HeapSound
  <2>. QED  BY <2>1, <2>2, Zenon
<1>7. ASSUME NEW j \in g.signaled PROVE j < g.next /\ g.itemref[j] = 0
  <2>1. CASE j \in h.signaled
    <3>1. j < h.next /\ h.itemref[j] = 0 /\ j \in Frame
      BY <1>0, <2>1, HeapFields, Zenon DEF HeapSound
    <3>2. h.itemref[i] # 0
      BY <1>1, <1>2
    <3>. QED  BY <1>3, <3>1, <3>2, Zenon
  <2>2. CASE j \notin h.signaled
    <3>1. j = i /\ h.itemref[i] = 1
      BY <1>3, <1>7, <2>2, Zenon
    <3>2. 1 - 1 = 0
      OBVIOUS
    <3>. QED  BY <1>3, <3>1, <3>2, Zenon
  <2>. QED  BY <2>1, <2>2, Zenon
<1>8. PagesApart(g)
  BY <1>0, <1>3, ReleasePages, Zenon
<1>9. HeapSound(g, d)
  BY <1>3, <1>4, <1>6, <1>7, <1>8, Zenon DEF HeapSound
<1>. QED  BY <1>3, <1>9, Zenon DEF SameRef

\* The heap h with the count n for f.
Recounted(h, f, n) == [h EXCEPT !.ref[f] = n]

\* The heap g differs from h in the count of f only, which is n in g.
RefOnly(g, h, f, n) ==
    /\ g.ref[f] = n /\ \A k \in Frame \ {f} : g.ref[k] = h.ref[k]
    /\ g.payload = h.payload /\ g.itemref = h.itemref
    /\ g.signaled = h.signaled /\ g.next = h.next
    /\ g.page = h.page /\ g.free = h.free

\* Another count of references.
LEMMA RefFields ==
    ASSUME NEW h \in Heaps, NEW f \in Frame, NEW n \in Nat
    PROVE  Recounted(h, f, n) \in Heaps /\ RefOnly(Recounted(h, f, n), h, f, n)
<1>. DEFINE m == [h.ref EXCEPT ![f] = n]
            g == Recounted(h, f, n)
<1>1. m \in [Frame -> Nat] /\ m[f] = n /\ \A k \in Frame \ {f} : m[k] = h.ref[k]
  BY HeapFields, Zenon
<1>2. g = [h EXCEPT !.ref = m]
  BY Zenon DEF Recounted
<1>. HIDE DEF m, g
<1>3. /\ g \in Heaps /\ g.ref = m
      /\ g.payload = h.payload /\ g.itemref = h.itemref /\ g.page = h.page
      /\ g.signaled = h.signaled /\ g.next = h.next /\ g.free = h.free
  BY <1>1, <1>2, Zenon DEF Heaps
<1>. QED  BY <1>1, <1>3, Zenon DEF g, RefOnly

\* The pages do not depend on the counts.
LEMMA SamePages ==
    ASSUME NEW h, NEW g, PagesApart(h), g.page = h.page, g.free = h.free
    PROVE  PagesApart(g)
  BY Zenon DEF PagesApart

\* A frame that stays alive may have any count.
LEMMA RefSound ==
    ASSUME NEW h, NEW e, HeapSound(h, e), NEW f \in Frame, h.ref[f] > 0, NEW n \in Nat, n > 0,
           NEW g, g = Recounted(h, f, n)
    PROVE  HeapSound(g, e) /\ RefOnly(g, h, f, n)
<1>0. h \in Heaps /\ PagesApart(h)
  BY Zenon DEF HeapSound
<1>11. g \in Heaps /\ RefOnly(g, h, f, n)
  BY <1>0, RefFields, Zenon
<1>1. g \in Heaps /\ g.ref[f] = n /\ \A k \in Frame \ {f} : g.ref[k] = h.ref[k]
  BY <1>11, Zenon DEF RefOnly
<1>9. g.payload = h.payload /\ g.itemref = h.itemref /\ g.signaled = h.signaled /\ g.next = h.next
  BY <1>11, Zenon DEF RefOnly
<1>10. g.page = h.page /\ g.free = h.free
  BY <1>11, Zenon DEF RefOnly
<1>2. h.ref[f] # 0
  BY <1>0, HeapFields
<1>3. \A k \in Frame : g.ref[k] > 0 <=> h.ref[k] > 0
  BY <1>1, Zenon
<1>4. \A k \in Frame : /\ k >= g.next => g.ref[k] = 0
                       /\ g.ref[k] > 0 => g.payload[k] \in 1 .. k
  BY <1>1, <1>2, <1>3, <1>9, Zenon DEF HeapSound
<1>5. \A i \in Frame : Showing(g, i) = Showing(h, i)
  BY <1>3, <1>9, Zenon DEF Showing
<1>6. PagesApart(g)
  BY <1>0, <1>10, SamePages, Zenon
<1>7. \A i \in Frame : g.itemref[i] = Cardinality(Showing(g, i)) + e[i]
  BY <1>5, <1>9, Zenon DEF HeapSound
<1>8. \A i \in g.signaled : i < g.next /\ g.itemref[i] = 0
  BY <1>9, Zenon DEF HeapSound
<1>. QED  BY <1>11, <1>4, <1>6, <1>7, <1>8, Zenon DEF HeapSound

\* A frame that dies gives its reference to its item up.
LEMMA DeadSound ==
    ASSUME NEW h, NEW e, HeapSound(h, e), NEW f \in Frame, h.ref[f] > 0,
           NEW d, e[h.payload[f]] \in Nat, d[h.payload[f]] = e[h.payload[f]] + 1,
           \A j \in Frame \ {h.payload[f]} : d[j] = e[j], NEW g, g = Recounted(h, f, 0)
    PROVE  HeapSound(g, d) /\ RefOnly(g, h, f, 0)
<1>. PICK z \in Nat : z = 0
  OBVIOUS
<1>. DEFINE i == h.payload[f]
<1>0. h \in Heaps /\ PagesApart(h) /\ g = Recounted(h, f, z)
  BY Zenon DEF HeapSound
<1>13. g \in Heaps /\ RefOnly(g, h, f, 0)
  BY <1>0, RefFields, Zenon
<1>1. g \in Heaps /\ g.ref[f] = 0
  BY <1>13, Zenon DEF RefOnly
<1>10. \A k \in Frame \ {f} : g.ref[k] = h.ref[k]
  BY <1>13, Zenon DEF RefOnly
<1>11. g.payload = h.payload /\ g.itemref = h.itemref /\ g.signaled = h.signaled /\ g.next = h.next
  BY <1>13, Zenon DEF RefOnly
<1>12. g.page = h.page /\ g.free = h.free
  BY <1>13, Zenon DEF RefOnly
<1>2. i \in Frame
  <2>1. i \in 1 .. f
    BY Zenon DEF HeapSound
  <2>2. f \in Int /\ f <= MaxFrames /\ MaxFrames \in Int
    BY DecdAssumption DEF Frame
  <2>3. i \in 1 .. MaxFrames
    <3>. HIDE DEF i
    <3>. QED  BY ONLY <2>1, <2>2
  <2>. QED  BY <2>3, Zenon DEF Frame
<1>. HIDE DEF i
<1>3. ~(0 > 0)
  OBVIOUS
<1>4. \A k \in Frame : /\ k >= g.next => g.ref[k] = 0
                       /\ g.ref[k] > 0 => g.payload[k] \in 1 .. k
  BY <1>1, <1>10, <1>11, <1>3, Zenon DEF HeapSound
<1>5. \A j \in Frame \ {i} : Showing(g, j) = Showing(h, j)
  BY <1>1, <1>10, <1>11, <1>3, Zenon DEF Showing, i
<1>6. Showing(g, i) = Showing(h, i) \ {f} /\ f \in Showing(h, i)
  BY <1>1, <1>10, <1>11, <1>3, Zenon DEF Showing, i
<1>7. ASSUME NEW j \in Frame PROVE g.itemref[j] = Cardinality(Showing(g, j)) + d[j]
  <2>1. CASE j = i
    <3>. DEFINE c == Cardinality(Showing(h, i))
                b == Cardinality(Showing(g, i))
                x == e[i]
    <3>1. b = c - 1 /\ c \in Nat /\ b \in Nat
      BY <1>6, ShowingFinite, FS_RemoveElement, Zenon
    <3>2. h.itemref[i] = c + x /\ x \in Nat /\ d[i] = x + 1
      BY <1>2, Zenon DEF HeapSound, i
    <3>. HIDE DEF b, c, x
    <3>3. c + x = b + (x + 1)
      BY ONLY <3>1, <3>2
    <3>. QED  BY <1>11, <2>1, <3>2, <3>3, Zenon DEF b
  <2>2. CASE j # i
    BY <1>11, <1>5, <2>2, Zenon DEF HeapSound, i
  <2>. QED  BY <2>1, <2>2, Zenon
<1>8. PagesApart(g)
  BY <1>0, <1>12, SamePages, Zenon
<1>9. \A j \in g.signaled : j < g.next /\ g.itemref[j] = 0
  BY <1>11, Zenon DEF HeapSound
<1>. QED  BY <1>13, <1>4, <1>7, <1>8, <1>9, Zenon DEF HeapSound

\* Only the count of f may differ: it is n in g.
NewRef(g, h, f, n) == /\ g.ref[f] = n /\ \A k \in Frame \ {f} : g.ref[k] = h.ref[k]
                      /\ g.next = h.next

\* video_frame_put takes one reference.
LEMMA PutSound ==
    ASSUME NEW h, NEW e \in [Frame -> Nat], HeapSound(h, e), NEW f \in Frame, h.ref[f] > 0,
           NEW g, g = video_frame_put(h, f)
    PROVE  HeapSound(g, e) /\ NewRef(g, h, f, h.ref[f] - 1)
<1>. DEFINE n == h.ref[f]
            i == h.payload[f]
<1>0. f \in Int /\ f >= 1 /\ f <= MaxFrames /\ MaxFrames \in Int /\ f # None
  BY DecdAssumption DEF Frame, None
<1>1. n \in Nat /\ n > 0 /\ i \in 1 .. f /\ ~(f >= h.next) /\ h.next \in Int
  <2>1. h \in Heaps /\ h.next \in 1 .. MaxFrames + 1 /\ n \in Nat
    BY HeapFields, Zenon DEF HeapSound
  <2>2. n # 0
    BY <2>1
  <2>3. i \in 1 .. f /\ ~(f >= h.next)
    BY <2>2, Zenon DEF HeapSound
  <2>. QED  BY <2>1, <2>3
<1>2. i \in Frame /\ i < h.next
  <2>1. i \in 1 .. MaxFrames /\ i < h.next
    <3>. HIDE DEF i
    <3>. QED  BY ONLY <1>0, <1>1
  <2>. QED  BY <2>1, Zenon DEF Frame
<1>3. CASE n # 1
  <2>1. n - 1 \in Nat /\ n - 1 > 0
    BY <1>1, <1>3
  <2>2. g = Recounted(h, f, n - 1)
    BY <1>0, <1>3, Zenon DEF video_frame_put, Recounted
  <2>3. HeapSound(g, e) /\ RefOnly(g, h, f, n - 1)
    BY <2>1, <2>2, RefSound, Zenon
  <2>. QED  BY <2>3, Zenon DEF RefOnly, NewRef
<1>4. CASE n = 1
  <2>. DEFINE k == Recounted(h, f, 0)
              d == [j \in Frame |-> IF j = i THEN e[j] + 1 ELSE e[j]]
  <2>1. g = frame_item_release(k, i)
    BY <1>0, <1>4, Zenon DEF video_frame_put, Recounted
  <2>2. /\ e[i] \in Nat /\ d[i] = e[i] + 1 /\ \A j \in Frame \ {i} : d[j] = e[j]
    BY <1>2, Zenon
  <2>. HIDE DEF k, d
  <2>3. HeapSound(k, d) /\ RefOnly(k, h, f, 0)
    BY <2>2, DeadSound, Zenon DEF k
  <2>4. k.next = h.next /\ k.ref[f] = 0 /\ \A j \in Frame \ {f} : k.ref[j] = h.ref[j]
    BY <2>3, Zenon DEF RefOnly
  <2>. HIDE DEF i
  <2>5. d[i] \in Nat /\ d[i] > 0 /\ e[i] = d[i] - 1
    BY <2>2
  <2>8. i < k.next /\ \A j \in Frame \ {i} : e[j] = d[j]
    BY <1>2, <2>2, <2>4, Zenon
  <2>6. HeapSound(g, e) /\ SameRef(g, k)
    BY <1>2, <2>1, <2>3, <2>5, <2>8, ReleaseSound, Zenon
  <2>7. 0 = n - 1
    BY <1>4
  <2>. QED  BY <2>4, <2>6, <2>7, Zenon DEF NewRef, SameRef
<1>. QED  BY <1>3, <1>4, Zenon

\* refcount_inc adds one to a frame that is alive.
LEMMA IncSound ==
    ASSUME NEW h, NEW e, HeapSound(h, e), NEW f \in Frame, h.ref[f] > 0,
           NEW g, g = refcount_inc(h, f)
    PROVE  HeapSound(g, e) /\ NewRef(g, h, f, h.ref[f] + 1)
<1>. DEFINE n == h.ref[f] + 1
<1>1. n \in Nat /\ n > 0
  <2>1. h \in Heaps
    BY Zenon DEF HeapSound
  <2>2. h.ref[f] \in Nat
    BY <2>1, HeapFields, Zenon
  <2>. QED  BY <2>2
<1>2. g = Recounted(h, f, n)
  BY Zenon DEF refcount_inc, Recounted
<1>3. HeapSound(g, e) /\ RefOnly(g, h, f, n)
  <2>. HIDE DEF n
  <2>. QED  BY <1>1, <1>2, RefSound, Zenon
<1>. QED  BY <1>3, Zenon DEF RefOnly, NewRef

\* What frame_item_create does.
LEMMA ItemFields ==
    ASSUME NEW h \in Heaps, NEW i \in Frame, NEW g, g = frame_item_create(h, i)
    PROVE  /\ g \in Heaps /\ SameRef(g, h) /\ g.payload = h.payload /\ g.signaled = h.signaled
           /\ g.itemref[i] = 1 /\ \A j \in Frame \ {i} : g.itemref[j] = h.itemref[j]
           /\ IF h.free = <<>> THEN g.page = h.page /\ g.free = h.free
              ELSE g.page = [h.page EXCEPT ![i] = Head(h.free)] /\ g.free = Tail(h.free)
<1>. DEFINE m == [h.itemref EXCEPT ![i] = 1]
            w == [h.page EXCEPT ![i] = Head(h.free)]
            t == Tail(h.free)
<1>1. m \in [Frame -> Nat] /\ m[i] = 1 /\ \A j \in Frame \ {i} : m[j] = h.itemref[j]
  <2>1. 1 \in Nat
    OBVIOUS
  <2>. QED  BY <2>1, HeapFields, Zenon
<1>2. CASE h.free = <<>>
  <2>1. g = [h EXCEPT !.itemref = m]
    BY <1>2, Zenon DEF frame_item_create
  <2>. HIDE DEF m
  <2>2. g \in Heaps /\ g.itemref = m
    BY <1>1, <2>1, Zenon DEF Heaps
  <2>3. /\ g.ref = h.ref /\ g.payload = h.payload /\ g.next = h.next
        /\ g.signaled = h.signaled /\ g.page = h.page /\ g.free = h.free
    BY <2>1, Zenon DEF Heaps
  <2>. QED  BY <1>1, <1>2, <2>2, <2>3, Zenon DEF SameRef
<1>3. CASE h.free # <<>>
  <2>1. g = [h EXCEPT !.itemref = m, !.page = w, !.free = t]
    BY <1>3, Zenon DEF frame_item_create
  <2>2. t \in Seq(1 .. InfoPages) /\ Head(h.free) \in 1 .. InfoPages
    BY <1>3, HeapFields, DecdSeq, Zenon
  <2>3. w \in [Frame -> 0 .. InfoPages]
    <3>1. Head(h.free) \in 0 .. InfoPages
      BY <2>2, DecdAssumption
    <3>. QED  BY <3>1, HeapFields, Zenon
  <2>. HIDE DEF m, w, t
  <2>4. g \in Heaps /\ g.itemref = m /\ g.page = w /\ g.free = t
    BY <1>1, <2>1, <2>2, <2>3, Zenon DEF Heaps
  <2>5. /\ g.ref = h.ref /\ g.payload = h.payload /\ g.next = h.next /\ g.signaled = h.signaled
    BY <2>1, Zenon DEF Heaps
  <2>. QED  BY <1>1, <1>3, <2>4, <2>5, Zenon DEF SameRef, w, t
<1>. QED  BY <1>2, <1>3, Zenon

\* The page an item gets is its own.
LEMMA ItemPages ==
    ASSUME NEW h \in Heaps, NEW g, NEW i \in Frame, PagesApart(h),
           IF h.free = <<>> THEN g.page = h.page /\ g.free = h.free
           ELSE g.page = [h.page EXCEPT ![i] = Head(h.free)] /\ g.free = Tail(h.free)
    PROVE  PagesApart(g)
<1>1. CASE h.free = <<>>
  BY <1>1, SamePages, Zenon
<1>2. CASE h.free # <<>>
  <2>. DEFINE s == h.free
              n == Len(h.free)
  <2>1. /\ h.page \in [Frame -> 0 .. InfoPages] /\ s \in Seq(1 .. InfoPages) /\ s # <<>>
        /\ g.page = [h.page EXCEPT ![i] = Head(s)] /\ g.free = Tail(s)
    BY <1>2, HeapFields, Zenon
  <2>2. g.page[i] = Head(s) /\ \A j \in Frame \ {i} : g.page[j] = h.page[j]
    BY <2>1, Zenon
  <2>. HIDE DEF s
  <2>12. s \in Seq(1 .. InfoPages) /\ s # <<>>
    BY <2>1, Zenon
  <2>3. /\ n \in Nat /\ DOMAIN s = 1 .. n /\ DOMAIN g.free = 1 .. n - 1 /\ Head(s) = s[1] /\ n > 0
        /\ \A k \in 1 .. n - 1 : g.free[k] = s[k + 1]
    <3>1. n = Len(s)
      BY Zenon DEF s
    <3>. HIDE DEF n
    <3>2. /\ Len(s) \in Nat /\ DOMAIN s = 1 .. Len(s) /\ DOMAIN Tail(s) = 1 .. Len(s) - 1
          /\ Head(s) = s[1] /\ Len(s) > 0 /\ \A k \in 1 .. Len(s) - 1 : Tail(s)[k] = s[k + 1]
      BY ONLY <2>12, DecdSeq
    <3>. QED  BY <2>1, <3>1, <3>2, Zenon
  <2>. HIDE DEF n
  <2>4. \A k \in DOMAIN g.free : k + 1 \in DOMAIN s /\ k + 1 # 1 /\ g.free[k] = s[k + 1]
    BY ONLY <2>3
  <2>5. \A j, k \in DOMAIN g.free : j # k => j + 1 # k + 1
    BY ONLY <2>3
  <2>6. 1 \in DOMAIN s
    BY ONLY <2>3
  <2>7. \A j, k \in DOMAIN s : j # k => s[j] # s[k]
    BY Zenon DEF PagesApart, s
  <2>8. \A j \in Frame : h.page[j] # None => \A k \in DOMAIN s : s[k] # h.page[j]
    BY Zenon DEF PagesApart, s
  <2>9. \A j, k \in DOMAIN g.free : j # k => g.free[j] # g.free[k]
    <3>1. ASSUME NEW j \in DOMAIN g.free, NEW k \in DOMAIN g.free, j # k
          PROVE  g.free[j] # g.free[k]
      <4>1. j + 1 \in DOMAIN s /\ k + 1 \in DOMAIN s /\ j + 1 # k + 1
        BY <2>4, <2>5, <3>1, Zenon
      <4>2. g.free[j] = s[j + 1] /\ g.free[k] = s[k + 1]
        BY <2>4, Zenon
      <4>. QED  BY <2>7, <4>1, <4>2, Zenon
    <3>. QED  BY <3>1, Zenon
  <2>10. Head(s) \in 1 .. InfoPages /\ Head(s) # None
    <3>1. Head(s) \in 1 .. InfoPages
      BY <2>12, DecdSeq, Zenon
    <3>. QED  BY <3>1 DEF None
  <2>11. ASSUME NEW j \in Frame, g.page[j] # None
         PROVE  /\ \A k \in DOMAIN g.free : g.free[k] # g.page[j]
                /\ \A l \in Frame \ {j} : g.page[l] # g.page[j]
    <3>1. CASE j = i
      <4>1. \A k \in DOMAIN g.free : g.free[k] # s[1]
        BY <2>4, <2>6, <2>7, ZenonT(30)
      <4>2. ASSUME NEW l \in Frame \ {i} PROVE h.page[l] # s[1]
        <5>1. CASE h.page[l] = None
          BY <2>3, <2>10, <5>1, Zenon
        <5>2. CASE h.page[l] # None
          BY <2>6, <2>8, <5>2, Zenon
        <5>. QED  BY <5>1, <5>2, Zenon
      <4>. QED  BY <2>2, <2>3, <3>1, <4>1, <4>2, Zenon
    <3>2. CASE j # i
      <4>1. g.page[j] = h.page[j] /\ h.page[j] # None
        BY <2>2, <2>11, <3>2, Zenon
      <4>2. \A k \in DOMAIN s : s[k] # h.page[j]
        BY <2>8, <4>1, Zenon
      <4>3. \A k \in DOMAIN g.free : g.free[k] # h.page[j]
        BY <2>4, <4>2, Zenon
      <4>4. Head(s) # h.page[j]
        BY <2>3, <2>6, <4>2, Zenon
      <4>5. \A l \in Frame \ {j} : h.page[l] # h.page[j]
        BY <4>1, Zenon DEF PagesApart
      <4>. QED  BY <2>2, <4>1, <4>3, <4>4, <4>5, Zenon
    <3>. QED  BY <3>1, <3>2, Zenon
  <2>. QED  BY <2>9, <2>11, Zenon DEF PagesApart
<1>. QED  BY <1>1, <1>2, Zenon

\* A new item has the one reference of its creator.
LEMMA ItemSound ==
    ASSUME NEW h, NEW e, HeapSound(h, e), NEW i \in Frame, i >= h.next,
           NEW d, d[i] = 1, \A j \in Frame \ {i} : d[j] = e[j],
           NEW g, g = frame_item_create(h, i)
    PROVE  HeapSound(g, d) /\ SameRef(g, h)
<1>0. h \in Heaps /\ PagesApart(h)
  BY Zenon DEF HeapSound
<1>1. /\ g \in Heaps /\ SameRef(g, h) /\ g.payload = h.payload /\ g.signaled = h.signaled
      /\ g.itemref[i] = 1 /\ \A j \in Frame \ {i} : g.itemref[j] = h.itemref[j]
      /\ IF h.free = <<>> THEN g.page = h.page /\ g.free = h.free
         ELSE g.page = [h.page EXCEPT ![i] = Head(h.free)] /\ g.free = Tail(h.free)
  BY <1>0, ItemFields
<1>2. g.ref = h.ref /\ g.next = h.next
  BY <1>1, Zenon DEF SameRef
<1>3. PagesApart(g)
  BY <1>0, <1>1, ItemPages, Zenon
<1>4. g \in Heaps /\ g.payload = h.payload /\ g.signaled = h.signaled
  BY <1>1, Zenon
<1>5. g.itemref[i] = 1 /\ \A j \in Frame \ {i} : g.itemref[j] = h.itemref[j]
  BY <1>1, Zenon
<1>6. \A k \in Frame : /\ k >= g.next => g.ref[k] = 0
                       /\ g.ref[k] > 0 => g.payload[k] \in 1 .. k
  BY <1>2, <1>4, Zenon DEF HeapSound
<1>7. \A j \in Frame : Showing(g, j) = Showing(h, j)
  BY <1>2, <1>4, Zenon DEF Showing
<1>8. Showing(h, i) = {}
  <2>1. SUFFICES ASSUME NEW k \in Showing(h, i) PROVE FALSE
    BY Zenon
  <2>2. k \in Frame /\ h.payload[k] = i /\ h.ref[k] > 0
    BY Zenon DEF Showing
  <2>3. i \in 1 .. k
    BY <2>2, Zenon DEF HeapSound
  <2>4. h.ref[k] \in Nat /\ h.next \in Int /\ k \in Int
    <3>1. h.ref[k] \in Nat /\ h.next \in 1 .. MaxFrames + 1
      BY <1>0, <2>2, HeapFields, Zenon
    <3>. QED  BY <2>2, <3>1 DEF Frame
  <2>5. k >= h.next
    BY ONLY <2>3, <2>4, i >= h.next
  <2>6. h.ref[k] = 0
    BY <2>2, <2>5, Zenon DEF HeapSound
  <2>. QED  BY <2>2, <2>6
<1>9. \A j \in Frame : g.itemref[j] = Cardinality(Showing(g, j)) + d[j]
  <2>1. g.itemref[i] = Cardinality(Showing(g, i)) + d[i]
    <3>1. Cardinality(Showing(g, i)) = 0
      BY <1>7, <1>8, FS_EmptySet, Zenon
    <3>2. 0 + 1 = 1
      OBVIOUS
    <3>. QED  BY <1>5, <3>1, <3>2, Zenon
  <2>2. \A j \in Frame \ {i} : g.itemref[j] = Cardinality(Showing(g, j)) + d[j]
    BY <1>5, <1>7, Zenon DEF HeapSound
  <2>. QED  BY <2>1, <2>2, Zenon
<1>10. ASSUME NEW j \in g.signaled PROVE j < g.next /\ g.itemref[j] = 0
  <2>1. j < h.next /\ h.itemref[j] = 0 /\ j \in Frame
    BY <1>0, <1>4, HeapFields, Zenon DEF HeapSound
  <2>2. j # i
    <3>1. h.next \in Int /\ i \in Int
      BY <1>0, HeapFields DEF Frame
    <3>. QED  BY <2>1, <3>1
  <2>. QED  BY <1>2, <1>5, <2>1, <2>2, Zenon
<1>. QED  BY <1>1, <1>3, <1>6, <1>9, <1>10, Zenon DEF HeapSound

\* The heap h with one more reference to the item i.
ItemMore(h, i) == [h EXCEPT !.itemref[i] = @ + 1]

\* One more reference to an item that has one from elsewhere.
LEMMA MoreSound ==
    ASSUME NEW h, NEW e, HeapSound(h, e), NEW i \in Frame, e[i] \in Nat, e[i] > 0,
           NEW d, d[i] = e[i] + 1, \A j \in Frame \ {i} : d[j] = e[j],
           NEW g, g = ItemMore(h, i)
    PROVE  HeapSound(g, d) /\ SameRef(g, h)
<1>. DEFINE n == h.itemref[i]
            m == [h.itemref EXCEPT ![i] = n + 1]
<1>0. h \in Heaps /\ PagesApart(h) /\ g = [h EXCEPT !.itemref = m]
  BY Zenon DEF HeapSound, ItemMore
<1>1. n = Cardinality(Showing(h, i)) + e[i] /\ Cardinality(Showing(h, i)) \in Nat
  BY ShowingFinite, Zenon DEF HeapSound
<1>2. n \in Nat /\ n # 0 /\ n + 1 \in Nat /\ n + 1 = Cardinality(Showing(h, i)) + d[i]
  BY <1>1
<1>3. m \in [Frame -> Nat] /\ m[i] = n + 1 /\ \A j \in Frame \ {i} : m[j] = h.itemref[j]
  BY <1>0, <1>2, HeapFields, Zenon
<1>. HIDE DEF m
<1>4. g \in Heaps /\ g.itemref = m
  BY <1>0, <1>3, Zenon DEF Heaps
<1>5. /\ g.ref = h.ref /\ g.payload = h.payload /\ g.next = h.next /\ g.signaled = h.signaled
  BY <1>0, Zenon DEF Heaps
<1>6. g.page = h.page /\ g.free = h.free
  BY <1>0, Zenon DEF Heaps
<1>. HIDE DEF n
<1>7. \A k \in Frame : /\ k >= g.next => g.ref[k] = 0
                       /\ g.ref[k] > 0 => g.payload[k] \in 1 .. k
  BY <1>5, Zenon DEF HeapSound
<1>8. \A j \in Frame : Showing(g, j) = Showing(h, j)
  BY <1>5, Zenon DEF Showing
<1>9. \A j \in Frame : g.itemref[j] = Cardinality(Showing(g, j)) + d[j]
  <2>1. g.itemref[i] = Cardinality(Showing(g, i)) + d[i]
    BY <1>2, <1>3, <1>4, <1>8, Zenon
  <2>2. \A j \in Frame \ {i} : g.itemref[j] = Cardinality(Showing(g, j)) + d[j]
    BY <1>3, <1>4, <1>8, Zenon DEF HeapSound
  <2>. QED  BY <2>1, <2>2, Zenon
<1>10. ASSUME NEW j \in g.signaled PROVE j < g.next /\ g.itemref[j] = 0
  <2>1. j < h.next /\ h.itemref[j] = 0 /\ j \in Frame
    BY <1>0, <1>5, HeapFields, Zenon DEF HeapSound
  <2>2. j # i
    BY <1>2, <2>1, Zenon DEF n
  <2>. QED  BY <1>3, <1>4, <1>5, <2>1, <2>2, Zenon
<1>11. PagesApart(g)
  BY <1>0, <1>6, SamePages, Zenon
<1>. QED  BY <1>4, <1>5, <1>7, <1>9, <1>10, <1>11, Zenon DEF HeapSound, SameRef

\* f is the next frame of h; in g it exists and its creator has the one reference.
NewFrame(g, h, f) == /\ g.next = f + 1 /\ h.ref[f] = 0 /\ g.ref[f] = 1
                     /\ \A k \in Frame \ {f} : g.ref[k] = h.ref[k]

\* A new frame takes over one of the references e to its item.
LEMMA FrameSound ==
    ASSUME NEW h, NEW e, HeapSound(h, e), NEW f \in Frame, f = h.next,
           NEW i \in Frame, i <= f, e[i] \in Nat, e[i] > 0,
           NEW d, d[i] = e[i] - 1, \A j \in Frame \ {i} : d[j] = e[j],
           NEW g, g = dec_create_video_frame(h, f, i)
    PROVE  HeapSound(g, d) /\ NewFrame(g, h, f)
<1>. DEFINE r == [h.ref EXCEPT ![f] = 1]
            p == [h.payload EXCEPT ![f] = i]
<1>0. h \in Heaps /\ PagesApart(h) /\ g = [h EXCEPT !.ref = r, !.payload = p, !.next = f + 1]
  BY Zenon DEF HeapSound, dec_create_video_frame
<1>1. f \in Int /\ i \in Int /\ i >= 1 /\ f >= 1 /\ f <= MaxFrames /\ MaxFrames \in Nat
  BY DecdAssumption DEF Frame
<1>2. f + 1 \in 1 .. MaxFrames + 1 /\ i \in 1 .. f /\ f < f + 1 /\ f >= f /\ 1 > 0 /\ ~(0 > 0) /\ 1 \in Nat
  BY <1>1
<1>3. r \in [Frame -> Nat] /\ r[f] = 1 /\ \A k \in Frame \ {f} : r[k] = h.ref[k]
  BY <1>0, <1>2, HeapFields, Zenon
<1>4. p \in [Frame -> FrameOrNone] /\ p[f] = i /\ \A k \in Frame \ {f} : p[k] = h.payload[k]
  BY <1>0, HeapFields, Zenon DEF FrameOrNone
<1>. HIDE DEF r, p
<1>5. g \in Heaps /\ g.ref = r /\ g.payload = p /\ g.next = f + 1
  BY <1>0, <1>2, <1>3, <1>4, Zenon DEF Heaps
<1>6. g.itemref = h.itemref /\ g.signaled = h.signaled
  BY <1>0, Zenon DEF Heaps
<1>7. g.page = h.page /\ g.free = h.free
  BY <1>0, Zenon DEF Heaps
<1>8. h.ref[f] = 0
  BY <1>2, Zenon DEF HeapSound
<1>15. /\ g.ref[f] = 1 /\ g.payload[f] = i
       /\ \A k \in Frame \ {f} : g.ref[k] = h.ref[k] /\ g.payload[k] = h.payload[k]
  BY <1>3, <1>4, <1>5, Zenon
<1>16. ~(h.ref[f] > 0) /\ g.ref[f] > 0
  BY <1>2, <1>8, <1>15, Zenon
<1>9. \A k \in Frame : /\ k >= g.next => g.ref[k] = 0
                       /\ g.ref[k] > 0 => g.payload[k] \in 1 .. k
  <2>1. \A k \in Frame : k >= f + 1 => k >= f /\ k # f
    BY <1>1 DEF Frame
  <2>2. ~(f >= g.next)
    BY <1>1, <1>5
  <2>3. ASSUME NEW k \in Frame \ {f}
        PROVE  (k >= g.next => g.ref[k] = 0) /\ (g.ref[k] > 0 => g.payload[k] \in 1 .. k)
    <3>1. k >= g.next => k >= h.next
      BY <1>5, <2>1, Zenon
    <3>. QED  BY <1>15, <3>1, Zenon DEF HeapSound
  <2>. QED  BY <1>2, <1>15, <2>2, <2>3, Zenon
<1>17. /\ \A j \in Frame : Showing(g, j) \subseteq Frame /\ Showing(h, j) \subseteq Frame
       /\ \A j \in Frame, k \in Frame \ {f} : k \in Showing(g, j) <=> k \in Showing(h, j)
  BY <1>15, Zenon DEF Showing
<1>18. /\ \A j \in Frame : f \notin Showing(h, j)
       /\ \A j \in Frame : f \in Showing(g, j) <=> j = i
  BY <1>15, <1>16, Zenon DEF Showing
<1>10. \A j \in Frame \ {i} : Showing(g, j) = Showing(h, j)
  BY ONLY <1>17, <1>18, i \in Frame, f \in Frame
<1>11. Showing(g, i) = Showing(h, i) \cup {f} /\ f \notin Showing(h, i)
  BY ONLY <1>17, <1>18, i \in Frame, f \in Frame
<1>12. \A j \in Frame : g.itemref[j] = Cardinality(Showing(g, j)) + d[j]
  <2>1. g.itemref[i] = Cardinality(Showing(g, i)) + d[i]
    <3>. DEFINE c == Cardinality(Showing(h, i))
                b == Cardinality(Showing(g, i))
    <3>1. b = c + 1 /\ c \in Nat /\ h.itemref[i] = c + e[i]
      <4>1. IsFiniteSet(Showing(h, i)) /\ c \in Nat
        BY ShowingFinite, Zenon
      <4>2. b = c + 1
        BY <1>11, <4>1, FS_AddElement, Zenon
      <4>. QED  BY <4>1, <4>2, Zenon DEF HeapSound
    <3>. HIDE DEF b, c
    <3>2. c + e[i] = b + (e[i] - 1)
      BY ONLY <3>1, e[i] \in Nat
    <3>. QED  BY <1>6, <3>1, <3>2, Zenon DEF b
  <2>2. \A j \in Frame \ {i} : g.itemref[j] = Cardinality(Showing(g, j)) + d[j]
    BY <1>6, <1>10, Zenon DEF HeapSound
  <2>. QED  BY <2>1, <2>2, Zenon
<1>13. ASSUME NEW j \in g.signaled PROVE j < g.next /\ g.itemref[j] = 0
  <2>1. j < h.next /\ h.itemref[j] = 0 /\ j \in Frame
    BY <1>0, <1>6, HeapFields, Zenon DEF HeapSound
  <2>2. j < f + 1
    BY <1>1, <2>1 DEF Frame
  <2>. QED  BY <1>5, <1>6, <2>1, <2>2, Zenon
<1>14. PagesApart(g)
  BY <1>0, <1>7, SamePages, Zenon
<1>. QED  BY <1>15, <1>5, <1>8, <1>9, <1>12, <1>13, <1>14, Zenon DEF HeapSound, NewFrame

-----------------------------------------------------------------------------
(* The state, part by part. *)

\* The fields of the manager, the queue, the ioctl and the bookkeeping.
LEMMA MgrFields ==
    ASSUME NEW m \in Managers
    PROVE  /\ m.ready_list \in Seq(Frame) /\ m.recycle_fifo \in Seq(Frame)
           /\ m.pair \in FrameOrNone \X FrameOrNone
           /\ m.pair[1] \in FrameOrNone /\ m.pair[2] \in FrameOrNone
           /\ m.pair = <<m.pair[1], m.pair[2]>>
           /\ m.state \in 0 .. 3 /\ m.type \in {0, 1} /\ m.force_interlace \in {0, 1}
           /\ m.refresh_scheduled \in BOOLEAN /\ m.on \in BOOLEAN
<1>1. /\ m.ready_list \in Seq(Frame) /\ m.recycle_fifo \in Seq(Frame)
      /\ m.pair \in FrameOrNone \X FrameOrNone
      /\ m.state \in 0 .. 3 /\ m.type \in {0, 1} /\ m.force_interlace \in {0, 1}
      /\ m.refresh_scheduled \in BOOLEAN /\ m.on \in BOOLEAN
  BY Zenon DEF Managers
<1>. DEFINE p == m.pair
<1>. HIDE DEF p
<1>2. p[1] \in FrameOrNone /\ p[2] \in FrameOrNone /\ p = <<p[1], p[2]>>
  <2>1. p \in FrameOrNone \X FrameOrNone
    BY <1>1, Zenon DEF p
  <2>. QED  BY ONLY <2>1
<1>. QED  BY <1>1, <1>2, Zenon DEF p

\* The fields of a hardware queue.
LEMMA QueueFields ==
    ASSUME NEW Q \in Queues
    PROVE  /\ Q.dirty \in BOOLEAN /\ Q.slots \in [0 .. 3 -> FrameOrNone]
           /\ \A i \in 0 .. 3 : Q.slots[i] \in FrameOrNone
           /\ Q.slots[0] \in FrameOrNone /\ Q.slots[3] \in FrameOrNone
           /\ Q.toggle \in {0, 1} /\ Q.soft_repeat_count \in {0, 1}
           /\ Q.last_released \in FrameOrNone /\ Q.release_fifo \in Seq(Frame)
<1>1. /\ Q.dirty \in BOOLEAN /\ Q.slots \in [0 .. 3 -> FrameOrNone]
      /\ Q.toggle \in {0, 1} /\ Q.soft_repeat_count \in {0, 1}
      /\ Q.last_released \in FrameOrNone /\ Q.release_fifo \in Seq(Frame)
  BY Zenon DEF Queues
<1>2. 0 \in 0 .. 3 /\ 3 \in 0 .. 3
  OBVIOUS
<1>. QED  BY <1>1, <1>2, Zenon

\* The fields of a running ioctl.
LEMMA IoctlFields ==
    ASSUME NEW o \in Ioctls
    PROVE  /\ o.item \in FrameOrNone /\ o.left \in Nat /\ o.detached \in Seq(FrameOrNone)
           /\ o.op \in {"none", "submit", "resume", "stop", "disable", "exit"}
  BY Zenon DEF Ioctls

\* Every place counts a number of references.
LEMMA Places ==
    ASSUME DecdTypes, NEW f \in Frame
    PROVE  /\ Times(fmgr.ready_list, f) \in Nat /\ Times(fmgr.pair, f) \in Nat
           /\ Times(fmgr.recycle_fifo, f) \in Nat /\ Times(ioctl.detached, f) \in Nat
           /\ Times(q.release_fifo, f) \in Nat /\ used.lost[f] \in Nat
           /\ Times(fmgr.pair, f) = Is(fmgr.pair[1], f) + Is(fmgr.pair[2], f)
<1>1. /\ fmgr \in Managers /\ q \in Queues /\ ioctl \in Ioctls /\ used.lost \in [Frame -> Nat]
  BY Zenon DEF DecdTypes
<1>2. /\ fmgr.ready_list \in Seq(Frame) /\ fmgr.recycle_fifo \in Seq(Frame)
      /\ fmgr.pair[1] \in FrameOrNone /\ fmgr.pair[2] \in FrameOrNone
      /\ fmgr.pair = <<fmgr.pair[1], fmgr.pair[2]>>
  BY <1>1, MgrFields, Zenon
<1>3. q.release_fifo \in Seq(Frame) /\ ioctl.detached \in Seq(FrameOrNone)
  BY <1>1, QueueFields, IoctlFields, Zenon
<1>4. Times(fmgr.pair, f) = Is(fmgr.pair[1], f) + Is(fmgr.pair[2], f)
  <2>1. Times(<<fmgr.pair[1], fmgr.pair[2]>>, f) = Is(fmgr.pair[1], f) + Is(fmgr.pair[2], f)
    BY <1>2, TimesPair, Zenon
  <2>. QED  BY <1>2, <2>1, Zenon
<1>5. Is(fmgr.pair[1], f) + Is(fmgr.pair[2], f) \in Nat
  BY DEF Is
<1>. QED  BY <1>1, <1>2, <1>3, <1>4, <1>5, TimesNat, Zenon

\* A step that leaves every place and every count alone.
LEMMA SameCounts ==
    ASSUME FramesCounted, heap'.ref = heap.ref, UNCHANGED last_frame,
           fmgr'.ready_list = fmgr.ready_list, fmgr'.pair = fmgr.pair,
           fmgr'.recycle_fifo = fmgr.recycle_fifo, ioctl'.detached = ioctl.detached,
           q'.release_fifo = q.release_fifo, q'.last_released = q.last_released,
           q'.slots[0] = q.slots[0], used'.lost = used.lost
    PROVE  FramesCounted'
<1>. SUFFICES ASSUME NEW f \in Frame PROVE heap'.ref[f] = FrameRefs(f)'
  BY Zenon DEF FramesCounted
<1>1. heap.ref[f] = FrameRefs(f)
  BY Zenon DEF FramesCounted
<1>2. FrameRefs(f)' = FrameRefs(f)
  BY Zenon DEF FrameRefs, InQueue
<1>. QED  BY <1>1, <1>2, Zenon

\* The states of the queue's work item.
Works == {"idle", "pending", "drain", "drain+", "last", "last+"}

\* The manager n has the lists of m, and is idle if m is.
SameLists(n, m) ==
  /\ n \in Managers /\ n.ready_list = m.ready_list /\ n.pair = m.pair
  /\ n.recycle_fifo = m.recycle_fifo /\ n.on = m.on /\ (n.state = 0 <=> m.state = 0)

\* A step that moves no frame: the state, the type and the flags of the manager, the ioctl
\* and the work may change.
LEMMA QuietStep ==
    ASSUME DecdIInv, fmgr.on, SameLists(fmgr', fmgr), UNCHANGED <<q, last_frame, heap, scan, used>>,
           work' \in Works, ioctl' \in Ioctls, IoctlSound', ioctl'.item = ioctl.item,
           ioctl'.detached = ioctl.detached
    PROVE  DecdIInv'
<1>0. /\ DecdTypes /\ HeapSound(heap, Submitting) /\ Scanned /\ FramesCounted
  BY Zenon DEF DecdIInv
<1>1. DecdTypes'
  BY <1>0, Zenon DEF DecdTypes, SameLists, Works
<1>2. HeapSound(heap', Submitting')
  BY <1>0, Zenon DEF Submitting
<1>3. Scanned'
  BY <1>0, Zenon DEF Scanned, SameLists
<1>4. FramesCounted'
  BY <1>0, SameCounts, Zenon DEF SameLists
<1>. QED  BY <1>1, <1>2, <1>3, <1>4, Zenon DEF DecdIInv

\* The ioctl keeps what it has reserved while the manager stays on and no frame is created.
LEMMA SameIoctl ==
    ASSUME IoctlSound, ioctl \in Ioctls, UNCHANGED ioctl, heap'.next = heap.next, fmgr'.on = fmgr.on
    PROVE  IoctlSound' /\ ioctl' \in Ioctls
  BY Zenon DEF IoctlSound

\* The fields an ioctl starts with.
LEMMA IdleWith ==
    ASSUME NEW x, NEW o, NEW i, NEW n, NEW d
    PROVE  /\ x = [Idle EXCEPT !.op = o] => x = [op |-> o, item |-> None, left |-> 0, detached |-> << >>]
           /\ x = [Idle EXCEPT !.op = o, !.detached = d] =>
                x = [op |-> o, item |-> None, left |-> 0, detached |-> d]
           /\ x = [Idle EXCEPT !.op = o, !.item = i, !.left = n] =>
                x = [op |-> o, item |-> i, left |-> n, detached |-> << >>]
<1>1. ASSUME x = [Idle EXCEPT !.op = o]
      PROVE  x = [op |-> o, item |-> None, left |-> 0, detached |-> << >>]
  BY <1>1, SMT DEF Idle
<1>2. ASSUME x = [Idle EXCEPT !.op = o, !.detached = d]
      PROVE  x = [op |-> o, item |-> None, left |-> 0, detached |-> d]
  BY <1>2, Zenon DEF Idle
<1>3. ASSUME x = [Idle EXCEPT !.op = o, !.item = i, !.left = n]
      PROVE  x = [op |-> o, item |-> i, left |-> n, detached |-> << >>]
  BY <1>3, Zenon DEF Idle
<1>. QED  BY <1>1, <1>2, <1>3, Zenon

\* An ioctl that reserves nothing.
LEMMA NewIoctl ==
    ASSUME NEW o \in {"stop", "disable", "none", "resume", "exit"}, NEW d \in Seq(FrameOrNone),
           o # "exit" => d = << >>, 
           ioctl' = [op |-> o, item |-> None, left |-> 0, detached |-> d],
           o # "none" => (fmgr'.on <=> o # "exit")
    PROVE  IoctlSound' /\ ioctl' \in Ioctls /\ ioctl'.item = None /\ ioctl'.detached = d
<1>1. ioctl' = [op |-> o, item |-> None, left |-> 0, detached |-> d]
  OBVIOUS
<1>2. ioctl'.op = o /\ ioctl'.item = None /\ ioctl'.left = 0 /\ ioctl'.detached = d
  BY ONLY <1>1, Zenon
<1>3. /\ None \in FrameOrNone /\ 0 \in Nat /\ ~(0 > 0)
      /\ o \in {"none", "submit", "resume", "stop", "disable", "exit"}
  BY DEF FrameOrNone
<1>4. ioctl' \in Ioctls
  BY ONLY d \in Seq(FrameOrNone), <1>1, <1>3, Zenon DEF Ioctls
<1>5. o = "none" => ioctl' = Idle
  BY <1>1, Zenon DEF Idle
<1>. QED  BY <1>2, <1>3, <1>4, <1>5, Zenon DEF IoctlSound

\* The manager's flags change alone.
LEMMA MgrSet ==
    ASSUME NEW m \in Managers
    PROVE  /\ \A t \in {0, 1} : SameLists([m EXCEPT !.type = t], m)
           /\ \A s \in 0 .. 3 : (s = 0 <=> m.state = 0) => SameLists([m EXCEPT !.state = s], m)
           /\ \A s \in 0 .. 3 : (s = 0 <=> m.state = 0) =>
                SameLists([m EXCEPT !.refresh_scheduled = FALSE, !.state = s], m)
           /\ SameLists([m EXCEPT !.refresh_scheduled = TRUE], m) /\ SameLists(m, m)
<1>1. ASSUME NEW t \in {0, 1} PROVE SameLists([m EXCEPT !.type = t], m)
  BY <1>1, Zenon DEF Managers, SameLists
<1>2. ASSUME NEW s \in 0 .. 3, s = 0 <=> m.state = 0 PROVE SameLists([m EXCEPT !.state = s], m)
  BY <1>2, Zenon DEF Managers, SameLists
<1>3. ASSUME NEW s \in 0 .. 3, s = 0 <=> m.state = 0
      PROVE  SameLists([m EXCEPT !.refresh_scheduled = FALSE, !.state = s], m)
  BY <1>3, Zenon DEF Managers, SameLists
<1>4. SameLists([m EXCEPT !.refresh_scheduled = TRUE], m) /\ SameLists(m, m)
  BY Zenon DEF Managers, SameLists
<1>. QED  BY <1>1, <1>2, <1>3, <1>4, Zenon

\* The set-up that fails, the two stops, the start of the work and the tasklet that has
\* nothing to show.
LEMMA QuietActions ==
    ASSUME DecdIInv,
           \/ InterlaceSetupFails \/ dec_stop_video_stream \/ StopWaited \/ WorkStart \/ DisableStop
           \/ /\ fmgr.on /\ RefreshOther
              /\ UNCHANGED <<last_frame, scan, ioctl, work, stuck, stray, used>>
    PROVE  DecdIInv'
<1>0. /\ fmgr \in Managers /\ ioctl \in Ioctls /\ work \in Works /\ IoctlSound
      /\ fmgr.state \in 0 .. 3
  BY MgrFields, Zenon DEF DecdIInv, DecdTypes, Works
<1>1. CASE InterlaceSetupFails
  <2>1. fmgr.on /\ SameLists(fmgr', fmgr) /\ UNCHANGED <<q, last_frame, heap, scan, ioctl, work, used>>
    BY <1>0, <1>1, MgrSet, Zenon DEF InterlaceSetupFails
  <2>2. fmgr'.on = fmgr.on
    BY <2>1, Zenon DEF SameLists
  <2>3. IoctlSound' /\ ioctl' \in Ioctls
    BY <1>0, <2>1, <2>2, SameIoctl, Zenon
  <2>. QED  BY <1>0, <2>1, <2>3, QuietStep, Zenon
<1>2. ASSUME NEW o \in {"stop", "disable", "none"}, fmgr.on, ioctl = Idle, fmgr' = StopRequest(fmgr),
             ioctl' = [Idle EXCEPT !.op = o], UNCHANGED <<q, last_frame, heap, scan, work, used>>
      PROVE  DecdIInv'
  <2>1. SameLists(fmgr', fmgr)
    <3>. DEFINE s == IF fmgr.state \in {1, 2} THEN 3 ELSE fmgr.state
    <3>1. s \in 0 .. 3 /\ (s = 0 <=> fmgr.state = 0)
      BY <1>0
    <3>2. fmgr' = [fmgr EXCEPT !.state = s]
      BY <1>2, Zenon DEF StopRequest
    <3>. HIDE DEF s
    <3>. QED  BY <1>0, <3>1, <3>2, MgrSet, Zenon
  <2>2. fmgr'.on
    BY <1>2, <2>1, Zenon DEF SameLists
  <2>3. ioctl.item = None /\ ioctl.detached = << >> /\ Idle.detached = << >>
    BY <1>2, Zenon DEF Idle
  <2>4. << >> \in Seq(FrameOrNone) /\ ioctl' = [op |-> o, item |-> None, left |-> 0, detached |-> << >>]
    <3>1. ioctl' = [op |-> o, item |-> None, left |-> 0, detached |-> << >>]
      BY <1>2, IdleWith, Zenon
    <3>2. << >> \in Seq(FrameOrNone)
      OBVIOUS
    <3>. QED  BY <3>1, <3>2, Zenon
  <2>5. o \in {"stop", "disable", "none", "resume", "exit"} /\ o # "exit"
    BY <1>2
  <2>6. IoctlSound' /\ ioctl' \in Ioctls /\ ioctl'.item = None /\ ioctl'.detached = << >>
    BY <2>2, <2>4, <2>5, NewIoctl, Zenon
  <2>. QED  BY <1>0, <1>2, <2>1, <2>3, <2>6, QuietStep, Zenon
<1>3. CASE dec_stop_video_stream
  <2>. DEFINE o == IF fmgr.state = 0 THEN "none" ELSE "stop"
  <2>1. /\ o \in {"stop", "disable", "none"} /\ fmgr.on /\ ioctl = Idle /\ fmgr' = StopRequest(fmgr)
        /\ ioctl' = [Idle EXCEPT !.op = o] /\ UNCHANGED <<q, last_frame, heap, scan, work, used>>
    BY <1>3, Zenon DEF dec_stop_video_stream
  <2>. HIDE DEF o
  <2>. QED  BY <2>1, <1>2, Zenon
<1>4. CASE DisableStop
  BY <1>4, <1>2, Zenon DEF DisableStop
<1>5. CASE StopWaited
  <2>1. /\ ioctl.op = "stop" /\ ioctl' = Idle /\ UNCHANGED <<fmgr, q, last_frame, heap, scan, work, used>>
    BY <1>5, Zenon DEF StopWaited
  <2>2. fmgr.on /\ ioctl.detached = << >> /\ ioctl.item = None
    BY <1>0, <2>1, Zenon DEF IoctlSound
  <2>3. << >> \in Seq(FrameOrNone) /\ ioctl' = [op |-> "none", item |-> None, left |-> 0, detached |-> << >>]
    <3>1. << >> \in Seq(FrameOrNone)
      OBVIOUS
    <3>. QED  BY <2>1, <3>1, Zenon DEF Idle
  <2>4. IoctlSound' /\ ioctl' \in Ioctls /\ ioctl'.item = None /\ ioctl'.detached = << >>
    <3>1. "none" \in {"stop", "disable", "none", "resume", "exit"} /\ "none" # "exit"
      OBVIOUS
    <3>. QED  BY <2>3, <3>1, NewIoctl, Zenon
  <2>. QED  BY <1>0, <2>1, <2>2, <2>4, MgrSet, QuietStep, Zenon
<1>6. CASE WorkStart
  <2>1. fmgr.on /\ work' \in Works /\ UNCHANGED <<fmgr, q, last_frame, heap, scan, ioctl, used>>
    BY <1>6, Zenon DEF WorkStart, Works
  <2>2. IoctlSound' /\ ioctl' \in Ioctls
    BY <1>0, <2>1, SameIoctl, Zenon
  <2>. QED  BY <1>0, <2>1, <2>2, MgrSet, QuietStep, Zenon
<1>7. CASE fmgr.on /\ RefreshOther /\ UNCHANGED <<last_frame, scan, ioctl, work, stuck, stray, used>>
  <2>. DEFINE s == IF fmgr.state = 3 /\ ~q.dirty THEN 2 ELSE fmgr.state
  <2>1. s \in 0 .. 3 /\ (s = 0 <=> fmgr.state = 0)
    BY <1>0
  <2>2. fmgr' = [fmgr EXCEPT !.refresh_scheduled = FALSE, !.state = s] /\ UNCHANGED <<q, heap>>
    BY <1>7, Zenon DEF RefreshOther
  <2>. HIDE DEF s
  <2>3. SameLists(fmgr', fmgr)
    BY <1>0, <2>1, <2>2, MgrSet, Zenon
  <2>4. IoctlSound' /\ ioctl' \in Ioctls
    BY <1>0, <1>7, <2>2, <2>3, SameIoctl, Zenon DEF SameLists
  <2>. QED  BY <1>0, <1>7, <2>2, <2>3, <2>4, QuietStep, Zenon
<1>. QED  BY <1>1, <1>3, <1>4, <1>5, <1>6, <1>7, Zenon

\* The vsync interrupt: the slots reach the display.
LEMMA VsyncSound ==
    ASSUME DecdIInv, dec_vsync_process
    PROVE  DecdIInv'
<1>0. /\ DecdTypes /\ HeapSound(heap, Submitting) /\ IoctlSound /\ Scanned /\ FramesCounted
      /\ fmgr \in Managers /\ ioctl \in Ioctls /\ q \in Queues /\ work \in Works
      /\ fmgr.on /\ UNCHANGED <<last_frame, heap, ioctl, used>>
  BY Zenon DEF DecdIInv, DecdTypes, Works, dec_vsync_process
<1>1. SameLists(Scheduled(fmgr), fmgr) /\ SameLists(fmgr, fmgr)
  BY <1>0, MgrSet, Zenon DEF Scheduled
<1>2. SameLists(fmgr', fmgr) /\ work' \in Works
  <2>1. Queued \in Works
    BY <1>0, Zenon DEF Queued, Works
  <2>2. fmgr' \in {Scheduled(fmgr), fmgr} /\ work' \in {Queued, work}
    BY Zenon DEF dec_vsync_process
  <2>. QED  BY <1>0, <1>1, <2>1, <2>2, Zenon
<1>3. IoctlSound' /\ ioctl' \in Ioctls
  BY <1>0, <1>2, SameIoctl, Zenon DEF SameLists
<1>4. CASE ~q.dirty
  <2>1. UNCHANGED <<q, scan>>
    BY <1>4, Zenon DEF dec_vsync_process
  <2>. QED  BY <1>0, <1>2, <1>3, <2>1, QuietStep, Zenon
<1>5. CASE q.dirty
  <2>1. q' = [q EXCEPT !.dirty = FALSE] /\ scan' = {q.slots[i] : i \in 0 .. 3} \ {None}
    BY <1>5, Zenon DEF dec_vsync_process, dec_frame_queue_sync
  <2>2. /\ q' \in Queues /\ ~q'.dirty /\ q'.slots = q.slots
        /\ q'.last_released = q.last_released /\ q'.release_fifo = q.release_fifo
    BY <1>0, <2>1, Zenon DEF Queues
  <2>3. \A f \in scan' : f \in Frame /\ f = q.slots[0]
    <3>. SUFFICES ASSUME NEW f \in scan' PROVE f \in Frame /\ f = q.slots[0]
      OBVIOUS
    <3>1. PICK i \in 0 .. 3 : f = q.slots[i] /\ f # None
      BY <2>1, Zenon
    <3>2. q.slots[i] = q.slots[0] /\ q.slots[i] \in FrameOrNone
      BY <1>0, QueueFields, Zenon DEF Scanned
    <3>. QED  BY <3>1, <3>2, Zenon DEF FrameOrNone
  <2>4. DecdTypes'
    BY <1>0, <1>2, <1>3, <2>2, <2>3, Zenon DEF DecdTypes, SameLists, Works
  <2>5. HeapSound(heap', Submitting')
    BY <1>0, Zenon DEF Submitting
  <2>6. Scanned'
    BY <1>0, <1>2, <2>2, <2>3, Zenon DEF Scanned, SameLists
  <2>7. FramesCounted'
    BY <1>0, <1>2, <2>2, SameCounts, Zenon DEF SameLists
  <2>. QED  BY <1>3, <2>4, <2>5, <2>6, <2>7, Zenon DEF DecdIInv
<1>. QED  BY <1>4, <1>5, Zenon

\* The work that is left behind touches no frame of the model.
LEMMA StrayWorkSound ==
    ASSUME DecdIInv, StrayWork
    PROVE  DecdIInv'
<1>0. /\ DecdTypes /\ HeapSound(heap, Submitting) /\ IoctlSound /\ Scanned /\ FramesCounted
      /\ UNCHANGED <<fmgr, q, last_frame, heap, scan, ioctl, used>> /\ work' = "idle"
  BY Zenon DEF DecdIInv, StrayWork
<1>1. DecdTypes'
  BY <1>0, Zenon DEF DecdTypes
<1>2. HeapSound(heap', Submitting')
  BY <1>0, Zenon DEF Submitting
<1>3. IoctlSound' /\ Scanned'
  BY <1>0, Zenon DEF IoctlSound, Scanned
<1>4. FramesCounted'
  BY <1>0, SameCounts, Zenon
<1>. QED  BY <1>1, <1>2, <1>3, <1>4, Zenon DEF DecdIInv

\* dec_enable starts with an empty manager and queue, and nothing is scanned.
LEMMA EnableSound ==
    ASSUME DecdIInv, dec_enable
    PROVE  DecdIInv'
<1>0. /\ DecdTypes /\ HeapSound(heap, Submitting) /\ IoctlSound /\ Scanned /\ FramesCounted
      /\ ~fmgr.on /\ ioctl = Idle /\ fmgr' = [NoMgr EXCEPT !.on = TRUE] /\ q' = EmptyQueue
      /\ UNCHANGED <<last_frame, heap, scan, ioctl, work>>
      /\ used' = [used EXCEPT !.enables = @ + 1]
  BY Zenon DEF DecdIInv, dec_enable, dec_frame_manager_init
<1>1. fmgr = NoMgr /\ q = EmptyQueue /\ scan = {} /\ fmgr \in Managers /\ ioctl.op = "none"
  BY <1>0, Zenon DEF Scanned, Idle, DecdTypes
<1>2. /\ fmgr' \in Managers /\ fmgr'.ready_list = fmgr.ready_list /\ fmgr'.pair = fmgr.pair
      /\ fmgr'.recycle_fifo = fmgr.recycle_fifo /\ fmgr'.on /\ fmgr'.state = fmgr.state
  BY <1>0, <1>1, Zenon DEF Managers
<1>3. /\ used' \in [pairs : Nat, enables : Nat, lost : [Frame -> Nat]] /\ used'.lost = used.lost
  <2>1. used.enables + 1 \in Nat /\ used \in [pairs : Nat, enables : Nat, lost : [Frame -> Nat]]
    BY <1>0 DEF DecdTypes
  <2>. QED  BY <1>0, <2>1, Zenon
<1>4. DecdTypes'
  BY <1>0, <1>1, <1>2, <1>3, Zenon DEF DecdTypes
<1>5. HeapSound(heap', Submitting')
  BY <1>0, Zenon DEF Submitting
<1>6. IoctlSound'
  BY <1>0, <1>1, Zenon DEF IoctlSound
<1>7. Scanned'
  BY <1>0, <1>1, <1>2, Zenon DEF Scanned
<1>8. FramesCounted'
  BY <1>0, <1>1, <1>2, <1>3, SameCounts, Zenon
<1>. QED  BY <1>4, <1>5, <1>6, <1>7, <1>8, Zenon DEF DecdIInv

\* Once everything is put the display is switched off.
LEMMA DisableDoneSound ==
    ASSUME DecdIInv, DisableDone
    PROVE  DecdIInv'
<1>0. /\ DecdTypes /\ HeapSound(heap, Submitting) /\ IoctlSound /\ Scanned /\ FramesCounted
      /\ ioctl.op = "exit" /\ ioctl.detached = << >> /\ scan' = {} /\ ioctl' = Idle
      /\ UNCHANGED <<fmgr, q, last_frame, heap, work, used>>
  BY Zenon DEF DecdIInv, DisableDone
<1>1. ~fmgr.on /\ ioctl.item = None
  BY <1>0, Zenon DEF IoctlSound
<1>2. << >> \in Seq(FrameOrNone) /\ ioctl' = [op |-> "none", item |-> None, left |-> 0, detached |-> << >>]
  <2>1. << >> \in Seq(FrameOrNone)
    OBVIOUS
  <2>. QED  BY <1>0, <2>1, Zenon DEF Idle
<1>3. IoctlSound' /\ ioctl' \in Ioctls /\ ioctl'.item = None /\ ioctl'.detached = << >>
  <2>1. "none" \in {"stop", "disable", "none", "resume", "exit"} /\ "none" # "exit"
    OBVIOUS
  <2>. QED  BY <1>2, <2>1, NewIoctl, Zenon
<1>4. DecdTypes'
  BY <1>0, <1>3, Zenon DEF DecdTypes
<1>5. HeapSound(heap', Submitting')
  BY <1>0, <1>1, <1>3, Zenon DEF Submitting
<1>6. Scanned'
  BY <1>0, <1>1, Zenon DEF Scanned
<1>7. FramesCounted'
  BY <1>0, <1>3, SameCounts, Zenon
<1>. QED  BY <1>3, <1>4, <1>5, <1>6, <1>7, Zenon DEF DecdIInv

\* What the submission refers to: its item, once.
LEMMA SubmittingIs ==
    ASSUME NEW i \in Frame
    PROVE  /\ Submitting \in [Frame -> Nat]
           /\ Submitting[i] = (IF ioctl.item = i THEN 1 ELSE 0)
           /\ Submitting'[i] = (IF ioctl'.item = i THEN 1 ELSE 0)
<1>1. Submitting \in [Frame -> Nat]
  BY DEF Submitting, Is
<1>2. /\ Submitting[i] = (IF ioctl.item = i THEN 1 ELSE 0)
      /\ Submitting'[i] = (IF ioctl'.item = i THEN 1 ELSE 0)
  BY Zenon DEF Submitting, Is
<1>. QED  BY <1>1, <1>2, Zenon

\* dec_frame_submit creates an item that is referred to by the submission alone.
LEMMA SubmitSound ==
    ASSUME DecdIInv, NEW r \in 1 .. MaxRepeat, dec_frame_submit(r)
    PROVE  DecdIInv'
<1>. DEFINE t == heap.next
<1>0. /\ DecdTypes /\ HeapSound(heap, Submitting) /\ IoctlSound /\ Scanned /\ FramesCounted
      /\ fmgr.on /\ ioctl = Idle /\ t + r - 1 <= MaxFrames
      /\ heap' = frame_item_create(heap, t)
      /\ ioctl' = [Idle EXCEPT !.op = "submit", !.item = t, !.left = r]
      /\ UNCHANGED <<fmgr, q, last_frame, scan, work, used>>
  BY Zenon DEF DecdIInv, dec_frame_submit
<1>1. /\ t \in Frame /\ t >= t /\ t # None /\ r \in Nat /\ r > 0 /\ t + r <= MaxFrames + 1
  <2>1. t \in 1 .. MaxFrames + 1
    BY <1>0, HeapFields, Zenon DEF HeapSound
  <2>2. MaxFrames \in Nat /\ MaxRepeat \in Nat /\ t + r - 1 <= MaxFrames
    BY <1>0, DecdAssumption
  <2>. QED  BY ONLY <2>1, <2>2, r \in 1 .. MaxRepeat DEF Frame, None
<1>2. /\ ioctl'.op = "submit" /\ ioctl'.item = t /\ ioctl'.left = r /\ ioctl'.detached = << >>
      /\ ioctl.item = None /\ ioctl.detached = << >> /\ ioctl' \in Ioctls
  <2>. DEFINE o == [op |-> "submit", item |-> t, left |-> r, detached |-> << >>]
  <2>1. ioctl' = o
    <3>1. ioctl' = [Idle EXCEPT !.op = "submit", !.item = t, !.left = r]
      BY <1>0, Zenon
    <3>. QED  BY <3>1, Zenon DEF Idle, o
  <2>2. o.op = "submit" /\ o.item = t /\ o.left = r /\ o.detached = << >>
    OBVIOUS
  <2>3. ioctl.item = None /\ ioctl.detached = << >>
    BY <1>0, Zenon DEF Idle
  <2>4. o \in Ioctls
    <3>1. << >> \in Seq(FrameOrNone) /\ t \in FrameOrNone
      BY <1>1 DEF FrameOrNone
    <3>. QED  BY <1>1, <3>1, Zenon DEF Ioctls
  <2>. HIDE DEF o
  <2>. QED  BY <2>1, <2>2, <2>3, <2>4, Zenon
<1>. HIDE DEF t
<1>3. HeapSound(heap', Submitting') /\ SameRef(heap', heap)
  <2>1. Submitting'[t] = 1 /\ \A j \in Frame \ {t} : Submitting'[j] = Submitting[j]
    <3>1. \A j \in Frame : ioctl.item # j
      BY <1>2 DEF Frame, None
    <3>. QED  BY <1>1, <1>2, <3>1, SubmittingIs, Zenon
  <2>2. t >= heap.next
    BY <1>1, Zenon DEF t
  <2>. QED  BY <1>0, <1>1, <2>1, <2>2, ItemSound, Zenon
<1>4. heap'.ref = heap.ref /\ heap'.next = t
  BY <1>3, Zenon DEF SameRef, t
<1>5. DecdTypes'
  BY <1>0, <1>2, Zenon DEF DecdTypes
<1>6. IoctlSound'
  <2>1. ~("submit" = "none") /\ "submit" # "exit"
    OBVIOUS
  <2>. QED  BY <1>0, <1>1, <1>2, <1>4, <2>1, Zenon DEF IoctlSound
<1>7. Scanned'
  BY <1>0, Zenon DEF Scanned
<1>8. FramesCounted'
  BY <1>0, <1>2, <1>4, SameCounts, Zenon
<1>. QED  BY <1>3, <1>5, <1>6, <1>7, <1>8, Zenon DEF DecdIInv

\* The submission ends with the release of its reference to the item.
LEMMA SubmitDoneSound ==
    ASSUME DecdIInv, SubmitDone
    PROVE  DecdIInv'
<1>0. /\ DecdTypes /\ HeapSound(heap, Submitting) /\ IoctlSound /\ Scanned /\ FramesCounted
      /\ ioctl.op = "submit" /\ ioctl.left = 0 /\ ioctl' = Idle /\ ioctl \in Ioctls
      /\ heap' = (IF ioctl.item = None THEN heap ELSE frame_item_release(heap, ioctl.item))
      /\ UNCHANGED <<fmgr, q, last_frame, scan, work, used>>
  BY Zenon DEF DecdIInv, SubmitDone, DecdTypes
<1>1. fmgr.on /\ ioctl.detached = << >> /\ ioctl.item \in FrameOrNone
  BY <1>0, IoctlFields, Zenon DEF IoctlSound
<1>2. << >> \in Seq(FrameOrNone) /\ ioctl' = [op |-> "none", item |-> None, left |-> 0, detached |-> << >>]
  <2>1. << >> \in Seq(FrameOrNone)
    OBVIOUS
  <2>. QED  BY <1>0, <2>1, Zenon DEF Idle
<1>3. IoctlSound' /\ ioctl' \in Ioctls /\ ioctl'.item = None /\ ioctl'.detached = << >>
  <2>1. "none" \in {"stop", "disable", "none", "resume", "exit"} /\ "none" # "exit"
    OBVIOUS
  <2>. QED  BY <1>2, <2>1, NewIoctl, Zenon
<1>4. HeapSound(heap', Submitting') /\ SameRef(heap', heap)
  <2>1. CASE ioctl.item = None
    <3>1. heap' = heap /\ Submitting' = Submitting
      BY <1>0, <1>3, <2>1, Zenon DEF Submitting
    <3>. QED  BY <1>0, <3>1, Zenon DEF SameRef
  <2>2. CASE ioctl.item # None
    <3>. DEFINE i == ioctl.item
    <3>1. i \in Frame /\ i # None /\ heap' = frame_item_release(heap, i)
      BY <1>0, <1>1, <2>2, Zenon DEF FrameOrNone
    <3>2. i < heap.next
      <4>1. \/ i < heap.next \/ 0 > 0
        BY <1>0, <2>2, Zenon DEF IoctlSound
      <4>. QED  BY <4>1
    <3>3. Submitting[i] = 1 /\ Submitting'[i] = 0
          /\ \A j \in Frame \ {i} : Submitting'[j] = Submitting[j]
      <4>1. \A j \in Frame : None # j
        BY DEF Frame, None
      <4>. QED  BY <1>3, <3>1, <4>1, SubmittingIs, Zenon
    <3>4. Submitting[i] \in Nat /\ Submitting[i] > 0 /\ Submitting'[i] = Submitting[i] - 1
      BY <3>3
    <3>5. HeapSound(heap, Submitting)
      BY <1>0, Zenon
    <3>. HIDE DEF i
    <3>. QED  BY ONLY <3>1, <3>2, <3>3, <3>4, <3>5, ReleaseSound, Zenon
  <2>. QED  BY <2>1, <2>2, Zenon
<1>5. heap'.ref = heap.ref
  BY <1>4, Zenon DEF SameRef
<1>6. DecdTypes'
  BY <1>0, <1>3, Zenon DEF DecdTypes
<1>7. Scanned'
  BY <1>0, <1>1, Zenon DEF Scanned
<1>8. FramesCounted'
  BY <1>0, <1>1, <1>3, <1>5, SameCounts, Zenon
<1>. QED  BY <1>3, <1>4, <1>6, <1>7, <1>8, Zenon DEF DecdIInv

\* The references to a frame, place by place.
Total(ready, pair, recycle, detached, fifo, released, slot, last, lost) ==
  ready + pair + recycle + detached + (fifo + released + slot) + last + lost

\* FramesCounted, and the references after a step, as a sum over the places.
LEMMA TotalIs ==
    ASSUME DecdTypes, FramesCounted, NEW f \in Frame
    PROVE  /\ heap.ref[f] = Total(Times(fmgr.ready_list, f), Times(fmgr.pair, f),
                                  Times(fmgr.recycle_fifo, f), Times(ioctl.detached, f),
                                  Times(q.release_fifo, f), Is(q.last_released, f),
                                  Is(q.slots[0], f), Is(last_frame, f), used.lost[f])
           /\ FrameRefs(f)' = Total(Times(fmgr'.ready_list, f), Times(fmgr'.pair, f),
                                    Times(fmgr'.recycle_fifo, f), Times(ioctl'.detached, f),
                                    Times(q'.release_fifo, f), Is(q'.last_released, f),
                                    Is(q'.slots[0], f), Is(last_frame', f), used'.lost[f])
  BY Zenon DEF FramesCounted, FrameRefs, InQueue, Total

\* A frame is created for the submission and joins the ready list.
LEMMA EnqueueSound ==
    ASSUME DecdIInv, dec_frame_manager_enqueue_frame
    PROVE  DecdIInv'
<1>. DEFINE t == heap.next
            i == ioctl.item
            h == [heap EXCEPT !.itemref[i] = @ + 1]
<1>0. /\ DecdTypes /\ HeapSound(heap, Submitting) /\ IoctlSound /\ Scanned /\ FramesCounted
      /\ ioctl.op = "submit" /\ ioctl.left > 0 /\ ioctl \in Ioctls /\ fmgr \in Managers
      /\ heap' = dec_create_video_frame(h, t, i)
      /\ fmgr' = [fmgr EXCEPT !.ready_list = Append(fmgr.ready_list, t)]
      /\ ioctl' = [ioctl EXCEPT !.op = "resume", !.left = ioctl.left - 1]
      /\ UNCHANGED <<q, last_frame, scan, work, used>>
  BY Zenon DEF DecdIInv, dec_frame_manager_enqueue_frame, DecdTypes
<1>1. /\ i \in Frame /\ t \in Frame /\ i <= t /\ i < t + 1 /\ i # None /\ ioctl.left \in Nat
      /\ ioctl.left - 1 \in Nat /\ (t + 1) + (ioctl.left - 1) <= MaxFrames + 1
  <2>1. t \in 1 .. MaxFrames + 1
    BY <1>0, HeapFields, Zenon DEF HeapSound
  <2>2. ioctl.left \in Nat /\ i \in FrameOrNone /\ ioctl.left > 0
    BY <1>0, IoctlFields, Zenon
  <2>3. i # None /\ t + ioctl.left <= MaxFrames + 1 /\ (i < t \/ i = t)
    BY <1>0, Zenon DEF IoctlSound
  <2>. HIDE DEF t, i
  <2>. QED  BY ONLY <2>1, <2>2, <2>3, DecdAssumption DEF FrameOrNone, Frame, None
<1>2. /\ ioctl' \in Ioctls /\ ioctl'.op = "resume" /\ ioctl'.item = i
      /\ ioctl'.left = ioctl.left - 1 /\ ioctl'.detached = ioctl.detached
  <2>1. "resume" \in {"none", "submit", "resume", "stop", "disable", "exit"}
    OBVIOUS
  <2>. QED  BY <1>0, <1>1, <2>1, Zenon DEF Ioctls
<1>3. /\ fmgr' \in Managers /\ fmgr'.ready_list = Append(fmgr.ready_list, t) /\ fmgr'.pair = fmgr.pair
      /\ fmgr'.recycle_fifo = fmgr.recycle_fifo /\ fmgr'.on = fmgr.on /\ fmgr'.state = fmgr.state
  <2>1. Append(fmgr.ready_list, t) \in Seq(Frame)
    BY <1>0, <1>1, MgrFields, DecdSeq, Zenon
  <2>. QED  BY <1>0, <2>1, Zenon DEF Managers
<1>. HIDE DEF t, i
<1>4. /\ HeapSound(heap', Submitting') /\ heap'.next = t + 1 /\ heap.ref[t] = 0 /\ heap'.ref[t] = 1
      /\ \A k \in Frame \ {t} : heap'.ref[k] = heap.ref[k]
  <2>1. Submitting[i] = 1 /\ \A j \in Frame : Submitting'[j] = Submitting[j]
    BY <1>1, <1>2, SubmittingIs, Zenon DEF i
  <2>. DEFINE d == [Submitting EXCEPT ![i] = 2]
  <2>2. d[i] = 2 /\ \A j \in Frame \ {i} : d[j] = Submitting[j]
    BY <1>1, SubmittingIs, Zenon
  <2>3. /\ Submitting[i] \in Nat /\ Submitting[i] > 0 /\ d[i] = Submitting[i] + 1
        /\ d[i] \in Nat /\ d[i] > 0 /\ Submitting'[i] = d[i] - 1
    BY <1>1, <2>1, <2>2
  <2>4. \A j \in Frame \ {i} : Submitting'[j] = d[j]
    BY <2>1, <2>2, Zenon
  <2>. HIDE DEF d
  <2>5. HeapSound(h, d) /\ SameRef(h, heap)
    <3>1. HeapSound(heap, Submitting)
      BY <1>0, Zenon
    <3>2. h = ItemMore(heap, i)
      BY Zenon DEF h, ItemMore
    <3>. HIDE DEF h
    <3>. QED  BY ONLY <3>1, <3>2, <1>1, <2>2, <2>3, MoreSound, Zenon
  <2>6. h.ref = heap.ref /\ t = h.next
    BY <2>5, Zenon DEF SameRef, t
  <2>. HIDE DEF h
  <2>7. HeapSound(heap', Submitting') /\ NewFrame(heap', h, t)
    <3>1. heap' = dec_create_video_frame(h, t, i)
      BY <1>0, Zenon
    <3>. QED  BY ONLY <3>1, <1>1, <2>3, <2>4, <2>5, <2>6, FrameSound, Zenon
  <2>. QED  BY <2>6, <2>7, Zenon DEF NewFrame
<1>5. DecdTypes'
  BY <1>0, <1>2, <1>3, Zenon DEF DecdTypes
<1>6. IoctlSound'
  <2>1. /\ "resume" # "none" /\ "resume" # "exit" /\ "submit" # "none" /\ "submit" # "exit"
        /\ "resume" \in {"submit", "resume"}
    OBVIOUS
  <2>. QED  BY <1>0, <1>1, <1>2, <1>3, <1>4, <2>1, Zenon DEF IoctlSound, i
<1>7. Scanned'
  <2>1. fmgr.on
    BY <1>0, Zenon DEF IoctlSound
  <2>. QED  BY <1>0, <1>3, <2>1, Zenon DEF Scanned
<1>8. FramesCounted'
  <2>. SUFFICES ASSUME NEW f \in Frame PROVE heap'.ref[f] = FrameRefs(f)'
    BY Zenon DEF FramesCounted
  <2>. DEFINE T(a) == Total(a, Times(fmgr.pair, f), Times(fmgr.recycle_fifo, f),
                            Times(ioctl.detached, f), Times(q.release_fifo, f),
                            Is(q.last_released, f), Is(q.slots[0], f), Is(last_frame, f), used.lost[f])
  <2>1. heap.ref[f] = T(Times(fmgr.ready_list, f)) /\ FrameRefs(f)' = T(Times(fmgr'.ready_list, f))
    BY <1>0, <1>2, <1>3, TotalIs, Zenon
  <2>2. Times(fmgr'.ready_list, f) = Times(fmgr.ready_list, f) + Is(t, f)
    <3>1. fmgr.ready_list \in Seq(Frame)
      BY <1>0, MgrFields, Zenon
    <3>2. Times(Append(fmgr.ready_list, t), f) = Times(fmgr.ready_list, f) + Is(t, f)
      BY <1>1, <3>1, TimesAppend, Zenon
    <3>. QED  BY <1>3, <3>2, Zenon
  <2>3. T(Times(fmgr.ready_list, f) + Is(t, f)) = T(Times(fmgr.ready_list, f)) + Is(t, f)
    <3>. DEFINE a == Times(fmgr.ready_list, f)  b == Times(fmgr.pair, f)
                c == Times(fmgr.recycle_fifo, f)  d == Times(ioctl.detached, f)
                e == Times(q.release_fifo, f)  u == used.lost[f]
    <3>1. a \in Nat /\ b \in Nat /\ c \in Nat /\ d \in Nat /\ e \in Nat /\ u \in Nat
      BY <1>0, Places, Zenon
    <3>2. Is(t, f) \in Nat /\ Is(q.last_released, f) \in Nat /\ Is(q.slots[0], f) \in Nat /\ Is(last_frame, f) \in Nat
      BY DEF Is
    <3>. HIDE DEF a, b, c, d, e, u
    <3>3. Total(a + Is(t, f), b, c, d, e, Is(q.last_released, f), Is(q.slots[0], f), Is(last_frame, f), u)
            = Total(a, b, c, d, e, Is(q.last_released, f), Is(q.slots[0], f), Is(last_frame, f), u) + Is(t, f)
      BY ONLY <3>1, <3>2 DEF Total
    <3>. QED  BY <3>3, Zenon DEF a, b, c, d, e, u
  <2>. HIDE DEF T
  <2>4. FrameRefs(f)' = heap.ref[f] + Is(t, f)
    BY <2>1, <2>2, <2>3, Zenon
  <2>5. heap'.ref[f] = heap.ref[f] + Is(t, f)
    <3>1. CASE f = t
      BY <1>4, <3>1 DEF Is
    <3>2. CASE f # t
      <4>1. Is(t, f) = 0 /\ heap'.ref[f] = heap.ref[f] /\ heap.ref[f] \in Nat
        BY <1>0, <1>4, <3>2, HeapFields, Zenon DEF Is, HeapSound
      <4>. QED  BY <4>1
    <3>. QED  BY <3>1, <3>2, Zenon
  <2>. QED  BY <2>4, <2>5, Zenon
<1>. QED  BY <1>4, <1>5, <1>6, <1>7, <1>8, Zenon DEF DecdIInv

\* The references of the queue Q to k.
InQ(Q, k) == Times(Q.release_fifo, k) + Is(Q.last_released, k) + Is(Q.slots[0], k)

\* The queue R shows f; what Q showed is the last released, and nothing else is dropped.
Shown(R, Q, f) ==
  /\ R \in Queues /\ R.dirty /\ R.last_released = Q.slots[0] /\ \A i \in 0 .. 3 : R.slots[i] = f
  /\ \A k \in Frame : InQ(R, k) = InQ(Q, k) + Is(f, k)

\* In R the frame f is the last released; the one that was it in Q is on the release FIFO.
Deferred(R, Q, f) ==
  /\ R \in Queues /\ R.slots = Q.slots /\ R.last_released = f
  /\ \A k \in Frame : Times(R.release_fifo, k) = Times(Q.release_fifo, k) + Is(Q.last_released, k)

\* dec_frame_defer_release moves the last released frame to the FIFO.
LEMMA DeferFields ==
    ASSUME NEW Q \in Queues, NEW f \in FrameOrNone, NEW R, R = dec_frame_defer_release(Q, f)
    PROVE  Deferred(R, Q, f)
<1>. DEFINE l == Q.last_released
            s == Q.release_fifo
            r == IF l = None THEN s ELSE Append(s, l)
<1>1. l \in FrameOrNone /\ s \in Seq(Frame)
  BY QueueFields, Zenon
<1>2. R = [Q EXCEPT !.release_fifo = r, !.last_released = f]
  BY Zenon DEF dec_frame_defer_release
<1>3. r \in Seq(Frame) /\ \A k \in Frame : Times(r, k) = Times(s, k) + Is(l, k)
  <2>1. CASE l = None
    <3>1. ASSUME NEW k \in Frame PROVE Times(s, k) = Times(s, k) + Is(l, k)
      <4>1. Is(l, k) = 0
        BY <2>1 DEF Is, Frame, None
      <4>2. Times(s, k) \in Nat
        BY <1>1, TimesNat, Zenon
      <4>. QED  BY ONLY <4>1, <4>2
    <3>. QED  BY <1>1, <2>1, <3>1, Zenon
  <2>2. CASE l # None
    <3>1. l \in Frame /\ r = Append(s, l)
      BY <1>1, <2>2, Zenon DEF FrameOrNone
    <3>2. Append(s, l) \in Seq(Frame)
      BY <1>1, <3>1, DecdSeq, Zenon
    <3>. HIDE DEF l, s
    <3>3. ASSUME NEW k \in Frame PROVE Times(Append(s, l), k) = Times(s, k) + Is(l, k)
      BY <1>1, <3>1, TimesAppend, Zenon
    <3>. QED  BY <3>1, <3>2, <3>3, Zenon
  <2>. QED  BY <2>1, <2>2, Zenon
<1>. HIDE DEF r, l, s
<1>4. R \in Queues /\ R.slots = Q.slots /\ R.last_released = f /\ R.release_fifo = r
  BY <1>2, <1>3, Zenon DEF Queues
<1>. QED  BY <1>3, <1>4, Zenon DEF Deferred, l, s

\* dec_frame_queue_enqueue shows its frame; dec_frame_queue_repeat the frame of slot 0 again.
LEMMA EnqueueShows ==
    ASSUME NEW Q \in Queues, \A i \in 0 .. 3 : Q.slots[i] = Q.slots[0], NEW f \in FrameOrNone,
           NEW R, \/ R = dec_frame_queue_enqueue(Q, f)
                  \/ R = dec_frame_queue_repeat(Q) /\ f = Q.slots[0]
    PROVE  Shown(R, Q, f)
<1>. DEFINE P == dec_frame_defer_release(Q, Q.slots[3])
<1>1. /\ Q.slots[0] \in FrameOrNone /\ Q.slots[3] = Q.slots[0] /\ Q.slots[2] = Q.slots[0]
      /\ Q.slots[1] = Q.slots[0] /\ Q.slots \in [0 .. 3 -> FrameOrNone]
  <2>1. 0 \in 0 .. 3 /\ 1 \in 0 .. 3 /\ 2 \in 0 .. 3 /\ 3 \in 0 .. 3
    OBVIOUS
  <2>. QED  BY <2>1, QueueFields, Zenon
<1>2. /\ P \in Queues /\ P.slots = Q.slots /\ P.last_released = Q.slots[0]
      /\ \A k \in Frame : Times(P.release_fifo, k) = Times(Q.release_fifo, k) + Is(Q.last_released, k)
  <2>1. P = dec_frame_defer_release(Q, Q.slots[0])
    BY <1>1, Zenon
  <2>. HIDE DEF P
  <2>2. Deferred(P, Q, Q.slots[0])
    BY <1>1, <2>1, DeferFields, Zenon
  <2>. QED  BY <2>2, Zenon DEF Deferred
<1>3. /\ R \in Queues /\ R.dirty /\ R.last_released = P.last_released /\ R.release_fifo = P.release_fifo
      /\ \A i \in 0 .. 3 : R.slots[i] = f
  <2>1. CASE R = dec_frame_queue_enqueue(Q, f)
    <3>. DEFINE s == [i \in 0 .. 3 |-> f]
    <3>1. R = [[P EXCEPT !.slots = s] EXCEPT !.soft_repeat_count = 0, !.dirty = TRUE]
      BY <2>1, Zenon DEF dec_frame_queue_enqueue, AllSlots
    <3>2. s \in [0 .. 3 -> FrameOrNone] /\ \A i \in 0 .. 3 : s[i] = f
      BY Zenon
    <3>. HIDE DEF s, P
    <3>3. [P EXCEPT !.slots = s] \in Queues
      BY <1>2, <3>2, Zenon DEF Queues
    <3>4. /\ [P EXCEPT !.slots = s].slots = s /\ [P EXCEPT !.slots = s].last_released = P.last_released
          /\ [P EXCEPT !.slots = s].release_fifo = P.release_fifo
      BY <1>2, Zenon DEF Queues
    <3>. DEFINE X == [P EXCEPT !.slots = s]
    <3>5. R = [X EXCEPT !.soft_repeat_count = 0, !.dirty = TRUE] /\ X \in Queues
      BY <3>1, <3>3, Zenon
    <3>6. X.slots = s /\ X.last_released = P.last_released /\ X.release_fifo = P.release_fifo
      BY <3>4, Zenon
    <3>. HIDE DEF X
    <3>7. R \in Queues /\ R.dirty /\ R.slots = X.slots /\ R.last_released = X.last_released
          /\ R.release_fifo = X.release_fifo
      BY <3>5, Zenon DEF Queues
    <3>. QED  BY <3>2, <3>6, <3>7, Zenon
  <2>2. CASE R = dec_frame_queue_repeat(Q) /\ f = Q.slots[0]
    <3>. DEFINE c == (P.soft_repeat_count + 1) % 2
                s == [[P.slots EXCEPT ![3] = Q.slots[2]] EXCEPT ![2] = Q.slots[1]]
    <3>1. c \in {0, 1}
      <4>1. P.soft_repeat_count \in {0, 1}
        BY <1>2, QueueFields, Zenon
      <4>. QED  BY <4>1
    <3>2. R = [P EXCEPT !.slots = s, !.dirty = TRUE, !.soft_repeat_count = c]
      BY <2>2, Zenon DEF dec_frame_queue_repeat
    <3>3. s \in [0 .. 3 -> FrameOrNone] /\ \A i \in 0 .. 3 : s[i] = f
      BY <1>1, <1>2, <2>2
    <3>. HIDE DEF P, c, s
    <3>4. R \in Queues /\ R.dirty /\ R.slots = s /\ R.last_released = P.last_released
          /\ R.release_fifo = P.release_fifo
      BY <1>2, <3>1, <3>2, <3>3, Zenon DEF Queues
    <3>. QED  BY <3>3, <3>4, Zenon
  <2>. QED  BY <2>1, <2>2, Zenon
<1>. HIDE DEF P
<1>4. ASSUME NEW k \in Frame PROVE InQ(R, k) = InQ(Q, k) + Is(f, k)
  <2>. DEFINE a == Times(Q.release_fifo, k)  b == Is(Q.last_released, k)
              c == Is(Q.slots[0], k)  d == Is(f, k)
  <2>0. 0 \in 0 .. 3
    OBVIOUS
  <2>1. Times(R.release_fifo, k) = a + b /\ Is(R.last_released, k) = c /\ Is(R.slots[0], k) = d
    BY <1>2, <1>3, <2>0, Zenon
  <2>2. a \in Nat
    BY QueueFields, TimesNat, Zenon
  <2>3. b \in Nat /\ c \in Nat /\ d \in Nat
    BY DEF Is
  <2>. HIDE DEF a, b, c, d
  <2>4. (a + b) + c + d = (a + b + c) + d
    BY ONLY <2>2, <2>3
  <2>5. InQ(R, k) = (a + b) + c + d
    BY <2>1, Zenon DEF InQ
  <2>6. InQ(Q, k) = a + b + c
    BY Zenon DEF InQ, a, b, c
  <2>. QED  BY <2>4, <2>5, <2>6, Zenon DEF d
<1>. QED  BY <1>2, <1>3, <1>4, Zenon DEF Shown

\* What the manager refers to is alive in h.
ListsAlive(h, m) ==
  \A k \in Frame : /\ Times(m.ready_list, k) > 0 => h.ref[k] > 0
                   /\ k \in {m.pair[1], m.pair[2]} => h.ref[k] > 0

\* The heap g and the manager n after f was popped and a reference taken for the queue: the
\* reference of the ready list is handed on, the pair keeps its own.
Popped(g, n, h, m, f) ==
  /\ f \in Frame /\ g.next = h.next /\ n \in Managers /\ n.pair = m.pair
  /\ n.recycle_fifo = m.recycle_fifo /\ n.on = m.on /\ n.state = m.state
  /\ n.force_interlace = m.force_interlace
  /\ \A k \in Frame : g.ref[k] + Times(m.ready_list, k) = h.ref[k] + Times(n.ready_list, k) + Is(f, k)

\* The heaps g and h agree on the frames and their counts.
SameCount(g, h) == g.next = h.next /\ \A k \in Frame : g.ref[k] = h.ref[k]

\* refcount_inc followed by video_frame_put leaves the counts as they were.
LEMMA IncPut ==
    ASSUME NEW h, NEW e \in [Frame -> Nat], HeapSound(h, e), NEW f \in Frame, h.ref[f] > 0,
           NEW g, g = video_frame_put(refcount_inc(h, f), f)
    PROVE  HeapSound(g, e) /\ SameCount(g, h)
<1>. DEFINE p == refcount_inc(h, f)
            n == h.ref[f]
<1>1. HeapSound(p, e) /\ NewRef(p, h, f, h.ref[f] + 1)
  BY IncSound, Zenon
<1>2. n \in Nat
  BY HeapFields, Zenon DEF HeapSound
<1>3. p.ref[f] = n + 1 /\ p.next = h.next /\ \A k \in Frame \ {f} : p.ref[k] = h.ref[k]
  BY <1>1, Zenon DEF NewRef
<1>. HIDE DEF p
<1>4. p.ref[f] > 0 /\ p.ref[f] - 1 = n
  BY <1>2, <1>3
<1>5. g = video_frame_put(p, f)
  BY Zenon DEF p
<1>6. HeapSound(g, e) /\ NewRef(g, p, f, p.ref[f] - 1)
  BY <1>1, <1>4, <1>5, PutSound, Zenon
<1>7. g.ref[f] = p.ref[f] - 1 /\ g.next = p.next /\ \A k \in Frame \ {f} : g.ref[k] = p.ref[k]
  BY <1>6, Zenon DEF NewRef
<1>8. g.ref[f] = n
  BY <1>4, <1>7, Zenon
<1>9. ASSUME NEW k \in Frame PROVE g.ref[k] = h.ref[k]
  BY <1>3, <1>7, <1>8, Zenon
<1>. QED  BY <1>3, <1>6, <1>7, <1>9, Zenon DEF SameCount

\* dec_frame_pop, and the reference of the queue.
LEMMA PopSound ==
    ASSUME NEW h, NEW e \in [Frame -> Nat], HeapSound(h, e), NEW m \in Managers, NEW Q \in Queues,
           m.pair[1] = None <=> m.pair[2] = None, ListsAlive(h, m),
           NEW f, f = dec_frame_pop(m, Q), f # None,
           NEW g, g = video_frame_put(refcount_inc(PopHeap(h, m, f), f), f),
           NEW n, n = PopMgr(m)
    PROVE  HeapSound(g, e) /\ Popped(g, n, h, m, f)
<1>0. /\ m.ready_list \in Seq(Frame) /\ m.pair[1] \in FrameOrNone /\ m.pair[2] \in FrameOrNone
      /\ Q.soft_repeat_count \in {0, 1}
  BY MgrFields, QueueFields, Zenon
<1>1. ASSUME NEW k \in Frame PROVE h.ref[k] \in Nat /\ Times(m.ready_list, k) \in Nat
  BY <1>0, HeapFields, TimesNat, Zenon DEF HeapSound
<1>2. CASE PopPair(m)
  <2>1. f \in {m.pair[1], m.pair[2]} /\ f \in Frame
    <3>1. f = m.pair[Q.soft_repeat_count + 1] /\ m.pair[2] # None
      BY <1>2, Zenon DEF dec_frame_pop, PopPair
    <3>2. Q.soft_repeat_count + 1 = 1 \/ Q.soft_repeat_count + 1 = 2
      BY <1>0
    <3>. QED  BY <1>0, <3>1, <3>2, Zenon DEF FrameOrNone
  <2>2. h.ref[f] > 0
    BY <2>1, Zenon DEF ListsAlive
  <2>. DEFINE p == refcount_inc(h, f)
              r == h.ref[f]
  <2>3. HeapSound(p, e) /\ NewRef(p, h, f, h.ref[f] + 1)
    BY <2>1, <2>2, IncSound, Zenon
  <2>4. p.ref[f] = r + 1 /\ p.next = h.next /\ \A k \in Frame \ {f} : p.ref[k] = h.ref[k]
    BY <2>3, Zenon DEF NewRef
  <2>5. g = video_frame_put(refcount_inc(p, f), f) /\ n = m
    BY <1>2, Zenon DEF PopHeap, PopMgr
  <2>. HIDE DEF p
  <2>6. r \in Nat /\ p.ref[f] > 0
    <3>1. r \in Nat
      BY <1>1, <2>1, Zenon
    <3>. QED  BY <3>1, <2>4
  <2>7. HeapSound(g, e) /\ g.next = p.next /\ \A k \in Frame : g.ref[k] = p.ref[k]
    <3>1. HeapSound(g, e) /\ SameCount(g, p)
      BY <2>1, <2>3, <2>5, <2>6, IncPut, Zenon
    <3>. QED  BY <3>1, Zenon DEF SameCount
  <2>8. ASSUME NEW k \in Frame
        PROVE  g.ref[k] + Times(m.ready_list, k) = h.ref[k] + Times(n.ready_list, k) + Is(f, k)
    <3>. DEFINE a == Times(m.ready_list, k)
                b == h.ref[k]
    <3>1. a \in Nat /\ b \in Nat
      BY <1>1, Zenon
    <3>2. g.ref[k] = b + Is(f, k)
      <4>1. CASE k = f
        BY <2>4, <2>7, <4>1, Zenon DEF Is
      <4>2. CASE k # f
        <5>1. g.ref[k] = b /\ Is(f, k) = 0
          BY <2>4, <2>7, <4>2, Zenon DEF Is
        <5>. QED  BY <3>1, <5>1
      <4>. QED  BY <4>1, <4>2, Zenon
    <3>3. Is(f, k) \in Nat
      BY DEF Is
    <3>. HIDE DEF a, b
    <3>4. (b + Is(f, k)) + a = b + a + Is(f, k)
      BY ONLY <3>1, <3>3
    <3>. QED  BY <2>5, <3>2, <3>4, Zenon DEF a, b
  <2>. QED  BY <2>1, <2>4, <2>5, <2>7, <2>8, Zenon DEF Popped
<1>3. CASE ~PopPair(m)
  <2>1. m.ready_list # << >> /\ f = Head(m.ready_list)
    BY <1>3, Zenon DEF dec_frame_pop
  <2>2. /\ g = video_frame_put(refcount_inc(h, f), f)
        /\ n = [m EXCEPT !.ready_list = Tail(m.ready_list)]
    BY <1>3, <2>1, Zenon DEF PopHeap, PopMgr
  <2>3. f \in Frame /\ Tail(m.ready_list) \in Seq(Frame)
    <3>1. Head(m.ready_list) \in Frame /\ Tail(m.ready_list) \in Seq(Frame)
      BY <1>0, <2>1, DecdSeq, Zenon
    <3>. QED  BY <2>1, <3>1, Zenon
  <2>4. /\ n \in Managers /\ n.ready_list = Tail(m.ready_list) /\ n.pair = m.pair /\ n.on = m.on
        /\ n.recycle_fifo = m.recycle_fifo /\ n.state = m.state /\ n.force_interlace = m.force_interlace
    BY <2>2, <2>3, Zenon DEF Managers
  <2>5. ASSUME NEW k \in Frame
        PROVE  Times(n.ready_list, k) \in Nat /\ Times(m.ready_list, k) = Times(n.ready_list, k) + Is(f, k)
    <3>1. Times(m.ready_list, k) = Times(Tail(m.ready_list), k) + Is(Head(m.ready_list), k)
      BY <1>0, <2>1, TimesTail, Zenon
    <3>2. Times(Tail(m.ready_list), k) \in Nat
      BY <2>3, TimesNat, Zenon
    <3>. QED  BY <2>1, <2>4, <3>1, <3>2, Zenon
  <2>6. h.ref[f] > 0
    <3>1. Is(f, f) = 1 /\ Times(n.ready_list, f) \in Nat
          /\ Times(m.ready_list, f) = Times(n.ready_list, f) + Is(f, f)
      BY <2>3, <2>5, Zenon DEF Is
    <3>2. Times(m.ready_list, f) > 0
      BY ONLY <3>1
    <3>. QED  BY <2>3, <3>2, Zenon DEF ListsAlive
  <2>7. HeapSound(g, e) /\ g.next = h.next /\ \A k \in Frame : g.ref[k] = h.ref[k]
    <3>1. HeapSound(g, e) /\ SameCount(g, h)
      BY <2>2, <2>3, <2>6, IncPut, Zenon
    <3>. QED  BY <3>1, Zenon DEF SameCount
  <2>8. ASSUME NEW k \in Frame
        PROVE  g.ref[k] + Times(m.ready_list, k) = h.ref[k] + Times(n.ready_list, k) + Is(f, k)
    <3>. DEFINE a == Times(n.ready_list, k)
                b == h.ref[k]
                c == Is(f, k)
    <3>1. a \in Nat /\ b \in Nat /\ Times(m.ready_list, k) = a + c /\ g.ref[k] = b
      BY <1>1, <2>5, <2>7, Zenon
    <3>2. c \in Nat
      BY DEF Is
    <3>. HIDE DEF a, b, c
    <3>3. b + (a + c) = b + a + c
      BY ONLY <3>1, <3>2
    <3>. QED  BY <3>1, <3>3, Zenon DEF a, b, c
  <2>. QED  BY <2>3, <2>4, <2>7, <2>8, Zenon DEF Popped
<1>. QED  BY <1>2, <1>3, Zenon

\* The idle manager and the empty queue have their types.
LEMMA MgrTypes == NoMgr \in Managers /\ EmptyQueue \in Queues
<1>1. /\ 0 \in 0 .. 3 /\ 0 \in {0, 1} /\ << >> \in Seq(Frame) /\ None \in FrameOrNone
  BY DEF FrameOrNone
<1>2. <<None, None>> \in FrameOrNone \X FrameOrNone /\ [i \in 0 .. 3 |-> None] \in [0 .. 3 -> FrameOrNone]
  BY <1>1, Zenon
<1>3. NoMgr \in Managers
  BY <1>1, <1>2, Zenon DEF NoMgr, Managers
<1>4. EmptyQueue \in Queues
  BY <1>1, <1>2, Zenon DEF EmptyQueue, Queues
<1>. QED  BY <1>3, <1>4, Zenon

\* Every place a frame is referred to from keeps it alive.
LEMMA PlacesAlive ==
    ASSUME DecdTypes, HeapSound(heap, Submitting), FramesCounted, NEW k \in Frame
    PROVE  /\ heap.ref[k] \in Nat
           /\ heap.ref[k] >= Times(fmgr.ready_list, k) + Times(fmgr.pair, k) + Is(last_frame, k)
           /\ heap.ref[k] >= Times(q.release_fifo, k) + Times(ioctl.detached, k)
           /\ heap.ref[k] >= Is(q.slots[0], k) /\ heap.ref[k] >= Is(q.last_released, k)
           /\ heap.ref[k] >= used.lost[k]
<1>. DEFINE a == Times(fmgr.ready_list, k)  b == Times(fmgr.pair, k)
            c == Times(fmgr.recycle_fifo, k)  d == Times(ioctl.detached, k)
            e == Times(q.release_fifo, k)  l == Is(q.last_released, k)
            s == Is(q.slots[0], k)  x == Is(last_frame, k)  u == used.lost[k]
<1>1. a \in Nat /\ b \in Nat /\ c \in Nat /\ d \in Nat /\ e \in Nat /\ u \in Nat
  BY Places, Zenon
<1>2. l \in Nat /\ s \in Nat /\ x \in Nat
  BY DEF Is
<1>3. heap.ref[k] = Total(a, b, c, d, e, l, s, x, u)
  BY TotalIs, Zenon
<1>. HIDE DEF a, b, c, d, e, l, s, x, u
<1>. DEFINE r == Total(a, b, c, d, e, l, s, x, u)
<1>4. r \in Nat /\ r >= a + b + x /\ r >= e + d /\ r >= s /\ r >= l /\ r >= u
  BY ONLY <1>1, <1>2 DEF Total
<1>. QED  BY <1>3, <1>4, Zenon DEF a, b, d, e, l, s, x, u

\* What the manager refers to is alive, also without the reference of last_frame.
LEMMA ListsAre ==
    ASSUME DecdTypes, HeapSound(heap, Submitting), FramesCounted,
           NEW h, \A k \in Frame : h.ref[k] = heap.ref[k] - Is(last_frame, k) \/ h.ref[k] = heap.ref[k]
    PROVE  ListsAlive(h, fmgr)
<1>. SUFFICES ASSUME NEW k \in Frame
              PROVE  /\ Times(fmgr.ready_list, k) > 0 => h.ref[k] > 0
                     /\ k \in {fmgr.pair[1], fmgr.pair[2]} => h.ref[k] > 0
  BY Zenon DEF ListsAlive
<1>. DEFINE a == Times(fmgr.ready_list, k)
            b == Times(fmgr.pair, k)
            x == Is(last_frame, k)
            r == heap.ref[k]
<1>1. a \in Nat /\ b \in Nat /\ b = Is(fmgr.pair[1], k) + Is(fmgr.pair[2], k)
  BY Places, Zenon
<1>2. r \in Nat /\ r >= a + b + x
  BY PlacesAlive, Zenon
<1>3. x \in Nat
  BY DEF Is
<1>4. h.ref[k] = r - x \/ h.ref[k] = r
  OBVIOUS
<1>5. k \in {fmgr.pair[1], fmgr.pair[2]} => b > 0
  <2>1. k \in {fmgr.pair[1], fmgr.pair[2]} => Is(fmgr.pair[1], k) = 1 \/ Is(fmgr.pair[2], k) = 1
    BY Zenon DEF Is
  <2>2. Is(fmgr.pair[1], k) \in Nat /\ Is(fmgr.pair[2], k) \in Nat
    BY DEF Is
  <2>. HIDE DEF b
  <2>. QED  BY ONLY <1>1, <2>1, <2>2
<1>. HIDE DEF a, b, x, r
<1>6. a > 0 \/ b > 0 => h.ref[k] > 0
  BY ONLY <1>1, <1>2, <1>3, <1>4
<1>. QED  BY <1>5, <1>6, Zenon DEF a

\* The tasklet shows f: the queue gets one reference to it, from the ready list or new.
LEMMA ShowStep ==
    ASSUME DecdIInv, fmgr.on, ~q.dirty, fmgr.state # 0, NEW f \in Frame, Shown(q', q, f),
           HeapSound(heap', Submitting), heap'.next = heap.next, fmgr' \in Managers,
           fmgr'.pair = fmgr.pair, fmgr'.recycle_fifo = fmgr.recycle_fifo, fmgr'.on = fmgr.on,
           fmgr'.state = fmgr.state,
           \A k \in Frame : heap'.ref[k] + Times(fmgr.ready_list, k)
                              = heap.ref[k] + Times(fmgr'.ready_list, k) + Is(f, k),
           UNCHANGED <<last_frame, scan, ioctl, work, used>>
    PROVE  DecdIInv'
<1>0. /\ DecdTypes /\ HeapSound(heap, Submitting) /\ IoctlSound /\ Scanned /\ FramesCounted
      /\ ioctl \in Ioctls
  BY Zenon DEF DecdIInv, DecdTypes
<1>1. /\ q' \in Queues /\ q'.dirty /\ q'.last_released = q.slots[0] /\ \A i \in 0 .. 3 : q'.slots[i] = f
      /\ \A k \in Frame : InQ(q', k) = InQ(q, k) + Is(f, k)
  BY Zenon DEF Shown
<1>2. DecdTypes'
  BY <1>0, <1>1, Zenon DEF DecdTypes
<1>3. HeapSound(heap', Submitting')
  BY Zenon DEF Submitting
<1>4. IoctlSound'
  BY <1>0, SameIoctl, Zenon
<1>5. Scanned'
  <2>1. f # None /\ 0 \in 0 .. 3
    BY DEF Frame, None
  <2>. QED  BY <1>0, <1>1, <2>1, Zenon DEF Scanned
<1>6. FramesCounted'
  <2>. SUFFICES ASSUME NEW k \in Frame PROVE heap'.ref[k] = FrameRefs(k)'
    BY Zenon DEF FramesCounted
  <2>. DEFINE a == Times(fmgr.ready_list, k)  b == Times(fmgr.pair, k)
              c == Times(fmgr.recycle_fifo, k)  d == Times(ioctl.detached, k)
              y == InQ(q, k)  x == Is(last_frame, k)  u == used.lost[k]
              r == heap.ref[k]  g == Is(f, k)  n == Times(fmgr'.ready_list, k)
  <2>1. a \in Nat /\ b \in Nat /\ c \in Nat /\ d \in Nat /\ u \in Nat
    BY <1>0, Places, Zenon
  <2>2. y \in Nat
    <3>1. Times(q.release_fifo, k) \in Nat
      BY <1>0, Places, Zenon
    <3>2. Is(q.last_released, k) \in Nat /\ Is(q.slots[0], k) \in Nat
      BY DEF Is
    <3>. QED  BY <3>1, <3>2 DEF InQ
  <2>3. x \in Nat /\ g \in Nat
    BY DEF Is
  <2>4. n \in Nat
    BY MgrFields, TimesNat, Zenon
  <2>5. r = a + b + c + d + y + x + u
    BY <1>0, Zenon DEF FramesCounted, FrameRefs, InQueue, InQ
  <2>6. FrameRefs(k)' = n + b + c + d + (y + g) + x + u
    <3>1. FrameRefs(k)' = n + b + c + d + InQ(q', k) + x + u
      BY Zenon DEF FrameRefs, InQueue, InQ
    <3>. QED  BY <1>1, <3>1, Zenon
  <2>7. heap'.ref[k] + a = r + n + g /\ heap'.ref[k] \in Nat
    BY HeapFields, Zenon DEF HeapSound
  <2>. HIDE DEF a, b, c, d, y, x, u, r, g, n
  <2>8. heap'.ref[k] = n + b + c + d + (y + g) + x + u
    BY ONLY <2>1, <2>2, <2>3, <2>4, <2>5, <2>7
  <2>. QED  BY <2>6, <2>8, Zenon
<1>. QED  BY <1>2, <1>3, <1>4, <1>5, <1>6, Zenon DEF DecdIInv

\* The heap g counts one reference to f more than heap does, with s for the ready
\* list: what the list lost is handed on.
OneMore(g, s, f) ==
  /\ g.next = heap.next
  /\ \A k \in Frame : g.ref[k] + Times(fmgr.ready_list, k) = heap.ref[k] + Times(s, k) + Is(f, k)

\* refcount_inc on a frame that is alive adds the one reference that ShowStep accounts for.
LEMMA IncCounts ==
    ASSUME DecdTypes, HeapSound(heap, Submitting), NEW f \in Frame, heap.ref[f] > 0,
           NEW g, g = refcount_inc(heap, f), NEW s, s = fmgr.ready_list
    PROVE  HeapSound(g, Submitting) /\ OneMore(g, s, f)
<1>1. HeapSound(g, Submitting) /\ NewRef(g, heap, f, heap.ref[f] + 1)
  BY IncSound, Zenon
<1>2. /\ g.ref[f] = heap.ref[f] + 1 /\ g.next = heap.next
      /\ \A k \in Frame \ {f} : g.ref[k] = heap.ref[k]
  BY <1>1, Zenon DEF NewRef
<1>3. ASSUME NEW k \in Frame
      PROVE  g.ref[k] + Times(fmgr.ready_list, k) = heap.ref[k] + Times(s, k) + Is(f, k)
  <2>. DEFINE a == Times(fmgr.ready_list, k)
              r == heap.ref[k]
              x == Is(f, k)
  <2>1. a \in Nat /\ a = Times(s, k)
    BY Places, Zenon
  <2>2. r \in Nat
    BY HeapFields, Zenon DEF HeapSound
  <2>3. g.ref[k] = r + x /\ x \in Nat
    <3>1. CASE k = f
      BY <1>2, <3>1 DEF Is
    <3>2. CASE k # f
      <4>1. g.ref[k] = r /\ x = 0
        BY <1>2, <3>2, Zenon DEF Is
      <4>. QED  BY <2>2, <4>1
    <3>. QED  BY <3>1, <3>2, Zenon
  <2>. HIDE DEF a, r, x
  <2>4. (r + x) + a = r + a + x
    BY ONLY <2>1, <2>2, <2>3
  <2>. QED  BY <2>1, <2>3, <2>4, Zenon DEF a, r, x
<1>. QED  BY <1>1, <1>2, <1>3, Zenon DEF OneMore

\* The tasklet.
LEMMA RefreshSound ==
    ASSUME DecdIInv, dec_frame_queue_refresh
    PROVE  DecdIInv'
<1>0. /\ DecdTypes /\ HeapSound(heap, Submitting) /\ Scanned /\ FramesCounted
      /\ fmgr \in Managers /\ q \in Queues /\ fmgr.on
      /\ UNCHANGED <<last_frame, scan, ioctl, work, stuck, stray, used>>
  BY Zenon DEF DecdIInv, DecdTypes, dec_frame_queue_refresh
<1>1. /\ \A i \in 0 .. 3 : q.slots[i] = q.slots[0]
      /\ fmgr.state = 0 <=> q.slots[0] = None
      /\ fmgr.pair[1] = None <=> fmgr.pair[2] = None
  BY <1>0, Zenon DEF Scanned
<1>2. Submitting \in [Frame -> Nat]
  BY DEF Submitting, Is
<1>3. ASSUME RefreshNext, fmgr.state = 1, ~q.dirty PROVE DecdIInv'
  <2>. DEFINE f == dec_frame_pop(fmgr, q)
              n == PopMgr(fmgr)
  <2>0. fmgr.state # 0
    BY <1>3
  <2>1. CASE f # None
    <3>1. /\ q' = dec_frame_queue_enqueue(q, f)
          /\ heap' = video_frame_put(refcount_inc(PopHeap(heap, fmgr, f), f), f)
          /\ fmgr' = [n EXCEPT !.refresh_scheduled = FALSE]
      BY <1>3, <2>1, Zenon DEF RefreshNext
    <3>2. ListsAlive(heap, fmgr)
      BY <1>0, ListsAre, Zenon
    <3>3. f = dec_frame_pop(fmgr, q) /\ n = PopMgr(fmgr)
      BY Zenon
    <3>. HIDE DEF f, n
    <3>4. HeapSound(heap', Submitting) /\ Popped(heap', n, heap, fmgr, f)
      BY <1>0, <1>1, <1>2, <2>1, <3>1, <3>2, <3>3, PopSound, Zenon
    <3>5. /\ f \in Frame /\ heap'.next = heap.next /\ n \in Managers /\ n.pair = fmgr.pair
          /\ n.recycle_fifo = fmgr.recycle_fifo /\ n.on = fmgr.on /\ n.state = fmgr.state
          /\ \A k \in Frame : heap'.ref[k] + Times(fmgr.ready_list, k)
                                = heap.ref[k] + Times(n.ready_list, k) + Is(f, k)
      BY <3>4, Zenon DEF Popped
    <3>6. /\ fmgr' \in Managers /\ fmgr'.ready_list = n.ready_list /\ fmgr'.pair = n.pair
          /\ fmgr'.recycle_fifo = n.recycle_fifo /\ fmgr'.on = n.on /\ fmgr'.state = n.state
      BY <3>1, <3>5, Zenon DEF Managers
    <3>7. Shown(q', q, f)
      <4>1. f \in FrameOrNone
        BY <3>5, Zenon DEF FrameOrNone
      <4>. QED  BY <1>0, <1>1, <3>1, <4>1, EnqueueShows, Zenon
    <3>. QED  BY <1>0, <1>3, <2>0, <3>4, <3>5, <3>6, <3>7, ShowStep, Zenon
  <2>2. CASE f = None
    <3>. DEFINE z == q.slots[0]
    <3>1. /\ q' = dec_frame_queue_repeat(q) /\ heap' = refcount_inc(heap, z)
          /\ fmgr' = [fmgr EXCEPT !.force_interlace = 1, !.refresh_scheduled = FALSE]
      BY <1>3, <2>2, Zenon DEF RefreshNext
    <3>2. z \in Frame /\ z \in FrameOrNone
      BY <1>0, <1>1, <2>0, QueueFields, Zenon DEF FrameOrNone
    <3>3. heap.ref[z] > 0
      <4>1. Is(q.slots[0], z) = 1
        BY Zenon DEF Is
      <4>2. heap.ref[z] \in Nat /\ heap.ref[z] >= Is(q.slots[0], z)
        BY <1>0, <3>2, PlacesAlive, Zenon
      <4>. QED  BY ONLY <4>1, <4>2
    <3>4. /\ fmgr' \in Managers /\ fmgr'.ready_list = fmgr.ready_list /\ fmgr'.pair = fmgr.pair
          /\ fmgr'.recycle_fifo = fmgr.recycle_fifo /\ fmgr'.on = fmgr.on /\ fmgr'.state = fmgr.state
      <4>1. 1 \in {0, 1}
        OBVIOUS
      <4>. QED  BY <1>0, <3>1, <4>1, Zenon DEF Managers
    <3>5. z = q.slots[0]
      BY Zenon
    <3>. HIDE DEF z, f, n
    <3>6. Shown(q', q, z)
      BY <1>0, <1>1, <3>1, <3>2, <3>5, EnqueueShows, Zenon
    <3>7. /\ HeapSound(heap', Submitting) /\ heap'.next = heap.next
          /\ \A k \in Frame : heap'.ref[k] + Times(fmgr.ready_list, k)
                                = heap.ref[k] + Times(fmgr'.ready_list, k) + Is(z, k)
      <4>1. HeapSound(heap', Submitting) /\ OneMore(heap', fmgr'.ready_list, z)
        BY <1>0, <3>1, <3>2, <3>3, <3>4, IncCounts, Zenon
      <4>. QED  BY <4>1, Zenon DEF OneMore
    <3>. QED  BY <1>0, <1>3, <2>0, <3>2, <3>4, <3>6, <3>7, ShowStep, Zenon
  <2>. QED  BY <2>1, <2>2, Zenon
<1>4. ASSUME RefreshPair, fmgr.state = 1, ~q.dirty, fmgr.pair[1] # None PROVE DecdIInv'
  <2>. DEFINE t == 1 - q.toggle
              f == fmgr.pair[t + 1]
              Q == [q EXCEPT !.toggle = t]
  <2>0. fmgr.state # 0
    BY <1>4
  <2>1. /\ q' = dec_frame_queue_enqueue(Q, f) /\ heap' = refcount_inc(heap, f)
        /\ fmgr' = [fmgr EXCEPT !.refresh_scheduled = FALSE]
    BY <1>4, Zenon DEF RefreshPair
  <2>2. t \in {0, 1} /\ (t + 1 = 1 \/ t + 1 = 2)
    <3>1. q.toggle \in {0, 1}
      BY <1>0, QueueFields, Zenon
    <3>. QED  BY <3>1
  <2>3. f \in Frame /\ f \in FrameOrNone /\ f \in {fmgr.pair[1], fmgr.pair[2]}
    BY <1>0, <1>1, <1>4, <2>2, MgrFields, Zenon DEF FrameOrNone
  <2>4. heap.ref[f] > 0
    <3>1. ListsAlive(heap, fmgr)
      BY <1>0, ListsAre, Zenon
    <3>. QED  BY <2>3, <3>1, Zenon DEF ListsAlive
  <2>5. /\ fmgr' \in Managers /\ fmgr'.ready_list = fmgr.ready_list /\ fmgr'.pair = fmgr.pair
        /\ fmgr'.recycle_fifo = fmgr.recycle_fifo /\ fmgr'.on = fmgr.on /\ fmgr'.state = fmgr.state
    BY <1>0, <2>1, Zenon DEF Managers
  <2>. HIDE DEF f
  <2>6. Shown(q', q, f)
    <3>. HIDE DEF t
    <3>1. /\ Q \in Queues /\ Q.slots = q.slots /\ Q.last_released = q.last_released
          /\ Q.release_fifo = q.release_fifo
      BY <1>0, <2>2, Zenon DEF Queues
    <3>. HIDE DEF Q
    <3>2. \A i \in 0 .. 3 : Q.slots[i] = Q.slots[0]
      BY <1>1, <3>1, Zenon
    <3>3. Shown(q', Q, f)
      BY <2>1, <2>3, <3>1, <3>2, EnqueueShows, Zenon
    <3>. QED  BY <3>1, <3>3, Zenon DEF Shown, InQ
  <2>7. /\ HeapSound(heap', Submitting) /\ heap'.next = heap.next
        /\ \A k \in Frame : heap'.ref[k] + Times(fmgr.ready_list, k)
                              = heap.ref[k] + Times(fmgr'.ready_list, k) + Is(f, k)
    <3>1. HeapSound(heap', Submitting) /\ OneMore(heap', fmgr'.ready_list, f)
      BY <1>0, <2>1, <2>3, <2>4, <2>5, IncCounts, Zenon
    <3>. QED  BY <3>1, Zenon DEF OneMore
  <2>. QED  BY <1>0, <1>4, <2>0, <2>3, <2>5, <2>6, <2>7, ShowStep, Zenon
<1>5. ASSUME RefreshOther PROVE DecdIInv'
  BY <1>0, <1>5, QuietActions, Zenon
<1>. QED  BY <1>3, <1>4, <1>5, Zenon DEF dec_frame_queue_refresh

\* In g the reference of x, if it is a frame, was given back.
Gives(g, h, x) == g.next = h.next /\ \A k \in Frame : g.ref[k] = h.ref[k] - Is(x, k)

\* video_frame_put on a frame that is alive, or on none.
LEMMA PutMaybe ==
    ASSUME NEW h, NEW e \in [Frame -> Nat], HeapSound(h, e), NEW x \in FrameOrNone,
           x # None => h.ref[x] > 0, NEW g, g = video_frame_put(h, x)
    PROVE  HeapSound(g, e) /\ Gives(g, h, x)
<1>0. \A k \in Frame : h.ref[k] \in Nat /\ k # None
  <2>1. \A k \in Frame : h.ref[k] \in Nat
    BY HeapFields, Zenon DEF HeapSound
  <2>2. \A k \in Frame : k # None
    BY DEF Frame, None
  <2>. QED  BY <2>1, <2>2, Zenon
<1>1. CASE x = None
  <2>1. g = h
    BY <1>1, Zenon DEF video_frame_put
  <2>2. ASSUME NEW k \in Frame PROVE h.ref[k] = h.ref[k] - Is(x, k)
    <3>1. Is(x, k) = 0 /\ h.ref[k] \in Nat
      BY <1>0, <1>1, Zenon DEF Is
    <3>. QED  BY ONLY <3>1
  <2>. QED  BY <2>1, <2>2, Zenon DEF Gives
<1>2. CASE x # None
  <2>1. x \in Frame /\ h.ref[x] > 0
    BY <1>2, Zenon DEF FrameOrNone
  <2>2. HeapSound(g, e) /\ NewRef(g, h, x, h.ref[x] - 1)
    BY <2>1, PutSound, Zenon
  <2>3. g.ref[x] = h.ref[x] - 1 /\ g.next = h.next /\ \A k \in Frame \ {x} : g.ref[k] = h.ref[k]
    BY <2>2, Zenon DEF NewRef
  <2>4. ASSUME NEW k \in Frame PROVE g.ref[k] = h.ref[k] - Is(x, k)
    <3>1. CASE k = x
      BY <2>3, <3>1, Zenon DEF Is
    <3>2. CASE k # x
      <4>1. g.ref[k] = h.ref[k] /\ Is(x, k) = 0 /\ h.ref[k] \in Nat
        BY <1>0, <2>3, <3>2, Zenon DEF Is
      <4>. QED  BY ONLY <4>1
    <3>. QED  BY <3>1, <3>2, Zenon
  <2>. QED  BY <2>2, <2>3, <2>4, Zenon DEF Gives
<1>. QED  BY <1>1, <1>2, Zenon

\* dec_frame_queue_resume hands over to the rest of the submission.
LEMMA ResumeIoctl ==
    ASSUME DecdIInv, ioctl.op = "resume", ioctl' = [ioctl EXCEPT !.op = "submit"],
           heap'.next = heap.next, fmgr'.on = fmgr.on
    PROVE  /\ IoctlSound' /\ ioctl' \in Ioctls /\ ioctl'.item = ioctl.item
           /\ ioctl'.detached = ioctl.detached /\ fmgr.on
<1>0. IoctlSound /\ ioctl \in Ioctls
  BY Zenon DEF DecdIInv, DecdTypes
<1>1. /\ "submit" \in {"none", "submit", "resume", "stop", "disable", "exit"} /\ "submit" # "none"
      /\ "submit" # "exit" /\ "resume" # "exit" /\ "resume" # "none" /\ "resume" # "submit"
      /\ "submit" \in {"submit", "resume"}
  OBVIOUS
<1>2. /\ ioctl' \in Ioctls /\ ioctl'.op = "submit" /\ ioctl'.item = ioctl.item
      /\ ioctl'.left = ioctl.left /\ ioctl'.detached = ioctl.detached
  BY <1>0, <1>1, Zenon DEF Ioctls
<1>3. fmgr.on /\ ioctl.detached = << >>
  BY <1>0, <1>1, Zenon DEF IoctlSound
<1>4. /\ ioctl.item # None => heap.next + ioctl.left <= MaxFrames + 1 /\ ioctl.item < heap.next
      /\ ioctl.left > 0 => ioctl.item # None
  BY <1>0, <1>1, Zenon DEF IoctlSound
<1>5. IoctlSound'
  BY <1>1, <1>2, <1>3, <1>4, Zenon DEF IoctlSound
<1>. QED  BY <1>2, <1>3, <1>5, Zenon

\* The first frame after the queue was idle: last_frame is put, slot 0 was empty.
LEMMA ResumeFirstSound ==
    ASSUME DecdIInv, ioctl.op = "resume", ioctl' = [ioctl EXCEPT !.op = "submit"],
           fmgr.state = 0, ~q.dirty, ResumeFirst, UNCHANGED <<scan, work, used>>
    PROVE  DecdIInv'
<1>. DEFINE h == video_frame_put(heap, last_frame)
            f == dec_frame_pop(fmgr, q)
            n == PopMgr(fmgr)
<1>0. /\ DecdTypes /\ HeapSound(heap, Submitting) /\ Scanned /\ FramesCounted /\ last_frame' = None
      /\ fmgr \in Managers /\ q \in Queues /\ last_frame \in FrameOrNone /\ scan \subseteq Frame
  BY Zenon DEF DecdIInv, DecdTypes, ResumeFirst
<1>1. /\ \A i \in 0 .. 3 : q.slots[i] = q.slots[0]
      /\ q.slots[0] = None
      /\ fmgr.pair[1] = None <=> fmgr.pair[2] = None
  BY <1>0, Zenon DEF Scanned
<1>2. Submitting \in [Frame -> Nat] /\ None \in FrameOrNone /\ \A k \in Frame : k # None
  BY DEF Submitting, Is, FrameOrNone, Frame, None
<1>3. HeapSound(h, Submitting) /\ h.next = heap.next /\ \A k \in Frame : h.ref[k] = heap.ref[k] - Is(last_frame, k)
  <2>1. last_frame # None => heap.ref[last_frame] > 0
    <3>. SUFFICES ASSUME last_frame # None PROVE heap.ref[last_frame] > 0
      OBVIOUS
    <3>. DEFINE a == Times(fmgr.ready_list, last_frame)
                b == Times(fmgr.pair, last_frame)
    <3>1. last_frame \in Frame /\ Is(last_frame, last_frame) = 1
      BY <1>0, Zenon DEF FrameOrNone, Is
    <3>2. a \in Nat /\ b \in Nat
      BY <1>0, <3>1, Places, Zenon
    <3>3. heap.ref[last_frame] \in Nat /\ heap.ref[last_frame] >= a + b + Is(last_frame, last_frame)
      BY <1>0, <3>1, PlacesAlive, Zenon
    <3>. HIDE DEF a, b
    <3>. QED  BY ONLY <3>1, <3>2, <3>3
  <2>2. h = video_frame_put(heap, last_frame)
    BY Zenon
  <2>. HIDE DEF h
  <2>3. HeapSound(h, Submitting) /\ Gives(h, heap, last_frame)
    BY <1>0, <1>2, <2>1, <2>2, PutMaybe, Zenon
  <2>. QED  BY <2>3, Zenon DEF Gives
<1>4. fmgr.on
  <2>1. IoctlSound /\ "resume" # "none" /\ "resume" # "exit"
    BY Zenon DEF DecdIInv
  <2>. QED  BY <2>1, Zenon DEF IoctlSound
<1>5. scan = {}
  <2>1. \A z \in scan : z = q.slots[0]
    BY <1>0, <1>4, Zenon DEF Scanned
  <2>. QED  BY <1>0, <1>1, <1>2, <2>1, Zenon
<1>6. ASSUME NEW z \in FrameOrNone, HeapSound(heap', Submitting), heap'.next = heap.next,
             fmgr' \in Managers, fmgr'.pair = fmgr.pair, fmgr'.recycle_fifo = fmgr.recycle_fifo,
             fmgr'.on = fmgr.on, fmgr'.state = 0 <=> z = None,
             q' \in Queues, \A i \in 0 .. 3 : q'.slots[i] = z, q'.last_released = q.last_released,
             q'.release_fifo = q.release_fifo,
             \A k \in Frame : heap'.ref[k] + Times(fmgr.ready_list, k)
                                = h.ref[k] + Times(fmgr'.ready_list, k) + Is(z, k)
      PROVE  DecdIInv'
  <2>1. IoctlSound' /\ ioctl' \in Ioctls /\ ioctl'.item = ioctl.item /\ ioctl'.detached = ioctl.detached
    BY <1>6, ResumeIoctl, Zenon
  <2>2. DecdTypes'
    BY <1>0, <1>2, <1>6, <2>1, Zenon DEF DecdTypes
  <2>3. HeapSound(heap', Submitting')
    BY <1>6, <2>1, Zenon DEF Submitting
  <2>4. Scanned'
    <3>1. 0 \in 0 .. 3
      OBVIOUS
    <3>. QED  BY <1>0, <1>1, <1>4, <1>5, <1>6, <3>1, Zenon DEF Scanned
  <2>5. FramesCounted'
    <3>. SUFFICES ASSUME NEW k \in Frame PROVE heap'.ref[k] = FrameRefs(k)'
      BY Zenon DEF FramesCounted
    <3>. DEFINE a == Times(fmgr.ready_list, k)  b == Times(fmgr.pair, k)
                c == Times(fmgr.recycle_fifo, k)  d == Times(ioctl.detached, k)
                e == Times(q.release_fifo, k)  l == Is(q.last_released, k)
                x == Is(last_frame, k)  u == used.lost[k]
                g == Is(z, k)  m == Times(fmgr'.ready_list, k)
    <3>1. a \in Nat /\ b \in Nat /\ c \in Nat /\ d \in Nat /\ e \in Nat /\ u \in Nat
      BY <1>0, Places, Zenon
    <3>2. l \in Nat /\ x \in Nat /\ g \in Nat
      BY DEF Is
    <3>3. m \in Nat
      BY <1>6, MgrFields, TimesNat, Zenon
    <3>4. Is(q.slots[0], k) = 0 /\ Is(last_frame', k) = 0 /\ Is(q'.slots[0], k) = g
      <4>1. 0 \in 0 .. 3
        OBVIOUS
      <4>. QED  BY <1>0, <1>1, <1>2, <1>6, <4>1, Zenon DEF Is
    <3>5. heap.ref[k] = Total(a, b, c, d, e, l, 0, x, u)
      BY <1>0, <3>4, TotalIs, Zenon
    <3>6. FrameRefs(k)' = Total(m, b, c, d, e, l, g, 0, u)
      BY <1>0, <1>6, <2>1, <3>4, TotalIs, Zenon
    <3>7. heap'.ref[k] + a = (heap.ref[k] - x) + m + g /\ heap'.ref[k] \in Nat
      BY <1>3, <1>6, HeapFields, Zenon DEF HeapSound
    <3>. HIDE DEF a, b, c, d, e, l, x, u, g, m
    <3>8. heap'.ref[k] = Total(m, b, c, d, e, l, g, 0, u)
      BY ONLY <3>1, <3>2, <3>3, <3>5, <3>7 DEF Total
    <3>. QED  BY <3>6, <3>8, Zenon
  <2>. QED  BY <2>1, <2>2, <2>3, <2>4, <2>5, Zenon DEF DecdIInv
<1>7. CASE f = None
  <2>1. heap' = h /\ UNCHANGED <<fmgr, q>>
    BY <1>7, Zenon DEF ResumeFirst
  <2>2. ASSUME NEW k \in Frame
        PROVE  heap'.ref[k] + Times(fmgr.ready_list, k) = h.ref[k] + Times(fmgr'.ready_list, k) + Is(None, k)
    <3>1. Is(None, k) = 0 /\ Times(fmgr.ready_list, k) \in Nat /\ h.ref[k] \in Nat
      BY <1>0, <1>2, <1>3, Places, HeapFields, ZenonT(30) DEF Is, HeapSound
    <3>2. h.ref[k] + Times(fmgr.ready_list, k) = h.ref[k] + Times(fmgr.ready_list, k) + 0
      <4>. DEFINE a == Times(fmgr.ready_list, k)
                  b == h.ref[k]
      <4>1. a \in Nat /\ b \in Nat
        BY <3>1, Zenon
      <4>. HIDE DEF a, b
      <4>2. b + a = b + a + 0
        BY ONLY <4>1
      <4>. QED  BY <4>2, Zenon DEF a, b
    <3>. QED  BY <2>1, <3>1, <3>2, Zenon
  <2>3. HeapSound(heap', Submitting) /\ heap'.next = heap.next
    BY <1>3, <2>1, Zenon
  <2>. HIDE DEF h, f, n
  <2>4. \A i \in 0 .. 3 : q'.slots[i] = None
    BY <1>1, <2>1, Zenon
  <2>. QED  BY <1>0, <1>2, <1>6, <2>1, <2>2, <2>3, <2>4, Zenon
<1>8. CASE f # None
  <2>. DEFINE s == [i \in 0 .. 3 |-> f]
  <2>1. /\ heap' = video_frame_put(refcount_inc(PopHeap(h, fmgr, f), f), f)
        /\ fmgr' = [n EXCEPT !.type = n.force_interlace, !.state = 1]
        /\ q' = [[q EXCEPT !.slots = s] EXCEPT !.toggle = 0, !.dirty = TRUE, !.soft_repeat_count = 0]
    BY <1>8, Zenon DEF ResumeFirst, AllSlots
  <2>2. ListsAlive(h, fmgr)
    <3>. HIDE DEF h
    <3>. QED  BY <1>0, <1>3, ListsAre, Zenon
  <2>3. f = dec_frame_pop(fmgr, q) /\ n = PopMgr(fmgr)
    BY Zenon
  <2>. HIDE DEF f, n, h
  <2>4. HeapSound(heap', Submitting) /\ Popped(heap', n, h, fmgr, f)
    BY <1>0, <1>1, <1>2, <1>3, <1>8, <2>1, <2>2, <2>3, PopSound, Zenon
  <2>5. /\ f \in Frame /\ heap'.next = h.next /\ n \in Managers /\ n.pair = fmgr.pair
        /\ n.recycle_fifo = fmgr.recycle_fifo /\ n.on = fmgr.on
        /\ \A k \in Frame : heap'.ref[k] + Times(fmgr.ready_list, k)
                              = h.ref[k] + Times(n.ready_list, k) + Is(f, k)
    BY <2>4, Zenon DEF Popped
  <2>6. /\ fmgr' \in Managers /\ fmgr'.ready_list = n.ready_list /\ fmgr'.pair = n.pair
        /\ fmgr'.recycle_fifo = n.recycle_fifo /\ fmgr'.on = n.on /\ fmgr'.state = 1
    <3>1. 1 \in 0 .. 3 /\ n.force_interlace \in {0, 1}
      <4>1. 1 \in 0 .. 3
        OBVIOUS
      <4>. QED  BY <2>5, <4>1, MgrFields, Zenon
    <3>. QED  BY <2>1, <2>5, <3>1, Zenon DEF Managers
  <2>7. f \in FrameOrNone /\ f # None /\ 1 # 0
    BY <1>2, <2>5 DEF FrameOrNone
  <2>8. s \in [0 .. 3 -> FrameOrNone] /\ \A i \in 0 .. 3 : s[i] = f
    BY <2>7, Zenon
  <2>. HIDE DEF s
  <2>9. /\ q' \in Queues /\ q'.slots = s /\ q'.last_released = q.last_released
        /\ q'.release_fifo = q.release_fifo
    <3>. DEFINE X == [q EXCEPT !.slots = s]
    <3>1. X \in Queues /\ X.slots = s /\ X.last_released = q.last_released /\ X.release_fifo = q.release_fifo
      BY <1>0, <2>8, Zenon DEF Queues
    <3>2. q' = [X EXCEPT !.toggle = 0, !.dirty = TRUE, !.soft_repeat_count = 0]
      BY <2>1, Zenon
    <3>. HIDE DEF X
    <3>3. /\ q' \in Queues /\ q'.slots = X.slots /\ q'.last_released = X.last_released
          /\ q'.release_fifo = X.release_fifo
      <4>1. 0 \in {0, 1}
        OBVIOUS
      <4>. QED  BY <3>1, <3>2, <4>1, Zenon DEF Queues
    <3>. QED  BY <3>1, <3>3, Zenon
  <2>10. /\ \A i \in 0 .. 3 : q'.slots[i] = f
         /\ fmgr'.state = 0 <=> f = None
         /\ heap'.next = heap.next
    BY <1>3, <2>5, <2>6, <2>7, <2>8, <2>9, Zenon
  <2>. QED  BY <1>6, <2>4, <2>5, <2>6, <2>7, <2>9, <2>10, Zenon
<1>. QED  BY <1>7, <1>8, Zenon

\* dec_frame_queue_resume.
LEMMA ResumeSound ==
    ASSUME DecdIInv, dec_frame_queue_resume
    PROVE  DecdIInv'
<1>0. /\ fmgr \in Managers /\ fmgr.state \in 0 .. 3 /\ ioctl.op = "resume" /\ work \in Works
      /\ ioctl' = [ioctl EXCEPT !.op = "submit"] /\ UNCHANGED <<scan, work, used>>
  BY MgrFields, Zenon DEF DecdIInv, DecdTypes, dec_frame_queue_resume, Works
<1>1. ASSUME SameLists(fmgr', fmgr), UNCHANGED <<q, heap, last_frame>> PROVE DecdIInv'
  <2>1. fmgr'.on = fmgr.on
    BY <1>1, Zenon DEF SameLists
  <2>2. /\ IoctlSound' /\ ioctl' \in Ioctls /\ ioctl'.item = ioctl.item
        /\ ioctl'.detached = ioctl.detached /\ fmgr.on
    BY <1>0, <1>1, <2>1, ResumeIoctl, Zenon
  <2>. QED  BY <1>0, <1>1, <2>2, QuietStep, Zenon
<1>2. CASE fmgr.state # 0
  <2>. DEFINE s == IF fmgr.state = 2 THEN 1 ELSE fmgr.state
  <2>1. s \in 0 .. 3 /\ (s = 0 <=> fmgr.state = 0)
    BY <1>0
  <2>2. fmgr' = [fmgr EXCEPT !.state = s] /\ UNCHANGED <<q, heap, last_frame>>
    BY <1>2, Zenon DEF dec_frame_queue_resume
  <2>. HIDE DEF s
  <2>3. SameLists(fmgr', fmgr)
    BY <1>0, <2>1, <2>2, MgrSet, Zenon
  <2>. QED  BY <1>1, <2>2, <2>3, Zenon
<1>3. CASE fmgr.state = 0
  <2>1. CASE q.dirty
    <3>1. UNCHANGED <<fmgr, q, heap, last_frame>>
      BY <1>3, <2>1, Zenon DEF dec_frame_queue_resume
    <3>. QED  BY <1>0, <1>1, <3>1, MgrSet, Zenon
  <2>2. CASE ~q.dirty
    <3>1. ResumeFirst
      BY <1>3, <2>2, Zenon DEF dec_frame_queue_resume
    <3>. QED  BY <1>0, <1>3, <2>2, <3>1, ResumeFirstSound, Zenon
  <2>. QED  BY <2>1, <2>2, Zenon
<1>. QED  BY <1>2, <1>3, Zenon

\* The queue R is Q without the head of its release FIFO.
Drained(R, Q) ==
  /\ R \in Queues /\ R.dirty = Q.dirty /\ R.slots = Q.slots /\ R.last_released = Q.last_released
  /\ Head(Q.release_fifo) \in Frame
  /\ \A k \in Frame : /\ Times(R.release_fifo, k) \in Nat
                      /\ Times(Q.release_fifo, k) = Times(R.release_fifo, k) + Is(Head(Q.release_fifo), k)

\* The work item takes the head of the release FIFO.
LEMMA DrainFields ==
    ASSUME NEW Q \in Queues, Q.release_fifo # << >>,
           NEW R, R = [Q EXCEPT !.release_fifo = Tail(Q.release_fifo)]
    PROVE  Drained(R, Q)
<1>. DEFINE s == Q.release_fifo
<1>1. s \in Seq(Frame) /\ s # << >>
  BY QueueFields, Zenon
<1>2. Head(s) \in Frame /\ Tail(s) \in Seq(Frame)
  BY <1>1, DecdSeq, Zenon
<1>3. /\ R \in Queues /\ R.dirty = Q.dirty /\ R.slots = Q.slots /\ R.last_released = Q.last_released
      /\ R.release_fifo = Tail(s)
  BY <1>2, Zenon DEF Queues
<1>. HIDE DEF s
<1>4. ASSUME NEW k \in Frame
      PROVE  Times(Tail(s), k) \in Nat /\ Times(s, k) = Times(Tail(s), k) + Is(Head(s), k)
  BY <1>1, <1>2, TimesNat, TimesTail, Zenon
<1>. QED  BY <1>2, <1>3, <1>4, Zenon DEF Drained, s

\* One turn of the release loop, or its end.
LEMMA ReleaseProcessSound ==
    ASSUME DecdIInv, dec_frame_release_process
    PROVE  DecdIInv'
<1>0. /\ DecdTypes /\ HeapSound(heap, Submitting) /\ IoctlSound /\ Scanned /\ FramesCounted
      /\ fmgr \in Managers /\ q \in Queues /\ ioctl \in Ioctls /\ work \in Works /\ fmgr.on
      /\ UNCHANGED <<fmgr, last_frame, scan, ioctl, used>>
  BY Zenon DEF DecdIInv, DecdTypes, dec_frame_release_process, Works
<1>1. CASE ~(Len(q.release_fifo) > 1)
  <2>1. UNCHANGED <<heap, q>> /\ work' \in Works
    BY <1>1, Zenon DEF dec_frame_release_process, Works
  <2>2. IoctlSound' /\ ioctl' \in Ioctls
    BY <1>0, <2>1, SameIoctl, Zenon
  <2>. QED  BY <1>0, <2>1, <2>2, MgrSet, QuietStep, Zenon
<1>2. CASE Len(q.release_fifo) > 1
  <2>. DEFINE x == Head(q.release_fifo)
  <2>1. /\ heap' = video_frame_put(heap, x) /\ UNCHANGED work
        /\ q' = [q EXCEPT !.release_fifo = Tail(q.release_fifo)]
    BY <1>2, Zenon DEF dec_frame_release_process
  <2>2. q.release_fifo # << >>
    BY <1>2
  <2>3. Drained(q', q)
    BY <1>0, <2>1, <2>2, DrainFields, Zenon
  <2>4. /\ q' \in Queues /\ q'.dirty = q.dirty /\ q'.slots = q.slots /\ x \in Frame
        /\ q'.last_released = q.last_released
        /\ \A k \in Frame : /\ Times(q'.release_fifo, k) \in Nat
                            /\ Times(q.release_fifo, k) = Times(q'.release_fifo, k) + Is(x, k)
    BY <2>3, Zenon DEF Drained
  <2>. HIDE DEF x
  <2>5. heap.ref[x] > 0
    <3>. DEFINE a == Times(q'.release_fifo, x)
                d == Times(ioctl.detached, x)
    <3>1. Is(x, x) = 1 /\ a \in Nat /\ Times(q.release_fifo, x) = a + Is(x, x)
      BY <2>4, Zenon DEF Is
    <3>2. heap.ref[x] \in Nat /\ heap.ref[x] >= Times(q.release_fifo, x) + d /\ d \in Nat
      BY <1>0, <2>4, PlacesAlive, Places, Zenon
    <3>. HIDE DEF a, d
    <3>. QED  BY ONLY <3>1, <3>2
  <2>6. HeapSound(heap', Submitting) /\ heap'.next = heap.next
        /\ \A k \in Frame : heap'.ref[k] = heap.ref[k] - Is(x, k)
    <3>1. x \in FrameOrNone /\ Submitting \in [Frame -> Nat]
      BY <2>4 DEF FrameOrNone, Submitting, Is
    <3>2. HeapSound(heap', Submitting) /\ Gives(heap', heap, x)
      BY <1>0, <2>1, <2>5, <3>1, PutMaybe, Zenon
    <3>. QED  BY <3>2, Zenon DEF Gives
  <2>7. IoctlSound'
    BY <1>0, <2>6, SameIoctl, Zenon
  <2>8. DecdTypes'
    BY <1>0, <2>1, <2>4, Zenon DEF DecdTypes
  <2>9. HeapSound(heap', Submitting')
    BY <1>0, <2>6, Zenon DEF Submitting
  <2>10. Scanned'
    BY <1>0, <2>4, Zenon DEF Scanned
  <2>11. FramesCounted'
    <3>. SUFFICES ASSUME NEW k \in Frame PROVE heap'.ref[k] = FrameRefs(k)'
      BY Zenon DEF FramesCounted
    <3>. DEFINE a == Times(fmgr.ready_list, k)  b == Times(fmgr.pair, k)
                c == Times(fmgr.recycle_fifo, k)  d == Times(ioctl.detached, k)
                e == Times(q'.release_fifo, k)  l == Is(q.last_released, k)
                s == Is(q.slots[0], k)  y == Is(last_frame, k)  u == used.lost[k]
                g == Is(x, k)
    <3>1. a \in Nat /\ b \in Nat /\ c \in Nat /\ d \in Nat /\ u \in Nat
      BY <1>0, Places, Zenon
    <3>2. l \in Nat /\ s \in Nat /\ y \in Nat /\ g \in Nat
      BY DEF Is
    <3>3. e \in Nat /\ Times(q.release_fifo, k) = e + g
      BY <2>4, Zenon
    <3>4. heap.ref[k] = Total(a, b, c, d, e + g, l, s, y, u)
      BY <1>0, <3>3, TotalIs, Zenon
    <3>5. FrameRefs(k)' = Total(a, b, c, d, e, l, s, y, u)
      BY <1>0, <2>4, TotalIs, Zenon
    <3>6. heap'.ref[k] = heap.ref[k] - g
      BY <2>6, Zenon
    <3>. HIDE DEF a, b, c, d, e, l, s, y, u, g
    <3>7. heap'.ref[k] = Total(a, b, c, d, e, l, s, y, u)
      BY ONLY <3>1, <3>2, <3>3, <3>4, <3>6 DEF Total
    <3>. QED  BY <3>5, <3>7, Zenon
  <2>. QED  BY <2>7, <2>8, <2>9, <2>10, <2>11, Zenon DEF DecdIInv
<1>. QED  BY <1>1, <1>2, Zenon

\* The last frame of the FIFO becomes last_frame; what was there is lost.
LEMMA ReleaseLastSound ==
    ASSUME DecdIInv, ReleaseLast
    PROVE  DecdIInv'
<1>0. /\ DecdTypes /\ HeapSound(heap, Submitting) /\ IoctlSound /\ Scanned /\ FramesCounted
      /\ fmgr \in Managers /\ q \in Queues /\ ioctl \in Ioctls /\ work' \in Works /\ fmgr.on
      /\ last_frame \in FrameOrNone /\ used \in [pairs : Nat, enables : Nat, lost : [Frame -> Nat]]
      /\ UNCHANGED <<fmgr, heap, scan, ioctl>>
  BY Zenon DEF DecdIInv, DecdTypes, ReleaseLast, Works
<1>1. IoctlSound' /\ ioctl' \in Ioctls
  BY <1>0, SameIoctl, Zenon
<1>2. CASE q.release_fifo = << >>
  <2>1. UNCHANGED <<q, last_frame, used>>
    BY <1>2, Zenon DEF ReleaseLast
  <2>. QED  BY <1>0, <1>1, <2>1, MgrSet, QuietStep, Zenon
<1>3. CASE q.release_fifo # << >>
  <2>. DEFINE x == Head(q.release_fifo)
  <2>1. /\ last_frame' = x /\ q' = [q EXCEPT !.release_fifo = Tail(q.release_fifo)]
        /\ used' = (IF last_frame = None THEN used
                    ELSE [used EXCEPT !.lost = [used.lost EXCEPT ![last_frame] = used.lost[last_frame] + 1]])
    BY <1>3, Zenon DEF ReleaseLast
  <2>2. Drained(q', q)
    BY <1>0, <1>3, <2>1, DrainFields, Zenon
  <2>3. /\ q' \in Queues /\ q'.dirty = q.dirty /\ q'.slots = q.slots /\ x \in Frame
        /\ q'.last_released = q.last_released
        /\ \A k \in Frame : /\ Times(q'.release_fifo, k) \in Nat
                            /\ Times(q.release_fifo, k) = Times(q'.release_fifo, k) + Is(x, k)
    BY <2>2, Zenon DEF Drained
  <2>. HIDE DEF x
  <2>4. /\ used' \in [pairs : Nat, enables : Nat, lost : [Frame -> Nat]]
        /\ \A k \in Frame : used'.lost[k] = used.lost[k] + Is(last_frame, k)
    <3>0. used.lost \in [Frame -> Nat] /\ \A k \in Frame : k # None
      <4>1. used.lost \in [Frame -> Nat]
        BY <1>0, Zenon
      <4>2. \A k \in Frame : k # None
        BY DEF Frame, None
      <4>. QED  BY <4>1, <4>2, Zenon
    <3>1. CASE last_frame = None
      <4>1. used' = used /\ \A k \in Frame : Is(last_frame, k) = 0
        BY <2>1, <3>0, <3>1, Zenon DEF Is
      <4>2. ASSUME NEW k \in Frame PROVE used.lost[k] = used.lost[k] + 0
        <5>1. used.lost[k] \in Nat
          BY <3>0, Zenon
        <5>. QED  BY ONLY <5>1
      <4>. QED  BY <1>0, <4>1, <4>2, Zenon
    <3>2. CASE last_frame # None
      <4>. DEFINE v == [used.lost EXCEPT ![last_frame] = used.lost[last_frame] + 1]
      <4>1. last_frame \in Frame /\ used' = [used EXCEPT !.lost = v]
        BY <1>0, <2>1, <3>2, Zenon DEF FrameOrNone
      <4>2. used.lost[last_frame] + 1 \in Nat
        <5>1. used.lost[last_frame] \in Nat
          BY <3>0, <4>1, Zenon
        <5>. QED  BY ONLY <5>1
      <4>3. v \in [Frame -> Nat] /\ v[last_frame] = used.lost[last_frame] + 1
            /\ \A k \in Frame \ {last_frame} : v[k] = used.lost[k]
        BY <3>0, <4>1, <4>2, Zenon
      <4>. HIDE DEF v
      <4>4. used' \in [pairs : Nat, enables : Nat, lost : [Frame -> Nat]] /\ used'.lost = v
        BY <1>0, <4>1, <4>3, Zenon
      <4>5. ASSUME NEW k \in Frame PROVE v[k] = used.lost[k] + Is(last_frame, k)
        <5>1. CASE k = last_frame
          BY <4>3, <5>1, Zenon DEF Is
        <5>2. CASE k # last_frame
          <6>1. v[k] = used.lost[k] /\ Is(last_frame, k) = 0 /\ used.lost[k] \in Nat
            BY <3>0, <4>3, <5>2, Zenon DEF Is
          <6>. QED  BY ONLY <6>1
        <5>. QED  BY <5>1, <5>2, Zenon
      <4>. QED  BY <4>4, <4>5, Zenon
    <3>. QED  BY <3>1, <3>2, Zenon
  <2>5. DecdTypes'
    <3>1. x \in FrameOrNone
      BY <2>3, Zenon DEF FrameOrNone
    <3>. QED  BY <1>0, <2>1, <2>3, <2>4, <3>1, Zenon DEF DecdTypes, Works
  <2>6. HeapSound(heap', Submitting')
    BY <1>0, Zenon DEF Submitting
  <2>7. Scanned'
    BY <1>0, <2>3, Zenon DEF Scanned
  <2>8. FramesCounted'
    <3>. SUFFICES ASSUME NEW k \in Frame PROVE heap'.ref[k] = FrameRefs(k)'
      BY Zenon DEF FramesCounted
    <3>. DEFINE a == Times(fmgr.ready_list, k)  b == Times(fmgr.pair, k)
                c == Times(fmgr.recycle_fifo, k)  d == Times(ioctl.detached, k)
                e == Times(q'.release_fifo, k)  l == Is(q.last_released, k)
                s == Is(q.slots[0], k)  y == Is(last_frame, k)  u == used.lost[k]
                g == Is(x, k)
    <3>1. a \in Nat /\ b \in Nat /\ c \in Nat /\ d \in Nat /\ u \in Nat
      BY <1>0, Places, Zenon
    <3>2. l \in Nat /\ s \in Nat /\ y \in Nat /\ g \in Nat
      BY DEF Is
    <3>3. e \in Nat /\ Times(q.release_fifo, k) = e + g
      BY <2>3, Zenon
    <3>4. heap.ref[k] = Total(a, b, c, d, e + g, l, s, y, u)
      BY <1>0, <3>3, TotalIs, Zenon
    <3>5. FrameRefs(k)' = Total(a, b, c, d, e, l, s, g, u + y)
      BY <1>0, <2>1, <2>3, <2>4, TotalIs, ZenonT(30)
    <3>. HIDE DEF a, b, c, d, e, l, s, y, u, g
    <3>7. heap.ref[k] = Total(a, b, c, d, e, l, s, g, u + y)
      BY ONLY <3>1, <3>2, <3>3, <3>4 DEF Total
    <3>. QED  BY <1>0, <3>5, <3>7, Zenon
  <2>. QED  BY <1>1, <2>5, <2>6, <2>7, <2>8, Zenon DEF DecdIInv
<1>. QED  BY <1>2, <1>3, Zenon

\* dec_frame_manager_free puts one detached frame.
LEMMA FreeSound ==
    ASSUME DecdIInv, dec_frame_manager_free
    PROVE  DecdIInv'
<1>. DEFINE s == ioctl.detached
            x == Head(ioctl.detached)
<1>0. /\ DecdTypes /\ HeapSound(heap, Submitting) /\ IoctlSound /\ Scanned /\ FramesCounted
      /\ ioctl \in Ioctls /\ ioctl.op = "exit" /\ s # << >>
      /\ heap' = video_frame_put(heap, x)
      /\ ioctl' = [ioctl EXCEPT !.detached = Tail(s)]
      /\ UNCHANGED <<fmgr, q, last_frame, scan, work, used>>
  BY Zenon DEF DecdIInv, DecdTypes, dec_frame_manager_free
<1>1. s \in Seq(FrameOrNone) /\ x \in FrameOrNone /\ Tail(s) \in Seq(FrameOrNone)
  <2>1. s \in Seq(FrameOrNone) /\ s # << >>
    BY <1>0, IoctlFields, Zenon
  <2>. HIDE DEF s
  <2>2. Head(s) \in FrameOrNone /\ Tail(s) \in Seq(FrameOrNone)
    BY <2>1, DecdSeq, Zenon
  <2>. QED  BY <2>1, <2>2, Zenon DEF s
<1>2. /\ ioctl' \in Ioctls /\ ioctl'.op = "exit" /\ ioctl'.item = ioctl.item /\ ioctl'.left = ioctl.left
      /\ ioctl'.detached = Tail(s)
  BY <1>0, <1>1, Zenon DEF Ioctls
<1>3. \A k \in Frame : Times(ioctl'.detached, k) \in Nat
                       /\ Times(ioctl.detached, k) = Times(ioctl'.detached, k) + Is(x, k)
  <2>. SUFFICES ASSUME NEW k \in Frame
                PROVE  /\ Times(ioctl'.detached, k) \in Nat
                       /\ Times(ioctl.detached, k) = Times(ioctl'.detached, k) + Is(x, k)
    BY Zenon
  <2>1. Times(s, k) = Times(Tail(s), k) + Is(Head(s), k)
    <3>1. s \in Seq(FrameOrNone) /\ s # << >>
      BY <1>0, <1>1, Zenon
    <3>. HIDE DEF s
    <3>. QED  BY <3>1, TimesTail, Zenon
  <2>2. Times(Tail(s), k) \in Nat
    BY <1>1, TimesNat, Zenon
  <2>. QED  BY <1>2, <2>1, <2>2, Zenon
<1>. HIDE DEF x, s
<1>4. x # None => heap.ref[x] > 0
  <2>. SUFFICES ASSUME x # None PROVE heap.ref[x] > 0
    OBVIOUS
  <2>0. x \in Frame
    BY <1>1, Zenon DEF FrameOrNone
  <2>. DEFINE a == Times(q.release_fifo, x)
              d == Times(ioctl'.detached, x)
  <2>1. Is(x, x) = 1 /\ d \in Nat /\ Times(ioctl.detached, x) = d + Is(x, x)
    BY <1>3, <2>0, Zenon DEF Is
  <2>2. heap.ref[x] \in Nat /\ heap.ref[x] >= a + Times(ioctl.detached, x) /\ a \in Nat
    BY <1>0, <2>0, PlacesAlive, Places, Zenon
  <2>. HIDE DEF a, d
  <2>. QED  BY ONLY <2>1, <2>2
<1>5. /\ HeapSound(heap', Submitting) /\ heap'.next = heap.next
      /\ \A k \in Frame : heap'.ref[k] = heap.ref[k] - Is(x, k)
  <2>1. Submitting \in [Frame -> Nat]
    BY DEF Submitting, Is
  <2>2. HeapSound(heap', Submitting) /\ Gives(heap', heap, x)
    BY <1>0, <1>1, <1>4, <2>1, PutMaybe, Zenon
  <2>. QED  BY <2>2, Zenon DEF Gives
<1>6. DecdTypes'
  BY <1>0, <1>2, Zenon DEF DecdTypes
<1>7. HeapSound(heap', Submitting')
  BY <1>2, <1>5, Zenon DEF Submitting
<1>8. IoctlSound'
  BY <1>0, <1>2, <1>5, Zenon DEF IoctlSound
<1>9. Scanned'
  BY <1>0, <1>2, Zenon DEF Scanned
<1>10. FramesCounted'
  <2>. SUFFICES ASSUME NEW k \in Frame PROVE heap'.ref[k] = FrameRefs(k)'
    BY Zenon DEF FramesCounted
  <2>. DEFINE a == Times(fmgr.ready_list, k)  b == Times(fmgr.pair, k)
              c == Times(fmgr.recycle_fifo, k)  d == Times(ioctl'.detached, k)
              e == Times(q.release_fifo, k)  l == Is(q.last_released, k)
              z == Is(q.slots[0], k)  y == Is(last_frame, k)  u == used.lost[k]
              g == Is(x, k)
  <2>1. a \in Nat /\ b \in Nat /\ c \in Nat /\ e \in Nat /\ u \in Nat
    BY <1>0, Places, Zenon
  <2>2. l \in Nat /\ z \in Nat /\ y \in Nat /\ g \in Nat
    BY DEF Is
  <2>3. d \in Nat /\ Times(ioctl.detached, k) = d + g
    BY <1>3, Zenon
  <2>4. heap.ref[k] = Total(a, b, c, d + g, e, l, z, y, u)
    BY <1>0, <2>3, TotalIs, Zenon
  <2>5. FrameRefs(k)' = Total(a, b, c, d, e, l, z, y, u)
    BY <1>0, TotalIs, Zenon
  <2>6. heap'.ref[k] = heap.ref[k] - g
    BY <1>5, Zenon
  <2>. HIDE DEF a, b, c, d, e, l, z, y, u, g
  <2>7. heap'.ref[k] = Total(a, b, c, d, e, l, z, y, u)
    BY ONLY <2>1, <2>2, <2>3, <2>4, <2>6 DEF Total
  <2>. QED  BY <2>5, <2>7, Zenon
<1>. QED  BY <1>6, <1>7, <1>8, <1>9, <1>10, Zenon DEF DecdIInv

\* dec_frame_manager_exit detaches the lists and abandons what the queue refers to.
LEMMA ExitSound ==
    ASSUME DecdIInv, dec_frame_manager_exit
    PROVE  DecdIInv'
<1>. DEFINE v == [f \in Frame |-> used.lost[f] + InQueue(f) + Times(fmgr.recycle_fifo, f)]
            w == Detached(fmgr)
<1>0. /\ DecdTypes /\ HeapSound(heap, Submitting) /\ IoctlSound /\ Scanned /\ FramesCounted
      /\ ioctl \in Ioctls /\ fmgr \in Managers /\ q \in Queues /\ ioctl.op = "disable"
      /\ used \in [pairs : Nat, enables : Nat, lost : [Frame -> Nat]]
      /\ used' = [used EXCEPT !.lost = v] /\ ioctl' = [Idle EXCEPT !.op = "exit", !.detached = w]
      /\ fmgr' = NoMgr /\ q' = EmptyQueue /\ UNCHANGED <<last_frame, heap, scan, work>>
  BY Zenon DEF DecdIInv, DecdTypes, dec_frame_manager_exit
<1>1. ioctl.item = None /\ ioctl.detached = << >> /\ fmgr.on
  <2>1. /\ "disable" # "exit" /\ "disable" # "none" /\ "disable" \notin {"submit", "resume"}
    OBVIOUS
  <2>. QED  BY <1>0, <2>1, Zenon DEF IoctlSound
<1>2. ASSUME NEW k \in Frame
      PROVE  /\ InQueue(k) \in Nat /\ Times(fmgr.recycle_fifo, k) \in Nat /\ used.lost[k] \in Nat
             /\ used.lost[k] + InQueue(k) + Times(fmgr.recycle_fifo, k) \in Nat
             /\ InQueue(k) >= Is(q.last_released, k) /\ InQueue(k) >= Is(q.slots[0], k)
  <2>. DEFINE e == Times(q.release_fifo, k)  l == Is(q.last_released, k)  s == Is(q.slots[0], k)
              c == Times(fmgr.recycle_fifo, k)  u == used.lost[k]
  <2>1. e \in Nat /\ c \in Nat /\ u \in Nat
    BY <1>0, Places, Zenon
  <2>2. l \in Nat /\ s \in Nat
    BY DEF Is
  <2>3. InQueue(k) = e + l + s
    BY Zenon DEF InQueue
  <2>. HIDE DEF e, l, s, c, u
  <2>4. /\ e + l + s \in Nat /\ u + (e + l + s) + c \in Nat /\ e + l + s >= l /\ e + l + s >= s
    BY ONLY <2>1, <2>2
  <2>. QED  BY <2>1, <2>3, <2>4, Zenon DEF c, u, l, s
<1>3. v \in [Frame -> Nat] /\ \A k \in Frame : v[k] = used.lost[k] + InQueue(k) + Times(fmgr.recycle_fifo, k)
  BY <1>2, Zenon
<1>4. /\ w \in Seq(FrameOrNone)
      /\ \A k \in Frame : Times(w, k) = Times(fmgr.ready_list, k) + Is(fmgr.pair[1], k) + Is(fmgr.pair[2], k)
  <2>. DEFINE r == fmgr.ready_list
              x == fmgr.pair[1]
              y == fmgr.pair[2]
              t == Append(r, x)
  <2>1. r \in Seq(FrameOrNone) /\ x \in FrameOrNone /\ y \in FrameOrNone /\ w = Append(t, y)
    <3>1. r \in Seq(Frame) /\ x \in FrameOrNone /\ y \in FrameOrNone
      BY <1>0, MgrFields, Zenon
    <3>2. \A z \in Seq(Frame) : z \in Seq(FrameOrNone)
      BY DEF FrameOrNone
    <3>. QED  BY <3>1, <3>2, Zenon DEF Detached
  <2>. HIDE DEF r, x, y
  <2>2. t \in Seq(FrameOrNone) /\ \A k \in Frame : Times(t, k) = Times(r, k) + Is(x, k)
    BY <2>1, DecdSeq, TimesAppend, Zenon
  <2>. HIDE DEF t, w
  <2>3. Append(t, y) \in Seq(FrameOrNone) /\ \A k \in Frame : Times(Append(t, y), k) = Times(t, k) + Is(y, k)
    BY <2>1, <2>2, DecdSeq, TimesAppend, ZenonT(30)
  <2>. QED  BY <2>1, <2>2, <2>3, Zenon DEF r, x, y
<1>. HIDE DEF v, w
<1>5. used' \in [pairs : Nat, enables : Nat, lost : [Frame -> Nat]] /\ used'.lost = v
  BY <1>0, <1>3, Zenon
<1>6. /\ fmgr'.ready_list = << >> /\ fmgr'.pair = <<None, None>> /\ fmgr'.recycle_fifo = << >>
      /\ fmgr'.state = 0 /\ ~fmgr'.on /\ fmgr'.pair[1] = None /\ fmgr'.pair[2] = None
      /\ q'.release_fifo = << >> /\ q'.last_released = None /\ \A i \in 0 .. 3 : q'.slots[i] = None
  <2>1. /\ NoMgr.ready_list = << >> /\ NoMgr.pair = <<None, None>> /\ NoMgr.recycle_fifo = << >>
        /\ NoMgr.state = 0 /\ NoMgr.on = FALSE
    BY Zenon DEF NoMgr
  <2>2. <<None, None>>[1] = None /\ <<None, None>>[2] = None
    OBVIOUS
  <2>3. EmptyQueue.release_fifo = << >> /\ EmptyQueue.last_released = None
        /\ EmptyQueue.slots = [i \in 0 .. 3 |-> None]
    BY Zenon DEF EmptyQueue
  <2>. QED  BY <1>0, <2>1, <2>2, <2>3, Zenon
<1>7. IoctlSound' /\ ioctl' \in Ioctls /\ ioctl'.item = None /\ ioctl'.detached = w
  <2>1. "exit" \in {"stop", "disable", "none", "resume", "exit"}
    OBVIOUS
  <2>2. ioctl' = [op |-> "exit", item |-> None, left |-> 0, detached |-> w]
    BY <1>0, Zenon DEF Idle
  <2>. QED  BY <1>4, <1>6, <2>1, <2>2, NewIoctl, Zenon
<1>8. DecdTypes'
  <2>1. NoMgr \in Managers /\ EmptyQueue \in Queues
    BY MgrTypes, Zenon
  <2>. QED  BY <1>0, <1>5, <1>7, <2>1, Zenon DEF DecdTypes
<1>9. HeapSound(heap', Submitting')
  BY <1>0, <1>1, <1>7, Zenon DEF Submitting
<1>10. Scanned'
  <2>1. ASSUME NEW f \in scan PROVE used'.lost[f] > 0
    <3>1. f \in Frame /\ (f = q.last_released \/ f = q.slots[0])
      BY <1>0, <1>1, Zenon DEF Scanned, DecdTypes
    <3>2. Is(q.last_released, f) = 1 \/ Is(q.slots[0], f) = 1
      BY <3>1, Zenon DEF Is
    <3>. DEFINE n == InQueue(f)
                c == Times(fmgr.recycle_fifo, f)
                u == used.lost[f]
    <3>3. n \in Nat /\ c \in Nat /\ u \in Nat /\ (n >= 1)
      <4>1. n \in Nat /\ c \in Nat /\ u \in Nat /\ n >= Is(q.last_released, f) /\ n >= Is(q.slots[0], f)
        BY <1>2, <3>1, Zenon
      <4>. QED  BY <3>2, <4>1, Zenon
    <3>4. used'.lost[f] = u + n + c
      BY <1>3, <1>5, <3>1, Zenon
    <3>. HIDE DEF n, c, u
    <3>. QED  BY ONLY <3>3, <3>4
  <2>2. 0 \in 0 .. 3 /\ "exit" # "none"
    OBVIOUS
  <2>3. ioctl'.op = "exit"
    BY <1>0, Zenon DEF Idle
  <2>4. \A f \in scan' : used'.lost[f] > 0
    BY <1>0, <2>1, Zenon
  <2>5. \A i \in 0 .. 3 : q'.slots[i] = q'.slots[0]
    BY <1>6, <2>2, Zenon
  <2>6. q'.slots[0] = None /\ fmgr' = NoMgr /\ q' = EmptyQueue
    BY <1>0, <1>6, <2>2, Zenon
  <2>. QED  BY ONLY <1>6, <2>2, <2>3, <2>4, <2>5, <2>6, Zenon DEF Scanned
<1>11. FramesCounted'
  <2>. SUFFICES ASSUME NEW k \in Frame PROVE heap'.ref[k] = FrameRefs(k)'
    BY Zenon DEF FramesCounted
  <2>. DEFINE a == Times(fmgr.ready_list, k)  b == Is(fmgr.pair[1], k)  m == Is(fmgr.pair[2], k)
              c == Times(fmgr.recycle_fifo, k)  n == InQueue(k)
              y == Is(last_frame, k)  u == used.lost[k]
  <2>1. a \in Nat /\ c \in Nat /\ u \in Nat /\ n \in Nat /\ Times(fmgr.pair, k) = b + m
    BY <1>0, <1>2, Places, Zenon
  <2>2. b \in Nat /\ m \in Nat /\ y \in Nat
    BY DEF Is
  <2>3. Times(<< >>, k) = 0 /\ Times(<<None, None>>, k) = Is(None, k) + Is(None, k) /\ Is(None, k) = 0
    <3>1. None \in FrameOrNone
      BY Zenon DEF FrameOrNone
    <3>2. Is(None, k) = 0
      BY DEF Is, Frame, None
    <3>. QED  BY <3>1, <3>2, TimesPair, Zenon
  <2>4. heap.ref[k] = a + (b + m) + c + 0 + n + y + u
    BY <1>0, <1>1, <2>1, <2>3, Zenon DEF FramesCounted, FrameRefs
  <2>5. FrameRefs(k)' = 0 + (0 + 0) + 0 + (a + b + m) + (0 + 0 + 0) + y + (u + n + c)
    <3>1. 0 \in 0 .. 3
      OBVIOUS
    <3>2. InQueue(k)' = 0 + 0 + 0
      BY <1>6, <2>3, <3>1, Zenon DEF InQueue
    <3>3. Times(ioctl'.detached, k) = a + b + m /\ used'.lost[k] = u + n + c
      BY <1>3, <1>4, <1>5, <1>7, Zenon
    <3>. QED  BY <1>0, <1>6, <2>3, <3>2, <3>3, Zenon DEF FrameRefs
  <2>. HIDE DEF a, b, m, c, n, y, u
  <2>6. a + (b + m) + c + 0 + n + y + u = 0 + (0 + 0) + 0 + (a + b + m) + (0 + 0 + 0) + y + (u + n + c)
    BY ONLY <2>1, <2>2
  <2>. QED  BY <1>0, <2>4, <2>5, <2>6, Zenon
<1>. QED  BY <1>7, <1>8, <1>9, <1>10, <1>11, Zenon DEF DecdIInv

\* A frame of the old pair, or none, joins the recycle FIFO.
LEMMA RecycledIs ==
    ASSUME NEW s \in Seq(Frame), NEW x \in FrameOrNone
    PROVE  /\ Recycled(s, x) \in Seq(Frame)
           /\ \A k \in Frame : Times(Recycled(s, x), k) = Times(s, k) + Is(x, k)
<1>1. CASE x = None
  <2>1. Recycled(s, x) = s
    BY <1>1, Zenon DEF Recycled
  <2>2. ASSUME NEW k \in Frame PROVE Times(s, k) = Times(s, k) + Is(x, k)
    <3>1. Is(x, k) = 0
      BY <1>1 DEF Is, Frame, None
    <3>2. Times(s, k) \in Nat
      BY TimesNat, Zenon
    <3>. QED  BY ONLY <3>1, <3>2
  <2>. QED  BY <2>1, <2>2, Zenon
<1>2. CASE x # None
  <2>1. x \in Frame /\ Recycled(s, x) = Append(s, x)
    BY <1>2, Zenon DEF Recycled, FrameOrNone
  <2>2. Append(s, x) \in Seq(Frame)
    BY <2>1, DecdSeq, Zenon
  <2>3. ASSUME NEW k \in Frame PROVE Times(Append(s, x), k) = Times(s, k) + Is(x, k)
    BY <2>1, TimesAppend, Zenon
  <2>. QED  BY <2>1, <2>2, <2>3, Zenon
<1>. QED  BY <1>1, <1>2, Zenon

\* In g the two frames of a pair, t and t + 1, have one reference more each.
TwoMore(g, h, t) == \A k \in Frame : g.ref[k] = h.ref[k] + Is(t, k) + Is(t + 1, k)

\* Two items and two frames are created; each frame takes over the reference to its item.
LEMMA TwoFrames ==
    ASSUME NEW h, NEW e, HeapSound(h, e), NEW t, t = h.next, t \in Frame, t + 1 \in Frame,
           e[t] = 0, e[t + 1] = 0,
           NEW g, g = dec_create_video_frame(dec_create_video_frame(
                        frame_item_create(frame_item_create(h, t), t + 1), t, t), t + 1, t + 1)
    PROVE  HeapSound(g, e) /\ TwoMore(g, h, t)
<1>. DEFINE s == t + 1
            h1 == frame_item_create(h, t)
            h2 == frame_item_create(h1, s)
            g1 == dec_create_video_frame(h2, t, t)
            e1 == [j \in Frame |-> IF j = t THEN 1 ELSE e[j]]
            e2 == [j \in Frame |-> IF j = t \/ j = s THEN 1 ELSE e[j]]
            e3 == [j \in Frame |-> IF j = s THEN 1 ELSE e[j]]
<1>0. /\ t \in Frame /\ s \in Frame /\ t \in Int /\ s \in Int /\ s # t /\ t >= t /\ s >= t
      /\ t <= t /\ s <= s /\ s = t + 1
  BY DEF Frame
<1>1a. e1[t] = 1 /\ \A j \in Frame \ {t} : e1[j] = e[j]
  BY <1>0, Zenon
<1>1b. e2[s] = 1 /\ \A j \in Frame \ {s} : e2[j] = e1[j]
  BY <1>0, Zenon
<1>1c. \A j \in Frame \ {t} : e3[j] = e2[j]
  BY <1>0, Zenon
<1>1d. \A j \in Frame \ {s} : e[j] = e3[j]
  BY <1>0, Zenon
<1>2. /\ e2[t] \in Nat /\ e2[t] > 0 /\ e3[t] = e2[t] - 1
      /\ e3[s] \in Nat /\ e3[s] > 0 /\ e[s] = e3[s] - 1
  <2>1. e2[t] = 1 /\ e3[t] = 0 /\ e3[s] = 1
    BY <1>0, Zenon
  <2>. HIDE DEF e2, e3, s
  <2>. QED  BY <2>1 DEF s
<1>3. g = dec_create_video_frame(g1, s, s)
  BY Zenon
<1>. HIDE DEF e1, e2, e3, s
<1>4. HeapSound(h1, e1) /\ SameRef(h1, h)
  <2>1. t >= h.next
    BY <1>0, Zenon
  <2>2. h1 = frame_item_create(h, t)
    BY Zenon
  <2>. HIDE DEF h1
  <2>. QED  BY ONLY HeapSound(h, e), <1>0, <1>1a, <2>1, <2>2, ItemSound, Zenon
<1>5. h1.ref = h.ref /\ h1.next = t
  BY <1>4, Zenon DEF SameRef
<1>. HIDE DEF h1
<1>6. HeapSound(h2, e2) /\ SameRef(h2, h1)
  <2>1. s >= h1.next
    BY <1>0, <1>5, Zenon
  <2>2. h2 = frame_item_create(h1, s)
    BY Zenon
  <2>. HIDE DEF h2
  <2>. QED  BY ONLY <1>0, <1>1b, <1>4, <2>1, <2>2, ItemSound, Zenon
<1>7. h2.ref = h.ref /\ t = h2.next
  BY <1>5, <1>6, Zenon DEF SameRef
<1>. HIDE DEF h2
<1>8. HeapSound(g1, e3) /\ NewFrame(g1, h2, t)
  <2>1. g1 = dec_create_video_frame(h2, t, t)
    BY Zenon
  <2>2. t \in Frame /\ t <= t /\ t = h2.next /\ HeapSound(h2, e2)
    BY <1>0, <1>6, <1>7, Zenon
  <2>3. e2[t] \in Nat /\ e2[t] > 0 /\ e3[t] = e2[t] - 1
    BY <1>2, Zenon
  <2>. HIDE DEF g1
  <2>. QED  BY ONLY <1>1c, <2>1, <2>2, <2>3, FrameSound, Zenon
<1>9. /\ s = g1.next /\ h.ref[t] = 0 /\ g1.ref[t] = 1
      /\ \A k \in Frame \ {t} : g1.ref[k] = h.ref[k]
  BY <1>0, <1>7, <1>8, Zenon DEF NewFrame
<1>. HIDE DEF g1
<1>10. HeapSound(g, e) /\ NewFrame(g, g1, s)
  <2>1. s \in Frame /\ s <= s /\ s = g1.next /\ HeapSound(g1, e3)
    BY <1>0, <1>8, <1>9, Zenon
  <2>2. e3[s] \in Nat /\ e3[s] > 0 /\ e[s] = e3[s] - 1
    BY <1>2, Zenon
  <2>. QED  BY ONLY <1>1d, <1>3, <2>1, <2>2, FrameSound, Zenon
<1>11. /\ g.next = s + 1 /\ g1.ref[s] = 0 /\ g.ref[s] = 1
       /\ \A k \in Frame \ {s} : g.ref[k] = g1.ref[k]
  BY <1>10, Zenon DEF NewFrame
<1>12. ASSUME NEW k \in Frame PROVE g.ref[k] = h.ref[k] + Is(t, k) + Is(s, k)
  <2>1. CASE k = t
    <3>1. g.ref[k] = 1 /\ h.ref[k] = 0 /\ Is(t, k) = 1 /\ Is(s, k) = 0
      BY <1>0, <1>9, <1>11, <2>1, Zenon DEF Is
    <3>. QED  BY ONLY <3>1
  <2>2. CASE k = s
    <3>1. g.ref[k] = 1 /\ h.ref[k] = 0 /\ Is(t, k) = 0 /\ Is(s, k) = 1
      BY <1>0, <1>9, <1>11, <2>2, Zenon DEF Is
    <3>. QED  BY ONLY <3>1
  <2>3. CASE k # t /\ k # s
    <3>1. g.ref[k] = h.ref[k] /\ Is(t, k) = 0 /\ Is(s, k) = 0 /\ h.ref[k] \in Nat
      BY <1>9, <1>11, <2>3, HeapFields, Zenon DEF Is, HeapSound
    <3>. QED  BY ONLY <3>1
  <2>. QED  BY <2>1, <2>2, <2>3, Zenon
<1>. QED  BY <1>10, <1>12, Zenon DEF TwoMore, s

\* dec_interlace_setup: the new pair has the references of its frames, the old one's move to
\* the recycle FIFO.
LEMMA InterlaceSound ==
    ASSUME DecdIInv, dec_interlace_setup
    PROVE  DecdIInv'
<1>. DEFINE t == heap.next
            p == <<heap.next, heap.next + 1>>
            y == Recycled(Recycled(fmgr.recycle_fifo, fmgr.pair[1]), fmgr.pair[2])
<1>0. /\ DecdTypes /\ HeapSound(heap, Submitting) /\ IoctlSound /\ Scanned /\ FramesCounted
      /\ fmgr \in Managers /\ work \in Works /\ fmgr.on /\ ioctl = Idle
      /\ used \in [pairs : Nat, enables : Nat, lost : [Frame -> Nat]]
  BY Zenon DEF DecdIInv, DecdTypes, dec_interlace_setup, Works
<1>1. /\ t + 1 <= MaxFrames
      /\ heap' = dec_create_video_frame(dec_create_video_frame(
                   frame_item_create(frame_item_create(heap, t), t + 1), t, t), t + 1, t + 1)
      /\ fmgr' = [fmgr EXCEPT !.type = 1, !.force_interlace = 1, !.recycle_fifo = y, !.pair = p]
      /\ work' = Queued /\ used' = [used EXCEPT !.pairs = used.pairs + 1]
      /\ ioctl' = [Idle EXCEPT !.op = "resume"]
      /\ UNCHANGED <<q, last_frame, scan>>
  BY Zenon DEF dec_interlace_setup
<1>2. /\ t \in Frame /\ t + 1 \in Frame /\ t # None /\ t + 1 # None
  <2>1. t \in 1 .. MaxFrames + 1
    BY <1>0, HeapFields, Zenon DEF HeapSound
  <2>2. MaxFrames \in Nat /\ t + 1 <= MaxFrames
    BY <1>1, DecdAssumption
  <2>. HIDE DEF t
  <2>. QED  BY ONLY <2>1, <2>2 DEF Frame, None
<1>3. /\ y \in Seq(Frame)
      /\ \A k \in Frame : Times(y, k) = Times(fmgr.recycle_fifo, k) + Is(fmgr.pair[1], k) + Is(fmgr.pair[2], k)
  <2>. DEFINE r == fmgr.recycle_fifo
              a == fmgr.pair[1]
              b == fmgr.pair[2]
              c == Recycled(r, a)
  <2>1. r \in Seq(Frame) /\ a \in FrameOrNone /\ b \in FrameOrNone /\ y = Recycled(c, b)
    BY <1>0, MgrFields, Zenon
  <2>. HIDE DEF r, a, b
  <2>2. c \in Seq(Frame) /\ \A k \in Frame : Times(c, k) = Times(r, k) + Is(a, k)
    BY <2>1, RecycledIs, Zenon
  <2>. HIDE DEF c, y
  <2>3. Recycled(c, b) \in Seq(Frame) /\ \A k \in Frame : Times(Recycled(c, b), k) = Times(c, k) + Is(b, k)
    BY <2>1, <2>2, RecycledIs, Zenon
  <2>. QED  BY <2>1, <2>2, <2>3, Zenon DEF r, a, b
<1>4. /\ p \in FrameOrNone \X FrameOrNone /\ p[1] = t /\ p[2] = t + 1
      /\ \A k \in Frame : Times(p, k) = Is(t, k) + Is(t + 1, k)
  <2>. DEFINE s == t + 1
  <2>1. p = <<t, s>> /\ t \in FrameOrNone /\ s \in FrameOrNone
    BY <1>2, Zenon DEF FrameOrNone
  <2>. HIDE DEF t, s, p
  <2>2. \A k \in Frame : Times(<<t, s>>, k) = Is(t, k) + Is(s, k)
    BY <2>1, TimesPair, Zenon
  <2>3. <<t, s>> \in FrameOrNone \X FrameOrNone /\ <<t, s>>[1] = t /\ <<t, s>>[2] = s
    BY ONLY <2>1
  <2>. QED  BY <2>1, <2>2, <2>3, Zenon DEF s
<1>. HIDE DEF p, y
<1>5. /\ fmgr' \in Managers /\ fmgr'.ready_list = fmgr.ready_list /\ fmgr'.pair = p
      /\ fmgr'.recycle_fifo = y /\ fmgr'.on = fmgr.on /\ fmgr'.state = fmgr.state
  <2>1. 1 \in {0, 1}
    OBVIOUS
  <2>. QED  BY <1>0, <1>1, <1>3, <1>4, <2>1, Zenon DEF Managers
<1>. HIDE DEF t
<1>6. IoctlSound' /\ ioctl' \in Ioctls /\ ioctl'.item = None /\ ioctl'.detached = << >>
      /\ ioctl.item = None /\ ioctl.detached = << >>
  <2>1. "resume" \in {"stop", "disable", "none", "resume", "exit"} /\ "resume" # "exit" /\ << >> \in Seq(FrameOrNone)
    OBVIOUS
  <2>2. ioctl' = [op |-> "resume", item |-> None, left |-> 0, detached |-> << >>]
    BY <1>1, IdleWith, Zenon
  <2>3. IoctlSound' /\ ioctl' \in Ioctls /\ ioctl'.item = None /\ ioctl'.detached = << >>
    BY <1>0, <1>5, <2>1, <2>2, NewIoctl, Zenon
  <2>. QED  BY <1>0, <2>3, Zenon DEF Idle
<1>7. /\ HeapSound(heap', Submitting)
      /\ \A k \in Frame : heap'.ref[k] = heap.ref[k] + Is(t, k) + Is(t + 1, k)
  <2>1. Submitting[t] = 0 /\ Submitting[t + 1] = 0 /\ t = heap.next
    BY <1>2, <1>6, SubmittingIs, Zenon DEF t
  <2>2. HeapSound(heap', Submitting) /\ TwoMore(heap', heap, t)
    BY <1>0, <1>1, <1>2, <2>1, TwoFrames, Zenon
  <2>. QED  BY <2>2, Zenon DEF TwoMore
<1>8. work' \in Works
  BY <1>0, <1>1, Zenon DEF Queued, Works
<1>9. used' \in [pairs : Nat, enables : Nat, lost : [Frame -> Nat]] /\ used'.lost = used.lost
  <2>1. used.pairs + 1 \in Nat
    BY <1>0
  <2>. QED  BY <1>0, <1>1, <2>1, Zenon
<1>10. DecdTypes'
  BY <1>0, <1>1, <1>5, <1>6, <1>8, <1>9, Zenon DEF DecdTypes, Works
<1>11. HeapSound(heap', Submitting')
  BY <1>6, <1>7, Zenon DEF Submitting
<1>12. Scanned'
  BY <1>0, <1>1, <1>2, <1>4, <1>5, Zenon DEF Scanned
<1>13. FramesCounted'
  <2>. SUFFICES ASSUME NEW k \in Frame PROVE heap'.ref[k] = FrameRefs(k)'
    BY Zenon DEF FramesCounted
  <2>. DEFINE a == Times(fmgr.ready_list, k)  b == Is(fmgr.pair[1], k)  m == Is(fmgr.pair[2], k)
              c == Times(fmgr.recycle_fifo, k)  d == Times(ioctl.detached, k)
              e == Times(q.release_fifo, k)  l == Is(q.last_released, k)
              z == Is(q.slots[0], k)  x == Is(last_frame, k)  u == used.lost[k]
              i == Is(t, k)  j == Is(t + 1, k)
  <2>1. /\ a \in Nat /\ c \in Nat /\ d \in Nat /\ e \in Nat /\ u \in Nat
        /\ Times(fmgr.pair, k) = b + m
    BY <1>0, Places, Zenon
  <2>2. /\ b \in Nat /\ m \in Nat /\ l \in Nat /\ z \in Nat /\ x \in Nat /\ i \in Nat /\ j \in Nat
    BY DEF Is
  <2>3. heap.ref[k] = Total(a, b + m, c, d, e, l, z, x, u)
    BY <1>0, <2>1, TotalIs, Zenon
  <2>4. FrameRefs(k)' = Total(a, i + j, c + b + m, d, e, l, z, x, u)
    <3>1. /\ Times(fmgr'.pair, k) = i + j /\ Times(fmgr'.recycle_fifo, k) = c + b + m
          /\ Times(fmgr'.ready_list, k) = a /\ Times(ioctl'.detached, k) = d /\ used'.lost[k] = u
      BY <1>3, <1>4, <1>5, <1>6, <1>9, Zenon
    <3>. QED  BY <1>0, <1>1, <3>1, TotalIs, Zenon
  <2>5. heap'.ref[k] = heap.ref[k] + i + j
    BY <1>7, Zenon
  <2>. HIDE DEF a, b, m, c, d, e, l, z, x, u, i, j
  <2>6. heap'.ref[k] = Total(a, i + j, c + b + m, d, e, l, z, x, u)
    BY ONLY <2>1, <2>2, <2>3, <2>5 DEF Total
  <2>. QED  BY <2>4, <2>6, Zenon
<1>. QED  BY <1>6, <1>10, <1>11, <1>12, <1>13, Zenon DEF DecdIInv

-----------------------------------------------------------------------------
\* Nothing exists yet, and every info page is free.
LEMMA DecdInitInv ==
    ASSUME DecdInit
    PROVE  DecdIInv
<1>0. /\ fmgr = NoMgr /\ q = EmptyQueue /\ last_frame = None /\ scan = {} /\ ioctl = Idle
      /\ work = "idle" /\ used = [pairs |-> 0, enables |-> 0, lost |-> [f \in Frame |-> 0]]
      /\ heap = [ref |-> [f \in Frame |-> 0], payload |-> [f \in Frame |-> None],
                 itemref |-> [f \in Frame |-> 0], page |-> [f \in Frame |-> None],
                 signaled |-> {}, next |-> 1, free |-> [k \in 1 .. InfoPages |-> k]]
  BY Zenon DEF DecdInit
<1>1. /\ 0 \in Nat /\ ~(0 > 0) /\ 1 \in 1 .. MaxFrames + 1 /\ None \in 0 .. InfoPages /\ None \in FrameOrNone
      /\ [k \in 1 .. InfoPages |-> k] \in Seq(1 .. InfoPages) /\ << >> \in Seq(FrameOrNone)
      /\ 0 \in 0 .. 3 /\ \A k \in Frame : None # k
  <2>1. MaxFrames \in Nat /\ InfoPages \in Nat
    BY DecdAssumption
  <2>2. [k \in 1 .. InfoPages |-> k] \in Seq(1 .. InfoPages)
    BY <2>1
  <2>3. 0 \in Nat /\ ~(0 > 0) /\ 1 \in 1 .. MaxFrames + 1 /\ None \in 0 .. InfoPages /\ None \in FrameOrNone
    BY <2>1 DEF None, FrameOrNone
  <2>4. << >> \in Seq(FrameOrNone) /\ 0 \in 0 .. 3 /\ \A k \in Frame : None # k
    BY DEF Frame, None
  <2>. QED  BY <2>2, <2>3, <2>4, Zenon
<1>2. /\ ioctl = [op |-> "none", item |-> None, left |-> 0, detached |-> << >>]
      /\ ioctl.op = "none" /\ ioctl.item = None /\ ioctl.left = 0 /\ ioctl.detached = << >>
  BY <1>0, Zenon DEF Idle
<1>3. DecdTypes
  <2>1. ioctl \in Ioctls
    <3>1. "none" \in {"none", "submit", "resume", "stop", "disable", "exit"}
      OBVIOUS
    <3>. QED  BY <1>1, <1>2, <3>1, Zenon DEF Ioctls
  <2>2. used \in [pairs : Nat, enables : Nat, lost : [Frame -> Nat]]
    BY <1>0, <1>1, Zenon
  <2>. QED  BY <1>0, <1>1, <2>1, <2>2, MgrTypes, Zenon DEF DecdTypes
<1>4. /\ heap \in Heaps /\ heap.signaled = {} /\ heap.free = [k \in 1 .. InfoPages |-> k]
      /\ \A f \in Frame : heap.ref[f] = 0 /\ heap.itemref[f] = 0 /\ heap.page[f] = None
  <2>. DEFINE r == [f \in Frame |-> 0]
              n == [f \in Frame |-> None]
              s == [k \in 1 .. InfoPages |-> k]
  <2>1. /\ r \in [Frame -> Nat] /\ n \in [Frame -> FrameOrNone] /\ n \in [Frame -> 0 .. InfoPages]
        /\ \A f \in Frame : r[f] = 0 /\ n[f] = None
    BY <1>1, Zenon
  <2>2. heap = [ref |-> r, payload |-> n, itemref |-> r, page |-> n, signaled |-> {}, next |-> 1, free |-> s]
    BY <1>0, Zenon
  <2>3. s \in Seq(1 .. InfoPages)
    BY <1>1, Zenon
  <2>. HIDE DEF r, n, s
  <2>4. /\ heap.ref = r /\ heap.itemref = r /\ heap.page = n /\ heap.signaled = {} /\ heap.free = s
    BY <2>2, Zenon
  <2>5. heap \in Heaps
    BY <1>1, <2>1, <2>2, <2>3, Zenon DEF Heaps
  <2>. QED  BY <2>1, <2>4, <2>5, Zenon DEF s
<1>5. HeapSound(heap, Submitting)
  <2>1. ASSUME NEW i \in Frame PROVE heap.itemref[i] = Cardinality(Showing(heap, i)) + Submitting[i]
    <3>1. Showing(heap, i) = {}
      BY <1>1, <1>4, Zenon DEF Showing
    <3>2. Cardinality(Showing(heap, i)) = 0
      BY <3>1, FS_EmptySet, Zenon
    <3>3. Submitting[i] = 0 /\ heap.itemref[i] = 0
      BY <1>1, <1>2, <1>4, Zenon DEF Submitting, Is
    <3>. QED  BY ONLY <3>2, <3>3
  <2>2. PagesApart(heap)
    <3>. DEFINE s == [k \in 1 .. InfoPages |-> k]
    <3>0. DOMAIN s = 1 .. InfoPages /\ (\A k \in 1 .. InfoPages : s[k] = k) /\ heap.free = s
      BY <1>4, Zenon
    <3>. HIDE DEF s
    <3>1. \A j, k \in DOMAIN heap.free : j # k => heap.free[j] # heap.free[k]
      BY <3>0, Zenon
    <3>. QED  BY <1>4, <3>1, Zenon DEF PagesApart
  <2>. QED  BY <1>1, <1>4, <2>1, <2>2, Zenon DEF HeapSound
<1>6. IoctlSound
  BY <1>0, <1>1, <1>2, Zenon DEF IoctlSound
<1>7. /\ fmgr.ready_list = << >> /\ fmgr.pair = <<None, None>> /\ fmgr.recycle_fifo = << >>
      /\ fmgr.state = 0 /\ ~fmgr.on /\ fmgr.pair[1] = None /\ fmgr.pair[2] = None
      /\ q.release_fifo = << >> /\ q.last_released = None /\ \A i \in 0 .. 3 : q.slots[i] = None
  <2>1. /\ NoMgr.ready_list = << >> /\ NoMgr.pair = <<None, None>> /\ NoMgr.recycle_fifo = << >>
        /\ NoMgr.state = 0 /\ NoMgr.on = FALSE
    BY Zenon DEF NoMgr
  <2>2. <<None, None>>[1] = None /\ <<None, None>>[2] = None
    OBVIOUS
  <2>3. /\ EmptyQueue.release_fifo = << >> /\ EmptyQueue.last_released = None
        /\ EmptyQueue.slots = [i \in 0 .. 3 |-> None]
    BY Zenon DEF EmptyQueue
  <2>. QED  BY <1>0, <2>1, <2>2, <2>3, Zenon
<1>8. Scanned
  BY <1>0, <1>1, <1>2, <1>7, Zenon DEF Scanned
<1>9. FramesCounted
  <2>. SUFFICES ASSUME NEW k \in Frame PROVE heap.ref[k] = FrameRefs(k)
    BY Zenon DEF FramesCounted
  <2>1. Is(None, k) = 0
    BY <1>1, Zenon DEF Is
  <2>2. Times(<< >>, k) = 0 /\ Times(<<None, None>>, k) = 0 + 0
    BY <1>1, <2>1, TimesPair, Zenon
  <2>3. used.lost[k] = 0
    <3>1. used.lost = [f \in Frame |-> 0]
      BY <1>0, Zenon
    <3>. QED  BY <3>1, Zenon
  <2>4. FrameRefs(k) = 0 + (0 + 0) + 0 + 0 + (0 + 0 + 0) + 0 + 0
    BY <1>0, <1>1, <1>2, <1>7, <2>1, <2>2, <2>3, Zenon DEF FrameRefs, InQueue
  <2>5. 0 + (0 + 0) + 0 + 0 + (0 + 0 + 0) + 0 + 0 = 0
    OBVIOUS
  <2>. QED  BY <1>4, <2>4, <2>5, Zenon
<1>. QED  BY <1>3, <1>5, <1>6, <1>8, <1>9, Zenon DEF DecdIInv

\* Every step of the driver keeps the invariant.
LEMMA DecdNextInv ==
    ASSUME DecdIInv, [DecdNext]_DecdVars
    PROVE  DecdIInv'
<1>1. ASSUME NEW r \in 1 .. MaxRepeat, dec_frame_submit(r) PROVE DecdIInv'
  BY <1>1, SubmitSound, Zenon
<1>2. CASE dec_frame_manager_enqueue_frame
  BY <1>2, EnqueueSound, Zenon
<1>3. CASE dec_frame_queue_resume
  BY <1>3, ResumeSound, Zenon
<1>4. CASE SubmitDone
  BY <1>4, SubmitDoneSound, Zenon
<1>5. CASE dec_interlace_setup
  BY <1>5, InterlaceSound, Zenon
<1>6. CASE InterlaceSetupFails \/ dec_stop_video_stream \/ StopWaited \/ WorkStart \/ DisableStop
  BY <1>6, QuietActions, Zenon
<1>7. CASE dec_vsync_process
  BY <1>7, VsyncSound, Zenon
<1>8. CASE dec_frame_queue_refresh
  BY <1>8, RefreshSound, Zenon
<1>9. CASE dec_frame_release_process
  BY <1>9, ReleaseProcessSound, Zenon
<1>10. CASE ReleaseLast
  BY <1>10, ReleaseLastSound, Zenon
<1>11. CASE dec_enable
  BY <1>11, EnableSound, Zenon
<1>12. CASE dec_frame_manager_exit
  BY <1>12, ExitSound, Zenon
<1>13. CASE dec_frame_manager_free
  BY <1>13, FreeSound, Zenon
<1>14. CASE DisableDone
  BY <1>14, DisableDoneSound, Zenon
<1>15. CASE StrayWork
  BY <1>15, StrayWorkSound, Zenon
<1>16. CASE UNCHANGED DecdVars
  BY <1>16, Zenon DEF DecdVars, DecdIInv, DecdTypes, Submitting, IoctlSound, Scanned, FramesCounted,
                      FrameRefs, InQueue
<1>. QED  BY <1>1, <1>2, <1>3, <1>4, <1>5, <1>6, <1>7, <1>8, <1>9, <1>10, <1>11, <1>12, <1>13,
             <1>14, <1>15, <1>16, Zenon DEF DecdNext

\* The inductive invariant of the display side of the decoder driver.
THEOREM DecdInvariant == DecdSpec => []DecdIInv
<1>1. DecdInit => DecdIInv
  BY DecdInitInv, Zenon
<1>2. DecdIInv /\ [DecdNext]_DecdVars => DecdIInv'
  BY DecdNextInv, Zenon
<1>. QED  BY <1>1, <1>2, PTL DEF DecdSpec

\* The count of a frame is the number of places that refer to it, and the count of an item
\* the number of its frames that are alive, and the submission that is creating it, whatever
\* the ioctls, the interrupt, the tasklet and the work do.
THEOREM RefsAreExact == DecdSpec => []RefExact
<1>1. ASSUME DecdIInv PROVE RefExact
  <2>0. /\ DecdTypes /\ HeapSound(heap, Submitting) /\ FramesCounted /\ fmgr \in Managers
        /\ q \in Queues /\ heap \in Heaps
    BY <1>1, Zenon DEF DecdIInv, DecdTypes, HeapSound
  <2>1. \A f \in Frame : heap.ref[f] >= 0 /\ heap.itemref[f] >= 0
    <3>1. heap.ref \in [Frame -> Nat] /\ heap.itemref \in [Frame -> Nat]
      BY <2>0, HeapFields, Zenon
    <3>2. \A n \in Nat : n >= 0
      OBVIOUS
    <3>. QED  BY <3>1, <3>2, Zenon
  <2>2. DecdTypeOK
    BY <2>0, <2>1, MgrFields, QueueFields, Zenon DEF DecdTypeOK, DecdTypes, FrameOrNone
  <2>3. ASSUME NEW i \in Frame
        PROVE  heap.itemref[i] = Cardinality({f \in Frame : heap.payload[f] = i /\ heap.ref[f] > 0})
                                   + Is(ioctl.item, i)
    BY <2>0, Zenon DEF HeapSound, Showing, Submitting
  <2>. QED  BY <2>0, <2>2, <2>3, Zenon DEF RefExact
<1>. QED  BY <1>1, DecdInvariant, PTL

\* What the display reads is alive: its frame has a reference, its item's fence has not been
\* signalled and its info page is its own, also while the manager is being torn down.
THEOREM ScannedIsAlive == DecdSpec => []ScanAlive
<1>1. ASSUME DecdIInv PROVE ScanAlive
  <2>0. /\ DecdTypes /\ HeapSound(heap, Submitting) /\ FramesCounted /\ Scanned /\ scan \subseteq Frame
        /\ heap \in Heaps /\ PagesApart(heap)
    BY <1>1, Zenon DEF DecdIInv, DecdTypes, HeapSound
  <2>. SUFFICES ASSUME NEW f \in scan
                PROVE  /\ heap.ref[f] > 0 /\ heap.itemref[heap.payload[f]] > 0
                       /\ heap.payload[f] \notin heap.signaled
                       /\ heap.page[heap.payload[f]] # None =>
                            \A j \in Frame \ {heap.payload[f]} : heap.page[j] # heap.page[heap.payload[f]]
    BY Zenon DEF ScanAlive
  <2>. DEFINE i == heap.payload[f]
  <2>1. f \in Frame
    BY <2>0, Zenon
  <2>2. heap.ref[f] > 0
    <3>1. /\ heap.ref[f] \in Nat /\ heap.ref[f] >= Is(q.slots[0], f)
          /\ heap.ref[f] >= Is(q.last_released, f) /\ heap.ref[f] >= used.lost[f]
      BY <2>0, <2>1, PlacesAlive, Zenon
    <3>2. used.lost[f] > 0 \/ f = q.last_released \/ f = q.slots[0]
      BY <2>0, Zenon DEF Scanned
    <3>3. used.lost[f] \in Nat
      BY <2>0, <2>1, Places, Zenon
    <3>4. used.lost[f] > 0 \/ Is(q.last_released, f) = 1 \/ Is(q.slots[0], f) = 1
      BY <3>2, Zenon DEF Is
    <3>. QED  BY ONLY <3>1, <3>3, <3>4
  <2>3. i \in Frame
    <3>1. i \in 1 .. f
      BY <2>0, <2>1, <2>2, Zenon DEF HeapSound
    <3>. HIDE DEF i
    <3>. QED  BY ONLY <2>1, <3>1, DecdAssumption DEF Frame
  <2>4. heap.itemref[i] > 0
    <3>1. f \in Showing(heap, i) /\ IsFiniteSet(Showing(heap, i)) /\ Cardinality(Showing(heap, i)) \in Nat
      BY <2>1, <2>2, ShowingFinite, Zenon DEF Showing
    <3>2. Cardinality(Showing(heap, i)) # 0
      BY <3>1, FS_EmptySet, Zenon
    <3>3. heap.itemref[i] = Cardinality(Showing(heap, i)) + Submitting[i] /\ Submitting[i] \in Nat
      BY <2>0, <2>3, SubmittingIs, Zenon DEF HeapSound
    <3>. DEFINE c == Cardinality(Showing(heap, i))
                d == heap.itemref[i]
    <3>4. c \in Nat /\ c # 0 /\ d = c + Submitting[i] /\ Submitting[i] \in Nat
      BY <3>1, <3>2, <3>3, Zenon
    <3>. HIDE DEF c, d, i
    <3>5. d > 0
      BY ONLY <3>4
    <3>. QED  BY <3>5, Zenon DEF d
  <2>5. i \notin heap.signaled
    <3>1. i \in heap.signaled => heap.itemref[i] = 0
      BY <2>0, Zenon DEF HeapSound
    <3>2. ~(0 > 0)
      OBVIOUS
    <3>. QED  BY <2>4, <3>1, <3>2, Zenon
  <2>. QED  BY <2>0, <2>2, <2>3, <2>4, <2>5, Zenon DEF PagesApart
<1>. QED  BY <1>1, DecdInvariant, PTL

=====
