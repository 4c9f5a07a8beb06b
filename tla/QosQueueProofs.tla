---------------------------- MODULE QosQueueProofs ----------------------------
(***************************************************************************)
(* The queue of transfers by priority loses no request and doubles none;    *)
(* only time can put its heap out of order. Then the types of all parts of  *)
(* the server, side by side.                                                *)
(*                                                                          *)
(* The heap's operations are functions defined by recursion. Iterates says  *)
(* that such a function exists and stays where its steps do; each operation *)
(* has a lemma that carries this over to it (SiftUpReaches and the like).   *)
(***************************************************************************)
EXTENDS MCServerParts, ServerPartsProofs

-----------------------------------------------------------------------------
(* Functions defined by recursion *)

\* A set of numbers that holds 0, and the next of each, holds all up to n.
LEMMA CountedUp ==
  ASSUME NEW n \in Nat, NEW P, 0 \in P,
         \A k \in 0..n : k \in P /\ k < n => k + 1 \in P
  PROVE  \A k \in 0..n : k \in P
<1> SUFFICES ASSUME NEW k \in 0..n, k \notin P
             PROVE  FALSE
  OBVIOUS
<1> DEFINE missed == {i \in 0..n : i \notin P}
<1>6. missed \in SUBSET Nat /\ missed # {}
  OBVIOUS
<1>1. PICK least \in missed : \A i \in missed : least <= i
  <2> HIDE DEF missed
  <2> QED
    BY <1>6, LeastOf
<1>2. least # 0 /\ least - 1 \in 0..n /\ least - 1 \notin missed
  BY <1>1
<1>3. (least - 1) + 1 \in P
  BY <1>2
<1>4. (least - 1) + 1 = least
  BY <1>1
<1>5. least \in P
  BY <1>3, <1>4
<1> QED
  BY <1>1, <1>5

\* What holds at 0 and is handed on holds of all values.
LEMMA HandedOn ==
  ASSUME NEW n \in Nat, NEW f, NEW D, f[0] \in D[0],
         \A k \in 1..n : f[k - 1] \in D[k - 1] => f[k] \in D[k]
  PROVE  \A k \in 0..n : f[k] \in D[k]
<1> DEFINE P == {k \in 0..n : f[k] \in D[k]}
<1>1. 0 \in P
  OBVIOUS
<1>2. ASSUME NEW k \in 0..n, k \in P, k < n
      PROVE  k + 1 \in P
  <2>1. k + 1 \in 1..n /\ (k + 1) - 1 = k
    BY <1>2
  <2> QED
    BY <1>2, <2>1
<1>3. \A k \in 0..n : k \in P
  <2> HIDE DEF P
  <2> QED
    BY <1>1, <1>2, CountedUp
<1> QED
  BY <1>3

\* F stays in D when it starts with x; f starts with x and goes on with F.
Stays(n, x, F, D) ==
  x \in D[0] /\ \A k \in 1..n : \A y \in D[k - 1] : F[k][y] \in D[k]
Follows(n, x, F, f) == f = [k \in 0..n |-> IF k = 0 THEN x ELSE F[k][f[k - 1]]]

\* Then there is such an f.
LEMMA Iterates ==
  ASSUME NEW n \in Nat, NEW x, NEW F, NEW D, Stays(n, x, F, D)
  PROVE  \E f : Follows(n, x, F, f) /\ \A k \in 0..n : f[k] \in D[k]
<1> DEFINE Good(m, f) == /\ f = [k \in 0..m |-> IF k = 0 THEN x ELSE F[k][f[k - 1]]]
                         /\ \A k \in 0..m : f[k] \in D[k]
           P == {m \in 0..n : \E f : Good(m, f)}
<1>0. x \in D[0] /\ \A k \in 1..n : \A y \in D[k - 1] : F[k][y] \in D[k]
  BY DEF Stays
<1>1. 0 \in P
  <2> DEFINE f == [k \in 0..0 |-> x]
  <2>1. Good(0, f)
    <3>1. f = [k \in 0..0 |-> IF k = 0 THEN x ELSE F[k][f[k - 1]]]
      OBVIOUS
    <3> QED
      BY <3>1, <1>0
  <2> HIDE DEF f, Good
  <2> QED
    BY <2>1
<1>2. ASSUME NEW m \in 0..n, m \in P, m < n
      PROVE  m + 1 \in P
  <2>1. PICK f : Good(m, f)
    BY <1>2
  <2> DEFINE g == [k \in 0..(m + 1) |-> IF k = m + 1 THEN F[m + 1][f[m]] ELSE f[k]]
  <2>2. \A k \in 0..m : g[k] = f[k]
    OBVIOUS
  <2>3. \A k \in 0..m : f[k] = IF k = 0 THEN x ELSE F[k][f[k - 1]]
    BY <2>1
  <2>4. \A k \in 0..(m + 1) : g[k] = IF k = 0 THEN x ELSE F[k][g[k - 1]]
    <3> SUFFICES ASSUME NEW k \in 0..(m + 1)
                 PROVE  g[k] = IF k = 0 THEN x ELSE F[k][g[k - 1]]
      OBVIOUS
    <3>1. CASE k = m + 1
      <4>1. g[k - 1] = f[m]
        BY <3>1, <2>2
      <4> QED
        BY <3>1, <4>1
    <3>2. CASE k # m + 1
      <4>1. k \in 0..m /\ (k # 0 => k - 1 \in 0..m)
        BY <3>2
      <4>2. k # 0 => g[k - 1] = f[k - 1]
        BY <4>1, <2>2
      <4>3. g[k] = f[k]
        BY <4>1, <2>2
      <4> HIDE DEF g
      <4> QED
        BY <4>1, <4>2, <4>3, <2>3
    <3> QED
      BY <3>1, <3>2
  <2> DEFINE h == [k \in 0..(m + 1) |-> IF k = 0 THEN x ELSE F[k][g[k - 1]]]
  <2>5. DOMAIN g = DOMAIN h /\ \A k \in DOMAIN h : h[k] = g[k]
    BY <2>4
  <2>6. g = h
    BY <2>5
  <2>7. f[m] \in D[m]
    BY <2>1
  <2>8. F[m + 1][f[m]] \in D[m + 1]
    <3>1. m + 1 \in 1..n /\ (m + 1) - 1 = m
      BY <1>2
    <3> QED
      BY <2>7, <3>1, <1>0
  <2>9. \A k \in 0..(m + 1) : g[k] \in D[k]
    <3> SUFFICES ASSUME NEW k \in 0..(m + 1)
                 PROVE  g[k] \in D[k]
      OBVIOUS
    <3>1. CASE k = m + 1
      BY <3>1, <2>8
    <3>2. CASE k # m + 1
      BY <3>2, <2>1, <2>2
    <3> QED
      BY <3>1, <3>2
  <2> HIDE DEF g
  <2>10. Good(m + 1, g)
    BY <2>6, <2>9
  <2> HIDE DEF Good
  <2> QED
    BY <2>10, <1>2
<1>3. n \in P
  <2> HIDE DEF P
  <2> QED
    BY <1>1, <1>2, CountedUp
<1> QED
  BY <1>3 DEF Follows

-----------------------------------------------------------------------------
(* The recursions of the heap *)

\* What every step up hands on holds when the sift ends.
LEMMA SiftUpReaches ==
  ASSUME NEW q, NEW i \in Nat, NEW D, [queue |-> q, place |-> i] \in D[0],
         \A k \in 1..i : \A h \in D[k - 1] : Raised(h) \in D[k]
  PROVE  \E h \in D[i] : SiftUp(q, i) = h.queue
<1> DEFINE N == i
           x == [queue |-> q, place |-> i]
           Step(h, k) == Raised(h)
           F == [k \in 1..N |-> [h \in D[k - 1] |-> Step(h, k)]]
           G(f) == f = [k \in 0..N |-> IF k = 0 THEN x ELSE Raised(f[k - 1])]
           after == CHOOSE f : G(f)
<1>1. N \in Nat
  OBVIOUS
<1>2. SiftUp(q, i) = after[N].queue
  BY DEF SiftUp
<1>3. x \in D[0] /\ \A k \in 1..N : \A h \in D[k - 1] : Step(h, k) \in D[k]
  OBVIOUS
<1> HIDE DEF N, x
<1>4. Stays(N, x, F, D)
  <2> HIDE DEF Step
  <2> QED
    BY <1>3 DEF Stays
<1>5. PICK f : Follows(N, x, F, f) /\ \A k \in 0..N : f[k] \in D[k]
  <2> HIDE DEF F
  <2> QED
    BY <1>1, <1>4, Iterates
<1>6. G(f)
  <2>1. f = [k \in 0..N |-> IF k = 0 THEN x ELSE F[k][f[k - 1]]]
    BY <1>5 DEF Follows
  <2> DEFINE g == [k \in 0..N |-> IF k = 0 THEN x ELSE Raised(f[k - 1])]
  <2>2. ASSUME NEW k \in 0..N
        PROVE  f[k] = g[k]
    <3>1. f[k] = IF k = 0 THEN x ELSE F[k][f[k - 1]]
      BY <2>1
    <3>2. k # 0 => k \in 1..N /\ k - 1 \in 0..N
      BY <1>1
    <3>3. k # 0 => f[k] = Step(f[k - 1], k)
      <4> HIDE DEF Step
      <4> QED
        BY <1>5, <3>1, <3>2
    <3> QED
      BY <3>1, <3>3
  <2>3. DOMAIN f = DOMAIN g /\ f = [k \in DOMAIN f |-> f[k]]
    BY <2>1
  <2>4. f = g
    <3> HIDE DEF Step
    <3> QED
      BY <2>2, <2>3
  <2> QED
    BY <2>4
<1>7. G(after)
  <2> HIDE DEF G
  <2> QED
    BY <1>6
<1> HIDE DEF after
<1>8. after[0] = x /\ \A k \in 1..N : after[k] = Step(after[k - 1], k)
  <2>1. after = [k \in 0..N |-> IF k = 0 THEN x ELSE Raised(after[k - 1])]
    BY <1>7
  <2>2. after[0] = x
    BY <1>1, <2>1
  <2>3. ASSUME NEW k \in 1..N
        PROVE  after[k] = Step(after[k - 1], k)
    <3>1. k \in 0..N /\ k # 0
      BY <1>1
    <3> QED
      BY <2>1, <3>1
  <2> QED
    BY <2>2, <2>3
<1>9. \A k \in 0..N : after[k] \in D[k]
  <2> HIDE DEF Step
  <2>1. after[0] \in D[0]
    BY <1>3, <1>8
  <2>2. \A k \in 1..N : after[k - 1] \in D[k - 1] => after[k] \in D[k]
    BY <1>3, <1>8
  <2> QED
    BY <1>1, <2>1, <2>2, HandedOn
<1> QED
  BY <1>1, <1>2, <1>9 DEF N

\* So of a sift down, which ends with one up.
LEMMA SiftDownReaches ==
  ASSUME NEW q, Len(q) \in Nat, NEW D, [queue |-> q, place |-> 1] \in D[0],
         \A k \in 1..Len(q) : \A h \in D[k - 1] : Lowered(h) \in D[k]
  PROVE  \E h \in D[Len(q)] : SiftDown(q) = SiftUp(h.queue, h.place)
<1> DEFINE N == Len(q)
           x == [queue |-> q, place |-> 1]
           Step(h, k) == Lowered(h)
           F == [k \in 1..N |-> [h \in D[k - 1] |-> Step(h, k)]]
           G(f) == f = [k \in 0..N |-> IF k = 0 THEN x ELSE Lowered(f[k - 1])]
           after == CHOOSE f : G(f)
<1>1. N \in Nat
  OBVIOUS
<1>2. SiftDown(q) = SiftUp(after[N].queue, after[N].place)
  BY DEF SiftDown
<1>3. x \in D[0] /\ \A k \in 1..N : \A h \in D[k - 1] : Step(h, k) \in D[k]
  OBVIOUS
<1> HIDE DEF N, x
<1>4. Stays(N, x, F, D)
  <2> HIDE DEF Step
  <2> QED
    BY <1>3 DEF Stays
<1>5. PICK f : Follows(N, x, F, f) /\ \A k \in 0..N : f[k] \in D[k]
  <2> HIDE DEF F
  <2> QED
    BY <1>1, <1>4, Iterates
<1>6. G(f)
  <2>1. f = [k \in 0..N |-> IF k = 0 THEN x ELSE F[k][f[k - 1]]]
    BY <1>5 DEF Follows
  <2> DEFINE g == [k \in 0..N |-> IF k = 0 THEN x ELSE Lowered(f[k - 1])]
  <2>2. ASSUME NEW k \in 0..N
        PROVE  f[k] = g[k]
    <3>1. f[k] = IF k = 0 THEN x ELSE F[k][f[k - 1]]
      BY <2>1
    <3>2. k # 0 => k \in 1..N /\ k - 1 \in 0..N
      BY <1>1
    <3>3. k # 0 => f[k] = Step(f[k - 1], k)
      <4> HIDE DEF Step
      <4> QED
        BY <1>5, <3>1, <3>2
    <3> QED
      BY <3>1, <3>3
  <2>3. DOMAIN f = DOMAIN g /\ f = [k \in DOMAIN f |-> f[k]]
    BY <2>1
  <2>4. f = g
    <3> HIDE DEF Step
    <3> QED
      BY <2>2, <2>3
  <2> QED
    BY <2>4
<1>7. G(after)
  <2> HIDE DEF G
  <2> QED
    BY <1>6
<1> HIDE DEF after
<1>8. after[0] = x /\ \A k \in 1..N : after[k] = Step(after[k - 1], k)
  <2>1. after = [k \in 0..N |-> IF k = 0 THEN x ELSE Lowered(after[k - 1])]
    BY <1>7
  <2>2. after[0] = x
    BY <1>1, <2>1
  <2>3. ASSUME NEW k \in 1..N
        PROVE  after[k] = Step(after[k - 1], k)
    <3>1. k \in 0..N /\ k # 0
      BY <1>1
    <3> QED
      BY <2>1, <3>1
  <2> QED
    BY <2>2, <2>3
<1>9. \A k \in 0..N : after[k] \in D[k]
  <2> HIDE DEF Step
  <2>1. after[0] \in D[0]
    BY <1>3, <1>8
  <2>2. \A k \in 1..N : after[k - 1] \in D[k - 1] => after[k] \in D[k]
    BY <1>3, <1>8
  <2> QED
    BY <1>1, <2>1, <2>2, HandedOn
<1> QED
  BY <1>1, <1>2, <1>9 DEF N

\* So of remove, which pushes the others again.
LEMMA ExcludingReaches ==
  ASSUME NEW q, NEW id, Len(q) \in Nat, NEW D, <<>> \in D[0],
         \A k \in 1..Len(q) : \A h \in D[k - 1] : (IF q[k].id = id THEN h ELSE Inserted(h, q[k])) \in D[k]
  PROVE  Excluding(q, id) \in D[Len(q)]
<1> DEFINE N == Len(q)
           x == <<>>
           Step(h, k) == (IF q[k].id = id THEN h ELSE Inserted(h, q[k]))
           F == [k \in 1..N |-> [h \in D[k - 1] |-> Step(h, k)]]
           G(f) == f = [k \in 0..N |-> IF k = 0 THEN x
                                       ELSE IF q[k].id = id THEN f[k - 1]
                                       ELSE Inserted(f[k - 1], q[k])]
           after == CHOOSE f : G(f)
<1>1. N \in Nat
  OBVIOUS
<1>2. Excluding(q, id) = after[N]
  BY DEF Excluding
<1>3. x \in D[0] /\ \A k \in 1..N : \A h \in D[k - 1] : Step(h, k) \in D[k]
  OBVIOUS
<1> HIDE DEF N, x
<1>4. Stays(N, x, F, D)
  <2> HIDE DEF Step
  <2> QED
    BY <1>3 DEF Stays
<1>5. PICK f : Follows(N, x, F, f) /\ \A k \in 0..N : f[k] \in D[k]
  <2> HIDE DEF F
  <2> QED
    BY <1>1, <1>4, Iterates
<1>6. G(f)
  <2>1. f = [k \in 0..N |-> IF k = 0 THEN x ELSE F[k][f[k - 1]]]
    BY <1>5 DEF Follows
  <2> DEFINE g == [k \in 0..N |-> IF k = 0 THEN x
                                       ELSE IF q[k].id = id THEN f[k - 1]
                                       ELSE Inserted(f[k - 1], q[k])]
  <2>2. ASSUME NEW k \in 0..N
        PROVE  f[k] = g[k]
    <3>1. f[k] = IF k = 0 THEN x ELSE F[k][f[k - 1]]
      BY <2>1
    <3>2. k # 0 => k \in 1..N /\ k - 1 \in 0..N
      BY <1>1
    <3>3. k # 0 => f[k] = Step(f[k - 1], k)
      <4> HIDE DEF Step
      <4> QED
        BY <1>5, <3>1, <3>2
    <3> QED
      BY <3>1, <3>3
  <2>3. DOMAIN f = DOMAIN g /\ f = [k \in DOMAIN f |-> f[k]]
    BY <2>1
  <2>4. f = g
    <3> HIDE DEF Step
    <3> QED
      BY <2>2, <2>3
  <2> QED
    BY <2>4
<1>7. G(after)
  <2> HIDE DEF G
  <2> QED
    BY <1>6
<1> HIDE DEF after
<1>8. after[0] = x /\ \A k \in 1..N : after[k] = Step(after[k - 1], k)
  <2>1. after = [k \in 0..N |-> IF k = 0 THEN x
                                       ELSE IF q[k].id = id THEN after[k - 1]
                                       ELSE Inserted(after[k - 1], q[k])]
    BY <1>7
  <2>2. after[0] = x
    BY <1>1, <2>1
  <2>3. ASSUME NEW k \in 1..N
        PROVE  after[k] = Step(after[k - 1], k)
    <3>1. k \in 0..N /\ k # 0
      BY <1>1
    <3> QED
      BY <2>1, <3>1
  <2> QED
    BY <2>2, <2>3
<1>9. \A k \in 0..N : after[k] \in D[k]
  <2> HIDE DEF Step
  <2>1. after[0] \in D[0]
    BY <1>3, <1>8
  <2>2. \A k \in 1..N : after[k - 1] \in D[k - 1] => after[k] \in D[k]
    BY <1>3, <1>8
  <2> QED
    BY <1>1, <2>1, <2>2, HandedOn
<1> QED
  BY <1>1, <1>2, <1>9 DEF N

\* So of cancel_device.
LEMMA ExcludingDeviceReaches ==
  ASSUME NEW q, NEW unit, Len(q) \in Nat, NEW D, q \in D[0],
         \A k \in 1..Len(q) : \A h \in D[k - 1] : (IF q[k].handle = unit THEN Excluding(h, q[k].id) ELSE h) \in D[k]
  PROVE  ExcludingDevice(q, unit) \in D[Len(q)]
<1> DEFINE N == Len(q)
           x == q
           Step(h, k) == (IF q[k].handle = unit THEN Excluding(h, q[k].id) ELSE h)
           F == [k \in 1..N |-> [h \in D[k - 1] |-> Step(h, k)]]
           G(f) == f = [k \in 0..N |-> IF k = 0 THEN x
                                       ELSE IF q[k].handle = unit
                                            THEN Excluding(f[k - 1], q[k].id)
                                       ELSE f[k - 1]]
           after == CHOOSE f : G(f)
<1>1. N \in Nat
  OBVIOUS
<1>2. ExcludingDevice(q, unit) = after[N]
  BY DEF ExcludingDevice
<1>3. x \in D[0] /\ \A k \in 1..N : \A h \in D[k - 1] : Step(h, k) \in D[k]
  OBVIOUS
<1> HIDE DEF N, x
<1>4. Stays(N, x, F, D)
  <2> HIDE DEF Step
  <2> QED
    BY <1>3 DEF Stays
<1>5. PICK f : Follows(N, x, F, f) /\ \A k \in 0..N : f[k] \in D[k]
  <2> HIDE DEF F
  <2> QED
    BY <1>1, <1>4, Iterates
<1>6. G(f)
  <2>1. f = [k \in 0..N |-> IF k = 0 THEN x ELSE F[k][f[k - 1]]]
    BY <1>5 DEF Follows
  <2> DEFINE g == [k \in 0..N |-> IF k = 0 THEN x
                                       ELSE IF q[k].handle = unit
                                            THEN Excluding(f[k - 1], q[k].id)
                                       ELSE f[k - 1]]
  <2>2. ASSUME NEW k \in 0..N
        PROVE  f[k] = g[k]
    <3>1. f[k] = IF k = 0 THEN x ELSE F[k][f[k - 1]]
      BY <2>1
    <3>2. k # 0 => k \in 1..N /\ k - 1 \in 0..N
      BY <1>1
    <3>3. k # 0 => f[k] = Step(f[k - 1], k)
      <4> HIDE DEF Step
      <4> QED
        BY <1>5, <3>1, <3>2
    <3> QED
      BY <3>1, <3>3
  <2>3. DOMAIN f = DOMAIN g /\ f = [k \in DOMAIN f |-> f[k]]
    BY <2>1
  <2>4. f = g
    <3> HIDE DEF Step
    <3> QED
      BY <2>2, <2>3
  <2> QED
    BY <2>4
<1>7. G(after)
  <2> HIDE DEF G
  <2> QED
    BY <1>6
<1> HIDE DEF after
<1>8. after[0] = x /\ \A k \in 1..N : after[k] = Step(after[k - 1], k)
  <2>1. after = [k \in 0..N |-> IF k = 0 THEN x
                                       ELSE IF q[k].handle = unit
                                            THEN Excluding(after[k - 1], q[k].id)
                                       ELSE after[k - 1]]
    BY <1>7
  <2>2. after[0] = x
    BY <1>1, <2>1
  <2>3. ASSUME NEW k \in 1..N
        PROVE  after[k] = Step(after[k - 1], k)
    <3>1. k \in 0..N /\ k # 0
      BY <1>1
    <3> QED
      BY <2>1, <3>1
  <2> QED
    BY <2>2, <2>3
<1>9. \A k \in 0..N : after[k] \in D[k]
  <2> HIDE DEF Step
  <2>1. after[0] \in D[0]
    BY <1>3, <1>8
  <2>2. \A k \in 1..N : after[k - 1] \in D[k - 1] => after[k] \in D[k]
    BY <1>3, <1>8
  <2> QED
    BY <1>1, <2>1, <2>2, HandedOn
<1> QED
  BY <1>1, <1>2, <1>9 DEF N

-----------------------------------------------------------------------------
(* What the heap keeps of its requests *)

\* The queue has the requests of S, each once.
Arranges(queue, S) ==
  /\ queue \in Seq(S)
  /\ \A i, j \in 1..Len(queue) : queue[i] = queue[j] => i = j
  /\ \A r \in S : \E i \in 1..Len(queue) : queue[i] = r

\* The states of a sift: S in a queue of n places, with a hole.
Holes(S, n) ==
  {h \in [queue : Seq(S), place : 1..n] : Arranges(h.queue, S) /\ Len(h.queue) = n}

\* Two requests may change places.
LEMMA SwappedKeeps ==
  ASSUME NEW S, NEW q, Arranges(q, S), NEW i \in 1..Len(q), NEW j \in 1..Len(q)
  PROVE  /\ Arranges(Swapped(q, i, j), S)
         /\ Len(Swapped(q, i, j)) = Len(q)
<1> DEFINE p == Swapped(q, i, j)
           n == Len(q)
<1>1. q \in Seq(S) /\ n \in Nat
  BY DEF Arranges
<1>2. p \in Seq(S) /\ Len(p) = n
  BY <1>1 DEF Swapped
<1>3. \A k \in 1..n : p[k] = IF k = j THEN q[i] ELSE IF k = i THEN q[j] ELSE q[k]
  BY <1>1 DEF Swapped
<1> HIDE DEF p
<1>4. \A k, m \in 1..n : p[k] = p[m] => k = m
  BY <1>3 DEF Arranges
<1>5. ASSUME NEW r \in S
      PROVE  \E k \in 1..n : p[k] = r
  <2>1. PICK k \in 1..n : q[k] = r
    BY DEF Arranges
  <2>2. CASE k = i
    BY <2>1, <2>2, <1>3
  <2>3. CASE k = j
    BY <2>1, <2>3, <1>3
  <2>4. CASE k # i /\ k # j
    BY <2>1, <2>4, <1>3
  <2> QED
    BY <2>2, <2>3, <2>4
<1>6. Arranges(p, S)
  BY <1>2, <1>4, <1>5 DEF Arranges
<1> QED
  BY <1>2, <1>6 DEF p

\* A step up keeps the requests.
LEMMA RaisedKeeps ==
  ASSUME NEW S, NEW n \in Nat, NEW h \in Holes(S, n)
  PROVE  Raised(h) \in Holes(S, n)
<1>1. /\ h.queue \in Seq(S) /\ h.place \in 1..n
      /\ Arranges(h.queue, S) /\ Len(h.queue) = n
  BY DEF Holes
<1> DEFINE above == h.place \div 2
           p == Swapped(h.queue, h.place, above)
<1>2. CASE h.place = 1 \/ NotAbove(h.queue[h.place], h.queue[above])
  BY <1>2 DEF Raised
<1>3. CASE ~(h.place = 1 \/ NotAbove(h.queue[h.place], h.queue[above]))
  <2>1. above \in 1..n
    BY <1>1, <1>3
  <2> HIDE DEF above
  <2>2. Arranges(p, S) /\ Len(p) = n
    BY <1>1, <2>1, SwappedKeeps
  <2>3. p \in Seq(S)
    BY <2>2 DEF Arranges
  <2> HIDE DEF p
  <2>4. [queue |-> p, place |-> above] \in Holes(S, n)
    BY <2>1, <2>2, <2>3 DEF Holes
  <2> QED
    BY <2>4, <1>3 DEF Raised, p, above
<1> QED
  BY <1>2, <1>3

\* A step down keeps them.
LEMMA LoweredKeeps ==
  ASSUME NEW S, NEW n \in Nat, NEW h \in Holes(S, n)
  PROVE  Lowered(h) \in Holes(S, n)
<1>1. /\ h.queue \in Seq(S) /\ h.place \in 1..n
      /\ Arranges(h.queue, S) /\ Len(h.queue) = n
  BY DEF Holes
<1> DEFINE left == 2 * h.place
           child == IF left < Len(h.queue) /\ NotAbove(h.queue[left], h.queue[left + 1])
                    THEN left + 1 ELSE left
           p == Swapped(h.queue, h.place, child)
<1>2. CASE left > Len(h.queue)
  BY <1>2 DEF Lowered
<1>3. CASE ~(left > Len(h.queue))
  <2>1. child \in 1..n
    BY <1>1, <1>3
  <2> HIDE DEF child
  <2>2. Arranges(p, S) /\ Len(p) = n
    BY <1>1, <2>1, SwappedKeeps
  <2>3. p \in Seq(S)
    BY <2>2 DEF Arranges
  <2> HIDE DEF p
  <2>4. [queue |-> p, place |-> child] \in Holes(S, n)
    BY <2>1, <2>2, <2>3 DEF Holes
  <2> QED
    BY <2>4, <1>3 DEF Lowered, p, child
<1> QED
  BY <1>2, <1>3

\* So does a sift up.
LEMMA SiftUpKeeps ==
  ASSUME NEW S, NEW q, Arranges(q, S), NEW i \in 1..Len(q)
  PROVE  /\ Arranges(SiftUp(q, i), S)
         /\ Len(SiftUp(q, i)) = Len(q)
<1> DEFINE n == Len(q)
           D == [k \in 0..i |-> Holes(S, n)]
<1>1. q \in Seq(S) /\ n \in Nat /\ i \in Nat
  BY DEF Arranges
<1>2. [queue |-> q, place |-> i] \in D[0]
  BY <1>1 DEF Holes
<1> HIDE DEF n
<1>3. \A k \in 1..i : \A h \in D[k - 1] : Raised(h) \in D[k]
  BY <1>1, RaisedKeeps
<1>4. D[i] = Holes(S, n)
  BY <1>1
<1> HIDE DEF D
<1>5. PICK h \in Holes(S, n) : SiftUp(q, i) = h.queue
  BY <1>1, <1>2, <1>3, <1>4, SiftUpReaches
<1> QED
  BY <1>5 DEF Holes, n

\* And a sift down.
LEMMA SiftDownKeeps ==
  ASSUME NEW S, NEW q, Arranges(q, S), Len(q) > 0
  PROVE  Arranges(SiftDown(q), S) /\ Len(SiftDown(q)) = Len(q)
<1> DEFINE n == Len(q)
           D == [k \in 0..n |-> Holes(S, n)]
<1>1. q \in Seq(S) /\ n \in Nat /\ n > 0 /\ n = Len(q)
  BY DEF Arranges
<1>2. [queue |-> q, place |-> 1] \in D[0]
  BY <1>1 DEF Holes
<1> HIDE DEF n
<1>3. \A k \in 1..n : \A h \in D[k - 1] : Lowered(h) \in D[k]
  BY <1>1, LoweredKeeps
<1>4. D[n] = Holes(S, n)
  BY <1>1
<1> HIDE DEF D
<1>5. PICK h \in Holes(S, n) : SiftDown(q) = SiftUp(h.queue, h.place)
  BY <1>1, <1>2, <1>3, <1>4, SiftDownReaches
<1>6. Arranges(h.queue, S) /\ Len(h.queue) = n /\ h.place \in 1..Len(h.queue)
  BY <1>5 DEF Holes
<1> QED
  BY <1>1, <1>5, <1>6, SiftUpKeeps

\* A request put at the end is with the others.
LEMMA AppendedAdds ==
  ASSUME NEW S, NEW q, Arranges(q, S), NEW r, r \notin S
  PROVE  /\ Arranges(Append(q, r), S \cup {r})
         /\ Len(Append(q, r)) = Len(q) + 1 /\ Len(q) \in Nat
         /\ \A k \in 1..Len(q) : Append(q, r)[k] = q[k]
<1> DEFINE p == Append(q, r)
           n == Len(q)
<1>1. q \in Seq(S) /\ n \in Nat /\ q \in Seq(S \cup {r})
  BY DEF Arranges
<1>2. p \in Seq(S \cup {r}) /\ Len(p) = n + 1
  BY <1>1
<1>3. p[n + 1] = r /\ \A k \in 1..n : p[k] = q[k] /\ q[k] \in S
  BY <1>1
<1> HIDE DEF p
<1>4. \A i, j \in 1..(n + 1) : p[i] = p[j] => i = j
  <2> SUFFICES ASSUME NEW i \in 1..(n + 1), NEW j \in 1..(n + 1), p[i] = p[j]
               PROVE  i = j
    OBVIOUS
  <2>1. CASE i = n + 1 /\ j = n + 1
    BY <2>1
  <2>2. CASE i = n + 1 /\ j \in 1..n
    BY <2>2, <1>3
  <2>3. CASE i \in 1..n /\ j = n + 1
    BY <2>3, <1>3
  <2>4. CASE i \in 1..n /\ j \in 1..n
    BY <2>4, <1>3 DEF Arranges
  <2> QED
    BY <1>1, <2>1, <2>2, <2>3, <2>4
<1>5. \A x \in S \cup {r} : \E i \in 1..(n + 1) : p[i] = x
  <2> SUFFICES ASSUME NEW x \in S \cup {r}
               PROVE  \E i \in 1..(n + 1) : p[i] = x
    OBVIOUS
  <2>1. CASE x = r
    BY <2>1, <1>1, <1>3
  <2>2. CASE x \in S
    <3>1. PICK i \in 1..n : q[i] = x
      BY <2>2 DEF Arranges
    <3> QED
      BY <1>1, <1>3, <3>1
  <2> QED
    BY <2>1, <2>2
<1>6. Arranges(p, S \cup {r})
  BY <1>2, <1>4, <1>5 DEF Arranges
<1> QED
  BY <1>1, <1>2, <1>3, <1>6 DEF p

\* A request that is pushed is with the others.
LEMMA InsertedAdds ==
  ASSUME NEW S, NEW q, Arranges(q, S), NEW r, r \notin S
  PROVE  Arranges(Inserted(q, r), S \cup {r})
<1>1. /\ Arranges(Append(q, r), S \cup {r})
      /\ Len(q) + 1 \in 1..Len(Append(q, r))
  BY AppendedAdds
<1> QED
  BY <1>1, SiftUpKeeps DEF Inserted

\* Front has all but the last.
LEMMA FrontHas ==
  ASSUME NEW S, NEW q \in Seq(S), Len(q) > 1
  PROVE  /\ Front(q) \in Seq(S) /\ Len(Front(q)) = Len(q) - 1
         /\ \A k \in 1..(Len(q) - 1) : Front(q)[k] = q[k]
<1> DEFINE m == Len(q) - 1
           front == SubSeq(q, 1, m)
<1>1. m \in Nat /\ m >= 1
  OBVIOUS
<1>2. \A i \in 1..m : q[i] \in S
  OBVIOUS
<1>3. Front(q) = front
  BY DEF Front
<1> HIDE DEF m
<1>4. /\ front \in Seq(S) /\ Len(front) = IF 1 <= m THEN m - 1 + 1 ELSE 0
      /\ \A i \in 1..(m - 1 + 1) : front[i] = q[1 + i - 1]
  BY <1>1, <1>2, SubSeqProperties
<1>5. \A i \in 1..m : i \in 1..(m - 1 + 1) /\ 1 + i - 1 = i
  BY <1>1
<1>6. Len(front) = m /\ \A i \in 1..m : front[i] = q[i]
  BY <1>1, <1>4, <1>5
<1> QED
  BY <1>3, <1>4, <1>6 DEF m

\* The last request takes the first one's place.
Refilled(queue) == [Front(queue) EXCEPT ![1] = Last(queue)]

LEMMA MovedKeeps ==
  ASSUME NEW S, NEW q, Arranges(q, S), Len(q) > 1
  PROVE  /\ Arranges(Refilled(q), S \ {q[1]}) /\ Len(Refilled(q)) = Len(q) - 1
         /\ \A k \in 1..(Len(q) - 1) : Refilled(q)[k] = IF k = 1 THEN q[Len(q)] ELSE q[k]
<1> DEFINE n == Len(q)
           p == [Front(q) EXCEPT ![1] = Last(q)]
           T == S \ {q[1]}
<1>1. q \in Seq(S) /\ n \in Nat /\ n > 1
  BY DEF Arranges
<1>2. /\ Front(q) \in Seq(S) /\ Len(Front(q)) = n - 1 /\ Last(q) = q[n]
      /\ \A k \in 1..(n - 1) : Front(q)[k] = q[k]
  BY <1>1, FrontHas DEF Last
<1>3. /\ p \in Seq(S) /\ Len(p) = n - 1
      /\ \A k \in 1..(n - 1) : p[k] = IF k = 1 THEN q[n] ELSE q[k]
  BY <1>1, <1>2
<1> HIDE DEF p
<1>4. \A i, j \in 1..n : q[i] = q[j] => i = j
  BY DEF Arranges
<1>5. \A k \in 1..(n - 1) : p[k] \in T
  BY <1>1, <1>3, <1>4
<1>6. p \in Seq(T)
  BY <1>1, <1>3, <1>5
<1>7. \A i, j \in 1..(n - 1) : p[i] = p[j] => i = j
  BY <1>1, <1>3, <1>4
<1>8. ASSUME NEW r \in T
      PROVE  \E k \in 1..(n - 1) : p[k] = r
  <2>1. PICK k \in 1..n : q[k] = r
    BY DEF Arranges
  <2>2. k # 1
    BY <2>1
  <2>3. CASE k = n
    <3>1. 1 \in 1..(n - 1) /\ p[1] = r
      BY <1>1, <1>3, <2>1, <2>3
    <3> QED
      BY <3>1
  <2>4. CASE k # n
    <3>1. k \in 1..(n - 1) /\ p[k] = r
      BY <1>1, <1>3, <2>1, <2>2, <2>4
    <3> QED
      BY <3>1
  <2> QED
    BY <2>3, <2>4
<1>9. Arranges(p, T)
  BY <1>3, <1>6, <1>7, <1>8 DEF Arranges
<1> QED
  BY <1>3, <1>9 DEF p, Refilled

\* A queue that is not empty has a place.
LEMMA SomeQueued ==
  ASSUME NEW S, NEW q \in Seq(S), q # <<>>
  PROVE  Len(q) > 0
<1>1. Len(q) \in Nat /\ Len(q) # 0
  OBVIOUS
<1> QED
  BY <1>1

\* The front of the queue leaves, and no other.
LEMMA PoppedTakes ==
  ASSUME NEW S, NEW q, Arranges(q, S), Len(q) > 0
  PROVE  /\ q[1] \in S
         /\ Arranges(Popped(q), S \ {q[1]})
<1> DEFINE n == Len(q)
           p == Refilled(q)
           T == S \ {q[1]}
<1>1. q \in Seq(S) /\ n \in Nat /\ n > 0 /\ q[1] \in S
  BY DEF Arranges
<1>4. n = 1 \/ n > 1
  <2> HIDE DEF n
  <2> QED
    BY <1>1
<1>2. CASE n = 1
  <2>1. Popped(q) = <<>>
    BY <1>2 DEF Popped
  <2>2. T = {}
    BY <1>2 DEF Arranges
  <2>3. Arranges(<<>>, {})
    BY DEF Arranges
  <2> QED
    BY <1>1, <2>1, <2>2, <2>3
<1>3. CASE n > 1
  <2>1. Arranges(p, T) /\ Len(p) > 0
    BY <1>1, <1>3, MovedKeeps
  <2>2. Popped(q) = SiftDown(p)
    <3>1. n # 1
      <4> HIDE DEF n, p, T
      <4> QED
        BY <1>1, <1>3
    <3> QED
      BY <3>1 DEF Popped, Refilled
  <2> QED
    BY <1>1, <2>1, <2>2, SiftDownKeeps
<1> QED
  BY <1>2, <1>3, <1>4

-----------------------------------------------------------------------------
(* The order of the heap *)

\* What the heap can hold.
Queued == [id : 1..MaxRequest, handle : QosHandle, level : Level, at : 0..MaxClock]

\* No request is above the one at its parent's place.
Ordered(queue) == \A j \in 2..Len(queue) : NotAbove(queue[j], queue[j \div 2])

\* What is below place p would be in order a place higher.
Graft(queue, p) ==
  \A j \in 2..Len(queue) : j \div 2 = p /\ p > 1 => NotAbove(queue[j], queue[p \div 2])

\* The request at p may be above its parent; or it may be out of order both ways.
OrderedBut(queue, p) ==
  /\ \A j \in 2..Len(queue) : j # p => NotAbove(queue[j], queue[j \div 2])
  /\ Graft(queue, p)
OrderedAround(queue, p) ==
  /\ \A j \in 2..Len(queue) : j # p /\ j \div 2 # p => NotAbove(queue[j], queue[j \div 2])
  /\ Graft(queue, p)

\* Its figures are numbers.
LEMMA Figures ==
  ASSUME NEW a \in Queued
  PROVE  /\ a.level \in Int /\ a.at \in Int
         /\ clock \in Nat => EffectivePriority(a) \in Int /\ Waited(a) \in Int
<1>1. a.level \in Level /\ a.at \in 0..MaxClock
  BY DEF Queued
<1>2. a.level \in 0..3
  BY <1>1, QosAssumption
<1>3. a.level \in Int /\ a.at \in Int
  BY <1>1, <1>2
<1>4. clock \in Nat => EffectivePriority(a) \in Int /\ Waited(a) \in Int
  BY <1>3 DEF EffectivePriority, Waited
<1> QED
  BY <1>3, <1>4

\* At one time any two requests compare, and comparisons chain.
LEMMA AnyTwoCompare ==
  ASSUME NEW S, S \subseteq Queued, clock \in Nat, NEW q \in Seq(S)
  PROVE  /\ \A i, j \in 1..Len(q) : NotAbove(q[i], q[j]) \/ NotAbove(q[j], q[i])
         /\ \A i, j, k \in 1..Len(q) :
              NotAbove(q[i], q[j]) /\ NotAbove(q[j], q[k]) => NotAbove(q[i], q[k])
<1>1. ASSUME NEW i \in 1..Len(q)
      PROVE  EffectivePriority(q[i]) \in Int /\ Waited(q[i]) \in Int
  <2>1. q[i] \in Queued
    OBVIOUS
  <2> QED
    BY <2>1, Figures
<1>2. ASSUME NEW i \in 1..Len(q), NEW j \in 1..Len(q)
      PROVE  NotAbove(q[i], q[j]) \/ NotAbove(q[j], q[i])
  BY <1>1 DEF NotAbove
<1>3. ASSUME NEW i \in 1..Len(q), NEW j \in 1..Len(q), NEW k \in 1..Len(q),
             NotAbove(q[i], q[j]), NotAbove(q[j], q[k])
      PROVE  NotAbove(q[i], q[k])
  BY <1>1, <1>3 DEF NotAbove
<1> QED
  BY <1>2, <1>3

\* A step up moves what is out of order nearer to the root, or finds all in order.
LEMMA RaisedOrders ==
  ASSUME NEW S, S \subseteq Queued, clock \in Nat, NEW n \in Nat, NEW h \in Holes(S, n),
         OrderedBut(h.queue, h.place)
  PROVE  \/ Raised(h) = h /\ Ordered(h.queue)
         \/ OrderedBut(Raised(h).queue, Raised(h).place) /\ Raised(h).place < h.place
<1> DEFINE q == h.queue
           p == h.place
           a == p \div 2
           t == Swapped(q, p, a)
<1>1. q \in Seq(S) /\ p \in 1..n /\ Len(q) = n
  BY DEF Holes
<1>2. CASE p = 1 \/ NotAbove(q[p], q[a])
  <2>1. Raised(h) = h
    BY <1>2 DEF Raised
  <2>2. Ordered(q)
    BY <1>1, <1>2 DEF Ordered, OrderedBut
  <2> QED
    BY <2>1, <2>2
<1>3. CASE ~(p = 1 \/ NotAbove(q[p], q[a]))
  <2>1. a \in 1..n /\ a < p /\ p \in 2..n
    BY <1>1, <1>3
  <2>2. Raised(h) = [queue |-> t, place |-> a]
    BY <1>3 DEF Raised
  <2>3. /\ Len(t) = n
        /\ \A k \in 1..n : t[k] = IF k = a THEN q[p] ELSE IF k = p THEN q[a] ELSE q[k]
    BY <1>1, <2>1 DEF Swapped
  <2>4. /\ \A i, j \in 1..n : NotAbove(q[i], q[j]) \/ NotAbove(q[j], q[i])
        /\ \A i, j, k \in 1..n :
             NotAbove(q[i], q[j]) /\ NotAbove(q[j], q[k]) => NotAbove(q[i], q[k])
    BY <1>1, AnyTwoCompare
  <2>5. NotAbove(q[a], q[p])
    BY <1>1, <1>3, <2>1, <2>4
  <2>6. /\ \A j \in 2..n : j # p => NotAbove(q[j], q[j \div 2])
        /\ \A j \in 2..n : j \div 2 = p /\ p > 1 => NotAbove(q[j], q[a])
    BY <1>1 DEF OrderedBut, Graft
  <2>7. p \div 2 = a
    OBVIOUS
  <2> HIDE DEF a, t, q, p
  <2>8. ASSUME NEW j \in 2..n, j # a
        PROVE  NotAbove(t[j], t[j \div 2])
    <3>0. j \in 1..n /\ j \div 2 \in 1..n /\ j \div 2 < j
      BY <1>1
    <3>1. CASE j = p
      BY <2>1, <2>3, <2>5, <2>7, <3>0, <3>1
    <3>2. CASE j # p /\ j \div 2 = a
      <4>1. t[j] = q[j] /\ t[a] = q[p]
        BY <2>1, <2>3, <2>8, <3>0, <3>2
      <4>2. NotAbove(q[j], q[a])
        BY <2>6, <3>2
      <4> QED
        BY <1>1, <2>1, <2>4, <2>5, <3>0, <3>2, <4>1, <4>2
    <3>3. CASE j # p /\ j \div 2 = p
      <4>1. t[j] = q[j] /\ t[p] = q[a]
        BY <1>1, <2>1, <2>3, <2>8, <3>0, <3>3
      <4> QED
        BY <2>1, <2>6, <3>3, <4>1
    <3>4. CASE j # p /\ j \div 2 # a /\ j \div 2 # p
      <4>1. t[j] = q[j] /\ t[j \div 2] = q[j \div 2]
        BY <2>3, <2>8, <3>0, <3>4
      <4> QED
        BY <2>6, <3>4, <4>1
    <3> QED
      BY <3>1, <3>2, <3>3, <3>4
  <2>9. ASSUME NEW j \in 2..n, j \div 2 = a, a > 1
        PROVE  NotAbove(t[j], t[a \div 2])
    <3>0. /\ j \in 1..n /\ j # a /\ a \in 2..n /\ a # p
          /\ a \div 2 \in 1..n /\ a \div 2 # a /\ a \div 2 # p
      BY <1>1, <2>1, <2>9
    <3>1. t[a \div 2] = q[a \div 2] /\ NotAbove(q[a], q[a \div 2])
      BY <2>3, <2>6, <3>0
    <3>2. CASE j = p
      BY <2>3, <3>0, <3>1, <3>2
    <3>3. CASE j # p
      <4>1. t[j] = q[j] /\ NotAbove(q[j], q[a])
        BY <2>3, <2>6, <2>9, <3>0, <3>3
      <4> QED
        BY <2>1, <2>4, <3>0, <3>1, <4>1
    <3> QED
      BY <3>2, <3>3
  <2>10. OrderedBut(t, a)
    BY <2>3, <2>8, <2>9 DEF OrderedBut, Graft
  <2> QED
    BY <2>1, <2>2, <2>10 DEF p
<1> QED
  BY <1>2, <1>3

\* A sift up puts the heap in order.
LEMMA SiftUpOrders ==
  ASSUME NEW S, S \subseteq Queued, clock \in Nat, NEW q, Arranges(q, S),
         NEW i \in 1..Len(q), OrderedBut(q, i)
  PROVE  Ordered(SiftUp(q, i))
<1> DEFINE n == Len(q)
           Near(k) == {h \in Holes(S, n) :
                         \/ Ordered(h.queue)
                         \/ OrderedBut(h.queue, h.place) /\ h.place <= i - k}
           D == [k \in 0..i |-> Near(k)]
<1>1. q \in Seq(S) /\ n \in Nat /\ i \in Nat
  BY DEF Arranges
<1>2. [queue |-> q, place |-> i] \in D[0]
  BY <1>1 DEF Holes
<1>3. ASSUME NEW k \in 1..i, NEW h \in D[k - 1]
      PROVE  Raised(h) \in D[k]
  <2>1. /\ h \in Holes(S, n)
        /\ \/ Ordered(h.queue)
           \/ OrderedBut(h.queue, h.place) /\ h.place <= i - (k - 1)
    BY <1>1
  <2>2. Raised(h) \in Holes(S, n) /\ h.place \in Nat /\ Raised(h).place \in Nat
    BY <1>1, <2>1, RaisedKeeps DEF Holes
  <2>3. CASE Ordered(h.queue)
    <3>1. h.place \in 1..Len(h.queue)
      BY <2>1 DEF Holes
    <3>2. h.place = 1 \/ NotAbove(h.queue[h.place], h.queue[h.place \div 2])
      BY <2>3, <3>1, <1>1 DEF Ordered, Holes
    <3>3. Raised(h) = h
      BY <3>2 DEF Raised
    <3> QED
      BY <2>1, <2>3, <3>3
  <2>4. CASE OrderedBut(h.queue, h.place) /\ h.place <= i - (k - 1)
    <3>1. \/ Raised(h) = h /\ Ordered(h.queue)
          \/ OrderedBut(Raised(h).queue, Raised(h).place) /\ Raised(h).place < h.place
      BY <1>1, <2>1, <2>4, RaisedOrders
    <3>2. Raised(h).place < h.place => Raised(h).place <= i - k
      BY <1>1, <2>2, <2>4
    <3> QED
      BY <2>1, <2>2, <3>1, <3>2
  <2> QED
    BY <2>1, <2>3, <2>4
<1>4. D[i] = Near(i)
  BY <1>1
<1>5. PICK h \in Near(i) : SiftUp(q, i) = h.queue
  <2> HIDE DEF D, Near
  <2> QED
    BY <1>1, <1>2, <1>3, <1>4, SiftUpReaches
<1>6. h.place \in Nat /\ h.place > 0
  BY <1>1 DEF Holes
<1> QED
  BY <1>1, <1>5, <1>6

\* A step down moves what is out of order further from the root, or is at a leaf.
LEMMA LoweredOrders ==
  ASSUME NEW S, S \subseteq Queued, clock \in Nat, NEW n \in Nat, NEW h \in Holes(S, n),
         OrderedAround(h.queue, h.place)
  PROVE  \/ Lowered(h) = h /\ 2 * h.place > n
         \/ OrderedAround(Lowered(h).queue, Lowered(h).place) /\ Lowered(h).place > h.place
<1> DEFINE q == h.queue
           p == h.place
           left == 2 * p
           c == IF left < Len(q) /\ NotAbove(q[left], q[left + 1]) THEN left + 1 ELSE left
           t == Swapped(q, p, c)
<1>1. q \in Seq(S) /\ p \in 1..n /\ Len(q) = n
  BY DEF Holes
<1>2. CASE left > Len(q)
  BY <1>1, <1>2 DEF Lowered
<1>3. CASE ~(left > Len(q))
  <2>1. c \in 2..n /\ c > p /\ c \div 2 = p /\ p \in 1..n
    <3>1. c = left \/ (left < n /\ c = left + 1)
      BY <1>1
    <3>2. p \in 1..n /\ ~(2 * p > n)
      BY <1>1, <1>3
    <3> HIDE DEF c, p, t, q
    <3>3. left \in 2..n /\ left > p /\ left \div 2 = p
      BY <3>2
    <3>4. left < n => left + 1 \in 2..n /\ left + 1 > p /\ (left + 1) \div 2 = p
      BY <3>2
    <3> HIDE DEF left
    <3> QED
      BY <3>1, <3>2, <3>3, <3>4
  <2>2. Lowered(h) = [queue |-> t, place |-> c]
    BY <1>3 DEF Lowered
  <2>3. /\ Len(t) = n
        /\ \A k \in 1..n : t[k] = IF k = c THEN q[p] ELSE IF k = p THEN q[c] ELSE q[k]
    <3>1. t = Swapped(q, p, c)
      OBVIOUS
    <3> HIDE DEF c, t, q, p
    <3> QED
      BY <1>1, <2>1, <3>1 DEF Swapped
  <2>4. \A i, j \in 1..n : NotAbove(q[i], q[j]) \/ NotAbove(q[j], q[i])
    BY <1>1, AnyTwoCompare
  <2>5. ASSUME NEW j \in 2..n, j \div 2 = p, j # c
        PROVE  NotAbove(q[j], q[c])
    <3>1. left \in 1..n /\ j \in {left, left + 1}
      BY <1>1, <1>3, <2>5
    <3>2. CASE left < n /\ NotAbove(q[left], q[left + 1])
      BY <1>1, <2>5, <3>1, <3>2
    <3>3. CASE ~(left < n /\ NotAbove(q[left], q[left + 1]))
      <4>1. c = left /\ j = left + 1 /\ left + 1 \in 1..n /\ left < n
        BY <1>1, <2>5, <3>1, <3>3
      <4> HIDE DEF left, c
      <4> QED
        BY <2>4, <3>1, <3>3, <4>1
    <3> QED
      BY <3>2, <3>3
  <2>6. /\ \A j \in 2..n : j # p /\ j \div 2 # p => NotAbove(q[j], q[j \div 2])
        /\ \A j \in 2..n : j \div 2 = p /\ p > 1 => NotAbove(q[j], q[p \div 2])
    BY <1>1 DEF OrderedAround, Graft
  <2> HIDE DEF c, t, q, p, left
  <2>7. ASSUME NEW j \in 2..n, j # c, j \div 2 # c
        PROVE  NotAbove(t[j], t[j \div 2])
    <3>0. j \in 1..n /\ j \div 2 \in 1..n /\ j \div 2 < j
      BY <1>1
    <3>1. CASE j = p
      <4>1. t[j] = q[c] /\ t[j \div 2] = q[p \div 2] /\ p > 1
        BY <2>1, <2>3, <2>7, <3>0, <3>1
      <4> QED
        BY <2>1, <2>6, <4>1
    <3>2. CASE j # p /\ j \div 2 = p
      <4>1. t[j] = q[j] /\ t[p] = q[c]
        BY <2>1, <2>3, <2>7, <3>0, <3>2
      <4> QED
        BY <2>5, <2>7, <3>2, <4>1
    <3>3. CASE j # p /\ j \div 2 # p
      <4>1. t[j] = q[j] /\ t[j \div 2] = q[j \div 2]
        BY <2>3, <2>7, <3>0, <3>3
      <4> QED
        BY <2>6, <3>3, <4>1
    <3> QED
      BY <3>1, <3>2, <3>3
  <2>8. ASSUME NEW j \in 2..n, j \div 2 = c
        PROVE  NotAbove(t[j], t[c \div 2])
    <3>0. j \in 1..n /\ j > c
      BY <2>1, <2>8
    <3>1. t[j] = q[j] /\ t[p] = q[c]
      BY <2>1, <2>3, <3>0
    <3>2. NotAbove(q[j], q[j \div 2])
      BY <2>1, <2>6, <2>8, <3>0
    <3> QED
      BY <2>1, <2>8, <3>1, <3>2
  <2>9. OrderedAround(t, c)
    BY <2>3, <2>7, <2>8 DEF OrderedAround, Graft
  <2> QED
    BY <2>1, <2>2, <2>9 DEF p
<1> QED
  BY <1>2, <1>3

\* A sift down puts the heap in order when only its root was out of order.
LEMMA SiftDownOrders ==
  ASSUME NEW S, S \subseteq Queued, clock \in Nat, NEW q, Arranges(q, S), Len(q) > 0,
         OrderedAround(q, 1)
  PROVE  Ordered(SiftDown(q))
<1> DEFINE n == Len(q)
           Far(k) == {h \in Holes(S, n) :
                        /\ OrderedAround(h.queue, h.place)
                        /\ 2 * h.place > n \/ h.place > k}
           D == [k \in 0..n |-> Far(k)]
<1>1. q \in Seq(S) /\ n \in Nat /\ n > 0 /\ n = Len(q)
  BY DEF Arranges
<1>2. [queue |-> q, place |-> 1] \in D[0]
  BY <1>1 DEF Holes
<1>3. ASSUME NEW k \in 1..n, NEW h \in D[k - 1]
      PROVE  Lowered(h) \in D[k]
  <2>1. /\ h \in Holes(S, n) /\ OrderedAround(h.queue, h.place)
        /\ 2 * h.place > n \/ h.place > k - 1
    BY <1>1
  <2>2. Lowered(h) \in Holes(S, n) /\ h.place \in Nat /\ Lowered(h).place \in Nat
    BY <1>1, <2>1, LoweredKeeps DEF Holes
  <2>3. \/ Lowered(h) = h /\ 2 * h.place > n
        \/ OrderedAround(Lowered(h).queue, Lowered(h).place) /\ Lowered(h).place > h.place
    BY <1>1, <2>1, LoweredOrders
  <2>4. Lowered(h).place > h.place => 2 * Lowered(h).place > n \/ Lowered(h).place > k
    BY <1>1, <2>1, <2>2
  <2>5. Lowered(h) \in Far(k)
    BY <2>1, <2>2, <2>3, <2>4
  <2> QED
    BY <1>1, <2>5
<1>4. D[n] = Far(n)
  BY <1>1
<1>5. PICK h \in Far(n) : SiftDown(q) = SiftUp(h.queue, h.place)
  <2> HIDE DEF n, D, Far
  <2> QED
    BY <1>1, <1>2, <1>3, <1>4, SiftDownReaches
<1>6. /\ Arranges(h.queue, S) /\ Len(h.queue) = n /\ h.place \in 1..Len(h.queue)
      /\ OrderedAround(h.queue, h.place) /\ 2 * h.place > n
  BY <1>1, <1>5 DEF Holes
<1>7. OrderedBut(h.queue, h.place)
  <2>1. \A j \in 2..n : j \div 2 # h.place
    BY <1>1, <1>6
  <2> QED
    BY <1>6, <2>1 DEF OrderedAround, OrderedBut
<1> QED
  BY <1>5, <1>6, <1>7, SiftUpOrders


\* A request that is pushed finds its place.
LEMMA InsertedOrders ==
  ASSUME NEW S, NEW q, Arranges(q, S), NEW r, r \notin S,
         S \cup {r} \subseteq Queued, clock \in Nat, Ordered(q)
  PROVE  Ordered(Inserted(q, r))
<1> DEFINE p == Append(q, r)
           n == Len(q)
<1>1. /\ Arranges(p, S \cup {r}) /\ Len(p) = n + 1 /\ n \in Nat
      /\ \A k \in 1..n : p[k] = q[k]
  BY AppendedAdds
<1> HIDE DEF p
<1>2. ASSUME NEW j \in 2..Len(p), j # n + 1
      PROVE  NotAbove(p[j], p[j \div 2])
  <2>1. j \in 2..n /\ j \in 1..n /\ j \div 2 \in 1..n
    BY <1>1, <1>2
  <2> QED
    BY <1>1, <2>1 DEF Ordered
<1>3. \A j \in 2..Len(p) : j \div 2 # n + 1
  BY <1>1
<1>4. OrderedBut(p, n + 1)
  BY <1>2, <1>3 DEF OrderedBut, Graft
<1>5. n + 1 \in 1..Len(p)
  BY <1>1
<1> QED
  BY <1>1, <1>4, <1>5, SiftUpOrders DEF Inserted, p

\* What is left when the front is popped is in order.
LEMMA PoppedOrders ==
  ASSUME NEW S, NEW q, Arranges(q, S), Len(q) > 0,
         S \subseteq Queued, clock \in Nat, Ordered(q)
  PROVE  Ordered(Popped(q))
<1> DEFINE n == Len(q)
           p == Refilled(q)
<1>1. q \in Seq(S) /\ n \in Nat /\ n > 0
  BY DEF Arranges
<1>4. n = 1 \/ n > 1
  <2> HIDE DEF n
  <2> QED
    BY <1>1
<1>2. CASE n = 1
  <2>1. Popped(q) = <<>>
    BY <1>2 DEF Popped
  <2> QED
    BY <2>1 DEF Ordered
<1>3. CASE n > 1
  <2>1. /\ Arranges(p, S \ {q[1]}) /\ Len(p) = n - 1
        /\ \A k \in 1..(n - 1) : p[k] = IF k = 1 THEN q[n] ELSE q[k]
    BY <1>3, MovedKeeps
  <2>2. Popped(q) = SiftDown(p)
    <3>1. n # 1
      BY <1>3
    <3> QED
      BY <3>1 DEF Popped, Refilled
  <2> HIDE DEF p
  <2>3. ASSUME NEW j \in 2..Len(p), j \div 2 # 1
        PROVE  NotAbove(p[j], p[j \div 2])
    <3>1. j \in 2..n /\ j \in 1..(n - 1) /\ j # 1 /\ j \div 2 \in 1..(n - 1)
      BY <1>1, <2>1, <2>3
    <3> QED
      BY <2>1, <2>3, <3>1 DEF Ordered
  <2>4. OrderedAround(p, 1)
    BY <2>3 DEF OrderedAround, Graft
  <2>5. S \ {q[1]} \subseteq Queued /\ Len(p) > 0
    BY <1>1, <1>3, <2>1
  <2> QED
    BY <2>1, <2>2, <2>4, <2>5, SiftDownOrders
<1> QED
  BY <1>2, <1>3, <1>4

-----------------------------------------------------------------------------
(* Requests cancelled *)

\* In order, if its requests can be compared.
InOrder(queue, S) == S \subseteq Queued /\ clock \in Nat => Ordered(queue)

\* remove leaves the others, each once, and in order whatever it found.
LEMMA ExcludingKeeps ==
  ASSUME NEW S, NEW q, Arranges(q, S), NEW id
  PROVE  /\ Arranges(Excluding(q, id), {r \in S : r.id # id})
         /\ InOrder(Excluding(q, id), S)
<1> DEFINE n == Len(q)
           Part(k) == {q[j] : j \in {i \in 1..k : q[i].id # id}}
           PushedOn(p, k) == IF q[k].id = id THEN p ELSE Inserted(p, q[k])
           D == [k \in 0..n |-> {p \in Seq(S) : Arranges(p, Part(k)) /\ InOrder(p, S)}]
<1>1. q \in Seq(S) /\ n \in Nat /\ \A k \in 1..n : q[k] \in S
  BY DEF Arranges
<1>13. /\ \A i, j \in 1..n : q[i] = q[j] => i = j
       /\ \A r \in S : \E i \in 1..n : q[i] = r
  BY DEF Arranges
<1>2. n = Len(q)
  OBVIOUS
<1>3. <<>> \in D[0]
  BY <1>1 DEF Arranges, InOrder, Ordered
<1>4. ASSUME NEW k \in 1..n, NEW p \in D[k - 1]
      PROVE  PushedOn(p, k) \in D[k] /\ p \in Seq(S)
  <2>1. p \in Seq(S) /\ Arranges(p, Part(k - 1)) /\ InOrder(p, S)
    BY <1>1
  <2>2. CASE q[k].id = id
    <3>1. Part(k) = Part(k - 1)
      BY <1>1, <2>2
    <3> HIDE DEF Part
    <3> QED
      BY <2>1, <2>2, <3>1, <1>1
  <2>3. CASE q[k].id # id
    <3>1. Part(k) = Part(k - 1) \cup {q[k]}
      <4>1. {i \in 1..k : q[i].id # id} = {i \in 1..(k - 1) : q[i].id # id} \cup {k}
        BY <1>1, <2>3
      <4> QED
        BY <4>1
    <3>2. q[k] \notin Part(k - 1)
      <4>1. \A j \in 1..(k - 1) : j \in 1..n /\ j # k
        BY <1>1
      <4>2. \A j \in 1..(k - 1) : q[j] # q[k]
        BY <1>13, <4>1
      <4> QED
        BY <4>2
    <3>3. Part(k) \subseteq S
      BY <1>1
    <3> HIDE DEF Part
    <3>4. Arranges(Inserted(p, q[k]), Part(k))
      BY <2>1, <3>1, <3>2, InsertedAdds
    <3>5. Inserted(p, q[k]) \in Seq(S)
      <4>1. Inserted(p, q[k]) \in Seq(Part(k))
        BY <3>4 DEF Arranges
      <4> QED
        BY <3>3, <4>1
    <3>6. InOrder(Inserted(p, q[k]), S)
      BY <2>1, <3>1, <3>2, <3>3, InsertedOrders DEF InOrder
    <3> QED
      BY <2>1, <2>3, <3>4, <3>5, <3>6, <1>1
  <2> QED
    BY <2>2, <2>3
<1> HIDE DEF n
<1>5. \A k \in 1..n : \A p \in D[k - 1] : PushedOn(p, k) \in D[k]
  <2> HIDE DEF D, PushedOn
  <2> QED
    BY <1>4
<1>6. Excluding(q, id) \in D[n]
  <2> HIDE DEF D
  <2> QED
    BY <1>1, <1>3, <1>5, <1>2, ExcludingReaches
<1>11. Arranges(Excluding(q, id), Part(n)) /\ InOrder(Excluding(q, id), S)
  BY <1>1, <1>6
<1>12. Part(n) = {r \in S : r.id # id}
  <2>1. \A r \in Part(n) : r \in S /\ r.id # id
    BY <1>1
  <2>2. ASSUME NEW r \in S, r.id # id
        PROVE  r \in Part(n)
    <3>1. PICK i \in 1..n : q[i] = r
      BY <1>13
    <3> QED
      BY <2>2, <3>1
  <2> HIDE DEF Part
  <2> QED
    BY <2>1, <2>2
<1> QED
  BY <1>11, <1>12

\* cancel_device leaves those whose ids are not among the device's.
LEMMA ExcludingDeviceKeeps ==
  ASSUME NEW S, NEW q, Arranges(q, S), NEW unit
  PROVE  /\ Arranges(ExcludingDevice(q, unit),
                     {r \in S : \A j \in 1..Len(q) : q[j].handle = unit => q[j].id # r.id})
         /\ InOrder(q, S) => InOrder(ExcludingDevice(q, unit), S)
<1> DEFINE n == Len(q)
           Left(k) == {r \in S : \A j \in 1..k : q[j].handle = unit => q[j].id # r.id}
           Cut(p, k) == IF q[k].handle = unit THEN Excluding(p, q[k].id) ELSE p
           Safe(p) == InOrder(q, S) => InOrder(p, S)
           D == [k \in 0..n |-> {p \in Seq(S) : Arranges(p, Left(k)) /\ Safe(p)}]
<1>1. q \in Seq(S) /\ n \in Nat
  BY DEF Arranges
<1>2. n = Len(q)
  OBVIOUS
<1>3. q \in D[0]
  <2>1. Left(0) = S
    OBVIOUS
  <2> HIDE DEF Left
  <2> QED
    BY <1>1, <2>1
<1>4. ASSUME NEW k \in 1..n, NEW p \in D[k - 1]
      PROVE  Cut(p, k) \in D[k] /\ p \in Seq(S)
  <2>1. p \in Seq(S) /\ Arranges(p, Left(k - 1)) /\ Safe(p)
    <3> HIDE DEF Left, Safe
    <3> QED
      BY <1>1
  <2>2. CASE q[k].handle # unit
    <3>1. Left(k) = Left(k - 1)
      BY <1>1, <2>2
    <3> HIDE DEF Left
    <3> QED
      BY <2>1, <2>2, <3>1, <1>1
  <2>3. CASE q[k].handle = unit
    <3>1. Left(k) = {r \in Left(k - 1) : r.id # q[k].id}
      BY <1>1, <2>3
    <3>2. Left(k) \subseteq S
      OBVIOUS
    <3> HIDE DEF Left
    <3>3. Arranges(Excluding(p, q[k].id), Left(k))
      BY <2>1, <3>1, ExcludingKeeps
    <3>4. Excluding(p, q[k].id) \in Seq(S)
      <4>1. Excluding(p, q[k].id) \in Seq(Left(k))
        BY <3>3 DEF Arranges
      <4> QED
        BY <3>2, <4>1
    <3>5. Safe(Excluding(p, q[k].id))
      <4>1. Left(k - 1) \subseteq S
        BY DEF Left
      <4>2. InOrder(Excluding(p, q[k].id), Left(k - 1))
        BY <2>1, ExcludingKeeps
      <4> QED
        BY <4>1, <4>2 DEF InOrder
    <3> HIDE DEF Safe
    <3> QED
      BY <2>1, <2>3, <3>3, <3>4, <3>5, <1>1
  <2> QED
    BY <2>2, <2>3
<1> HIDE DEF n
<1>5. \A k \in 1..n : \A p \in D[k - 1] : Cut(p, k) \in D[k]
  <2> HIDE DEF D, Cut
  <2> QED
    BY <1>4
<1>6. ExcludingDevice(q, unit) \in D[n]
  <2> HIDE DEF D
  <2> QED
    BY <1>1, <1>2, <1>3, <1>5, ExcludingDeviceReaches
<1>11. Arranges(ExcludingDevice(q, unit), Left(n)) /\ Safe(ExcludingDevice(q, unit))
  BY <1>1, <1>6
<1> QED
  BY <1>11 DEF n

-----------------------------------------------------------------------------
(* No request is lost or doubled *)

\* The ids given out.
Known == ids \cup served \cup withdrawn

\* RequestsConserved, and what it rests on: no id is twice in the heap, and ids are
\* given out in turn, so that the next one is new.
QosInv ==
  /\ QosTypeOK
  /\ IdsOf(heap) = ids
  /\ \A i, j \in DOMAIN heap : heap[i].id = heap[j].id => i = j
  /\ ids \cap (served \cup withdrawn) = {} /\ served \cap withdrawn = {}
  /\ Known = 1..Cardinality(Known)

\* The requests of a set have each an id of its own.
Single(S) == \A r, s \in S : r.id = s.id => r = s

\* The heap arranges its requests, whose ids are those of the table.
LEMMA HeapArranges ==
  ASSUME QosInv
  PROVE  /\ Arranges(heap, Lines(heap)) /\ Lines(heap) \subseteq Queued
         /\ Single(Lines(heap)) /\ ids = {r.id : r \in Lines(heap)}
         /\ heap \in Seq(Queued) /\ Len(heap) \in Nat /\ DOMAIN heap = 1..Len(heap)
<1>1. heap \in Seq(Queued) /\ Len(heap) \in Nat /\ DOMAIN heap = 1..Len(heap)
  BY DEF QosInv, QosTypeOK, Queued
<1>2. \A i \in DOMAIN heap : heap[i] \in Queued
  BY <1>1
<1>3. heap \in Seq(Lines(heap))
  BY <1>1 DEF Lines
<1>4. \A i, j \in DOMAIN heap : heap[i].id = heap[j].id => i = j
  BY DEF QosInv
<1>5. \A i, j \in 1..Len(heap) : heap[i] = heap[j] => i = j
  BY <1>1, <1>4
<1>6. Arranges(heap, Lines(heap))
  BY <1>1, <1>3, <1>5 DEF Arranges, Lines
<1>7. Single(Lines(heap))
  BY <1>4 DEF Single, Lines
<1>8. ids = {r.id : r \in Lines(heap)}
  BY DEF QosInv, IdsOf, Lines
<1> QED
  BY <1>1, <1>2, <1>6, <1>7, <1>8 DEF Lines

\* A heap of requests with ids of their own has each id once.
LEMMA ArrangedIds ==
  ASSUME NEW q, NEW T, T \subseteq Queued, Single(T), Arranges(q, T)
  PROVE  /\ q \in Seq(Queued) /\ IdsOf(q) = {r.id : r \in T}
         /\ \A i, j \in DOMAIN q : q[i].id = q[j].id => i = j
<1>1. q \in Seq(T) /\ Len(q) \in Nat /\ DOMAIN q = 1..Len(q)
  BY DEF Arranges
<1>2. \A i \in DOMAIN q : q[i] \in T
  BY <1>1
<1>3. q \in Seq(Queued)
  BY <1>1
<1>4. \A i, j \in DOMAIN q : q[i].id = q[j].id => i = j
  BY <1>1, <1>2 DEF Arranges, Single
<1>5. \A r \in T : \E i \in DOMAIN q : q[i] = r
  BY <1>1 DEF Arranges
<1>6. IdsOf(q) = {r.id : r \in T}
  BY <1>2, <1>5 DEF IdsOf
<1> QED
  BY <1>3, <1>4, <1>6

\* The table has as many ids as the heap has requests.
LEMMA QueueConserved ==
  ASSUME QosInv
  PROVE  RequestsConserved
<1> DEFINE s == [i \in 1..Len(heap) |-> heap[i].id]
<1>1. /\ heap \in Seq(Queued) /\ Len(heap) \in Nat /\ DOMAIN heap = 1..Len(heap)
  BY HeapArranges
<1>2. s \in Seq(ids) /\ Len(s) = Len(heap) /\ DOMAIN s = DOMAIN heap
  BY <1>1 DEF QosInv, IdsOf
<1>3. \A i \in DOMAIN heap : s[i] = heap[i].id
  BY <1>1
<1> HIDE DEF s
<1>4. Different(s)
  BY <1>2, <1>3 DEF QosInv, Different
<1>5. Lines(s) = ids
  BY <1>2, <1>3 DEF QosInv, IdsOf, Lines
<1>6. Len(heap) = Cardinality(ids)
  BY <1>2, <1>4, <1>5, DifferentCount
<1> QED
  BY <1>6 DEF QosInv, RequestsConserved

LEMMA QosStart == QosInit => QosInv
<1> SUFFICES ASSUME QosInit
             PROVE  QosInv
  OBVIOUS
<1>1. Known = {} /\ Cardinality(Known) = 0
  BY FS_EmptySet DEF QosInit, Known
<1>2. heap = <<>> /\ heap \in Seq(Queued) /\ DOMAIN heap = {} /\ 0 \in 0..MaxClock
  BY QosAssumption DEF QosInit
<1>3. QosTypeOK
  BY <1>2 DEF QosInit, QosTypeOK, Queued
<1>4. IdsOf(heap) = {}
  BY <1>2 DEF IdsOf
<1> QED
  BY <1>1, <1>2, <1>3, <1>4 DEF QosInit, QosInv

\* The next id was never given.
LEMMA NextIsNew ==
  ASSUME QosInv
  PROVE  /\ IsFiniteSet(Known) /\ Cardinality(Known) \in Nat
         /\ Known = 1..Cardinality(Known) /\ Cardinality(Known) + 1 \notin Known
<1>1. IsFiniteSet(1..MaxRequest)
  BY QosAssumption, FS_Interval
<1>2. Known \subseteq 1..MaxRequest
  BY DEF QosInv, QosTypeOK, Known
<1>3. IsFiniteSet(Known) /\ Cardinality(Known) \in Nat
  BY <1>1, <1>2, FS_Subset, FS_CardinalityType
<1>4. Known = 1..Cardinality(Known)
  BY DEF QosInv
<1> QED
  BY <1>3, <1>4

\* A new request has the next id.
LEMMA EnqueueKeeps ==
  ASSUME QosInv, NEW h \in QosHandle, NEW level \in Level, EnqueueUrb(h, level)
  PROVE  QosInv'
<1> DEFINE n == Cardinality(Known) + 1
           r == [id |-> n, handle |-> h, level |-> level, at |-> clock]
           S == Lines(heap)
           T == S \cup {r}
<1>1. /\ n <= MaxRequest /\ heap' = Inserted(heap, r) /\ ids' = ids \cup {n}
      /\ UNCHANGED <<clock, served, withdrawn>>
  BY DEF EnqueueUrb, Known
<1>2. /\ IsFiniteSet(Known) /\ Cardinality(Known) \in Nat
      /\ Known = 1..Cardinality(Known) /\ n \notin Known
  BY NextIsNew
<1>3. n \in 1..MaxRequest
  BY <1>1, <1>2
<1>4. /\ Arranges(heap, S) /\ S \subseteq Queued /\ Single(S) /\ ids = {q.id : q \in S}
  BY HeapArranges
<1>5. r \in Queued /\ r.id = n
  BY <1>3 DEF Queued, QosInv, QosTypeOK
<1>6. \A q \in S : q.id # n
  BY <1>2, <1>4 DEF Known
<1> HIDE DEF r, S
<1>7. r \notin S
  BY <1>5, <1>6
<1>8. T \subseteq Queued /\ Single(T)
  BY <1>4, <1>5, <1>6 DEF Single
<1>9. Arranges(heap', T)
  BY <1>1, <1>4, <1>7, InsertedAdds
<1>10. {q.id : q \in T} = ids'
  BY <1>1, <1>4, <1>5
<1>11. /\ heap' \in Seq(Queued) /\ IdsOf(heap') = ids'
       /\ \A i, j \in DOMAIN heap' : heap'[i].id = heap'[j].id => i = j
  <2> HIDE DEF T
  <2> QED
    BY <1>8, <1>9, <1>10, ArrangedIds
<1>12. Known' = Known \cup {n}
  BY <1>1 DEF Known
<1>13. Known' = 1..Cardinality(Known')
  <2>1. Cardinality(Known') = n
    BY <1>2, <1>12, FS_AddElement
  <2> HIDE DEF n
  <2>2. Known \cup {n} = 1..n
    BY <1>2 DEF n
  <2> QED
    BY <1>12, <2>1, <2>2
<1>14. QosTypeOK'
  BY <1>1, <1>3, <1>11 DEF QosInv, QosTypeOK, Queued
<1>15. /\ ids' \cap (served' \cup withdrawn') = {} /\ served' \cap withdrawn' = {}
  BY <1>1, <1>2 DEF QosInv, Known
<1> QED
  BY <1>11, <1>13, <1>14, <1>15 DEF QosInv, IdsOf

\* Requests that leave the heap for the served or the withdrawn.
LEMMA LeavingKeeps ==
  ASSUME QosInv, NEW T, T \subseteq Lines(heap), Arranges(heap', T), clock' = clock,
         NEW gone, gone \subseteq ids, ids' = ids \ gone,
         {r.id : r \in T} = ids \ gone,
         \/ served' = served \cup gone /\ withdrawn' = withdrawn
         \/ withdrawn' = withdrawn \cup gone /\ served' = served
  PROVE  QosInv'
<1>1. Lines(heap) \subseteq Queued /\ Single(Lines(heap))
  BY HeapArranges
<1>2. T \subseteq Queued /\ Single(T)
  BY <1>1 DEF Single
<1>3. /\ heap' \in Seq(Queued) /\ IdsOf(heap') = ids'
      /\ \A i, j \in DOMAIN heap' : heap'[i].id = heap'[j].id => i = j
  BY <1>2, ArrangedIds
<1>4. Known' = Known
  BY DEF Known
<1>5. QosTypeOK'
  BY <1>3 DEF QosInv, QosTypeOK, Queued
<1>6. /\ ids' \cap (served' \cup withdrawn') = {} /\ served' \cap withdrawn' = {}
  BY DEF QosInv
<1> QED
  BY <1>3, <1>4, <1>5, <1>6 DEF QosInv, IdsOf

LEMMA QosStep == QosInv /\ [QosNext]_qosVars => QosInv'
<1> SUFFICES ASSUME QosInv, [QosNext]_qosVars
             PROVE  QosInv'
  OBVIOUS
<1> DEFINE S == Lines(heap)
<1>1. /\ Arranges(heap, S) /\ Single(S) /\ ids = {r.id : r \in S}
      /\ Len(heap) \in Nat /\ DOMAIN heap = 1..Len(heap)
  BY HeapArranges
<1>2. ASSUME NEW h \in QosHandle, NEW level \in Level, EnqueueUrb(h, level)
      PROVE  QosInv'
  BY <1>2, EnqueueKeeps
<1>3. CASE Dequeue
  <2> DEFINE r == heap[1]
             T == S \ {r}
  <2>1. /\ heap # <<>> /\ heap' = Popped(heap) /\ ids' = ids \ {r.id}
        /\ served' = served \cup {r.id} /\ clock' = clock /\ withdrawn' = withdrawn
    BY <1>3 DEF Dequeue
  <2>2. r \in S /\ Arranges(heap', T)
    <3> HIDE DEF S
    <3>1. heap \in Seq(S)
      BY <1>1 DEF Arranges
    <3>2. Len(heap) > 0
      BY <2>1, <3>1, SomeQueued
    <3> QED
      BY <1>1, <2>1, <3>2, PoppedTakes
  <2>3. {q.id : q \in T} = ids \ {r.id} /\ {r.id} \subseteq ids
    <3> HIDE DEF S, r
    <3> QED
      BY <1>1, <2>2 DEF Single
  <2>4. T \subseteq S
    OBVIOUS
  <2> HIDE DEF T, r
  <2> QED
    BY <2>1, <2>2, <2>3, <2>4, LeavingKeeps
<1>4. ASSUME NEW id \in 1..MaxRequest, Cancel(id)
      PROVE  QosInv'
  <2> DEFINE T == {r \in S : r.id # id}
  <2>1. /\ id \in ids /\ heap' = Excluding(heap, id) /\ ids' = ids \ {id}
        /\ withdrawn' = withdrawn \cup {id} /\ clock' = clock /\ served' = served
    BY <1>4 DEF Cancel
  <2>2. Arranges(heap', T)
    BY <1>1, <2>1, ExcludingKeeps
  <2>3. {q.id : q \in T} = ids \ {id} /\ {id} \subseteq ids
    <3> HIDE DEF S
    <3> QED
      BY <1>1, <2>1
  <2>4. T \subseteq S
    OBVIOUS
  <2> HIDE DEF T
  <2> QED
    BY <2>1, <2>2, <2>3, <2>4, LeavingKeeps
<1>5. ASSUME NEW h \in QosHandle, CancelDevice(h)
      PROVE  QosInv'
  <2> DEFINE gone == {heap[i].id : i \in {j \in DOMAIN heap : heap[j].handle = h}}
             T == {r \in S : \A j \in 1..Len(heap) : heap[j].handle = h => heap[j].id # r.id}
  <2>1. /\ heap' = ExcludingDevice(heap, h) /\ ids' = ids \ gone
        /\ withdrawn' = withdrawn \cup gone /\ clock' = clock /\ served' = served
    BY <1>5 DEF CancelDevice
  <2>2. Arranges(heap', T)
    BY <1>1, <2>1, ExcludingDeviceKeeps
  <2>3. gone \subseteq ids
    BY DEF QosInv, IdsOf
  <2>4. {q.id : q \in T} = ids \ gone
    <3>1. \A r \in S : r \in T <=> r.id \notin gone
      BY <1>1
    <3>2. T \subseteq S
      OBVIOUS
    <3> HIDE DEF S, T, gone
    <3> QED
      BY <1>1, <3>1, <3>2
  <2>5. T \subseteq S
    OBVIOUS
  <2> HIDE DEF T, gone
  <2> QED
    BY <2>1, <2>2, <2>3, <2>4, <2>5, LeavingKeeps
<1>6. CASE QosTick
  <2>1. /\ clock < MaxClock /\ clock' = clock + 1
        /\ UNCHANGED <<heap, ids, served, withdrawn>>
    BY <1>6 DEF QosTick
  <2>2. QosTypeOK'
    BY <2>1, QosAssumption DEF QosInv, QosTypeOK
  <2> QED
    BY <2>1, <2>2 DEF QosInv, IdsOf, Known
<1>7. CASE UNCHANGED qosVars
  BY <1>7 DEF qosVars, QosInv, QosTypeOK, IdsOf, Known
<1> QED
  BY <1>2, <1>3, <1>4, <1>5, <1>6, <1>7 DEF QosNext

\* No request is lost or doubled (RequestsConserved), for any number of requests,
\* priorities and ticks: PriorityQueue's heap and its table of ids agree whatever
\* push, pop, remove and cancel_device make of the heap's order.
THEOREM RequestsStayConserved == QosSpec => [](QosTypeOK /\ RequestsConserved)
<1>1. QosInv => QosTypeOK /\ RequestsConserved
  BY QueueConserved DEF QosInv
<1> QED
  BY <1>1, QosStart, QosStep, PTL DEF QosSpec

-----------------------------------------------------------------------------
(* The highest is served first, unless it has aged *)

\* No request has waited until its priority was raised.
Unaged == \A i \in DOMAIN heap : EffectivePriority(heap[i]) = heap[i].level

\* The request that pop returns is not below any other.
FrontIsHighest == \A i \in DOMAIN heap : NotAbove(heap[i], heap[1])

\* The root of a heap in order is above all of it.
LEMMA RootIsAbove ==
  ASSUME QosInv, Ordered(heap)
  PROVE  FrontIsHighest
<1> DEFINE n == Len(heap)
<1>1. /\ heap \in Seq(Queued) /\ n \in Nat /\ DOMAIN heap = 1..n /\ clock \in Nat
  BY HeapArranges, QosAssumption DEF QosInv, QosTypeOK
<1>2. /\ \A i, j \in 1..n : NotAbove(heap[i], heap[j]) \/ NotAbove(heap[j], heap[i])
      /\ \A i, j, k \in 1..n :
           NotAbove(heap[i], heap[j]) /\ NotAbove(heap[j], heap[k]) => NotAbove(heap[i], heap[k])
  BY <1>1, AnyTwoCompare
<1> DEFINE P == {k \in 0..n : \A i \in 1..n : i <= k => NotAbove(heap[i], heap[1])}
<1>3. 0 \in P
  BY <1>1
<1>4. ASSUME NEW k \in 0..n, k \in P, k < n
      PROVE  k + 1 \in P
  <2>1. NotAbove(heap[k + 1], heap[1])
    <3>1. CASE k = 0
      BY <1>1, <1>2, <1>4, <3>1
    <3>2. CASE k > 0
      <4>1. k + 1 \in 2..n /\ (k + 1) \div 2 \in 1..n /\ (k + 1) \div 2 <= k /\ 1 \in 1..n
        BY <1>1, <1>4, <3>2
      <4>2. NotAbove(heap[k + 1], heap[(k + 1) \div 2])
        BY <4>1 DEF Ordered
      <4>3. NotAbove(heap[(k + 1) \div 2], heap[1])
        BY <1>4, <4>1
      <4> QED
        BY <1>2, <4>1, <4>2, <4>3
    <3> QED
      BY <3>1, <3>2
  <2> QED
    BY <1>1, <1>4, <2>1
<1>5. \A k \in 0..n : k \in P
  <2> HIDE DEF P, n
  <2> QED
    BY <1>1, <1>3, <1>4, CountedUp
<1>6. n \in P
  BY <1>1, <1>5
<1> QED
  BY <1>1, <1>6 DEF FrontIsHighest

\* While the clock stands, every operation leaves in order what was in order.
LEMMA OperationsOrder ==
  ASSUME QosInv, Ordered(heap), [QosNext]_qosVars, clock' = clock
  PROVE  Ordered(heap)'
<1> DEFINE S == Lines(heap)
<1>1. /\ Arranges(heap, S) /\ S \subseteq Queued /\ ids = {r.id : r \in S} /\ clock \in Nat
  BY HeapArranges, QosAssumption DEF QosInv, QosTypeOK
<1> HIDE DEF S
<1>2. InOrder(heap, S)
  BY DEF InOrder
<1>3. Ordered(heap') => Ordered(heap)'
  BY DEF Ordered, NotAbove, EffectivePriority, Waited
<1>4. ASSUME NEW h \in QosHandle, NEW level \in Level, EnqueueUrb(h, level)
      PROVE  Ordered(heap')
  <2> DEFINE n == Cardinality(Known) + 1
             r == [id |-> n, handle |-> h, level |-> level, at |-> clock]
  <2>1. n <= MaxRequest /\ heap' = Inserted(heap, r)
    BY <1>4 DEF EnqueueUrb, Known
  <2>2. Cardinality(Known) \in Nat /\ n \notin Known
    BY NextIsNew
  <2>3. r \in Queued
    <3>1. n \in 1..MaxRequest /\ clock \in 0..MaxClock
      BY <2>1, <2>2 DEF QosInv, QosTypeOK
    <3> HIDE DEF n
    <3> QED
      BY <3>1 DEF Queued
  <2>4. r \notin S
    <3>1. n \notin ids /\ r.id = n
      BY <2>2 DEF Known
    <3> HIDE DEF r, n
    <3> QED
      BY <1>1, <3>1
  <2> HIDE DEF r
  <2>5. S \cup {r} \subseteq Queued
    BY <1>1, <2>3
  <2> QED
    BY <1>1, <2>1, <2>4, <2>5, InsertedOrders
<1>5. CASE Dequeue
  <2>1. heap # <<>> /\ heap' = Popped(heap) /\ heap \in Seq(S)
    BY <1>1, <1>5 DEF Dequeue, Arranges
  <2>2. Len(heap) > 0
    BY <2>1, SomeQueued
  <2> QED
    BY <1>1, <1>3, <2>1, <2>2, PoppedOrders
<1>6. ASSUME NEW id \in 1..MaxRequest, Cancel(id)
      PROVE  Ordered(heap')
  BY <1>1, <1>6, ExcludingKeeps DEF Cancel, InOrder
<1>7. ASSUME NEW h \in QosHandle, CancelDevice(h)
      PROVE  Ordered(heap')
  BY <1>1, <1>2, <1>7, ExcludingDeviceKeeps DEF CancelDevice, InOrder
<1>8. CASE QosTick
  <2>1. clock' = clock + 1
    BY <1>8 DEF QosTick
  <2> QED
    BY <1>1, <2>1
<1>9. CASE UNCHANGED qosVars
  BY <1>3, <1>9 DEF qosVars
<1> QED
  BY <1>3, <1>4, <1>5, <1>6, <1>7, <1>8, <1>9 DEF QosNext

\* Of two requests whose priorities stand, a later look says what this one does.
LEMMA LaterAlike ==
  ASSUME NEW a \in Queued, NEW b \in Queued, clock \in Nat, clock' = clock + 1, NotAbove(a, b),
         EffectivePriority(a) = a.level, EffectivePriority(a)' = a.level,
         EffectivePriority(b) = b.level, EffectivePriority(b)' = b.level
  PROVE  NotAbove(a, b)'
<1>1. a.at \in Int /\ b.at \in Int
  BY Figures
<1>2. a.level < b.level \/ (a.level = b.level /\ clock - a.at <= clock - b.at)
  BY DEF NotAbove, Waited
<1>3. clock - a.at <= clock - b.at => clock' - a.at <= clock' - b.at
  BY <1>1
<1>4. Waited(a)' = clock' - a.at /\ Waited(b)' = clock' - b.at
  BY DEF Waited
<1> QED
  BY <1>2, <1>3, <1>4 DEF NotAbove

\* A tick that raises no priority changes no comparison.
LEMMA TickOrders ==
  ASSUME QosInv, Ordered(heap), Unaged, Unaged', QosTick
  PROVE  Ordered(heap)'
<1>1. heap' = heap /\ clock' = clock + 1 /\ clock \in Nat
  BY QosAssumption DEF QosTick, QosInv, QosTypeOK
<1>2. heap \in Seq(Queued) /\ Len(heap) \in Nat /\ DOMAIN heap = 1..Len(heap)
  BY HeapArranges
<1>3. ASSUME NEW j \in 2..Len(heap)
      PROVE  NotAbove(heap[j], heap[j \div 2])'
  <2>1. j \in DOMAIN heap /\ j \div 2 \in DOMAIN heap
    BY <1>2
  <2>2. PICK a \in Queued : a = heap[j]
    BY <1>2, <2>1
  <2>3. PICK b \in Queued : b = heap[j \div 2]
    BY <1>2, <2>1
  <2>4. /\ EffectivePriority(a) = a.level /\ EffectivePriority(b) = b.level
        /\ EffectivePriority(a)' = a.level /\ EffectivePriority(b)' = b.level
    BY <1>1, <2>1, <2>2, <2>3 DEF Unaged
  <2>5. NotAbove(a, b)
    BY <2>2, <2>3 DEF Ordered
  <2>6. NotAbove(a, b)'
    BY <1>1, <2>4, <2>5, LaterAlike
  <2> QED
    BY <1>1, <2>2, <2>3, <2>6
<1> QED
  BY <1>1, <1>3 DEF Ordered

\* Only time puts the heap out of order: every push, pop, remove and cancel_device
\* that finds the queue in order leaves it in order, whatever ages its requests have.
THEOREM OnlyTimeDisorders ==
  QosSpec => [][clock' = clock /\ Ordered(heap) => Ordered(heap)']_qosVars
<1>1. QosInv /\ [QosNext]_qosVars => [clock' = clock /\ Ordered(heap) => Ordered(heap)']_qosVars
  BY OperationsOrder
<1> QED
  BY <1>1, QosStart, QosStep, PTL DEF QosSpec

\* As long as no request waits until its priority is raised, pop returns one of the
\* highest priority, the oldest of that priority. One whose priority was raised does
\* not move up by itself: BinaryHeap compares only when something is pushed or popped.
THEOREM HighestIsServed == QosSpec /\ []Unaged => []FrontIsHighest
<1>1. QosInit => Ordered(heap)
  BY DEF QosInit, Ordered
<1>2. QosInv /\ Ordered(heap) /\ Unaged /\ Unaged' /\ [QosNext]_qosVars => Ordered(heap)'
  <2> SUFFICES ASSUME QosInv, Ordered(heap), Unaged, Unaged', [QosNext]_qosVars
               PROVE  Ordered(heap)'
    OBVIOUS
  <2>1. CASE QosTick
    BY <2>1, TickOrders
  <2>2. CASE ~QosTick
    <3>1. clock' = clock
      BY <2>2 DEF QosNext, qosVars, EnqueueUrb, Dequeue, Cancel, CancelDevice
    <3> QED
      BY <3>1, OperationsOrder
  <2> QED
    BY <2>1, <2>2
<1>3. QosInv /\ Ordered(heap) => FrontIsHighest
  BY RootIsAbove
<1> QED
  BY <1>1, <1>2, <1>3, QosStart, QosStep, PTL DEF QosSpec

-----------------------------------------------------------------------------
(* All parts of the server *)

\* A step of one part is a step or a stutter of each.
LEMMA EachPartSteps ==
  ASSUME [Next]_<<focus, sessionVars, ButSession>>
  PROVE  /\ [SessionNext]_sessionVars /\ [LimiterNext]_limiterVars
         /\ [NoticesNext]_noticeVars /\ [PollingNext]_pollingVars
         /\ [QosNext]_qosVars /\ [SchedulerNext]_schedulerVars
         /\ [TuiNext]_tuiVars /\ [AuditNext]_auditVars
<1>1. CASE UNCHANGED <<focus, sessionVars, ButSession>>
  BY <1>1 DEF ButSession
<1>2. CASE SessionNext /\ UNCHANGED ButSession
  BY <1>2 DEF ButSession
<1>3. CASE LimiterNext /\ UNCHANGED ButLimiter
  BY <1>3 DEF ButLimiter
<1>4. CASE NoticesNext /\ UNCHANGED ButNotices
  BY <1>4 DEF ButNotices
<1>5. CASE PollingNext /\ UNCHANGED ButPolling
  BY <1>5 DEF ButPolling
<1>6. CASE QosNext /\ UNCHANGED ButQos
  BY <1>6 DEF ButQos
<1>7. CASE SchedulerNext /\ UNCHANGED ButScheduler
  BY <1>7 DEF ButScheduler
<1>8. CASE TuiNext /\ UNCHANGED ButTui
  BY <1>8 DEF ButTui
<1>9. CASE AuditNext /\ UNCHANGED ButAudit
  BY <1>9 DEF ButAudit
<1> QED
  BY <1>1, <1>2, <1>3, <1>4, <1>5, <1>6, <1>7, <1>8, <1>9 DEF Next

\* What is proved of each part holds of all of them side by side.
LEMMA EachPartHolds ==
  Spec => [](/\ SessionsInv /\ LimiterInv /\ NoticesInv /\ PollingInv
             /\ QosInv /\ SchedulerInv /\ TuiInv /\ AuditInv)
<1>1. Init => /\ SessionInit /\ LimiterInit /\ NoticesInit /\ PollingInit
              /\ QosInit /\ SchedulerInit /\ TuiInit /\ AuditInit
  BY DEF Init
<1>2. [Next]_<<focus, sessionVars, ButSession>> =>
        /\ [SessionNext]_sessionVars /\ [LimiterNext]_limiterVars
        /\ [NoticesNext]_noticeVars /\ [PollingNext]_pollingVars
        /\ [QosNext]_qosVars /\ [SchedulerNext]_schedulerVars
        /\ [TuiNext]_tuiVars /\ [AuditNext]_auditVars
  BY EachPartSteps
<1>3. Spec => []NoticesInv
  BY <1>1, <1>2, NoticesConsistent, PTL DEF Spec, NoticesSpec
<1>4. Spec => []PollingInv
  BY <1>1, <1>2, PollingConsistent, PTL DEF Spec, PollingSpec
<1>5. Spec => []SessionsInv
  BY <1>1, <1>2, SessionsStart, SessionsStep, PTL DEF Spec
<1>6. Spec => []LimiterInv
  BY <1>1, <1>2, LimiterStart, LimiterStep, PTL DEF Spec
<1>7. Spec => []QosInv
  BY <1>1, <1>2, QosStart, QosStep, PTL DEF Spec
<1>8. Spec => []SchedulerInv
  BY <1>1, <1>2, SchedulerStart, SchedulerStep, PTL DEF Spec
<1>9. Spec => []TuiInv
  BY <1>1, <1>2, TuiStart, TuiStep, PTL DEF Spec
<1>10. Spec => []AuditInv
  BY <1>1, <1>2, AuditStart, AuditStep, PTL DEF Spec
<1> QED
  BY <1>3, <1>4, <1>5, <1>6, <1>7, <1>8, <1>9, <1>10, PTL

\* Every variable of the eight parts has values of its type (TypeOK).
THEOREM ServerPartsTypes == Spec => []TypeOK
<1>1. /\ SessionsInv /\ LimiterInv /\ NoticesInv /\ PollingInv
      /\ QosInv /\ SchedulerInv /\ TuiInv
      => /\ SessionTypeOK /\ LimiterTypeOK /\ NoticesTypeOK /\ PollingTypeOK
         /\ QosTypeOK /\ SchedulerTypeOK /\ TuiTypeOK
  BY DEF SessionsInv, LimiterInv, NoticesInv, PollingInv, QosInv, SchedulerInv, TuiInv
<1>2. AuditSpec => []AuditTypeOK
  BY TrailStaysKept, PTL
<1>3. Init => AuditInit
  BY DEF Init
<1>4. [Next]_<<focus, sessionVars, ButSession>> => [AuditNext]_auditVars
  BY EachPartSteps
<1>5. Spec => []AuditTypeOK
  BY <1>2, <1>3, <1>4, PTL DEF Spec, AuditSpec
<1> QED
  BY <1>1, <1>5, EachPartHolds, PTL DEF TypeOK

\* The queue keeps every request until it is served or cancelled, and the round robin
\* passes no client over (QosServesAll: PriorityQueue and FairScheduler).
THEOREM QueueServesAll == Spec => []QosServesAll
<1>1. QosInv => RequestsConserved
  BY QueueConserved
<1>2. SchedulerSpec => []NobodyIsPassedOver
  BY NobodyStaysPassedOver, PTL
<1>3. Init => SchedulerInit
  BY DEF Init
<1>4. [Next]_<<focus, sessionVars, ButSession>> => [SchedulerNext]_schedulerVars
  BY EachPartSteps
<1>5. Spec => []NobodyIsPassedOver
  BY <1>2, <1>3, <1>4, PTL DEF Spec, SchedulerSpec
<1> QED
  BY <1>1, <1>5, EachPartHolds, PTL DEF QosServesAll
================================================================================
