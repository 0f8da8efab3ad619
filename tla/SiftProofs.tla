----------------------------- MODULE SiftProofs -----------------------------
(***************************************************************************)
(* What Only (module Sift) leaves of a queue, whatever its length.  The    *)
(* proofs go by induction on the length; the principle is derived from the *)
(* order of the naturals for sets, which the provers can instantiate.      *)
(***************************************************************************)
EXTENDS Sift, Integers, WellFoundedInduction, TLAPS

Less == {ss \in Nat \X Nat : ss[1] < ss[2]}

\* The order of the naturals is well founded.
LEMMA LessWellFounded == IsWellFoundedOn(Less, Nat)
BY NatLessThanWellFounded DEF OpToRel, Less

\* A set of naturals that has an element has a least one.
LEMMA LeastNatural ==
    ASSUME NEW S \in SUBSET Nat, S # {}
    PROVE  \E n \in S : \A m \in S : n <= m
<1>1. PICK x \in S : \A y \in S : <<y, x>> \notin Less
  BY LessWellFounded, WFMin
<1>2. \A y \in S : ~ (y < x)
  <2> SUFFICES ASSUME NEW y \in S, y < x
               PROVE  FALSE
    OBVIOUS
  <2>1. <<y, x>> \in Nat \X Nat /\ <<y, x>>[1] < <<y, x>>[2]
    OBVIOUS
  <2> QED
    BY <1>1, <2>1 DEF Less
<1> QED
  BY <1>2

\* Induction over the naturals, of a set.
LEMMA SetInduction ==
    ASSUME NEW S, 0 \in S, \A n \in Nat : n \in S => n + 1 \in S
    PROVE  Nat \subseteq S
<1> SUFFICES ASSUME NEW k \in Nat, k \notin S
             PROVE  FALSE
  OBVIOUS
<1> DEFINE Missing == {n \in Nat : n \notin S}
<1>1. PICK n \in Missing : \A m \in Missing : n <= m
  <2>1. Missing # {} /\ Missing \in SUBSET Nat
    OBVIOUS
  <2> HIDE DEF Missing
  <2> QED
    BY <2>1, LeastNatural
<1>2. n # 0 /\ n - 1 \in Nat /\ n - 1 \notin S
  BY <1>1
<1> QED
  BY <1>1, <1>2

-----------------------------------------------------------------------------
(* The recursive function of Only exists.                                  *)

Grows(q, S, before, n) == IF q[n] \in S THEN Append(before, q[n]) ELSE before

IsUpTo(f, q, S, m) ==
    f = [n \in 0 .. m |-> IF n = 0 THEN <<>>
                          ELSE IF q[n] \in S THEN Append(f[n - 1], q[n]) ELSE f[n - 1]]

\* The recursive function of Only exists: it obeys its own definition.
LEMMA UpToExists ==
    ASSUME NEW q, NEW S, NEW m \in Nat
    PROVE  \E f : IsUpTo(f, q, S, m)
<1> DEFINE Has == {n \in Nat : \E f : IsUpTo(f, q, S, n)}
<1>1. 0 \in Has
  <2> DEFINE f == [n \in 0 .. 0 |-> <<>>]
  <2>1. IsUpTo(f, q, S, 0)
    BY DEF IsUpTo
  <2> QED
    BY <2>1
<1>2. ASSUME NEW n \in Nat, n \in Has
      PROVE  n + 1 \in Has
  <2>1. PICK f : IsUpTo(f, q, S, n)
    BY <1>2
  <2> DEFINE g == [k \in 0 .. n + 1 |-> IF k = n + 1 THEN Grows(q, S, f[n], n + 1)
                                        ELSE f[k]]
  <2>2. \A k \in 0 .. n + 1 :
           g[k] = IF k = 0 THEN <<>>
                  ELSE IF q[k] \in S THEN Append(g[k - 1], q[k]) ELSE g[k - 1]
    <3> SUFFICES ASSUME NEW k \in 0 .. n + 1
                 PROVE  g[k] = IF k = 0 THEN <<>>
                               ELSE IF q[k] \in S THEN Append(g[k - 1], q[k])
                               ELSE g[k - 1]
      OBVIOUS
    <3>1. CASE k = n + 1
      BY <3>1 DEF Grows
    <3>2. CASE k # n + 1
      <4>1. k \in 0 .. n /\ g[k] = f[k]
        BY <3>2
      <4>2. f[k] = IF k = 0 THEN <<>>
                   ELSE IF q[k] \in S THEN Append(f[k - 1], q[k]) ELSE f[k - 1]
        BY <2>1, <4>1 DEF IsUpTo
      <4>3. k # 0 => g[k - 1] = f[k - 1]
        BY <4>1
      <4> QED
        BY <4>1, <4>2, <4>3
    <3> QED
      BY <3>1, <3>2
  <2>3. DOMAIN g = 0 .. n + 1 /\ g = [k \in 0 .. n + 1 |-> g[k]]
    OBVIOUS
  <2>4. IsUpTo(g, q, S, n + 1)
    <3> HIDE DEF g
    <3> QED
      BY <2>2, <2>3 DEF IsUpTo
  <2> QED
    BY <2>4
<1>3. Nat \subseteq Has
  <2> HIDE DEF Has
  <2> QED
    BY <1>1, <1>2, SetInduction
<1> QED
  BY <1>3

\* Only is that function, at the length of the queue.
LEMMA OnlyIsUpTo ==
    ASSUME NEW q, NEW S, Len(q) \in Nat
    PROVE  \E f : IsUpTo(f, q, S, Len(q)) /\ Only(q, S) = f[Len(q)]
<1> DEFINE f == CHOOSE h : h = [n \in 0 .. Len(q) |->
                   IF n = 0 THEN <<>>
                   ELSE IF q[n] \in S THEN Append(h[n - 1], q[n]) ELSE h[n - 1]]
<1>0. \E h : h = [n \in 0 .. Len(q) |->
                   IF n = 0 THEN <<>>
                   ELSE IF q[n] \in S THEN Append(h[n - 1], q[n]) ELSE h[n - 1]]
  <2>1. PICK h : IsUpTo(h, q, S, Len(q))
    BY UpToExists
  <2> QED
    BY <2>1, Zenon DEF IsUpTo
<1>1. IsUpTo(f, q, S, Len(q))
  BY <1>0, Zenon DEF IsUpTo
<1>2. Only(q, S) = f[Len(q)]
  BY DEF Only
<1> QED
  BY <1>1, <1>2

-----------------------------------------------------------------------------
(* What is left keeps its order.                                           *)

\* t is what is left of the first n of q, and g says which they are.
LeftBy(g, t, q, S, n) ==
    /\ g \in [1 .. Len(t) -> 1 .. n]
    /\ \A i, j \in 1 .. Len(t) : i < j => g[i] < g[j]
    /\ \A i \in 1 .. Len(t) : t[i] = q[g[i]] /\ t[i] \in S
    /\ \A k \in 1 .. n : q[k] \in S => \E i \in 1 .. Len(t) : g[i] = k

\* Taking one element more of the queue adds it to what is left, or not.
LEMMA LeftGrows ==
    ASSUME NEW T, NEW q \in Seq(T), NEW S, NEW t \in Seq(T), NEW g,
           NEW n \in Nat, n + 1 \in 1 .. Len(q), LeftBy(g, t, q, S, n), Len(t) <= n
    PROVE  /\ Grows(q, S, t, n + 1) \in Seq(T) /\ Len(Grows(q, S, t, n + 1)) <= n + 1
           /\ \E h : LeftBy(h, Grows(q, S, t, n + 1), q, S, n + 1)
<1>0. q[n + 1] \in T /\ Len(t) \in Nat
  OBVIOUS
<1>1. CASE q[n + 1] \in S
  <2> DEFINE u == Append(t, q[n + 1])
             l == Len(t) + 1
             h == [i \in 1 .. l |-> IF i = l THEN n + 1 ELSE g[i]]
  <2>1. /\ u \in Seq(T) /\ Len(u) = l /\ u[l] = q[n + 1]
        /\ \A i \in 1 .. Len(t) : u[i] = t[i]
    BY <1>0
  <2>2. \A i \in 1 .. l : i # l => i \in 1 .. Len(t)
    BY <1>0
  <2>3. /\ h[l] = n + 1
        /\ \A i \in 1 .. Len(t) : h[i] = g[i] /\ h[i] \in 1 .. n
    BY <1>0 DEF LeftBy
  <2>4. h \in [1 .. l -> 1 .. n + 1]
    BY <2>2 DEF LeftBy
  <2> HIDE DEF u, h, l
  <2>5. \A i, j \in 1 .. l : i < j => h[i] < h[j]
    <3> SUFFICES ASSUME NEW i \in 1 .. l, NEW j \in 1 .. l, i < j
                 PROVE  h[i] < h[j]
      OBVIOUS
    <3>1. i \in 1 .. Len(t) /\ h[i] = g[i] /\ h[i] \in 1 .. n
      BY <1>0, <2>2, <2>3 DEF l
    <3>2. CASE j = l
      BY <2>3, <3>1, <3>2
    <3>3. CASE j # l
      <4>1. j \in 1 .. Len(t) /\ h[j] = g[j]
        BY <2>2, <2>3, <3>3
      <4> QED
        BY <3>1, <4>1 DEF LeftBy
    <3> QED
      BY <3>2, <3>3
  <2>6. \A i \in 1 .. l : u[i] = q[h[i]] /\ u[i] \in S
    BY <1>1, <2>1, <2>2, <2>3 DEF LeftBy
  <2>7. \A k \in 1 .. n + 1 : q[k] \in S => \E i \in 1 .. l : h[i] = k
    <3> SUFFICES ASSUME NEW k \in 1 .. n + 1, q[k] \in S
                 PROVE  \E i \in 1 .. l : h[i] = k
      OBVIOUS
    <3>0. l \in 1 .. l /\ \A i \in 1 .. Len(t) : i \in 1 .. l
      BY <1>0 DEF l
    <3>1. CASE k = n + 1
      BY <2>3, <3>0, <3>1
    <3>2. CASE k # n + 1
      <4>1. k \in 1 .. n
        BY <3>2
      <4> QED
        BY <2>3, <3>0, <4>1 DEF LeftBy
    <3> QED
      BY <3>1, <3>2
  <2>8. Grows(q, S, t, n + 1) = u
    BY <1>1 DEF Grows, u
  <2>9. LeftBy(h, u, q, S, n + 1)
    BY <2>1, <2>4, <2>5, <2>6, <2>7 DEF LeftBy
  <2> QED
    BY <2>1, <2>8, <2>9 DEF l
<1>2. CASE q[n + 1] \notin S
  <2>1. Grows(q, S, t, n + 1) = t
    BY <1>2 DEF Grows
  <2>2. LeftBy(g, t, q, S, n + 1)
    <3>1. g \in [1 .. Len(t) -> 1 .. n + 1]
      BY <1>0 DEF LeftBy
    <3>2. \A k \in 1 .. n + 1 : q[k] \in S => k \in 1 .. n
      BY <1>2
    <3> QED
      BY <3>1, <3>2 DEF LeftBy
  <2> QED
    BY <2>1, <2>2
<1> QED
  BY <1>1, <1>2

\* What is left is in the set, was in the queue, and is no longer than it.
LEMMA OnlyLeft ==
    ASSUME NEW T, NEW q \in Seq(T), NEW S
    PROVE  /\ Only(q, S) \in Seq(T)
           /\ Len(Only(q, S)) <= Len(q)
           /\ \E g : LeftBy(g, Only(q, S), q, S, Len(q))
<1>0. Len(q) \in Nat
  OBVIOUS
<1>1. PICK f : IsUpTo(f, q, S, Len(q)) /\ Only(q, S) = f[Len(q)]
  BY <1>0, OnlyIsUpTo
<1>2. /\ f[0] = <<>>
      /\ \A n \in Nat : n + 1 \in 1 .. Len(q) => f[n + 1] = Grows(q, S, f[n], n + 1)
  <2>1. \A n \in 0 .. Len(q) :
           f[n] = IF n = 0 THEN <<>>
                  ELSE IF q[n] \in S THEN Append(f[n - 1], q[n]) ELSE f[n - 1]
    BY <1>1, Zenon DEF IsUpTo
  <2>2. 0 \in 0 .. Len(q)
    BY <1>0
  <2>3. \A n \in Nat : n + 1 \in 1 .. Len(q) =>
           n + 1 \in 0 .. Len(q) /\ n + 1 # 0 /\ (n + 1) - 1 = n
    BY <1>0
  <2> QED
    BY <2>1, <2>2, <2>3 DEF Grows
<1> DEFINE Fine(n) == f[n] \in Seq(T) /\ Len(f[n]) <= n /\ \E g : LeftBy(g, f[n], q, S, n)
           Done == {n \in Nat : n <= Len(q) => Fine(n)}
<1>3. 0 \in Done
  <2>1. <<>> \in Seq(T) /\ Len(<<>>) = 0
    OBVIOUS
  <2>2. LeftBy([i \in 1 .. 0 |-> 0], <<>>, q, S, 0)
    BY <2>1 DEF LeftBy
  <2>3. Fine(0)
    BY <1>2, <2>1, <2>2
  <2> HIDE DEF Fine
  <2> QED
    BY <2>3
<1>4. ASSUME NEW n \in Nat, n \in Done
      PROVE  n + 1 \in Done
  <2> SUFFICES ASSUME n + 1 <= Len(q)
               PROVE  Fine(n + 1)
    OBVIOUS
  <2>1. Fine(n) /\ n + 1 \in 1 .. Len(q)
    BY <1>0, <1>4
  <2>2. PICK g : LeftBy(g, f[n], q, S, n)
    BY <2>1
  <2>3. f[n + 1] = Grows(q, S, f[n], n + 1)
    BY <1>2, <2>1
  <2> QED
    BY <2>1, <2>2, <2>3, LeftGrows
<1>5. Nat \subseteq Done
  <2> HIDE DEF Done
  <2> QED
    BY <1>3, <1>4, SetInduction
<1>6. Fine(Len(q))
  BY <1>0, <1>5
<1> QED
  BY <1>1, <1>6

-----------------------------------------------------------------------------
(* What the callers need.                                                  *)

\* What is left was there and is to stay, and all of it: behind what is left of k
\* comes only what came behind k.
LEMMA OnlyKeeps ==
    ASSUME NEW T, NEW q \in Seq(T), NEW S
    PROVE  /\ Only(q, S) \in Seq(T) /\ Len(Only(q, S)) <= Len(q)
           /\ \A i \in DOMAIN Only(q, S) :
                 Only(q, S)[i] \in S /\ \E k \in DOMAIN q : Only(q, S)[i] = q[k]
           /\ \A k \in DOMAIN q : q[k] \in S =>
                 \E i \in DOMAIN Only(q, S) :
                    /\ Only(q, S)[i] = q[k]
                    /\ \A j \in DOMAIN Only(q, S) :
                          j > i => \E m \in DOMAIN q : m > k /\ Only(q, S)[j] = q[m]
<1> DEFINE t == Only(q, S)
<1>1. t \in Seq(T) /\ Len(t) <= Len(q)
  BY OnlyLeft
<1>2. PICK g : LeftBy(g, t, q, S, Len(q))
  BY OnlyLeft
<1>3. DOMAIN t = 1 .. Len(t) /\ DOMAIN q = 1 .. Len(q)
  BY <1>1
<1> HIDE DEF t
<1>4. \A i \in DOMAIN t : t[i] \in S /\ \E k \in DOMAIN q : t[i] = q[k]
  BY <1>2, <1>3 DEF LeftBy
<1>5. ASSUME NEW k \in DOMAIN q, q[k] \in S
      PROVE  \E i \in DOMAIN t :
                /\ t[i] = q[k]
                /\ \A j \in DOMAIN t : j > i => \E m \in DOMAIN q : m > k /\ t[j] = q[m]
  <2>1. PICK i \in DOMAIN t : g[i] = k
    BY <1>2, <1>3, <1>5 DEF LeftBy
  <2>2. t[i] = q[k]
    BY <1>2, <1>3, <2>1 DEF LeftBy
  <2>3. ASSUME NEW j \in DOMAIN t, j > i
        PROVE  \E m \in DOMAIN q : m > k /\ t[j] = q[m]
    <3>1. g[j] \in DOMAIN q /\ t[j] = q[g[j]]
      BY <1>2, <1>3 DEF LeftBy
    <3>2. i < j /\ i \in 1 .. Len(t) /\ j \in 1 .. Len(t)
      BY <1>1, <1>3, <2>3
    <3>3. g[j] > k
      BY <1>2, <1>3, <2>1, <3>1, <3>2 DEF LeftBy
    <3> QED
      BY <3>1, <3>3
  <2> QED
    BY <2>2, <2>3
<1> QED
  BY <1>1, <1>4, <1>5 DEF t

=============================================================================
