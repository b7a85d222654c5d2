------------------------------ MODULE RingLemmas ------------------------------
(***************************************************************************)
(* Facts about a ring of N descriptors, for the proofs of both rings of    *)
(* the driver: indices that wrap, the sequence of what a part of the ring  *)
(* holds, and what is left of it without the frames passed over.           *)
(***************************************************************************)
EXTENDS FrameFilter, SequenceTheorems, WellFoundedInduction, TLAPS

(* How far y is ahead of x, going round.                                   *)
Ahead(x, y, N) == (y - x) % N

(* The n entries of ring r from h on.                                      *)
Window(r, h, n, N) == [k \in 1 .. n |-> r[(h + k - 1) % N]]

(* The rings r and q hold the same there.                                  *)
SameIn(r, q, h, n, N) == \A k \in 0 .. n - 1 : q[(h + k) % N] = r[(h + k) % N]

(* They are all in F.                                                      *)
WindowIn(r, h, n, N, F) == \A k \in 0 .. n - 1 : r[(h + k) % N] \in F

-----------------------------------------------------------------------------
(* Going round is an addition, or one and a subtraction of N.              *)
LEMMA Wraps ==
    ASSUME NEW N \in Nat \ {0}
    PROVE  /\ \A k \in 0 .. N - 1 : k % N = k
           /\ \A k \in N .. 2 * N - 1 : k % N = k - N
           /\ \A k \in -N .. -1 : k % N = k + N
<1>1. \A k \in 0 .. N - 1 : k % N = k
  OBVIOUS
<1>2. \A k \in N .. 2 * N - 1 : k % N = k - N
  OBVIOUS
<1>3. \A k \in -N .. -1 : k % N = k + N
  OBVIOUS
<1> QED
  BY <1>1, <1>2, <1>3

(* Distances on the ring without a modulus.                                *)
LEMMA AheadIs ==
    ASSUME NEW N \in Nat \ {0}, NEW x \in 0 .. N - 1, NEW y \in 0 .. N - 1
    PROVE  /\ Ahead(x, y, N) = IF x <= y THEN y - x ELSE y - x + N
           /\ Ahead(x, y, N) \in 0 .. N - 1
           /\ (x + Ahead(x, y, N)) % N = y
<1>1. Ahead(x, y, N) = IF x <= y THEN y - x ELSE y - x + N
  <2>1. CASE x <= y
    <3>1. y - x \in 0 .. N - 1
      BY <2>1
    <3> QED
      BY <2>1, <3>1, Wraps DEF Ahead
  <2>2. CASE ~(x <= y)
    <3>1. y - x \in -N .. -1
      BY <2>2
    <3> QED
      BY <2>2, <3>1, Wraps DEF Ahead
  <2> QED
    BY <2>1, <2>2
<1>2. Ahead(x, y, N) \in 0 .. N - 1
  BY <1>1
<1>3. (x + Ahead(x, y, N)) % N = y
  <2>1. CASE x <= y
    <3>1. x + Ahead(x, y, N) = y
      BY <1>1, <2>1
    <3> QED
      BY <3>1, Wraps
  <2>2. CASE ~(x <= y)
    <3>1. x + Ahead(x, y, N) = y + N /\ y + N \in N .. 2 * N - 1
      BY <1>1, <2>2
    <3>2. (y + N) % N = y + N - N
      BY <3>1, Wraps
    <3> QED
      BY <3>1, <3>2
  <2> QED
    BY <2>1, <2>2
<1> QED
  BY <1>1, <1>2, <1>3

(* No step from an index to itself.                                        *)
LEMMA AheadToSelf ==
    ASSUME NEW N \in Nat \ {0}, NEW x \in 0 .. N - 1
    PROVE  Ahead(x, x, N) = 0
<1>1. Ahead(x, x, N) = 0 % N
  BY DEF Ahead
<1> QED
  BY <1>1, Wraps

(* From one index to the next, to where one goes and from where one comes. *)
LEMMA AheadNext ==
    ASSUME NEW N \in Nat \ {0}, NEW x \in 0 .. N - 1, NEW y \in 0 .. N - 1,
           NEW z, z = IF y = N - 1 THEN 0 ELSE y + 1
    PROVE  /\ z \in 0 .. N - 1
           /\ z # x => Ahead(x, z, N) = Ahead(x, y, N) + 1
           /\ y # x => Ahead(z, x, N) = Ahead(y, x, N) - 1
<1>1. z \in 0 .. N - 1
  OBVIOUS
<1>2. /\ Ahead(x, z, N) = IF x <= z THEN z - x ELSE z - x + N
      /\ Ahead(x, y, N) = IF x <= y THEN y - x ELSE y - x + N
      /\ Ahead(z, x, N) = IF z <= x THEN x - z ELSE x - z + N
      /\ Ahead(y, x, N) = IF y <= x THEN x - y ELSE x - y + N
  BY <1>1, AheadIs
<1> QED
  BY <1>1, <1>2

(* Distances add up, and tell indices from each other.                     *)
LEMMA AheadBetween ==
    ASSUME NEW N \in Nat \ {0}, NEW x \in 0 .. N - 1, NEW y \in 0 .. N - 1,
           NEW z \in 0 .. N - 1
    PROVE  /\ Ahead(x, y, N) <= Ahead(x, z, N) =>
                  Ahead(y, z, N) = Ahead(x, z, N) - Ahead(x, y, N)
           /\ Ahead(x, y, N) = Ahead(x, z, N) => y = z
<1>1. /\ Ahead(x, y, N) = IF x <= y THEN y - x ELSE y - x + N
      /\ Ahead(x, z, N) = IF x <= z THEN z - x ELSE z - x + N
      /\ Ahead(y, z, N) = IF y <= z THEN z - y ELSE z - y + N
  BY AheadIs
<1> QED
  BY <1>1

(* The entry k steps after h, and the two steps of going there.            *)
LEMMA Steps ==
    ASSUME NEW N \in Nat \ {0}, NEW h \in 0 .. N - 1,
           NEW j \in 0 .. N, NEW k \in 0 .. N, j + k <= N
    PROVE  /\ (h + k) % N \in 0 .. N - 1
           /\ (((h + j) % N) + k) % N = (h + j + k) % N
<1>1. /\ \A m \in 0 .. N - 1 : m % N = m
      /\ \A m \in N .. 2 * N - 1 : m % N = m - N
  BY Wraps
<1>2. (h + k) % N \in 0 .. N - 1
  OBVIOUS
<1>3. CASE h + j < N
  <2>1. (h + j) % N = h + j
    BY <1>1, <1>3
  <2> QED
    BY <1>2, <2>1
<1>4. CASE ~(h + j < N)
  <2>1. /\ h + j \in N .. 2 * N - 1
        /\ h + j + k \in N .. 2 * N - 1
        /\ h + j - N + k \in 0 .. N - 1
    BY <1>4
  <2>2. (h + j) % N = h + j - N
    BY <1>1, <2>1
  <2>3. (h + j + k) % N = h + j + k - N
    BY <1>1, <2>1
  <2>4. (h + j - N + k) % N = h + j - N + k
    BY <1>1, <2>1
  <2> QED
    BY <1>2, <2>2, <2>3, <2>4
<1> QED
  BY <1>3, <1>4

(* The same descriptor is not met twice in one round.                      *)
LEMMA StepsApart ==
    ASSUME NEW N \in Nat \ {0}, NEW h \in 0 .. N - 1,
           NEW j \in 0 .. N - 1, NEW k \in 0 .. N - 1, j # k
    PROVE  (h + j) % N # (h + k) % N
<1>1. /\ \A m \in 0 .. N - 1 : m % N = m
      /\ \A m \in N .. 2 * N - 1 : m % N = m - N
  BY Wraps
<1>2. /\ h + j < N => (h + j) % N = h + j
      /\ ~(h + j < N) => (h + j) % N = h + j - N
      /\ h + k < N => (h + k) % N = h + k
      /\ ~(h + k < N) => (h + k) % N = h + k - N
  BY <1>1
<1> QED
  BY <1>2

(* A window is a sequence of what the ring holds in it.                    *)
LEMMA WindowSeq ==
    ASSUME NEW N \in Nat \ {0}, NEW h \in 0 .. N - 1, NEW n \in Nat,
           NEW F, NEW r,
           WindowIn(r, h, n, N, F)
    PROVE  /\ Window(r, h, n, N) \in Seq(F)
           /\ Len(Window(r, h, n, N)) = n
<1>1. \A k \in 1 .. n : r[(h + k - 1) % N] \in F
  <2>1. ASSUME NEW k \in 1 .. n
        PROVE  r[(h + k - 1) % N] \in F
    <3>1. k - 1 \in 0 .. n - 1 /\ h + (k - 1) = h + k - 1
      OBVIOUS
    <3> QED
      BY <3>1 DEF WindowIn
  <2> QED
    BY <2>1
<1>2. Window(r, h, n, N) \in [1 .. n -> F]
  BY <1>1 DEF Window
<1> QED
  BY <1>2

(* Its first n entries.                                                    *)
LEMMA WindowPrefix ==
    ASSUME NEW N \in Nat \ {0}, NEW h \in 0 .. N - 1,
           NEW m \in Nat, NEW n \in 0 .. m, NEW r
    PROVE  SubSeq(Window(r, h, m, N), 1, n) = Window(r, h, n, N)
BY DEF Window

(* What is left when its first n entries are gone.                         *)
LEMMA WindowSuffix ==
    ASSUME NEW N \in Nat \ {0}, NEW h \in 0 .. N - 1,
           NEW m \in 0 .. N, NEW n \in 0 .. m, NEW r
    PROVE  SubSeq(Window(r, h, m, N), n + 1, m)
               = Window(r, (h + n) % N, m - n, N)
<1>1. ASSUME NEW k \in 1 .. m - n
      PROVE  (((h + n) % N) + k - 1) % N = (h + (n + k) - 1) % N
  <2>1. k - 1 \in 0 .. N /\ n \in 0 .. N /\ n + (k - 1) <= N
    OBVIOUS
  <2>2. (((h + n) % N) + (k - 1)) % N = (h + n + (k - 1)) % N
    BY <2>1, Steps
  <2>3. (h + n) % N \in Int
    OBVIOUS
  <2>4. /\ ((h + n) % N) + (k - 1) = ((h + n) % N) + k - 1
        /\ h + n + (k - 1) = h + (n + k) - 1
    BY <2>3
  <2> QED
    BY <2>2, <2>4
<1>2. SubSeq(Window(r, h, m, N), n + 1, m)
          = [k \in 1 .. m - n |-> Window(r, h, m, N)[n + k]]
  BY DEF Window
<1>3. \A k \in 1 .. m - n : Window(r, h, m, N)[n + k] = r[(h + (n + k) - 1) % N]
  BY DEF Window
<1> QED
  BY <1>1, <1>2, <1>3 DEF Window

(* A window is known by what the ring holds in it.                         *)
LEMMA WindowSame ==
    ASSUME NEW N \in Nat \ {0}, NEW h \in 0 .. N - 1, NEW n \in Nat, NEW r, NEW q,
           SameIn(r, q, h, n, N)
    PROVE  Window(q, h, n, N) = Window(r, h, n, N)
<1>1. ASSUME NEW k \in 1 .. n
      PROVE  q[(h + k - 1) % N] = r[(h + k - 1) % N]
  <2>1. k - 1 \in 0 .. n - 1 /\ h + (k - 1) = h + k - 1
    OBVIOUS
  <2> QED
    BY <2>1 DEF SameIn
<1> QED
  BY <1>1 DEF Window

(* One entry more, whatever the ring holds outside the window.             *)
LEMMA WindowGrows ==
    ASSUME NEW N \in Nat \ {0}, NEW h \in 0 .. N - 1, NEW n \in Nat, NEW r, NEW q,
           NEW e, SameIn(r, q, h, n, N), q[(h + n) % N] = e
    PROVE  Window(q, h, n + 1, N) = Append(Window(r, h, n, N), e)
<1>1. Window(r, h, n, N) = [k \in 1 .. n |-> r[(h + k - 1) % N]]
  BY DEF Window
<1>2. ASSUME NEW k \in 1 .. n + 1
      PROVE  q[(h + k - 1) % N] = IF k = n + 1 THEN e ELSE r[(h + k - 1) % N]
  <2>1. k - 1 \in 0 .. n /\ h + (k - 1) = h + k - 1 /\ (k = n + 1 <=> k - 1 = n)
    OBVIOUS
  <2>2. k # n + 1 => k - 1 \in 0 .. n - 1
    OBVIOUS
  <2> QED
    BY <2>1, <2>2 DEF SameIn
<1>3. Append([k \in 1 .. n |-> r[(h + k - 1) % N]], e)
          = [k \in 1 .. n + 1 |-> IF k = n + 1 THEN e ELSE r[(h + k - 1) % N]]
  OBVIOUS
<1> QED
  BY <1>1, <1>2, <1>3 DEF Window

(* A window falls into two.                                                *)
LEMMA WindowSplits ==
    ASSUME NEW N \in Nat \ {0}, NEW h \in 0 .. N - 1,
           NEW m \in 0 .. N, NEW n \in 0 .. m, NEW r
    PROVE  Window(r, h, m, N)
               = Window(r, h, n, N) \o Window(r, (h + n) % N, m - n, N)
<1>1. /\ Window(r, h, n, N) = SubSeq(Window(r, h, m, N), 1, n)
      /\ Window(r, (h + n) % N, m - n, N) = SubSeq(Window(r, h, m, N), n + 1, m)
  BY WindowPrefix, WindowSuffix
<1>2. PICK w : w = Window(r, h, m, N)
  OBVIOUS
<1>3. w = [k \in 1 .. m |-> w[k]]
  BY <1>2 DEF Window
<1>4. SubSeq(w, 1, n) \o SubSeq(w, n + 1, m) = w
  <2>1. PICK a : a = [k \in 1 .. n |-> w[k]]
    OBVIOUS
  <2>2. PICK b : b = [k \in 1 .. m - n |-> w[n + k]]
    OBVIOUS
  <2>3. SubSeq(w, 1, n) = a
    BY <1>3, <2>1
  <2>4. SubSeq(w, n + 1, m) = b
    <3>1. PICK i \in Nat : i = n + 1
      OBVIOUS
    <3>2. SubSeq(w, i, m) = [k \in 1 .. m - i + 1 |-> w[i + k - 1]]
      BY <1>3, SMTT(30)
    <3>3. m - i + 1 = m - n /\ \A k \in 1 .. m - n : i + k - 1 = n + k
      BY <3>1
    <3> QED
      BY <2>2, <3>1, <3>2, <3>3
  <2>5. a \o b = [k \in 1 .. m |-> IF k <= n THEN a[k] ELSE b[k - n]]
    BY <2>1, <2>2
  <2>6. ASSUME NEW k \in 1 .. m
        PROVE  (IF k <= n THEN a[k] ELSE b[k - n]) = w[k]
    BY <2>1, <2>2
  <2> QED
    BY <1>3, <2>3, <2>4, <2>5, <2>6
<1> QED
  BY <1>1, <1>2, <1>4
-----------------------------------------------------------------------------
(* A set of numbers that is not empty has a least one.                     *)
LEMMA LeastNumber ==
    ASSUME NEW S, S \subseteq Nat, S # {}
    PROVE  \E x \in S : \A y \in S : x <= y
<1>1. \E x \in S : \A y \in S : ~(<<y, x>> \in OpToRel(<, Nat))
  BY NatLessThanWellFounded, WFMin, Zenon
<1>2. PICK x \in S : \A y \in S : ~(<<y, x>> \in OpToRel(<, Nat))
  BY <1>1
<1>3. \A y \in S : <<y, x>> \in OpToRel(<, Nat) <=> y < x
  BY DEF OpToRel
<1>4. \A y \in S : ~(y < x)
  BY <1>2, <1>3
<1> QED
  BY <1>4

(* f says what is left of the first k frames of s, for each k up to n.     *)
KeptUpTo(f, s, S, n) ==
    f = [k \in 0 .. n |->
            IF k = 0 THEN <<>>
            ELSE IF s[k] \in S THEN f[k - 1] ELSE Append(f[k - 1], s[k])]

(* The recursion goes down to 0, so there is such a function.              *)
LEMMA KeptExists ==
    ASSUME NEW s, NEW S, NEW n \in Nat
    PROVE  \E f : KeptUpTo(f, s, S, n)
<1> DEFINE Bad == {m \in Nat : ~\E f : KeptUpTo(f, s, S, m)}
<1>1. ASSUME Bad # {} PROVE FALSE
  <2>1. PICK m \in Bad : \A y \in Bad : m <= y
    <3>1. Bad \subseteq Nat
      OBVIOUS
    <3> HIDE DEF Bad
    <3> QED
      BY <1>1, <3>1, LeastNumber
  <2>2. m \in Nat /\ ~\E f : KeptUpTo(f, s, S, m)
    OBVIOUS
  <2>3. CASE m = 0
    <3> DEFINE f == [k \in 0 .. 0 |-> <<>>]
    <3>1. \A k \in 0 .. 0 : k = 0
      OBVIOUS
    <3>2. KeptUpTo(f, s, S, 0)
      BY <3>1 DEF KeptUpTo
    <3> QED
      BY <2>2, <2>3, <3>2
  <2>4. CASE m # 0
    <3>1. m - 1 \in Nat /\ ~(m <= m - 1)
      BY <2>2, <2>4
    <3>2. PICK f : KeptUpTo(f, s, S, m - 1)
      BY <2>1, <3>1
    <3> DEFINE next == IF s[m] \in S THEN f[m - 1] ELSE Append(f[m - 1], s[m])
               g == [k \in 0 .. m |-> IF k = m THEN next ELSE f[k]]
    <3>3. \A k \in 0 .. m - 1 :
              f[k] = IF k = 0 THEN <<>>
                     ELSE IF s[k] \in S THEN f[k - 1] ELSE Append(f[k - 1], s[k])
      BY <3>2 DEF KeptUpTo
    <3>4. ASSUME NEW k \in 0 .. m
          PROVE  g[k] = IF k = 0 THEN <<>>
                        ELSE IF s[k] \in S THEN g[k - 1] ELSE Append(g[k - 1], s[k])
      <4>1. k # 0 => k - 1 \in 0 .. m /\ k - 1 # m
        BY <2>2
      <4>2. k # 0 => g[k - 1] = f[k - 1]
        BY <4>1
      <4>3. CASE k = m
        BY <2>4, <4>2, <4>3
      <4>4. CASE k # m
        <5>1. k \in 0 .. m - 1 /\ g[k] = f[k]
          BY <2>2, <4>4
        <5> QED
          BY <3>3, <4>2, <5>1
      <4> QED
        BY <4>3, <4>4
    <3>5. KeptUpTo(g, s, S, m)
      <4>1. g = [k \in 0 .. m |-> g[k]]
        OBVIOUS
      <4> HIDE DEF g
      <4> QED
        BY <3>4, <4>1 DEF KeptUpTo
    <3> QED
      BY <2>2, <3>5
  <2> QED
    BY <2>3, <2>4
<1> HIDE DEF Bad
<1>2. n \notin Bad
  BY <1>1
<1> QED
  BY <1>2 DEF Bad

(* It depends on those frames only.                                        *)
LEMMA KeptAgrees ==
    ASSUME NEW f, NEW g, NEW s, NEW t, NEW S, NEW m \in Nat, NEW n \in Nat, m <= n,
           KeptUpTo(f, s, S, m), KeptUpTo(g, t, S, n),
           \A k \in 1 .. m : s[k] = t[k]
    PROVE  f[m] = g[m]
<1> DEFINE Bad == {k \in 0 .. m : f[k] # g[k]}
<1>1. ASSUME Bad # {} PROVE FALSE
  <2>1. PICK x \in Bad : \A y \in Bad : x <= y
    <3>1. Bad \subseteq Nat
      OBVIOUS
    <3> HIDE DEF Bad
    <3> QED
      BY <1>1, <3>1, LeastNumber
  <2>2. x \in 0 .. m /\ x \in 0 .. n /\ f[x] # g[x]
    OBVIOUS
  <2>3. /\ f[x] = IF x = 0 THEN <<>>
                  ELSE IF s[x] \in S THEN f[x - 1] ELSE Append(f[x - 1], s[x])
        /\ g[x] = IF x = 0 THEN <<>>
                  ELSE IF t[x] \in S THEN g[x - 1] ELSE Append(g[x - 1], t[x])
    BY <2>2 DEF KeptUpTo
  <2>4. x # 0
    BY <2>2, <2>3
  <2>5. x \in 1 .. m /\ x - 1 \in 0 .. m /\ ~(x <= x - 1)
    BY <2>2, <2>4
  <2>6. f[x - 1] = g[x - 1]
    BY <2>1, <2>5
  <2> QED
    BY <2>2, <2>3, <2>4, <2>5, <2>6
<1>2. m \in 0 .. m
  OBVIOUS
<1> HIDE DEF Bad
<1>3. m \notin Bad
  BY <1>1
<1> QED
  BY <1>2, <1>3 DEF Bad

(* Without computes such a function and takes its last value.              *)
LEMMA WithoutIs ==
    ASSUME NEW s, Len(s) \in Nat, NEW S
    PROVE  \E f : KeptUpTo(f, s, S, Len(s)) /\ Without(s, S) = f[Len(s)]
<1> DEFINE F == CHOOSE f : KeptUpTo(f, s, S, Len(s))
<1>1. KeptUpTo(F, s, S, Len(s))
  BY KeptExists
<1>2. Without(s, S) = F[Len(s)]
  BY Zenon DEF Without, KeptUpTo
<1> QED
  BY <1>1, <1>2

(* Nothing is left of nothing.                                             *)
LEMMA WithoutEmpty ==
    ASSUME NEW S
    PROVE  Without(<<>>, S) = <<>>
<1>1. Len(<<>>) = 0
  OBVIOUS
<1>2. PICK f : KeptUpTo(f, <<>>, S, 0) /\ Without(<<>>, S) = f[0]
  BY <1>1, WithoutIs
<1>3. f[0] = <<>>
  BY <1>2 DEF KeptUpTo
<1> QED
  BY <1>2, <1>3

(* One frame more is left, or passed over.                                 *)
LEMMA WithoutAppend ==
    ASSUME NEW T, NEW s \in Seq(T), NEW e \in T, NEW S
    PROVE  Without(Append(s, e), S)
               = IF e \in S THEN Without(s, S) ELSE Append(Without(s, S), e)
<1> DEFINE n == Len(s)
           t == Append(s, e)
<1>1. /\ n \in Nat /\ Len(t) = n + 1 /\ t[n + 1] = e
      /\ \A k \in 1 .. n : s[k] = t[k]
  OBVIOUS
<1> HIDE DEF n, t
<1>2. PICK f : KeptUpTo(f, s, S, n) /\ Without(s, S) = f[n]
  BY <1>1, WithoutIs DEF n
<1>3. PICK g : KeptUpTo(g, t, S, n + 1) /\ Without(t, S) = g[n + 1]
  BY <1>1, WithoutIs
<1>4. f[n] = g[n]
  <2>1. n + 1 \in Nat /\ n <= n + 1
    BY <1>1
  <2> QED
    BY <1>1, <1>2, <1>3, <2>1, KeptAgrees
<1>5. g[n + 1] = IF e \in S THEN g[n] ELSE Append(g[n], e)
  <2>1. PICK m \in Nat : m = n + 1
    BY <1>1
  <2>2. m \in 0 .. m /\ m # 0
    BY <1>1, <2>1
  <2>3. KeptUpTo(g, t, S, m)
    BY <1>3, <2>1
  <2>4. g[m] = IF m = 0 THEN <<>>
               ELSE IF t[m] \in S THEN g[m - 1] ELSE Append(g[m - 1], t[m])
    BY <2>2, <2>3 DEF KeptUpTo
  <2>5. m - 1 = n /\ t[m] = e
    BY <1>1, <2>1
  <2>6. g[m] = IF e \in S THEN g[n] ELSE Append(g[n], e)
    BY <2>2, <2>4, <2>5
  <2> QED
    BY <2>1, <2>6
<1> QED
  BY <1>2, <1>3, <1>4, <1>5 DEF t

(* The first k frames are the k - 1 before and the one at k.               *)
LEMMA FirstFrames ==
    ASSUME NEW T, NEW f \in Seq(T), NEW k \in 1 .. Len(f)
    PROVE  /\ SubSeq(f, 1, k - 1) \in Seq(T) /\ f[k] \in T
           /\ SubSeq(f, 1, k) = Append(SubSeq(f, 1, k - 1), f[k])
<1>1. Len(f) \in Nat /\ f = [j \in 1 .. Len(f) |-> f[j]] /\ f[k] \in T
  OBVIOUS
<1>2. PICK a : a = [j \in 1 .. k - 1 |-> f[j]]
  OBVIOUS
<1>3. SubSeq(f, 1, k - 1) = a /\ a \in Seq(T) /\ Len(a) = k - 1
  <2>1. \A j \in 1 .. k - 1 : f[j] \in T
    BY <1>1
  <2> QED
    BY <1>1, <1>2, <2>1
<1>4. SubSeq(f, 1, k) = [j \in 1 .. k |-> f[j]]
  BY <1>1
<1>5. Append(a, f[k]) = [j \in 1 .. k |-> IF j = k THEN f[k] ELSE a[j]]
  BY <1>1, <1>2, <1>3
<1>6. \A j \in 1 .. k : f[j] = IF j = k THEN f[k] ELSE a[j]
  BY <1>1, <1>2
<1> QED
  BY <1>1, <1>3, <1>4, <1>5, <1>6
=============================================================================
