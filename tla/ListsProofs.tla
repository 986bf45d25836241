----------------------------- MODULE ListsProofs -----------------------------
(***************************************************************************)
(* Lemmas about lists, for the proofs of the modules that keep them: what   *)
(* Vec::retain leaves, and lists with one entry of each key.                *)
(***************************************************************************)
EXTENDS Lists, WellFoundedInduction, TLAPS

-----------------------------------------------------------------------------
(* Induction, and what Vec::retain keeps *)

\* A set of numbers has a least one.
LEMMA LeastNumber ==
  ASSUME NEW S \in SUBSET Nat, S # {}
  PROVE  \E n \in S : \A m \in S : n <= m
<1>1. IsWellFoundedOn(OpToRel(<, Nat), Nat)
  BY NatLessThanWellFounded
<1>2. PICK n \in S : \A m \in S : ~(<<m, n>> \in OpToRel(<, Nat))
  BY <1>1, WFMin
<1>3. \A m \in S : ~(m < n)
  BY <1>2 DEF OpToRel
<1> QED BY <1>3

\* A set of numbers that holds 0 and every successor is all of them.
LEMMA NatInd ==
  ASSUME NEW S \in SUBSET Nat, 0 \in S, \A n \in S : n + 1 \in S
  PROVE  S = Nat
<1> DEFINE Rest == Nat \ S
<1> SUFFICES ASSUME Rest # {} PROVE FALSE
  OBVIOUS
<1>1. IsWellFoundedOn(OpToRel(<, Nat), Nat)
  BY NatLessThanWellFounded
<1>2. PICK m \in Rest : \A y \in Rest : ~(<<y, m>> \in OpToRel(<, Nat))
  BY <1>1, WFMin
<1>3. \A y \in Rest : ~(y < m)
  BY <1>2 DEF OpToRel
<1>4. m # 0 /\ m - 1 \in Nat /\ m - 1 < m
  OBVIOUS
<1>5. m - 1 \in S
  BY <1>3, <1>4
<1>6. (m - 1) + 1 \in S
  BY <1>5
<1> QED BY <1>4, <1>6

\* What Without keeps of the first n entries, given what it keeps of fewer.
Keeps(g, seq, out, n) ==
  IF n = 0 THEN << >>
  ELSE IF seq[n] \in out THEN g[n - 1] ELSE Append(g[n - 1], seq[n])

LEMMA KeptExists ==
  ASSUME NEW seq, NEW out, NEW len \in Nat
  PROVE  \E g : g = [n \in 0 .. len |-> Keeps(g, seq, out, n)]
<1> DEFINE Has(m) == \E g : g = [n \in 0 .. m |-> Keeps(g, seq, out, n)]
           S == {m \in Nat : Has(m)}
<1>1. Has(0)
  <2> DEFINE g == [n \in 0 .. 0 |-> << >>]
  <2>1. g = [n \in 0 .. 0 |-> Keeps(g, seq, out, n)]
    BY DEF Keeps
  <2> QED BY <2>1
<1>2. ASSUME NEW m \in Nat, Has(m) PROVE Has(m + 1)
  <2>1. PICK g : g = [n \in 0 .. m |-> Keeps(g, seq, out, n)]
    BY <1>2
  <2> DEFINE h == [n \in 0 .. m + 1 |-> IF n = m + 1 THEN Keeps(g, seq, out, n) ELSE g[n]]
  <2>2. \A n \in 0 .. m : h[n] = g[n]
    OBVIOUS
  <2>3. \A n \in 0 .. m + 1 : Keeps(h, seq, out, n) = Keeps(g, seq, out, n)
    <3> TAKE n \in 0 .. m + 1
    <3>1. n # 0 => n - 1 \in 0 .. m
      OBVIOUS
    <3> HIDE DEF h
    <3> QED BY <2>2, <3>1 DEF Keeps
  <2>4. \A n \in 0 .. m : g[n] = Keeps(g, seq, out, n)
    BY <2>1
  <2>5. \A n \in 0 .. m + 1 : h[n] = Keeps(g, seq, out, n)
    BY <2>4
  <2>6. h = [n \in 0 .. m + 1 |-> h[n]]
    OBVIOUS
  <2>7. h = [n \in 0 .. m + 1 |-> Keeps(h, seq, out, n)]
    <3> HIDE DEF h
    <3> QED BY <2>3, <2>5, <2>6
  <2> HIDE DEF h
  <2> QED BY <2>7
<1> HIDE DEF Has
<1>3. 0 \in S /\ \A m \in S : m + 1 \in S
  BY <1>1, <1>2
<1> HIDE DEF S
<1>4. S = Nat
  BY <1>3, NatInd DEF S
<1> QED BY <1>4 DEF Has, S

\* The retained entries are those outside `out`, each once and in the old order.
Embeds(kept, seq, out, n) ==
  \E e \in [1 .. Len(kept) -> 1 .. n] :
    /\ \A i, j \in 1 .. Len(kept) : i < j => e[i] < e[j]
    /\ \A i \in 1 .. Len(kept) : kept[i] = seq[e[i]] /\ kept[i] \notin out
    /\ \A m \in 1 .. n : seq[m] \notin out => \E i \in 1 .. Len(kept) : e[i] = m

LEMMA WithoutEmbeds ==
  ASSUME NEW T, NEW seq \in Seq(T), NEW out
  PROVE  Without(seq, out) \in Seq(T) /\ Embeds(Without(seq, out), seq, out, Len(seq))
<1> DEFINE len == Len(seq)
           g == CHOOSE g : g = [n \in 0 .. len |-> Keeps(g, seq, out, n)]
           Good(n) == g[n] \in Seq(T) /\ Embeds(g[n], seq, out, n)
           S == {n \in Nat : n <= len => Good(n)}
<1>1. len \in Nat
  OBVIOUS
<1>2. Without(seq, out) = g[len]
  BY DEF Without, Keeps
<1>3. g = [n \in 0 .. len |-> Keeps(g, seq, out, n)]
  BY <1>1, KeptExists
<1>4. \A n \in 0 .. len : g[n] = Keeps(g, seq, out, n)
  BY <1>3
<1> HIDE DEF g
<1>5. Good(0)
  <2>1. g[0] = << >>
    BY <1>1, <1>4 DEF Keeps
  <2>2. Len(g[0]) = 0 /\ g[0] \in Seq(T)
    BY <2>1
  <2> DEFINE e == [i \in 1 .. 0 |-> 0]
  <2>3. e \in [1 .. 0 -> 1 .. 0]
    OBVIOUS
  <2> QED BY <2>2, <2>3 DEF Embeds
<1>6. ASSUME NEW n \in Nat, n + 1 <= len, Good(n) PROVE Good(n + 1)
  <2> DEFINE k == g[n]
             next == g[n + 1]
             x == seq[n + 1]
  <2>1. x \in T
    BY <1>6
  <2>2. next = IF x \in out THEN k ELSE Append(k, x)
    BY <1>4, <1>6, <1>1 DEF Keeps
  <2>3. k \in Seq(T) /\ Len(k) \in Nat
    BY <1>6
  <2>4. PICK e \in [1 .. Len(k) -> 1 .. n] :
            /\ \A i, j \in 1 .. Len(k) : i < j => e[i] < e[j]
            /\ \A i \in 1 .. Len(k) : k[i] = seq[e[i]] /\ k[i] \notin out
            /\ \A m \in 1 .. n : seq[m] \notin out => \E i \in 1 .. Len(k) : e[i] = m
    BY <1>6 DEF Embeds
  <2> HIDE DEF x, k, next
  <2>5. CASE x \in out
    <3>1. next = k
      BY <2>2, <2>5
    <3>2. e \in [1 .. Len(k) -> 1 .. n + 1]
      BY <2>4, <2>3
    <3>3. \A m \in 1 .. n + 1 : seq[m] \notin out => \E i \in 1 .. Len(k) : e[i] = m
      BY <2>4, <2>5 DEF x
    <3>4. Embeds(k, seq, out, n + 1)
      BY <2>4, <3>2, <3>3 DEF Embeds
    <3> QED BY <3>1, <3>4, <2>3 DEF next
  <2>6. CASE x \notin out
    <3>1. next = Append(k, x)
      BY <2>2, <2>6
    <3>2. /\ next \in Seq(T) /\ Len(next) = Len(k) + 1 /\ next[Len(k) + 1] = x
          /\ \A i \in 1 .. Len(k) : next[i] = k[i]
      BY <3>1, <2>3, <2>1
    <3> DEFINE d == [i \in 1 .. Len(next) |-> IF i = Len(k) + 1 THEN n + 1 ELSE e[i]]
    <3>3. \A i \in 1 .. Len(k) : d[i] = e[i]
      BY <3>2, <2>3
    <3>4. d[Len(k) + 1] = n + 1
      BY <3>2, <2>3
    <3>5. d \in [1 .. Len(next) -> 1 .. n + 1]
      BY <3>2, <2>3, <2>4
    <3> HIDE DEF d
    <3>6. \A i, j \in 1 .. Len(next) : i < j => d[i] < d[j]
      <4> TAKE i, j \in 1 .. Len(next)
      <4> HAVE i < j
      <4>1. i \in 1 .. Len(k) /\ e[i] \in 1 .. n /\ d[i] = e[i]
        BY <3>2, <3>3, <2>3, <2>4
      <4>2. CASE j = Len(k) + 1
        BY <4>1, <4>2, <3>4
      <4>3. CASE j \in 1 .. Len(k)
        BY <4>1, <4>3, <3>3, <2>4
      <4> QED BY <4>2, <4>3, <3>2, <2>3
    <3>7. \A i \in 1 .. Len(next) : next[i] = seq[d[i]] /\ next[i] \notin out
      <4> TAKE i \in 1 .. Len(next)
      <4>1. CASE i = Len(k) + 1
        BY <4>1, <3>2, <3>4, <2>6 DEF x
      <4>2. CASE i \in 1 .. Len(k)
        BY <4>2, <3>2, <3>3, <2>4
      <4> QED BY <4>1, <4>2, <3>2, <2>3
    <3>8. \A m \in 1 .. n + 1 : seq[m] \notin out => \E i \in 1 .. Len(next) : d[i] = m
      <4> TAKE m \in 1 .. n + 1
      <4> HAVE seq[m] \notin out
      <4>1. CASE m = n + 1
        BY <4>1, <3>2, <3>4, <2>3
      <4>2. CASE m \in 1 .. n
        <5>1. PICK i \in 1 .. Len(k) : e[i] = m
          BY <4>2, <2>4
        <5>2. i \in 1 .. Len(next) /\ d[i] = m
          BY <5>1, <3>2, <3>3, <2>3
        <5> QED BY <5>2
      <4> QED BY <4>1, <4>2
    <3>9. Embeds(next, seq, out, n + 1)
      BY <3>5, <3>6, <3>7, <3>8 DEF Embeds
    <3> QED BY <3>2, <3>9 DEF next
  <2> QED BY <2>5, <2>6
<1> HIDE DEF Good
<1>7. 0 \in S
  BY <1>5
<1>8. \A n \in S : n + 1 \in S
  <2> TAKE n \in S
  <2> SUFFICES ASSUME n + 1 <= len PROVE Good(n + 1)
    OBVIOUS
  <2>1. n <= len
    BY <1>1
  <2> QED BY <1>6, <2>1
<1> HIDE DEF S
<1>9. S = Nat
  BY <1>7, <1>8, NatInd DEF S
<1>10. Good(len)
  BY <1>1, <1>9 DEF S
<1> QED BY <1>2, <1>10 DEF Good

\* What is retained is what is not taken out, in order.
LEMMA WithoutElements ==
  ASSUME NEW T, NEW seq \in Seq(T), NEW out
  PROVE  Elements(Without(seq, out)) = Elements(seq) \ out
<1> DEFINE w == Without(seq, out)
<1>1. w \in Seq(T) /\ DOMAIN w = 1 .. Len(w) /\ DOMAIN seq = 1 .. Len(seq)
  BY WithoutEmbeds
<1>2. PICK e \in [1 .. Len(w) -> 1 .. Len(seq)] :
          /\ \A i \in 1 .. Len(w) : w[i] = seq[e[i]] /\ w[i] \notin out
          /\ \A m \in 1 .. Len(seq) : seq[m] \notin out => \E i \in 1 .. Len(w) : e[i] = m
  BY WithoutEmbeds DEF Embeds
<1> HIDE DEF w
<1>3. ASSUME NEW x \in Elements(w) PROVE x \in Elements(seq) \ out
  BY <1>1, <1>2 DEF Elements
<1>4. ASSUME NEW x \in Elements(seq) \ out PROVE x \in Elements(w)
  <2>1. PICK m \in 1 .. Len(seq) : seq[m] = x
    BY <1>1 DEF Elements
  <2>2. PICK i \in 1 .. Len(w) : e[i] = m
    BY <1>2, <2>1
  <2> QED BY <1>1, <1>2, <2>1, <2>2 DEF Elements
<1> QED BY <1>3, <1>4 DEF w

LEMMA WithoutPairs ==
  ASSUME NEW T, NEW seq \in Seq(T), NEW out, NEW i \in DOMAIN Without(seq, out),
         NEW j \in DOMAIN Without(seq, out), i < j
  PROVE  \E a, b \in DOMAIN seq : a < b /\ Without(seq, out)[i] = seq[a] /\ Without(seq, out)[j] = seq[b]
<1> DEFINE w == Without(seq, out)
<1>1. w \in Seq(T) /\ DOMAIN w = 1 .. Len(w) /\ DOMAIN seq = 1 .. Len(seq)
  BY WithoutEmbeds
<1>2. PICK e \in [1 .. Len(w) -> 1 .. Len(seq)] :
          /\ \A m, n \in 1 .. Len(w) : m < n => e[m] < e[n]
          /\ \A m \in 1 .. Len(w) : w[m] = seq[e[m]]
  BY WithoutEmbeds DEF Embeds
<1> HIDE DEF w
<1>3. e[i] \in DOMAIN seq /\ e[j] \in DOMAIN seq /\ e[i] < e[j] /\ w[i] = seq[e[i]] /\ w[j] = seq[e[j]]
  BY <1>1, <1>2 DEF w
<1> QED BY <1>3 DEF w

LEMMA AppendAt ==
  ASSUME NEW T, NEW q \in Seq(T), NEW x \in T
  PROVE  /\ Append(q, x) \in Seq(T)
         /\ DOMAIN q = 1 .. Len(q) /\ Len(q) \in Nat
         /\ DOMAIN Append(q, x) = 1 .. Len(q) + 1
         /\ \A i \in DOMAIN q : Append(q, x)[i] = q[i]
         /\ Append(q, x)[Len(q) + 1] = x
         /\ \A i \in DOMAIN Append(q, x) : i \in DOMAIN q \/ i = Len(q) + 1
  OBVIOUS

-----------------------------------------------------------------------------
(* Collections with one entry of each key; `f` is the key of every entry. *)

Once(seq, f) == \A i, j \in DOMAIN seq : i < j => f[seq[i]] # f[seq[j]]

LEMMA OnceWithout ==
  ASSUME NEW T, NEW seq \in Seq(T), NEW f, Once(seq, f), NEW out
  PROVE  Once(Without(seq, out), f)
<1> SUFFICES ASSUME NEW i \in DOMAIN Without(seq, out), NEW j \in DOMAIN Without(seq, out), i < j
             PROVE  f[Without(seq, out)[i]] # f[Without(seq, out)[j]]
  BY DEF Once
<1>1. PICK a, b \in DOMAIN seq :
        a < b /\ Without(seq, out)[i] = seq[a] /\ Without(seq, out)[j] = seq[b]
  BY WithoutPairs
<1> QED BY <1>1 DEF Once

LEMMA OnceAppend ==
  ASSUME NEW T, NEW seq \in Seq(T), NEW f, Once(seq, f), NEW x \in T,
         \A y \in Elements(seq) : f[y] # f[x]
  PROVE  Once(Append(seq, x), f)
<1> DEFINE q == Append(seq, x)
<1> SUFFICES ASSUME NEW i \in DOMAIN q, NEW j \in DOMAIN q, i < j
             PROVE  f[q[i]] # f[q[j]]
  BY DEF Once
<1>1. i \in DOMAIN seq /\ q[i] = seq[i]
  BY AppendAt
<1>2. CASE j \in DOMAIN seq
  BY <1>1, <1>2, AppendAt DEF Once
<1>3. CASE j = Len(seq) + 1
  <2>1. q[j] = x
    BY <1>3, AppendAt
  <2>2. q[i] \in Elements(seq)
    BY <1>1 DEF Elements
  <2> QED BY <2>1, <2>2
<1> QED BY <1>2, <1>3, AppendAt

LEMMA OnceEach ==
  ASSUME NEW T, NEW seq \in Seq(T), NEW f
  PROVE  Once(seq, f) <=> \A i, j \in DOMAIN seq : f[seq[i]] = f[seq[j]] => i = j
<1>1. DOMAIN seq \subseteq Nat
  OBVIOUS
<1> QED BY <1>1 DEF Once

LEMMA GreatestExists ==
  ASSUME NEW n \in Nat, NEW Of \in SUBSET (1 .. n), Of # {}
  PROVE  \E m \in Of : \A j \in Of : j <= m
<1> DEFINE Has(k) == \A Q \in SUBSET (1 .. k) : Q # {} => \E m \in Q : \A j \in Q : j <= m
           S == {k \in Nat : Has(k)}
<1>1. Has(0)
  <2>1. 1 .. 0 = {}
    OBVIOUS
  <2> QED BY <2>1
<1>2. ASSUME NEW k \in Nat, Has(k) PROVE Has(k + 1)
  <2> SUFFICES ASSUME NEW Q \in SUBSET (1 .. k + 1), Q # {}
               PROVE  \E m \in Q : \A j \in Q : j <= m
    OBVIOUS
  <2>1. CASE k + 1 \in Q
    BY <2>1
  <2>2. CASE k + 1 \notin Q
    <3>1. Q \in SUBSET (1 .. k)
      BY <2>2
    <3> QED BY <3>1, <1>2
  <2> QED BY <2>1, <2>2
<1> HIDE DEF Has
<1>3. 0 \in S /\ \A k \in S : k + 1 \in S
  BY <1>1, <1>2
<1> HIDE DEF S
<1>4. S = Nat
  BY <1>3, NatInd DEF S
<1>5. Has(n)
  BY <1>4 DEF S
<1> QED BY <1>5 DEF Has

=============================================================================
