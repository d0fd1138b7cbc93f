---------------------------- MODULE SequenceLemmas ----------------------------
(***************************************************************************)
(* What the modules need of sequences.  A message sent is appended to the  *)
(* second part of received \o under way, a message delivered moves from the*)
(* second part to the first.  What stays of a sequence stays in order.     *)
(***************************************************************************)
EXTENDS Loops, SequenceTheorems, WellFoundedInduction, TLAPS

(* Appending to the second part of a concatenation appends to the whole. *)
LEMMA ConcatAppend ==
  ASSUME NEW S, NEW s \in Seq(S), NEW t \in Seq(S), NEW e \in S
  PROVE  s \o Append(t, e) = Append(s \o t, e)
<1>1. <<e>> \in Seq(S)
  OBVIOUS
<1>2. s \o t \in Seq(S)
  BY ConcatProperties
<1>3. Append(t, e) = t \o <<e>> /\ Append(s \o t, e) = (s \o t) \o <<e>>
  BY <1>2, AppendIsConcat
<1> QED
  BY <1>1, <1>3, ConcatAssociative

(* Moving the head of the second part to the end of the first leaves the
   concatenation as it is: what a delivery does to what was received and
   what is under way. *)
LEMMA MoveHead ==
  ASSUME NEW S, NEW s \in Seq(S), NEW t \in Seq(S), t # <<>>
  PROVE  Append(s, Head(t)) \o Tail(t) = s \o t
<1>1. Head(t) \in S /\ Tail(t) \in Seq(S)
  BY HeadTailProperties
<1>2. <<Head(t)>> \in Seq(S)
  BY <1>1
<1>3. Append(s, Head(t)) = s \o <<Head(t)>>
  BY <1>1, AppendIsConcat
<1>4. Append(s, Head(t)) \o Tail(t) = s \o (<<Head(t)>> \o Tail(t))
  BY <1>1, <1>2, <1>3, ConcatAssociative
<1>5. Len(t) \in Nat \ {0}
  BY EmptySeq
<1>6. SubSeq(t, 1, Len(t)) = <<t[1]>> \o SubSeq(t, 2, Len(t))
  BY <1>5, SubSeqRecursiveFirst
<1>7. t = <<Head(t)>> \o Tail(t)
  BY <1>6, SubSeqFull, TailIsSubSeq
<1> QED
  BY <1>4, <1>7

(* What is in a sequence after an append was there, at the same place, or is the
   element appended. *)
LEMMA AppendAt ==
  ASSUME NEW S, NEW s \in Seq(S), NEW e \in S, NEW i \in DOMAIN Append(s, e)
  PROVE  \/ i \in DOMAIN s /\ Append(s, e)[i] = s[i]
         \/ i = Len(s) + 1 /\ Append(s, e)[i] = e
OBVIOUS

(* What is in a tail was one place further back. *)
LEMMA TailAt ==
  ASSUME NEW S, NEW s \in Seq(S), s # <<>>, NEW i \in DOMAIN Tail(s)
  PROVE  i \in Nat /\ i + 1 \in DOMAIN s /\ Tail(s)[i] = s[i + 1]
OBVIOUS

(* What was in a sequence stays where it is; its first element is the one
   appended only if it was empty. *)
LEMMA AppendKeeps ==
  ASSUME NEW S, NEW s \in Seq(S), NEW e \in S
  PROVE  /\ Append(s, e) # <<>>
         /\ \A i \in DOMAIN s : i \in DOMAIN Append(s, e) /\ Append(s, e)[i] = s[i]
         /\ s = <<>> => Append(s, e)[1] = e
         /\ s # <<>> => 1 \in DOMAIN s
<1>1. Append(s, e) \in Seq(S) /\ Len(Append(s, e)) = Len(s) + 1
  BY AppendProperties
<1>2. Append(s, e) # <<>>
  BY <1>1, LenProperties, EmptySeq
<1>3. \A i \in DOMAIN s : i \in DOMAIN Append(s, e) /\ Append(s, e)[i] = s[i]
  OBVIOUS
<1>4. s = <<>> => Append(s, e)[1] = e
  OBVIOUS
<1>5. s # <<>> => 1 \in DOMAIN s
  OBVIOUS
<1> QED
  BY <1>2, <1>3, <1>4, <1>5

-----------------------------------------------------------------------------
(* A set of numbers that is not empty has a least one. *)
LEMMA LeastNatural ==
  ASSUME NEW T \in SUBSET Nat, T # {}
  PROVE  \E m \in T : \A n \in T : m <= n
<1>1. IsWellFoundedOn({ss \in Nat \X Nat : ss[1] < ss[2]}, Nat)
  BY NatLessThanWellFounded DEF OpToRel
<1>2. \E m \in T : \A n \in T : ~(<<n, m>> \in {ss \in Nat \X Nat : ss[1] < ss[2]})
  BY <1>1, WFMin
<1>3. PICK m \in T : \A n \in T : ~(<<n, m>> \in {ss \in Nat \X Nat : ss[1] < ss[2]})
  BY <1>2
<1>4. \A n \in T : ~(n < m)
  <2> SUFFICES ASSUME NEW n \in T, n < m PROVE FALSE
    OBVIOUS
  <2>1. <<n, m>> \in Nat \X Nat /\ <<n, m>>[1] < <<n, m>>[2]
    OBVIOUS
  <2> QED
    BY <1>3, <2>1
<1> QED
  BY <1>4

(* A set of numbers that has 0 and with every number the next has them all. *)
LEMMA NatSetInduction ==
  ASSUME NEW T, 0 \in T, \A n \in Nat : n \in T => n + 1 \in T
  PROVE  Nat \subseteq T
<1> SUFFICES ASSUME Nat \ T # {} PROVE FALSE
  OBVIOUS
<1>1. PICK m \in Nat \ T : \A n \in Nat \ T : m <= n
  BY LeastNatural
<1>2. m # 0 /\ m - 1 \in Nat
  BY <1>1
<1>3. m - 1 \in T
  BY <1>1, <1>2
<1>4. (m - 1) + 1 \in T
  BY <1>2, <1>3
<1> QED
  BY <1>1, <1>4

(* The loop of Kept(), n steps of it. *)
KeptDef(f, s, S, n) ==
  f = [i \in 0..n |->
         IF i = 0 THEN <<>>
         ELSE IF s[i] \in S THEN Append(f[i - 1], s[i]) ELSE f[i - 1]]

(* One step of the loop. *)
LEMMA KeptStep ==
  ASSUME NEW f, NEW s, NEW S, NEW n \in Nat, KeptDef(f, s, S, n), NEW i \in 1..n
  PROVE  f[i] = IF s[i] \in S THEN Append(f[i - 1], s[i]) ELSE f[i - 1]
<1>1. \A j \in 0..n : f[j] = IF j = 0 THEN <<>>
         ELSE IF s[j] \in S THEN Append(f[j - 1], s[j]) ELSE f[j - 1]
  BY Zenon DEF KeptDef
<1>2. i \in 0..n /\ i # 0
  OBVIOUS
<1> QED
  BY <1>1, <1>2, Zenon

(* The loop can be gone through. *)
LEMMA KeptExists ==
  ASSUME NEW s, NEW S, NEW n \in Nat
  PROVE  \E f : KeptDef(f, s, S, n)
<1> DEFINE T == {m \in Nat : \E f : KeptDef(f, s, S, m)}
<1>1. 0 \in T
  <2>1. KeptDef([i \in 0..0 |-> <<>>], s, S, 0)
    BY DEF KeptDef
  <2> QED
    BY <2>1
<1>2. ASSUME NEW m \in Nat, m \in T PROVE m + 1 \in T
  <2>1. PICK f : KeptDef(f, s, S, m)
    BY <1>2
  <2> DEFINE g == [i \in 0..(m + 1) |->
                     IF i = m + 1
                     THEN IF s[m + 1] \in S THEN Append(f[m], s[m + 1]) ELSE f[m]
                     ELSE f[i]]
  <2>2. \A i \in 0..m : g[i] = f[i]
    OBVIOUS
  <2>3. ASSUME NEW i \in 0..(m + 1)
        PROVE g[i] = IF i = 0 THEN <<>>
                     ELSE IF s[i] \in S THEN Append(g[i - 1], s[i]) ELSE g[i - 1]
    <3>1. CASE i = 0
      <4>1. f[0] = <<>>
        BY <2>1 DEF KeptDef
      <4> QED
        BY <3>1, <4>1
    <3>2. CASE i \in 1..m
      <4>1. i - 1 \in 0..m /\ i \in 0..m
        BY <3>2
      <4>2. f[i] = IF s[i] \in S THEN Append(f[i - 1], s[i]) ELSE f[i - 1]
        BY <2>1, <4>1, <3>2, KeptStep
      <4>3. g[i] = f[i] /\ g[i - 1] = f[i - 1]
        BY <2>2, <4>1
      <4> HIDE DEF g
      <4> QED
        BY <3>2, <4>2, <4>3
    <3>3. CASE i = m + 1
      <4>1. g[i - 1] = f[m]
        BY <2>2, <3>3
      <4>2. g[i] = IF s[i] \in S THEN Append(f[m], s[i]) ELSE f[m]
        BY <3>3
      <4> HIDE DEF g
      <4> QED
        BY <3>3, <4>1, <4>2
    <3> QED
      BY <3>1, <3>2, <3>3
  <2>4. g = [i \in DOMAIN g |-> g[i]] /\ DOMAIN g = 0..(m + 1)
    OBVIOUS
  <2> HIDE DEF g
  <2>5. KeptDef(g, s, S, m + 1)
    BY <2>3, <2>4 DEF KeptDef
  <2> QED
    BY <2>5
<1> HIDE DEF T
<1>3. Nat \subseteq T
  BY <1>1, <1>2, NatSetInduction
<1> QED
  BY <1>3 DEF T

(* Kept(s, S) is what the loop has at its end. *)
LEMMA KeptLoop ==
  ASSUME NEW s, NEW S, Len(s) \in Nat
  PROVE  \E f : /\ Kept(s, S) = f[Len(s)]
                /\ f[0] = <<>>
                /\ \A i \in 1..Len(s) :
                     f[i] = IF s[i] \in S THEN Append(f[i - 1], s[i]) ELSE f[i - 1]
<1> DEFINE f == CHOOSE f : KeptDef(f, s, S, Len(s))
<1>1. KeptDef(f, s, S, Len(s))
  BY KeptExists
<1>2. Kept(s, S) = f[Len(s)]
  BY DEF Kept, KeptDef
<1> HIDE DEF f
<1>3. f[0] = <<>>
  BY <1>1 DEF KeptDef
<1>4. \A i \in 1..Len(s) :
        f[i] = IF s[i] \in S THEN Append(f[i - 1], s[i]) ELSE f[i - 1]
  BY <1>1, KeptStep
<1> QED
  BY <1>2, <1>3, <1>4

(* r is what stays of s: what was there and is wanted, all that is wanted, in the
   order it had. *)
WasThere(s, S, r) ==
  \A k \in DOMAIN r : r[k] \in S /\ \E i \in DOMAIN s : r[k] = s[i]

AllStays(s, S, r) ==
  \A i \in DOMAIN s : s[i] \in S => \E k \in DOMAIN r : r[k] = s[i]

OrderStays(s, r) ==
  \A k, l \in DOMAIN r : k < l =>
    \E i, j \in DOMAIN s : i < j /\ r[k] = s[i] /\ r[l] = s[j]

(* What the loop has at its end. *)
LEMMA KeptStays ==
  ASSUME NEW T, NEW s \in Seq(T), NEW S
  PROVE  /\ Kept(s, S) \in Seq(T)
         /\ WasThere(s, S, Kept(s, S))
         /\ AllStays(s, S, Kept(s, S))
         /\ OrderStays(s, Kept(s, S))
<1>1. PICK n \in Nat : n = Len(s) /\ DOMAIN s = 1..n
  OBVIOUS
<1>2. PICK f : /\ Kept(s, S) = f[n]
               /\ f[0] = <<>>
               /\ \A i \in 1..n :
                    f[i] = IF s[i] \in S THEN Append(f[i - 1], s[i]) ELSE f[i - 1]
  BY <1>1, KeptLoop
<1> DEFINE
  Good(i) == /\ f[i] \in Seq(T)
             /\ \A k \in DOMAIN f[i] : f[i][k] \in S
             /\ \A h \in 1..i : s[h] \in S => \E k \in DOMAIN f[i] : f[i][k] = s[h]
             /\ \A k \in DOMAIN f[i] : \E h \in 1..i : f[i][k] = s[h]
             /\ \A k, l \in DOMAIN f[i] : k < l =>
                  \E h, j \in 1..i : h < j /\ f[i][k] = s[h] /\ f[i][l] = s[j]
  Done == {i \in Nat : i <= n => Good(i)}
<1>3. 0 \in Done
  <2>1. f[0] \in Seq(T) /\ DOMAIN f[0] = {}
    <3>1. <<>> \in Seq(T) /\ DOMAIN <<>> = {}
      OBVIOUS
    <3> QED
      BY <1>2, <3>1
  <2>2. Good(0)
    BY <2>1
  <2> QED
    BY <2>2
<1>4. ASSUME NEW i \in Nat, i \in Done PROVE i + 1 \in Done
  <2> SUFFICES ASSUME i + 1 <= n PROVE Good(i + 1)
    OBVIOUS
  <2>1. i + 1 \in 1..n /\ (i + 1) - 1 = i /\ i <= n /\ 1..i \subseteq 1..(i + 1)
    OBVIOUS
  <2>2. Good(i)
    BY <1>4, <2>1
  <2>3. s[i + 1] \in T
    BY <1>1, <2>1
  <2>4. CASE s[i + 1] \notin S
    <3>1. f[i + 1] = f[i]
      BY <1>2, <2>1, <2>4
    <3>2. \A h \in 1..(i + 1) : s[h] \in S => h \in 1..i
      BY <2>4
    <3> QED
      BY <2>1, <2>2, <3>1, <3>2
  <2>5. CASE s[i + 1] \in S
    <3> DEFINE a == f[i]
               b == f[i + 1]
               e == s[i + 1]
    <3>1. b = Append(a, e) /\ a \in Seq(T)
      BY <1>2, <2>1, <2>2, <2>5
    <3> HIDE DEF a, b, e
    <3>2. e \in T
      BY <2>3 DEF e
    <3>3. b \in Seq(T) /\ Len(b) = Len(a) + 1 /\ DOMAIN b = 1..(Len(a) + 1)
          /\ DOMAIN a = 1..Len(a) /\ Len(a) \in Nat
          /\ b[Len(a) + 1] = e /\ \A k \in 1..Len(a) : b[k] = a[k]
      BY <3>1, <3>2
    <3>4. \A k \in DOMAIN b : (k \in DOMAIN a /\ b[k] = a[k]) \/ (k = Len(a) + 1 /\ b[k] = e)
      BY <3>3
    <3>5. \A k \in DOMAIN b : b[k] \in S
      BY <2>2, <2>5, <3>4 DEF a, e
    <3>6. ASSUME NEW h \in 1..(i + 1), s[h] \in S
          PROVE  \E k \in DOMAIN b : b[k] = s[h]
      <4>1. CASE h = i + 1
        BY <4>1, <3>3 DEF e
      <4>2. CASE h \in 1..i
        <5>1. PICK k \in DOMAIN a : a[k] = s[h]
          BY <2>2, <3>6, <4>2 DEF a
        <5> QED
          BY <3>3, <5>1
      <4> QED
        BY <4>1, <4>2
    <3>7. ASSUME NEW k \in DOMAIN b
          PROVE  \E h \in 1..(i + 1) : b[k] = s[h]
      <4>1. CASE k \in DOMAIN a /\ b[k] = a[k]
        <5>1. PICK h \in 1..i : a[k] = s[h]
          BY <2>2, <4>1 DEF a
        <5> QED
          BY <2>1, <4>1, <5>1
      <4>2. CASE b[k] = e
        BY <4>2 DEF e
      <4> QED
        BY <3>4, <4>1, <4>2
    <3>8. ASSUME NEW k \in DOMAIN b, NEW l \in DOMAIN b, k < l
          PROVE  \E h, j \in 1..(i + 1) : h < j /\ b[k] = s[h] /\ b[l] = s[j]
      <4>1. k \in DOMAIN a /\ b[k] = a[k]
        BY <3>3, <3>8
      <4>2. CASE l \in DOMAIN a /\ b[l] = a[l]
        <5>1. PICK h \in 1..i, j \in 1..i : h < j /\ a[k] = s[h] /\ a[l] = s[j]
          BY <2>2, <3>8, <4>1, <4>2 DEF a
        <5> QED
          BY <2>1, <4>1, <4>2, <5>1
      <4>3. CASE b[l] = e
        <5>1. PICK h \in 1..i : a[k] = s[h]
          BY <2>2, <4>1 DEF a
        <5>2. h \in 1..(i + 1) /\ i + 1 \in 1..(i + 1) /\ h < i + 1
          BY <2>1
        <5> QED
          BY <4>1, <4>3, <5>1, <5>2 DEF e
      <4> QED
        BY <3>4, <4>2, <4>3
    <3> QED
      BY <3>3, <3>5, <3>6, <3>7, <3>8 DEF b
  <2> QED
    BY <2>4, <2>5
<1> HIDE DEF Done
<1>5. Nat \subseteq Done
  BY <1>3, <1>4, NatSetInduction
<1>6. Good(n)
  BY <1>5 DEF Done
<1>7. f[n] = Kept(s, S) /\ 1..n = DOMAIN s
  BY <1>1, <1>2
<1>8. PICK r : r = f[n]
  OBVIOUS
<1>9. /\ r \in Seq(T)
      /\ \A k \in DOMAIN r : r[k] \in S
      /\ \A h \in 1..n : s[h] \in S => \E k \in DOMAIN r : r[k] = s[h]
      /\ \A k \in DOMAIN r : \E h \in 1..n : r[k] = s[h]
      /\ \A k, l \in DOMAIN r : k < l =>
           \E h, j \in 1..n : h < j /\ r[k] = s[h] /\ r[l] = s[j]
  BY <1>6, <1>8
<1> HIDE DEF Good
<1>10. \A h : h \in 1..n <=> h \in DOMAIN s
  BY <1>7
<1>11. Kept(s, S) = r
  BY <1>7, <1>8
<1>12. \A h \in DOMAIN s : s[h] \in S => \E k \in DOMAIN r : r[k] = s[h]
  BY <1>9, <1>10, Zenon
<1>13. \A k \in DOMAIN r : \E h \in DOMAIN s : r[k] = s[h]
  BY <1>9, <1>10, Zenon
<1>14. ASSUME NEW k \in DOMAIN r, NEW l \in DOMAIN r, k < l
       PROVE  \E h, j \in DOMAIN s : h < j /\ r[k] = s[h] /\ r[l] = s[j]
  <2>1. PICK h \in 1..n, j \in 1..n : h < j /\ r[k] = s[h] /\ r[l] = s[j]
    BY <1>9, <1>14
  <2>2. h \in DOMAIN s /\ j \in DOMAIN s
    BY <1>10
  <2> QED
    BY <2>1, <2>2, Zenon
<1>15. WasThere(s, S, r)
  BY <1>9, <1>13, Zenon DEF WasThere
<1>16. AllStays(s, S, r)
  BY <1>12 DEF AllStays
<1>17. OrderStays(s, r)
  BY <1>14, Zenon DEF OrderStays
<1> QED
  BY <1>9, <1>11, <1>15, <1>16, <1>17

(* The places kept of s are those in S, ascending. *)
LEMMA PlacesAscend ==
  ASSUME NEW s, Len(s) \in Nat, NEW S
  PROVE  /\ Places(s, S) \in Seq(1..Len(s))
         /\ \A k \in DOMAIN Places(s, S) : Places(s, S)[k] \in S
         /\ \A i \in 1..Len(s) : i \in S =>
              \E k \in DOMAIN Places(s, S) : Places(s, S)[k] = i
         /\ \A k, l \in DOMAIN Places(s, S) :
              k < l => Places(s, S)[k] < Places(s, S)[l]
<1> DEFINE I == [i \in 1..Len(s) |-> i]
<1>1. I \in Seq(1..Len(s)) /\ DOMAIN I = 1..Len(s) /\ \A i \in 1..Len(s) : I[i] = i
  OBVIOUS
<1>2. Places(s, S) = Kept(I, S)
  BY DEF Places
<1> HIDE DEF I
<1>3. PICK r : r = Kept(I, S)
  OBVIOUS
<1>4. r \in Seq(1..Len(s)) /\ WasThere(I, S, r) /\ AllStays(I, S, r) /\ OrderStays(I, r)
  BY <1>1, <1>3, KeptStays
<1>5. \A k \in DOMAIN r : r[k] \in S
  BY <1>4 DEF WasThere
<1>6. \A i \in 1..Len(s) : i \in S => \E k \in DOMAIN r : r[k] = i
  BY <1>1, <1>4 DEF AllStays
<1>7. \A k, l \in DOMAIN r : k < l => r[k] < r[l]
  <2> SUFFICES ASSUME NEW k \in DOMAIN r, NEW l \in DOMAIN r, k < l PROVE r[k] < r[l]
    OBVIOUS
  <2>1. PICK i \in DOMAIN I, j \in DOMAIN I : i < j /\ r[k] = I[i] /\ r[l] = I[j]
    BY <1>4 DEF OrderStays
  <2> QED
    BY <1>1, <2>1
<1> QED
  BY <1>2, <1>3, <1>4, <1>5, <1>6, <1>7

-----------------------------------------------------------------------------
(* The loop of Total(), n steps of it. *)
TotalDef(f, s, n) ==
  f = [i \in 0..n |-> IF i = 0 THEN 0 ELSE f[i - 1] + s[i]]

(* One step of the loop. *)
LEMMA TotalStep ==
  ASSUME NEW f, NEW s, NEW n \in Nat, TotalDef(f, s, n), NEW i \in 1..n
  PROVE  f[i] = f[i - 1] + s[i]
<1>1. \A j \in 0..n : f[j] = IF j = 0 THEN 0 ELSE f[j - 1] + s[j]
  BY Zenon DEF TotalDef
<1>2. i \in 0..n /\ i # 0
  OBVIOUS
<1> QED
  BY <1>1, <1>2, Zenon

(* The loop can be gone through. *)
LEMMA TotalExists ==
  ASSUME NEW s, NEW n \in Nat
  PROVE  \E f : TotalDef(f, s, n)
<1> DEFINE T == {m \in Nat : \E f : TotalDef(f, s, m)}
<1>1. 0 \in T
  <2>1. TotalDef([i \in 0..0 |-> 0], s, 0)
    BY DEF TotalDef
  <2> QED
    BY <2>1
<1>2. ASSUME NEW m \in Nat, m \in T PROVE m + 1 \in T
  <2>1. PICK f : TotalDef(f, s, m)
    BY <1>2
  <2> DEFINE g == [i \in 0..(m + 1) |-> IF i = m + 1 THEN f[m] + s[m + 1] ELSE f[i]]
  <2>2. \A i \in 0..m : g[i] = f[i]
    OBVIOUS
  <2>3. ASSUME NEW i \in 0..(m + 1)
        PROVE g[i] = IF i = 0 THEN 0 ELSE g[i - 1] + s[i]
    <3>1. CASE i = 0
      <4>1. f[0] = 0
        BY <2>1 DEF TotalDef
      <4> QED
        BY <3>1, <4>1
    <3>2. CASE i \in 1..m
      <4>1. i - 1 \in 0..m /\ i \in 0..m
        BY <3>2
      <4>2. f[i] = f[i - 1] + s[i]
        BY <2>1, <3>2, TotalStep
      <4>3. g[i] = f[i] /\ g[i - 1] = f[i - 1]
        BY <2>2, <4>1
      <4> HIDE DEF g
      <4> QED
        BY <3>2, <4>2, <4>3
    <3>3. CASE i = m + 1
      <4>1. g[i - 1] = f[m]
        BY <2>2, <3>3
      <4>2. g[i] = f[m] + s[i]
        BY <3>3
      <4> HIDE DEF g
      <4> QED
        BY <3>3, <4>1, <4>2
    <3> QED
      BY <3>1, <3>2, <3>3
  <2>4. g = [i \in DOMAIN g |-> g[i]] /\ DOMAIN g = 0..(m + 1)
    OBVIOUS
  <2> HIDE DEF g
  <2>5. TotalDef(g, s, m + 1)
    BY <2>3, <2>4 DEF TotalDef
  <2> QED
    BY <2>5
<1> HIDE DEF T
<1>3. Nat \subseteq T
  BY <1>1, <1>2, NatSetInduction
<1> QED
  BY <1>3 DEF T

(* Total(s) is the last of the sums of the first entries of s. *)
LEMMA TotalLoop ==
  ASSUME NEW s \in Seq(Int)
  PROVE  \E f \in [0..Len(s) -> Int] :
           /\ Total(s) = f[Len(s)]
           /\ f[0] = 0
           /\ \A i \in 1..Len(s) : f[i] = f[i - 1] + s[i]
<1> DEFINE f == CHOOSE f : TotalDef(f, s, Len(s))
<1>1. Len(s) \in Nat
  OBVIOUS
<1>2. TotalDef(f, s, Len(s))
  BY <1>1, TotalExists
<1>3. Total(s) = f[Len(s)]
  BY DEF Total, TotalDef
<1> HIDE DEF f
<1>4. f[0] = 0 /\ DOMAIN f = 0..Len(s)
  BY <1>1, <1>2 DEF TotalDef
<1>5. \A i \in 1..Len(s) : f[i] = f[i - 1] + s[i]
  BY <1>1, <1>2, TotalStep
<1> DEFINE T == {i \in Nat : i <= Len(s) => f[i] \in Int}
<1>6. 0 \in T
  BY <1>4
<1>7. ASSUME NEW i \in Nat, i \in T PROVE i + 1 \in T
  <2> SUFFICES ASSUME i + 1 <= Len(s) PROVE f[i + 1] \in Int
    OBVIOUS
  <2>1. i + 1 \in 1..Len(s) /\ (i + 1) - 1 = i
    OBVIOUS
  <2>2. f[i] \in Int /\ s[i + 1] \in Int
    BY <1>7, <2>1
  <2> QED
    BY <1>5, <2>1, <2>2
<1> HIDE DEF T
<1>8. Nat \subseteq T
  BY <1>6, <1>7, NatSetInduction
<1>9. f = [i \in 0..Len(s) |-> f[i]]
  BY <1>1, <1>2 DEF TotalDef
<1>10. \A i \in 0..Len(s) : f[i] \in Int
  BY <1>8 DEF T
<1>11. f \in [0..Len(s) -> Int]
  BY <1>9, <1>10
<1> QED
  BY <1>3, <1>4, <1>5, <1>11

(* A sum of numbers is a number. *)
LEMMA TotalTyped ==
  ASSUME NEW s \in Seq(Int)
  PROVE  Total(s) \in Int
BY TotalLoop
=============================================================================
