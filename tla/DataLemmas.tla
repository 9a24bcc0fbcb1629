---------------------------- MODULE DataLemmas -----------------------------
(***************************************************************************)
(* Lemmas about data that several components need: queues, induction on    *)
(* the natural numbers, and loops.                                         *)
(*                                                                         *)
(* What the three operations of list.c that the kernel uses do to a queue  *)
(* without repetitions: list_add_tail is Append, list_del of the i-th      *)
(* element is RemoveAt, and list_del of list_first is Tail.                *)
(***************************************************************************)
EXTENDS Integers, Sequences, SequencesExt, SequenceTheorems,
        WellFoundedInduction, TLAPS

LEMMA ToSetIn ==
  ASSUME NEW S, NEW q \in Seq(S)
  PROVE  ToSet(q) \subseteq S /\ \A i \in DOMAIN q : q[i] \in ToSet(q)
BY LenProperties, ElementOfSeq DEF ToSet

(***************************************************************************)
(* list_add_tail of an element that is not in the queue keeps the queue    *)
(* free of repetitions and adds that element only.                         *)
(***************************************************************************)
LEMMA AppendQueue ==
  ASSUME NEW S, NEW q \in Seq(S), NEW e \in S
  PROVE  /\ Append(q, e) \in Seq(S)
         /\ Append(q, e) # <<>>
         /\ ToSet(Append(q, e)) = ToSet(q) \cup {e}
         /\ IsInjective(q) /\ e \notin ToSet(q) => IsInjective(Append(q, e))
<1> DEFINE a == Append(q, e)
<1>1. /\ a \in Seq(S)
      /\ Len(a) = Len(q) + 1
      /\ \A i \in 1 .. Len(q) : a[i] = q[i]
      /\ a[Len(q) + 1] = e
  BY AppendProperties
<1>2. DOMAIN q = 1 .. Len(q) /\ DOMAIN a = 1 .. Len(q) + 1 /\ Len(q) \in Nat
  BY <1>1, LenProperties
<1>3. DOMAIN a = DOMAIN q \cup {Len(q) + 1}
  BY <1>2
<1>4. ToSet(a) = ToSet(q) \cup {e}
  BY <1>1, <1>2, <1>3 DEF ToSet
<1>5. ASSUME IsInjective(q), e \notin ToSet(q)
      PROVE  IsInjective(a)
  BY <1>1, <1>2, <1>3, <1>5 DEF IsInjective, ToSet
<1>6. a # <<>>
  BY <1>1, <1>2, EmptySeq
<1> QED
  BY <1>1, <1>4, <1>5, <1>6

(***************************************************************************)
(* list_del of the i-th element removes that element only.                 *)
(***************************************************************************)
LEMMA RemoveAtElements ==
  ASSUME NEW S, NEW q \in Seq(S), NEW i \in DOMAIN q
  PROVE  /\ RemoveAt(q, i) \in Seq(S) /\ Len(RemoveAt(q, i)) = Len(q) - 1
         /\ \A j \in 1 .. Len(q) - 1 : RemoveAt(q, i)[j] = IF j < i THEN q[j] ELSE q[j + 1]
<1> DEFINE n == Len(q)
           b == SubSeq(q, 1, i - 1)
           c == SubSeq(q, i + 1, n)
           r == RemoveAt(q, i)
<1>1. n \in Nat /\ DOMAIN q = 1 .. n /\ i \in 1 .. n /\ \A j \in 1 .. n : q[j] \in S
  BY LenProperties, ElementOfSeq
<1>2. /\ b \in Seq(S) /\ Len(b) = i - 1
      /\ \A j \in 1 .. i - 1 : b[j] = q[j]
  <2>1. \A j \in 1 .. i - 1 : q[j] \in S
    BY <1>1
  <2> HIDE DEF n
  <2>2. i - 1 \in Int /\ 1 \in Int
    BY <1>1
  <2>3. /\ b \in Seq(S) /\ Len(b) = IF 1 <= i - 1 THEN (i - 1) - 1 + 1 ELSE 0
        /\ \A j \in 1 .. (i - 1) - 1 + 1 : b[j] = q[1 + j - 1]
    BY <2>1, <2>2, SubSeqProperties
  <2> QED
    BY <2>3, <1>1
<1>3. /\ c \in Seq(S) /\ Len(c) = n - i
      /\ \A j \in 1 .. n - i : c[j] = q[i + j]
  <2>1. \A j \in i + 1 .. n : q[j] \in S
    BY <1>1
  <2>2. i + 1 \in Int /\ n \in Int
    BY <1>1
  <2> HIDE DEF n
  <2>3. /\ c \in Seq(S) /\ Len(c) = IF i + 1 <= n THEN n - (i + 1) + 1 ELSE 0
        /\ \A j \in 1 .. n - (i + 1) + 1 : c[j] = q[(i + 1) + j - 1]
    BY <2>1, <2>2, SubSeqProperties
  <2> QED
    BY <2>3, <1>1
<1>4. r = b \o c
  BY DEF RemoveAt
<1> HIDE DEF b, c, r, n
<1>5. /\ r \in Seq(S) /\ Len(r) = n - 1
      /\ \A j \in 1 .. n - 1 : r[j] = IF j <= i - 1 THEN b[j] ELSE c[j - (i - 1)]
  <2>1. /\ r \in Seq(S) /\ Len(r) = Len(b) + Len(c)
        /\ \A j \in 1 .. Len(b) + Len(c) :
             r[j] = IF j <= Len(b) THEN b[j] ELSE c[j - Len(b)]
    BY <1>2, <1>3, <1>4, ConcatProperties
  <2>2. Len(b) + Len(c) = n - 1
    BY <1>1, <1>2, <1>3
  <2> QED
    BY <2>1, <2>2, <1>2
<1>6. \A j \in 1 .. n - 1 : r[j] = IF j < i THEN q[j] ELSE q[j + 1]
  <2> TAKE j \in 1 .. n - 1
  <2>1. CASE j < i
    <3>1. j <= i - 1 /\ j \in 1 .. i - 1
      BY <1>1, <2>1
    <3> QED
      BY <3>1, <1>2, <1>5, <2>1
  <2>2. CASE ~(j < i)
    <3>1. ~(j <= i - 1) /\ j - (i - 1) \in 1 .. n - i /\ i + (j - (i - 1)) = j + 1
      BY <1>1, <2>2
    <3> QED
      BY <3>1, <1>3, <1>5, <2>2
  <2> QED
    BY <2>1, <2>2
<1> QED
  BY <1>5, <1>6 DEF r, n

LEMMA RemoveAtQueue ==
  ASSUME NEW S, NEW q \in Seq(S), NEW i \in DOMAIN q, IsInjective(q)
  PROVE  /\ RemoveAt(q, i) \in Seq(S)
         /\ IsInjective(RemoveAt(q, i))
         /\ ToSet(RemoveAt(q, i)) = ToSet(q) \ {q[i]}
         /\ Len(RemoveAt(q, i)) = Len(q) - 1
<1> DEFINE n == Len(q)
           r == RemoveAt(q, i)
<1>1. n \in Nat /\ DOMAIN q = 1 .. n /\ i \in 1 .. n
  BY LenProperties
<1>2. r \in Seq(S) /\ Len(r) = n - 1
  BY RemoveAtElements
<1>3. \A j \in 1 .. n - 1 : r[j] = IF j < i THEN q[j] ELSE q[j + 1]
  BY RemoveAtElements
<1> HIDE DEF r, n
<1>4. DOMAIN r = 1 .. n - 1
  BY <1>2, LenProperties
<1>5. IsInjective(r)
  <2> SUFFICES ASSUME NEW j \in 1 .. n - 1, NEW k \in 1 .. n - 1, r[j] = r[k]
               PROVE  j = k
    BY <1>4 DEF IsInjective
  <2> DEFINE up(x) == IF x < i THEN x ELSE x + 1
  <2>1. up(j) \in 1 .. n /\ up(k) \in 1 .. n
    BY <1>1
  <2>2. q[up(j)] = q[up(k)]
    BY <1>3
  <2>3. up(j) = up(k)
    BY <2>1, <2>2, <1>1 DEF IsInjective
  <2> QED
    BY <2>3, <1>1
<1>6. ToSet(r) \subseteq ToSet(q) \ {q[i]}
  <2> SUFFICES ASSUME NEW j \in 1 .. n - 1
               PROVE  r[j] \in ToSet(q) /\ r[j] # q[i]
    BY <1>4 DEF ToSet
  <2> DEFINE k == IF j < i THEN j ELSE j + 1
  <2>1. k \in 1 .. n /\ k # i /\ r[j] = q[k]
    BY <1>1, <1>3
  <2> QED
    BY <2>1, <1>1 DEF IsInjective, ToSet
<1>7. ToSet(q) \ {q[i]} \subseteq ToSet(r)
  <2> SUFFICES ASSUME NEW k \in 1 .. n, k # i
               PROVE  q[k] \in ToSet(r)
    BY <1>1 DEF ToSet
  <2> DEFINE j == IF k < i THEN k ELSE k - 1
  <2>1. j \in 1 .. n - 1 /\ r[j] = q[k]
    BY <1>1, <1>3
  <2> QED
    BY <2>1, <1>4 DEF ToSet
<1> QED
  BY <1>2, <1>5, <1>6, <1>7 DEF r, n

(***************************************************************************)
(* list_first and list_del take the first element out of the queue.        *)
(***************************************************************************)
LEMMA TailQueue ==
  ASSUME NEW S, NEW q \in Seq(S), q # <<>>, IsInjective(q)
  PROVE  /\ Head(q) \in S
         /\ Head(q) \in ToSet(q)
         /\ Tail(q) \in Seq(S)
         /\ IsInjective(Tail(q))
         /\ ToSet(Tail(q)) = ToSet(q) \ {Head(q)}
<1>1. /\ Head(q) \in S /\ Tail(q) \in Seq(S) /\ Len(Tail(q)) = Len(q) - 1
      /\ \A i \in 1 .. Len(Tail(q)) : Tail(q)[i] = q[i + 1]
  BY HeadTailProperties
<1>2. /\ Len(q) \in Nat \ {0} /\ DOMAIN q = 1 .. Len(q)
      /\ DOMAIN Tail(q) = 1 .. Len(q) - 1
  BY <1>1, EmptySeq, LenProperties
<1>3. Head(q) = q[1]
  BY <1>2
<1>4. IsInjective(Tail(q))
  <2> SUFFICES ASSUME NEW j \in 1 .. Len(q) - 1, NEW k \in 1 .. Len(q) - 1,
                      Tail(q)[j] = Tail(q)[k]
               PROVE  j = k
    BY <1>2 DEF IsInjective
  <2>1. q[j + 1] = q[k + 1] /\ j + 1 \in 1 .. Len(q) /\ k + 1 \in 1 .. Len(q)
    BY <1>1, <1>2
  <2>2. j + 1 = k + 1
    BY <2>1, <1>2 DEF IsInjective
  <2> QED
    BY <2>2
<1>5. ToSet(Tail(q)) = ToSet(q) \ {Head(q)}
  <2>1. ASSUME NEW j \in 1 .. Len(q) - 1
        PROVE  Tail(q)[j] \in ToSet(q) /\ Tail(q)[j] # q[1]
    <3>1. Tail(q)[j] = q[j + 1] /\ j + 1 \in 1 .. Len(q) /\ 1 \in 1 .. Len(q)
          /\ j + 1 # 1
      BY <1>1, <1>2
    <3> QED
      BY <3>1, <1>2 DEF IsInjective, ToSet
  <2>2. ASSUME NEW k \in 1 .. Len(q), k # 1
        PROVE  q[k] \in ToSet(Tail(q))
    <3>1. k - 1 \in 1 .. Len(q) - 1 /\ Tail(q)[k - 1] = q[k]
      BY <1>1, <1>2, <2>2
    <3> QED
      BY <3>1, <1>2 DEF ToSet
  <2> QED
    BY <2>1, <2>2, <1>2, <1>3 DEF ToSet
<1>6. Head(q) \in ToSet(q)
  BY <1>2, <1>3 DEF ToSet
<1> QED
  BY <1>1, <1>4, <1>5, <1>6

(***************************************************************************)
(* A queue that takes over another one, with no element in common.         *)
(***************************************************************************)
LEMMA ConcatQueue ==
  ASSUME NEW S, NEW p \in Seq(S), NEW q \in Seq(S),
         IsInjective(p), IsInjective(q), ToSet(p) \cap ToSet(q) = {}
  PROVE  /\ p \o q \in Seq(S)
         /\ IsInjective(p \o q)
         /\ ToSet(p \o q) = ToSet(p) \cup ToSet(q)
<1> DEFINE r == p \o q
           m == Len(p)
           n == Len(q)
<1>1. /\ m \in Nat /\ n \in Nat /\ DOMAIN p = 1 .. m /\ DOMAIN q = 1 .. n
      /\ r \in Seq(S) /\ DOMAIN r = 1 .. m + n
      /\ \A i \in 1 .. m + n : r[i] = IF i <= m THEN p[i] ELSE q[i - m]
  BY LenProperties, ConcatProperties
<1> HIDE DEF r, m, n
<1>2. \A i \in 1 .. m : i \in 1 .. m + n /\ r[i] = p[i] /\ p[i] \in ToSet(p)
  <2>1. \A i \in 1 .. m : i \in 1 .. m + n /\ i <= m
    BY <1>1
  <2>2. \A i \in 1 .. m : p[i] \in ToSet(p)
    BY <1>1 DEF ToSet
  <2>3. \A i \in 1 .. m : r[i] = p[i]
    BY <1>1, <2>1
  <2> QED
    BY <2>1, <2>2, <2>3
<1>3. \A i \in 1 .. m + n : i \notin 1 .. m =>
        i - m \in 1 .. n /\ r[i] = q[i - m] /\ q[i - m] \in ToSet(q)
  BY <1>1 DEF ToSet
<1>4. IsInjective(r)
  <2> SUFFICES ASSUME NEW i \in 1 .. m + n, NEW j \in 1 .. m + n, r[i] = r[j]
               PROVE  i = j
    BY <1>1 DEF IsInjective
  <2>1. CASE i \in 1 .. m /\ j \in 1 .. m
    BY <2>1, <1>1, <1>2 DEF IsInjective
  <2>2. CASE i \notin 1 .. m /\ j \notin 1 .. m
    <3>1. i - m = j - m
      BY <2>2, <1>1, <1>3 DEF IsInjective
    <3> QED
      BY <3>1, <1>1
  <2>3. CASE ~(i \in 1 .. m <=> j \in 1 .. m)
    BY <2>3, <1>2, <1>3
  <2> QED
    BY <2>1, <2>2, <2>3
<1>5. ToSet(r) \subseteq ToSet(p) \cup ToSet(q)
  BY <1>1, <1>2, <1>3 DEF ToSet
<1>6. ToSet(p) \subseteq ToSet(r)
  BY <1>1, <1>2 DEF ToSet
<1>7. ToSet(q) \subseteq ToSet(r)
  <2> SUFFICES ASSUME NEW j \in 1 .. n PROVE q[j] \in ToSet(r)
    BY <1>1 DEF ToSet
  <2>1. j + m \in 1 .. m + n /\ j + m \notin 1 .. m /\ (j + m) - m = j
    BY <1>1
  <2>2. r[j + m] = q[j]
    BY <2>1, <1>3
  <2> QED
    BY <2>1, <2>2, <1>1 DEF ToSet
<1> QED
  BY <1>1, <1>4, <1>5, <1>6, <1>7 DEF r

\* One element more in front
LEMMA PutInFront ==
  ASSUME NEW S, NEW x \in S, NEW s \in Seq(S)
  PROVE  <<x>> \o s = [j \in 1 .. Len(s) + 1 |-> IF j = 1 THEN x ELSE s[j - 1]]
<1>1. <<x>> \in Seq(S) /\ Len(<<x>>) = 1 /\ <<x>>[1] = x
  OBVIOUS
<1>2. /\ <<x>> \o s \in Seq(S) /\ Len(<<x>> \o s) = 1 + Len(s)
      /\ \A i \in 1 .. 1 + Len(s) :
           (<<x>> \o s)[i] = IF i <= 1 THEN <<x>>[i] ELSE s[i - 1]
  BY <1>1, ConcatProperties
<1>3. Len(s) \in Nat /\ 1 + Len(s) = Len(s) + 1
  BY LenProperties
<1>4. <<x>> \o s = [j \in 1 .. Len(s) + 1 |-> (<<x>> \o s)[j]]
  BY <1>2, <1>3, LenProperties
<1>5. \A i \in 1 .. Len(s) + 1 : (i <= 1 <=> i = 1)
  OBVIOUS
<1> QED
  BY <1>1, <1>2, <1>3, <1>4, <1>5

-----------------------------------------------------------------------------
(***************************************************************************)
(* Induction on the natural numbers, stated of sets, which the provers can *)
(* instantiate: first a set's smallest element, then the principle itself. *)
(***************************************************************************)
LEMMA SmallestElement ==
  ASSUME NEW T, T \subseteq Nat, T # {}
  PROVE  \E x \in T : \A y \in T : x <= y
<1> DEFINE R == OpToRel(<, Nat)
<1>1. IsWellFoundedOn(R, Nat)
  BY NatLessThanWellFounded
<1>2. \A x, y \in Nat : y < x => <<y, x>> \in R
  BY DEF OpToRel
<1> HIDE DEF R
<1>3. PICK x \in T : \A y \in T : ~(<<y, x>> \in R)
  BY <1>1, WFMin
<1>4. ASSUME NEW y \in T PROVE x <= y
  <2>1. x \in Nat /\ y \in Nat /\ ~(y < x)
    BY <1>2, <1>3
  <2> QED
    BY <2>1
<1> QED
  BY <1>4

LEMMA InductionOnSet ==
  ASSUME NEW G, 0 \in G, \A n \in Nat : n \in G => n + 1 \in G
  PROVE  Nat \subseteq G
<1> DEFINE T == Nat \ G
<1> SUFFICES ASSUME T # {} PROVE FALSE
  OBVIOUS
<1>1. PICK x \in T : \A y \in T : x <= y
  BY SmallestElement
<1>2. x # 0 /\ x - 1 \in Nat /\ (x - 1) + 1 = x
  BY <1>1
<1>3. x - 1 \in G
  BY <1>1, <1>2
<1> QED
  BY <1>1, <1>2, <1>3

(***************************************************************************)
(* What a loop does to its state from pass to pass.  There is a sequence   *)
(* of states for any starting state and step function, and only one.       *)
(***************************************************************************)
(* two sequences that do not part *)
StayTogether(n, f, g) == \A i \in 1 .. n : f[i - 1] = g[i - 1] => f[i] = g[i]

LEMMA SameByInduction ==
  ASSUME NEW n \in Nat, NEW S, NEW f \in [0 .. n -> S], NEW g, 
         g = [i \in 0 .. n |-> g[i]], f[0] = g[0],
         StayTogether(n, f, g)
  PROVE  f = g
<1> DEFINE G == {m \in Nat : m <= n => f[m] = g[m]}
<1>1. 0 \in G
  OBVIOUS
<1>2. ASSUME NEW m \in Nat, m \in G PROVE m + 1 \in G
  <2>1. m + 1 <= n => m + 1 \in 1 .. n /\ (m + 1) - 1 = m /\ m <= n
    OBVIOUS
  <2> QED
    BY <1>2, <2>1 DEF StayTogether
<1> HIDE DEF G
<1>3. Nat \subseteq G
  BY <1>1, <1>2, InductionOnSet
<1>4. \A i \in 0 .. n : f[i] = g[i]
  BY <1>3 DEF G
<1> QED
  BY <1>4

(* the sequences of states that start at base and go on by step *)
Runs(n, S, base, step) ==
  {f \in [0 .. n -> S] :
     f[0] = base /\ \A i \in 1 .. n : f[i] = step[<<f[i - 1], i>>]}

LEMMA Recurrence ==
  ASSUME NEW n \in Nat, NEW S, NEW base \in S,
         NEW step \in [S \X (1 .. n) -> S]
  PROVE  Runs(n, S, base, step) # {}
<1> DEFINE G == {m \in Nat : m <= n => Runs(m, S, base, step) # {}}
<1>1. 0 \in G
  <2>1. [i \in 0 .. 0 |-> base] \in Runs(0, S, base, step)
    BY DEF Runs
  <2> QED
    BY <2>1
<1>2. ASSUME NEW m \in Nat, m \in G PROVE m + 1 \in G
  <2> SUFFICES ASSUME m + 1 <= n PROVE Runs(m + 1, S, base, step) # {}
    OBVIOUS
  <2>1. PICK f : f \in Runs(m, S, base, step)
    BY <1>2
  <2> DEFINE h == [i \in 0 .. m + 1 |-> IF i = m + 1 THEN step[<<f[m], m + 1>>] ELSE f[i]]
  <2>1a. /\ f \in [0 .. m -> S] /\ f[0] = base
         /\ \A i \in 1 .. m : f[i] = step[<<f[i - 1], i>>]
    BY <2>1 DEF Runs
  <2>2. f[m] \in S /\ step[<<f[m], m + 1>>] \in S
    BY <2>1a
  <2>3. h \in [0 .. m + 1 -> S]
    BY <2>1a, <2>2
  <2>4. ASSUME NEW i \in 1 .. m + 1 PROVE h[i] = step[<<h[i - 1], i>>]
    <3>1. CASE i = m + 1
      <4>1. i - 1 = m /\ h[m] = f[m] /\ h[m + 1] = step[<<f[m], m + 1>>]
        BY <3>1
      <4> QED
        BY <3>1, <4>1
    <3>2. CASE i # m + 1
      <4>1. i \in 1 .. m /\ i - 1 \in 0 .. m /\ i - 1 # m + 1
        BY <3>2
      <4>2. h[i] = f[i] /\ h[i - 1] = f[i - 1]
        BY <4>1
      <4> QED
        BY <2>1a, <4>1, <4>2
    <3> QED
      BY <3>1, <3>2
  <2>5. h[0] = base
    BY <2>1a
  <2> QED
    BY <2>3, <2>4, <2>5 DEF Runs
<1> HIDE DEF G
<1>3. n \in G
  BY <1>1, <1>2, InductionOnSet
<1> QED
  BY <1>3 DEF G

=============================================================================
