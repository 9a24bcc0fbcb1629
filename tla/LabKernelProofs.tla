-------------------------- MODULE LabKernelProofs --------------------------
(***************************************************************************)
(* The laboratory kernel of LabKernel, for any number of structs and any   *)
(* programs, until a node is linked into two lists (tangled): its type     *)
(* invariant, that no struct is lost or in two queues, that live processes *)
(* know their families, and that its pointers implement LabQueues.         *)
(*                                                                         *)
(* LabInv is inductive.  It names the lists: Holds says which sequences of *)
(* nodes are chained in the memory behind the heads of freequeue,          *)
(* readyqueue and children; Ledger, which no longer looks at pointers,     *)
(* says where each struct is by the fields of the structs.  Each operation *)
(* of list.c has lemmas on Holds, each call one on Ledger, and each action *)
(* one that puts the two together and gives the lists it leaves.  Of two   *)
(* rings nothing is said but where a few links lead.  The code takes no    *)
(* node out of blocked, whose tail HoldBlocked bounds.  And the loop of    *)
(* sys_exit leaves the orphans out of the list of idle: Loose says which   *)
(* heads their anchors point to, and HoldLooseGone that their own exit     *)
(* stores into no list of a live process.                                  *)
(***************************************************************************)
EXTENDS LabKernel, DataLemmas, FiniteSetTheorems

-----------------------------------------------------------------------------
(***************************************************************************)
(* Circular lists with a head: s are the nodes of the list behind head in  *)
(* the memory m, whose fields next and prev are functions on nodes.        *)
(***************************************************************************)
Link(s, head, i) == IF i \in 1 .. Len(s) THEN s[i] ELSE head

Chained(m, head, s) ==
  /\ IsInjective(s) /\ head \notin ToSet(s)
  /\ \A i \in 0 .. Len(s) : /\ m.next[Link(s, head, i)] = Link(s, head, i + 1)
                            /\ m.prev[Link(s, head, i + 1)] = Link(s, head, i)

LEMMA LinkFacts ==
  ASSUME NEW S, NEW s \in Seq(S), NEW head
  PROVE  /\ Len(s) \in Nat
         /\ \A i \in 1 .. Len(s) : Link(s, head, i) = s[i] /\ s[i] \in ToSet(s) /\ s[i] \in S
         /\ Link(s, head, 0) = head /\ Link(s, head, Len(s) + 1) = head
         /\ \A x \in ToSet(s) : \E i \in 1 .. Len(s) : x = s[i]
         /\ \A i : i \notin 1 .. Len(s) => Link(s, head, i) = head
         /\ \A i : Link(s, head, i) \in ToSet(s) \cup {head}
<1>1. Len(s) \in Nat /\ DOMAIN s = 1 .. Len(s) /\ \A i \in 1 .. Len(s) : s[i] \in S
  BY LenProperties, ElementOfSeq
<1>2. 0 \notin 1 .. Len(s) /\ Len(s) + 1 \notin 1 .. Len(s)
  BY <1>1
<1>3. \A i \in 1 .. Len(s) : s[i] \in ToSet(s)
  BY <1>1 DEF ToSet
<1>4. \A x \in ToSet(s) : \E i \in 1 .. Len(s) : x = s[i]
  BY <1>1 DEF ToSet
<1> QED
  BY <1>1, <1>2, <1>3, <1>4 DEF Link

\* The links of each node lead to nodes of the list and back.
LEMMA ChainFacts ==
  ASSUME NEW S, NEW s \in Seq(S), NEW head, NEW m, Chained(m, head, s)
  PROVE  \A x \in ToSet(s) \cup {head} :
           /\ m.next[x] \in ToSet(s) \cup {head} /\ m.prev[x] \in ToSet(s) \cup {head}
           /\ m.prev[m.next[x]] = x /\ m.next[m.prev[x]] = x
<1>1. Len(s) \in Nat
  BY LenProperties
<1>2. \A i \in 0 .. Len(s) : /\ m.next[Link(s, head, i)] = Link(s, head, i + 1)
                             /\ m.prev[Link(s, head, i + 1)] = Link(s, head, i)
  BY DEF Chained
<1>3. ASSUME NEW x \in ToSet(s) \cup {head}
      PROVE  /\ \E i \in 0 .. Len(s) : x = Link(s, head, i)
             /\ \E i \in 0 .. Len(s) : x = Link(s, head, i + 1)
  <2>1. CASE x = head
    <3>1. 0 \in 0 .. Len(s) /\ Len(s) \in 0 .. Len(s)
      BY <1>1
    <3>2. x = Link(s, head, 0) /\ x = Link(s, head, Len(s) + 1)
      BY <2>1, LinkFacts
    <3> QED
      BY <3>1, <3>2
  <2>2. CASE x \in ToSet(s)
    <3>0. PICK i \in 1 .. Len(s) : x = s[i]
      BY <2>2, LinkFacts
    <3>a. \A k \in 1 .. Len(s) : Link(s, head, k) = s[k]
      BY DEF Link
    <3>1. x = Link(s, head, i)
      BY <3>0, <3>a
    <3>2. i \in 0 .. Len(s) /\ i - 1 \in 0 .. Len(s) /\ (i - 1) + 1 = i
      BY <1>1
    <3> QED
      BY <3>1, <3>2
  <2> QED
    BY <2>1, <2>2
<1>4. \A i : Link(s, head, i) \in ToSet(s) \cup {head}
  BY LinkFacts
<1> SUFFICES ASSUME NEW x \in ToSet(s) \cup {head}
             PROVE  /\ m.next[x] \in ToSet(s) \cup {head} /\ m.prev[x] \in ToSet(s) \cup {head}
                    /\ m.prev[m.next[x]] = x /\ m.next[m.prev[x]] = x
  OBVIOUS
<1>5. PICK i \in 0 .. Len(s) : x = Link(s, head, i)
  BY <1>3
<1>6. PICK j \in 0 .. Len(s) : x = Link(s, head, j + 1)
  BY <1>3
<1>7. m.next[x] \in ToSet(s) \cup {head} /\ m.prev[m.next[x]] = x
  BY <1>2, <1>4, <1>5
<1>8. m.prev[x] \in ToSet(s) \cup {head} /\ m.next[m.prev[x]] = x
  BY <1>2, <1>4, <1>6
<1> QED
  BY <1>7, <1>8

LEMMA ChainEnds ==
  ASSUME NEW S, NEW s \in Seq(S), NEW head, NEW m, Chained(m, head, s)
  PROVE  /\ m.next[head] = head <=> s = <<>>
         /\ s # <<>> => /\ m.next[head] = s[1] /\ m.prev[head] = s[Len(s)]
                        /\ s[1] \in ToSet(s) /\ s[Len(s)] \in ToSet(s)
<1>1. Len(s) \in Nat /\ (s = <<>> <=> Len(s) = 0)
  BY LenProperties, EmptySeq
<1>2. /\ m.next[Link(s, head, 0)] = Link(s, head, 0 + 1)
      /\ m.prev[Link(s, head, Len(s) + 1)] = Link(s, head, Len(s))
      /\ head \notin ToSet(s)
  BY <1>1 DEF Chained
<1>3. m.next[head] = Link(s, head, 1) /\ m.prev[head] = Link(s, head, Len(s))
  BY <1>2, LinkFacts
<1>4. CASE s = <<>>
  <2>1. 1 \notin 1 .. Len(s)
    BY <1>1, <1>4
  <2>2. Link(s, head, 1) = head
    BY <2>1 DEF Link
  <2> QED
    BY <1>3, <1>4, <2>2
<1>5. CASE s # <<>>
  <2>1. 1 \in 1 .. Len(s) /\ Len(s) \in 1 .. Len(s)
    BY <1>1, <1>5
  <2> QED
    BY <1>2, <1>3, <1>5, <2>1, LinkFacts
<1> QED
  BY <1>4, <1>5

LEMMA ChainEmpty ==
  ASSUME NEW m, NEW head, m.next[head] = head, m.prev[head] = head
  PROVE  Chained(m, head, <<>>)
<1>1. Len(<<>>) = 0 /\ ToSet(<<>>) = {} /\ IsInjective(<<>>)
  BY EmptySeq DEF ToSet, IsInjective
<1>2. \A i : Link(<<>>, head, i) = head
  BY <1>1 DEF Link
<1> QED
  BY <1>1, <1>2 DEF Chained

\* Stores elsewhere
LEMMA ChainElsewhere ==
  ASSUME NEW S, NEW s \in Seq(S), NEW head, NEW m, Chained(m, head, s), NEW r,
         \A x \in ToSet(s) \cup {head} : r.next[x] = m.next[x] /\ r.prev[x] = m.prev[x]
  PROVE  Chained(r, head, s)
<1>1. \A i : Link(s, head, i) \in ToSet(s) \cup {head}
  BY LinkFacts
<1> QED
  BY <1>1 DEF Chained

\* list_add_tail
LEMMA ChainAppend ==
  ASSUME NEW S, NEW s \in Seq(S), NEW head, NEW m, Chained(m, head, s),
         NEW new \in S, new \notin ToSet(s) \cup {head}, NEW r,
         r.next[new] = head, r.prev[new] = m.prev[head],
         r.next[m.prev[head]] = new, r.prev[head] = new,
         \A x \in ToSet(s) \cup {head} : /\ x # m.prev[head] => r.next[x] = m.next[x]
                                         /\ x # head => r.prev[x] = m.prev[x]
  PROVE  Chained(r, head, Append(s, new))
<1> DEFINE p == Append(s, new)
           n == Len(s)
<1>1. n \in Nat /\ DOMAIN s = 1 .. n
  BY LenProperties
<1>2. /\ p \in Seq(S) /\ Len(p) = n + 1 /\ p[n + 1] = new
      /\ \A i \in 1 .. n : p[i] = s[i]
  BY AppendProperties
<1>3. IsInjective(p) /\ head \notin ToSet(p)
  <2>1. ToSet(p) = ToSet(s) \cup {new}
    BY AppendQueue
  <2>2. IsInjective(s) /\ head \notin ToSet(s)
    BY DEF Chained
  <2> QED
    BY <2>1, <2>2, AppendQueue
<1>4. \A i \in 0 .. n : /\ m.next[Link(s, head, i)] = Link(s, head, i + 1)
                        /\ m.prev[Link(s, head, i + 1)] = Link(s, head, i)
  BY DEF Chained
<1> HIDE DEF p, n
<1>5. /\ \A i \in 0 .. n : Link(p, head, i) = Link(s, head, i)
      /\ Link(p, head, n + 1) = new /\ Link(p, head, n + 2) = head
  BY <1>1, <1>2 DEF Link, n
<1>6. m.prev[head] = Link(s, head, n)
  BY <1>1, <1>4, LinkFacts DEF n
<1>7. \A i \in 0 .. n : /\ Link(s, head, i) \in ToSet(s) \cup {head}
                        /\ i # n => Link(s, head, i) # Link(s, head, n)
                        /\ i # 0 => Link(s, head, i) # head
  <2>1. \A i \in 1 .. n : Link(s, head, i) = s[i] /\ s[i] \in ToSet(s) /\ s[i] # head
    <3>1. \A i \in 1 .. n : Link(s, head, i) = s[i]
      BY DEF Link, n
    <3>2. \A i \in 1 .. n : s[i] \in ToSet(s)
      BY <1>1 DEF ToSet
    <3>3. head \notin ToSet(s)
      BY DEF Chained
    <3> QED
      BY <3>1, <3>2, <3>3
  <2>2. Link(s, head, 0) = head
    BY LinkFacts
  <2>3. \A i, j \in 1 .. n : s[i] = s[j] => i = j
    BY <1>1 DEF Chained, IsInjective
  <2> QED
    BY <2>1, <2>2, <2>3, <1>1
<1>8. ASSUME NEW i \in 0 .. n + 1
      PROVE  /\ r.next[Link(p, head, i)] = Link(p, head, i + 1)
             /\ r.prev[Link(p, head, i + 1)] = Link(p, head, i)
  <2>1. CASE i = n + 1
    <3>1. i + 1 = n + 2
      BY <2>1, <1>1
    <3> QED
      BY <2>1, <3>1, <1>5
  <2>2. CASE i = n
    <3>1. n \in 0 .. n
      BY <1>1
    <3> QED
      BY <2>2, <3>1, <1>5, <1>6
  <2>3. CASE i # n /\ i # n + 1
    <3>1. i \in 0 .. n /\ i + 1 \in 0 .. n /\ i + 1 # 0
      BY <2>3, <1>1
    <3>2. /\ m.next[Link(s, head, i)] = Link(s, head, i + 1)
          /\ m.prev[Link(s, head, i + 1)] = Link(s, head, i)
      BY <3>1, <1>4
    <3>3. r.next[Link(s, head, i)] = m.next[Link(s, head, i)]
      BY <3>1, <2>3, <1>6, <1>7
    <3>4. r.prev[Link(s, head, i + 1)] = m.prev[Link(s, head, i + 1)]
      BY <3>1, <1>7
    <3> QED
      BY <3>1, <3>2, <3>3, <3>4, <1>5
  <2> QED
    BY <2>1, <2>2, <2>3
<1> QED
  BY <1>2, <1>3, <1>8 DEF Chained, p

Push(x, s) == <<x>> \o s

LEMMA PushQueue ==
  ASSUME NEW S, NEW s \in Seq(S), NEW new \in S
  PROVE  Push(new, s) \in Seq(S) /\ ToSet(Push(new, s)) = ToSet(s) \cup {new}
<1> DEFINE p == <<new>> \o s
           n == Len(s)
<1>1. n \in Nat /\ DOMAIN s = 1 .. n
  BY LenProperties
<1>2. <<new>> \in Seq(S) /\ Len(<<new>>) = 1 /\ <<new>>[1] = new
  OBVIOUS
<1>3. /\ p \in Seq(S) /\ Len(p) = 1 + n
      /\ \A i \in 1 .. 1 + n : p[i] = IF i <= 1 THEN <<new>>[i] ELSE s[i - 1]
  BY <1>2, ConcatProperties
<1> HIDE DEF p, n
<1>4. DOMAIN p = 1 .. 1 + n
  BY <1>3, LenProperties
<1>5. p[1] = new /\ \A i \in 1 .. n : p[i + 1] = s[i]
  <2>1. \A i \in 1 .. n : i + 1 \in 1 .. 1 + n /\ ~(i + 1 <= 1) /\ (i + 1) - 1 = i
    BY <1>1
  <2>2. 1 \in 1 .. 1 + n
    BY <1>1
  <2> QED
    BY <1>2, <1>3, <2>1, <2>2
<1>6. ASSUME NEW x \in ToSet(p) PROVE x \in ToSet(s) \cup {new}
  <2>1. PICK i \in 1 .. 1 + n : x = p[i]
    BY <1>4 DEF ToSet
  <2>2. i = 1 \/ (i - 1 \in 1 .. n /\ (i - 1) + 1 = i)
    BY <1>1
  <2> QED
    BY <1>1, <1>5, <2>1, <2>2 DEF ToSet
<1>7. ASSUME NEW x \in ToSet(s) \cup {new} PROVE x \in ToSet(p)
  <2>1. \A i \in 1 .. n : i + 1 \in DOMAIN p
    BY <1>1, <1>4
  <2>2. 1 \in DOMAIN p
    BY <1>1, <1>4
  <2> QED
    BY <1>1, <1>5, <2>1, <2>2 DEF ToSet
<1> QED
  BY <1>3, <1>6, <1>7 DEF p, Push

\* list_add
LEMMA ChainPush ==
  ASSUME NEW S, NEW s \in Seq(S), NEW head, NEW m, Chained(m, head, s),
         NEW new \in S, new \notin ToSet(s) \cup {head}, NEW r,
         r.next[new] = m.next[head], r.prev[new] = head,
         r.next[head] = new, r.prev[m.next[head]] = new,
         \A x \in ToSet(s) \cup {head} : /\ x # head => r.next[x] = m.next[x]
                                         /\ x # m.next[head] => r.prev[x] = m.prev[x]
  PROVE  /\ Chained(r, head, Push(new, s)) /\ Push(new, s) \in Seq(S)
         /\ ToSet(Push(new, s)) = ToSet(s) \cup {new}
<1> DEFINE p == <<new>> \o s
           n == Len(s)
<1>1. n \in Nat /\ DOMAIN s = 1 .. n
  BY LenProperties
<1>2. /\ p \in Seq(S) /\ Len(p) = n + 1
      /\ \A i \in 1 .. n + 1 : p[i] = IF i = 1 THEN new ELSE s[i - 1]
  <2>1. <<new>> \in Seq(S) /\ Len(<<new>>) = 1 /\ <<new>>[1] = new
    OBVIOUS
  <2>2. /\ p \in Seq(S) /\ Len(p) = 1 + n
        /\ \A i \in 1 .. 1 + n : p[i] = IF i <= 1 THEN <<new>>[i] ELSE s[i - 1]
    BY <2>1, ConcatProperties
  <2>3. 1 + n = n + 1 /\ \A i \in 1 .. n + 1 : i <= 1 <=> i = 1
    BY <1>1
  <2> HIDE DEF p, n
  <2> QED
    BY <2>1, <2>2, <2>3
<1>3. /\ IsInjective(p) /\ head \notin ToSet(p) /\ ToSet(p) = ToSet(s) \cup {new}
  <2>1. /\ <<new>> \in Seq(S) /\ IsInjective(<<new>>) /\ ToSet(<<new>>) = {new}
    BY DEF IsInjective, ToSet
  <2>2. IsInjective(s) /\ head \notin ToSet(s)
    BY DEF Chained
  <2>3. ToSet(<<new>>) \cap ToSet(s) = {}
    BY <2>1
  <2>4. \A a \in Seq(S) :
          IsInjective(a) /\ ToSet(a) \cap ToSet(s) = {} =>
            IsInjective(a \o s) /\ ToSet(a \o s) = ToSet(a) \cup ToSet(s)
    BY <2>2, ConcatQueue
  <2>5. IsInjective(p) /\ ToSet(p) = ToSet(<<new>>) \cup ToSet(s)
    BY <2>1, <2>3, <2>4
  <2> QED
    BY <2>1, <2>2, <2>5
<1>4. \A i \in 0 .. n : /\ m.next[Link(s, head, i)] = Link(s, head, i + 1)
                        /\ m.prev[Link(s, head, i + 1)] = Link(s, head, i)
  BY DEF Chained
<1>a. /\ \A i \in 1 .. n : Link(s, head, i) = s[i] /\ s[i] \in ToSet(s)
      /\ Link(s, head, n + 1) = head /\ \A i : Link(s, head, i) \in ToSet(s) \cup {head}
  BY LinkFacts
<1> HIDE DEF p, n
<1>5. /\ \A i \in 2 .. n + 2 : Link(p, head, i) = Link(s, head, i - 1)
      /\ Link(p, head, 0) = head /\ Link(p, head, 1) = new
  <2>1. Link(p, head, 0) = head /\ Link(p, head, 1) = new
    BY <1>1, <1>2 DEF Link
  <2>2. ASSUME NEW i \in 2 .. n + 2 PROVE Link(p, head, i) = Link(s, head, i - 1)
    <3>1. CASE i = n + 2
      <4>1. i \notin 1 .. n + 1 /\ i - 1 \notin 1 .. n
        BY <3>1, <1>1
      <4> QED
        BY <4>1, <1>2 DEF Link, n
    <3>2. CASE i # n + 2
      <4>1. i \in 1 .. n + 1 /\ i - 1 \in 1 .. n /\ i # 1
        BY <3>2, <1>1
      <4> QED
        BY <4>1, <1>2 DEF Link, n
    <3> QED
      BY <3>1, <3>2
  <2> QED
    BY <2>1, <2>2
<1>6. m.next[head] = Link(s, head, 1)
  <2>1. 0 \in 0 .. n /\ 0 + 1 = 1
    BY <1>1
  <2> QED
    BY <2>1, <1>4, LinkFacts
<1>7. \A i \in 1 .. n + 1 : /\ Link(s, head, i) \in ToSet(s) \cup {head}
                            /\ i # 1 => Link(s, head, i) # Link(s, head, 1)
                            /\ i # n + 1 => Link(s, head, i) # head
  <2>1. \A i \in 1 .. n : Link(s, head, i) = s[i] /\ s[i] \in ToSet(s) /\ s[i] # head
    BY <1>a DEF Chained
  <2>2. Link(s, head, n + 1) = head
    BY <1>a
  <2>3. \A i, j \in 1 .. n : s[i] = s[j] => i = j
    BY <1>1 DEF Chained, IsInjective
  <2>4. \A i \in 1 .. n + 1 : i = n + 1 \/ i \in 1 .. n
    BY <1>1
  <2>5. 1 \in 1 .. n + 1
    BY <1>1
  <2>6. \A i \in 1 .. n + 1 : Link(s, head, i) \in ToSet(s) \cup {head}
    BY <1>a
  <2>7. \A i, j \in 1 .. n + 1 : Link(s, head, i) = Link(s, head, j) => i = j
    BY <2>1, <2>2, <2>3, <2>4
  <2> QED
    BY <2>1, <2>4, <2>5, <2>6, <2>7
<1>8. ASSUME NEW i \in 0 .. n + 1
      PROVE  /\ r.next[Link(p, head, i)] = Link(p, head, i + 1)
             /\ r.prev[Link(p, head, i + 1)] = Link(p, head, i)
  <2>1. CASE i = 0
    BY <2>1, <1>5
  <2>2. CASE i = 1
    <3>1. 2 \in 2 .. n + 2 /\ 2 - 1 = 1
      BY <1>1
    <3> QED
      BY <2>2, <3>1, <1>5, <1>6
  <2>3. CASE i # 0 /\ i # 1
    <3>1. /\ i \in 2 .. n + 2 /\ i + 1 \in 2 .. n + 2 /\ i - 1 \in 0 .. n /\ (i + 1) - 1 = i
          /\ (i - 1) + 1 = i /\ i - 1 \in 1 .. n + 1 /\ i - 1 # n + 1 /\ i \in 1 .. n + 1
      BY <2>3, <1>1
    <3>2. /\ m.next[Link(s, head, i - 1)] = Link(s, head, i)
          /\ m.prev[Link(s, head, i)] = Link(s, head, i - 1)
      BY <3>1, <1>4
    <3>3. r.next[Link(s, head, i - 1)] = m.next[Link(s, head, i - 1)]
      BY <3>1, <1>7
    <3>4. r.prev[Link(s, head, i)] = m.prev[Link(s, head, i)]
      BY <3>1, <2>3, <1>6, <1>7
    <3> QED
      BY <3>1, <3>2, <3>3, <3>4, <1>5
  <2> QED
    BY <2>1, <2>2, <2>3
<1> QED
  BY <1>2, <1>3, <1>8 DEF Chained, p, Push
\* list_del
LEMMA ChainRemove ==
  ASSUME NEW S, NEW s \in Seq(S), NEW head, NEW m, Chained(m, head, s),
         NEW k \in 1 .. Len(s), NEW r,
         r.next[m.prev[s[k]]] = m.next[s[k]], r.prev[m.next[s[k]]] = m.prev[s[k]],
         \A x \in (ToSet(s) \cup {head}) \ {s[k]} :
           /\ x # m.prev[s[k]] => r.next[x] = m.next[x]
           /\ x # m.next[s[k]] => r.prev[x] = m.prev[x]
  PROVE  Chained(r, head, RemoveAt(s, k))
<1> DEFINE p == RemoveAt(s, k)
           n == Len(s)
           L(i) == Link(s, head, i)
<1>1. n \in Nat /\ DOMAIN s = 1 .. n /\ k \in 1 .. n
  BY LenProperties
<1>2. /\ p \in Seq(S) /\ Len(p) = n - 1
      /\ \A j \in 1 .. n - 1 : p[j] = IF j < k THEN s[j] ELSE s[j + 1]
  BY RemoveAtElements
<1>3. IsInjective(p) /\ head \notin ToSet(p)
  <2>1. IsInjective(s) /\ head \notin ToSet(s)
    BY DEF Chained
  <2>2. IsInjective(p) /\ ToSet(p) = ToSet(s) \ {s[k]}
    BY <2>1, <1>1, RemoveAtQueue
  <2> QED
    BY <2>1, <2>2
<1>4. \A i \in 0 .. n : m.next[L(i)] = L(i + 1) /\ m.prev[L(i + 1)] = L(i)
  BY DEF Chained
<1>5. /\ \A i \in 1 .. n : L(i) = s[i] /\ s[i] \in ToSet(s)
      /\ L(0) = head /\ L(n + 1) = head /\ \A i : L(i) \in ToSet(s) \cup {head}
  <2>1. \A i \in 1 .. n : L(i) = s[i]
    BY DEF Link
  <2>2. \A i \in 1 .. n : s[i] \in ToSet(s)
    BY <1>1 DEF ToSet
  <2>3. L(0) = head /\ L(n + 1) = head
    BY <1>1 DEF Link
  <2>4. \A i : L(i) \in ToSet(s) \cup {head}
    BY <2>2 DEF Link
  <2> QED
    BY <2>1, <2>2, <2>3, <2>4
<1>6. head \notin ToSet(s) /\ \A i, j \in 1 .. n : s[i] = s[j] => i = j
  BY <1>1 DEF Chained, IsInjective
<1> HIDE DEF p, n
<1>7. /\ \A i \in 0 .. k - 1 : Link(p, head, i) = L(i)
      /\ \A i \in k .. n : Link(p, head, i) = L(i + 1)
  <2>1. ASSUME NEW i \in 0 .. k - 1 PROVE Link(p, head, i) = L(i)
    <3>1. CASE i = 0
      BY <3>1, <1>2, <1>5 DEF Link
    <3>2. CASE i # 0
      <4>1. i \in 1 .. n - 1 /\ i < k /\ i \in 1 .. n
        BY <3>2, <1>1
      <4> QED
        BY <4>1, <1>2, <1>5 DEF Link
    <3> QED
      BY <3>1, <3>2
  <2>2. ASSUME NEW i \in k .. n PROVE Link(p, head, i) = L(i + 1)
    <3>1. CASE i = n
      <4>1. i \notin 1 .. n - 1
        BY <3>1, <1>1
      <4> QED
        BY <4>1, <3>1, <1>2, <1>5 DEF Link
    <3>2. CASE i # n
      <4>1. i \in 1 .. n - 1 /\ ~(i < k) /\ i + 1 \in 1 .. n
        BY <3>2, <1>1
      <4> QED
        BY <4>1, <1>2, <1>5 DEF Link
    <3> QED
      BY <3>1, <3>2
  <2> QED
    BY <2>1, <2>2
<1>8. \A i, j \in 0 .. n : L(i) = L(j) => i = j
  <2>1. \A i \in 0 .. n : i = 0 \/ i \in 1 .. n
    BY <1>1
  <2> HIDE DEF L
  <2> QED
    BY <2>1, <1>5, <1>6
<1>9. \A i, j \in 1 .. n + 1 : L(i) = L(j) => i = j
  <2>1. \A i \in 1 .. n + 1 : i = n + 1 \/ i \in 1 .. n
    BY <1>1
  <2> HIDE DEF L
  <2> QED
    BY <2>1, <1>5, <1>6
<1>10. /\ m.prev[s[k]] = L(k - 1) /\ m.next[s[k]] = L(k + 1) /\ s[k] = L(k)
  <2>1. k \in 0 .. n /\ k - 1 \in 0 .. n /\ (k - 1) + 1 = k
    BY <1>1
  <2>2. m.prev[L(k)] = L(k - 1) /\ m.next[L(k)] = L(k + 1)
    BY <2>1, <1>4
  <2>3. s[k] = L(k)
    BY <1>1, <1>5
  <2> QED
    BY <2>2, <2>3
<1>11. /\ r.next[L(k - 1)] = L(k + 1) /\ r.prev[L(k + 1)] = L(k - 1)
       /\ \A i \in 0 .. n : i # k - 1 /\ i # k => r.next[L(i)] = L(i + 1)
       /\ \A i \in 0 .. n : i + 1 # k + 1 /\ i + 1 # k => r.prev[L(i + 1)] = L(i)
  <2>1. r.next[L(k - 1)] = L(k + 1) /\ r.prev[L(k + 1)] = L(k - 1)
    BY <1>10
  <2>2. ASSUME NEW i \in 0 .. n, i # k - 1, i # k PROVE r.next[L(i)] = L(i + 1)
    <3>1. k - 1 \in 0 .. n /\ k \in 0 .. n
      BY <1>1
    <3>2. L(i) # L(k - 1) /\ L(i) # L(k) /\ L(i) \in ToSet(s) \cup {head}
      BY <2>2, <3>1, <1>5, <1>8
    <3>3. m.next[L(i)] = L(i + 1)
      BY <1>4
    <3> HIDE DEF L
    <3> QED
      BY <3>2, <3>3, <1>10
  <2>3. ASSUME NEW i \in 0 .. n, i + 1 # k + 1, i + 1 # k PROVE r.prev[L(i + 1)] = L(i)
    <3>1. k + 1 \in 1 .. n + 1 /\ k \in 1 .. n + 1 /\ i + 1 \in 1 .. n + 1
      BY <1>1
    <3>2. L(i + 1) # L(k + 1) /\ L(i + 1) # L(k) /\ L(i + 1) \in ToSet(s) \cup {head}
      BY <2>3, <3>1, <1>5, <1>9
    <3>3. m.prev[L(i + 1)] = L(i)
      BY <1>4
    <3> HIDE DEF L
    <3> QED
      BY <3>2, <3>3, <1>10
  <2> QED
    BY <2>1, <2>2, <2>3
<1> HIDE DEF L
<1>12. ASSUME NEW i \in 0 .. n - 1
       PROVE  /\ r.next[Link(p, head, i)] = Link(p, head, i + 1)
              /\ r.prev[Link(p, head, i + 1)] = Link(p, head, i)
  <2>1. CASE i < k - 1
    <3>1. i \in 0 .. k - 1 /\ i + 1 \in 0 .. k - 1 /\ i \in 0 .. n /\ i # k - 1 /\ i # k
          /\ i + 1 # k + 1 /\ i + 1 # k
      BY <2>1, <1>1
    <3> QED
      BY <3>1, <1>7, <1>11
  <2>2. CASE i = k - 1
    <3>1. i \in 0 .. k - 1 /\ i + 1 \in k .. n /\ (i + 1) + 1 = k + 1
      BY <2>2, <1>1
    <3>2. Link(p, head, i) = L(k - 1) /\ Link(p, head, i + 1) = L(k + 1)
      BY <2>2, <3>1, <1>7
    <3> QED
      BY <3>2, <1>11
  <2>3. CASE i > k - 1
    <3>1. /\ i \in k .. n /\ i + 1 \in k .. n /\ i + 1 \in 0 .. n /\ i + 1 # k - 1 /\ i + 1 # k
          /\ (i + 1) + 1 # k + 1 /\ (i + 1) + 1 # k
      BY <2>3, <1>1
    <3>2. Link(p, head, i) = L(i + 1) /\ Link(p, head, i + 1) = L((i + 1) + 1)
      BY <3>1, <1>7
    <3>3. r.next[L(i + 1)] = L((i + 1) + 1) /\ r.prev[L((i + 1) + 1)] = L(i + 1)
      BY <3>1, <1>11
    <3> QED
      BY <3>2, <3>3
  <2> QED
    BY <2>1, <2>2, <2>3, <1>1
<1> QED
  BY <1>2, <1>3, <1>12 DEF Chained, p, n


(***************************************************************************)
(* A walk that follows next and stops at any address of stop, the head     *)
(* among them, meets the nodes of the list and then the head.              *)
(***************************************************************************)
LEMMA ChainPath ==
  ASSUME NEW S, NEW s \in Seq(S), NEW head \in S, NEW m, Chained(m, head, s),
         NEW C \in Nat, Len(s) <= C, NEW stop, head \in stop, ToSet(s) \cap stop = {},
         NEW g,
         \A left \in 0 .. C : \A x \in ToSet(s) \cup {head} :
           g[left][x] = IF x \in stop \/ left = 0 THEN <<x>>
                        ELSE <<x>> \o g[left - 1][m.next[x]]
  PROVE  g[C][m.next[head]] = Append(s, head)
<1> DEFINE n == Len(s)
           p == Append(s, head)
           rest(i) == [j \in 1 .. n + 2 - i |-> p[i + j - 1]]
<1>1. n \in Nat /\ DOMAIN s = 1 .. n /\ \A i \in 1 .. n : s[i] \in S /\ s[i] \in ToSet(s)
  BY LenProperties, ElementOfSeq DEF ToSet
<1>2. /\ p \in Seq(S) /\ Len(p) = n + 1 /\ p[n + 1] = head
      /\ \A i \in 1 .. n : p[i] = s[i]
  BY AppendProperties
<1>3. p = [j \in 1 .. n + 1 |-> p[j]]
  <2>1. p \in [1 .. n + 1 -> S]
    BY <1>2, LenProperties
  <2> QED
    BY <2>1
<1> HIDE DEF p, n
<1>4. \A i \in 1 .. n + 1 : p[i] \in S
  BY <1>2, ElementOfSeq
<1>5. rest(n + 1) = <<head>>
  <2>1. n + 2 - (n + 1) = 1
    BY <1>1
  <2>2. rest(n + 1) = [j \in 1 .. 1 |-> head]
    BY <2>1, <1>1, <1>2
  <2> QED
    BY <2>2
<1>6. ASSUME NEW i \in 1 .. n PROVE rest(i) = <<p[i]>> \o rest(i + 1)
  <2>1. n + 2 - (i + 1) \in Nat /\ n + 2 - (i + 1) + 1 = n + 2 - i
    BY <1>1
  <2>2. \A j \in 1 .. n + 2 - (i + 1) : p[i + 1 + j - 1] \in S
    BY <1>1, <1>4
  <2>3. rest(i + 1) \in Seq(S) /\ Len(rest(i + 1)) = n + 2 - (i + 1)
    BY <2>1, <2>2
  <2>4. p[i] \in S
    BY <1>1, <1>4
  <2>5. <<p[i]>> \o rest(i + 1)
          = [j \in 1 .. n + 2 - i |-> IF j = 1 THEN p[i] ELSE rest(i + 1)[j - 1]]
    <3> HIDE DEF rest
    <3> QED
      BY <2>1, <2>3, <2>4, PutInFront
  <2>6. \A j \in 1 .. n + 2 - i :
          p[i + j - 1] = IF j = 1 THEN p[i] ELSE rest(i + 1)[j - 1]
    <3> TAKE j \in 1 .. n + 2 - i
    <3>1. CASE j = 1
      BY <3>1, <1>1
    <3>2. CASE j # 1
      <4>1. j - 1 \in 1 .. n + 2 - (i + 1) /\ i + 1 + (j - 1) - 1 = i + j - 1
        BY <3>2, <1>1
      <4> QED
        BY <3>2, <4>1
    <3> QED
      BY <3>1, <3>2
  <2> DEFINE q == rest(i + 1)
  <2>7. \A j \in 1 .. n + 2 - i : p[i + j - 1] = IF j = 1 THEN p[i] ELSE q[j - 1]
    BY <2>6
  <2>8. <<p[i]>> \o q = [j \in 1 .. n + 2 - i |-> IF j = 1 THEN p[i] ELSE q[j - 1]]
    BY <2>5
  <2> HIDE DEF q
  <2>9. rest(i) = [j \in 1 .. n + 2 - i |-> IF j = 1 THEN p[i] ELSE q[j - 1]]
    BY <2>7
  <2> QED
    BY <2>8, <2>9 DEF q
<1>7. ASSUME NEW i \in 1 .. n
      PROVE  p[i] \in ToSet(s) /\ p[i] \notin stop /\ m.next[p[i]] = p[i + 1]
  <2>1. p[i] = s[i] /\ s[i] \in ToSet(s)
    BY <1>1, <1>2
  <2>2. i \in 0 .. n /\ i + 1 \in 1 .. n + 1
    BY <1>1
  <2>3. m.next[Link(s, head, i)] = Link(s, head, i + 1)
    BY <2>2 DEF Chained, n
  <2>4. Link(s, head, i) = p[i]
    BY <2>1 DEF Link, n
  <2>5. Link(s, head, i + 1) = p[i + 1]
    <3>1. CASE i = n
      <4>1. i + 1 \notin 1 .. n /\ i + 1 = n + 1
        BY <3>1, <1>1
      <4> QED
        BY <4>1, <1>2 DEF Link, n
    <3>2. CASE i # n
      <4>1. i + 1 \in 1 .. n
        BY <3>2, <1>1
      <4> QED
        BY <4>1, <1>2 DEF Link, n
    <3> QED
      BY <3>1, <3>2
  <2> QED
    BY <2>1, <2>3, <2>4, <2>5
<1> HIDE DEF rest
<1> DEFINE Good(left) == \A i \in 1 .. n + 1 :
                           n + 1 - i <= left => g[left][p[i]] = rest(i)
           G == {left \in Nat : left <= C => Good(left)}
<1>8. \A left \in 0 .. C : g[left][p[n + 1]] = rest(n + 1)
  BY <1>2, <1>5
<1>9. 0 \in G
  <2>1. \A i \in 1 .. n + 1 : n + 1 - i <= 0 => i = n + 1
    BY <1>1
  <2>2. 0 \in 0 .. C
    OBVIOUS
  <2> QED
    BY <2>1, <2>2, <1>8
<1>10. ASSUME NEW left \in Nat, left \in G PROVE left + 1 \in G
  <2> SUFFICES ASSUME left + 1 <= C, NEW i \in 1 .. n + 1, n + 1 - i <= left + 1
               PROVE  g[left + 1][p[i]] = rest(i)
    OBVIOUS
  <2>0. left + 1 \in 0 .. C /\ left + 1 # 0 /\ (left + 1) - 1 = left /\ left <= C
    OBVIOUS
  <2>1. CASE i = n + 1
    BY <2>0, <2>1, <1>8
  <2>2. CASE i # n + 1
    <3>1. i \in 1 .. n /\ i + 1 \in 1 .. n + 1 /\ n + 1 - (i + 1) <= left
      BY <2>2, <1>1
    <3>2. g[left][p[i + 1]] = rest(i + 1)
      BY <1>10, <2>0, <3>1
    <3>3. p[i] \in ToSet(s) /\ p[i] \notin stop /\ m.next[p[i]] = p[i + 1]
      BY <3>1, <1>7
    <3> DEFINE x == p[i]
               k == left + 1
    <3>4. x \in ToSet(s) \cup {head} /\ k \in 0 .. C /\ x \notin stop /\ k # 0
      BY <2>0, <3>3
    <3> HIDE DEF x, k
    <3>5. g[k][x] = <<x>> \o g[k - 1][m.next[x]]
      BY <3>4
    <3> QED
      BY <2>0, <3>1, <3>2, <3>3, <3>5, <1>6 DEF x, k
  <2> QED
    BY <2>1, <2>2
<1>11. Good(C)
  <2> HIDE DEF G
  <2>1. C \in G
    BY <1>9, <1>10, InductionOnSet
  <2> QED
    BY <2>1 DEF G
<1>12. m.next[head] = p[1]
  <2>1. 0 \in 0 .. n /\ 0 + 1 = 1
    BY <1>1
  <2>2. m.next[Link(s, head, 0)] = Link(s, head, 1)
    BY <2>1 DEF Chained, n
  <2>3. Link(s, head, 0) = head
    BY DEF Link
  <2>4. Link(s, head, 1) = p[1]
    <3>1. CASE n = 0
      <4>1. 1 \notin 1 .. n /\ n + 1 = 1
        BY <3>1
      <4> QED
        BY <4>1, <1>2 DEF Link, n
    <3>2. CASE n # 0
      <4>1. 1 \in 1 .. n
        BY <3>2, <1>1
      <4> QED
        BY <4>1, <1>2 DEF Link, n
    <3> QED
      BY <3>1, <3>2
  <2> QED
    BY <2>2, <2>3, <2>4
<1>13. g[C][p[1]] = rest(1)
  <2>1. 1 \in 1 .. n + 1 /\ n + 1 - 1 <= C
    BY <1>1 DEF n
  <2> QED
    BY <2>1, <1>11
<1>14. rest(1) = p
  <2>1. n + 2 - 1 = n + 1 /\ \A j \in 1 .. n + 1 : 1 + j - 1 = j
    BY <1>1
  <2> QED
    BY <2>1, <1>3 DEF rest
<1> QED
  BY <1>12, <1>13, <1>14 DEF p

-----------------------------------------------------------------------------
(* Nodes and stores *)

Heads == {freequeue, readyqueue, blocked}
ListNodes == {ListNode(t) : t \in Task}
Anchors == {Anchor(t) : t \in Task}

LEMMA LabNodes ==
  /\ \A t \in Task : ListNode(t) \in Memory /\ Anchor(t) \in Memory /\ Children(t) \in Memory
  /\ \A t : StructOf(ListNode(t)) = t /\ StructOf(Anchor(t)) = t /\ StructOf(Children(t)) = t
  /\ \A t, u : /\ ListNode(t) = ListNode(u) => t = u
               /\ Anchor(t) = Anchor(u) => t = u
               /\ Children(t) = Children(u) => t = u
  /\ \A t, u : ListNode(t) # Anchor(u) /\ ListNode(t) # Children(u) /\ Anchor(t) # Children(u)
  /\ \A t : \A h \in Heads \cup {Null, Wild} : ListNode(t) # h /\ Anchor(t) # h /\ Children(t) # h
<1>1. \A t \in Task : ListNode(t) \in Memory /\ Anchor(t) \in Memory /\ Children(t) \in Memory
  BY DEF ListNode, Anchor, Children, Memory, InStruct
<1>2. \A t : StructOf(ListNode(t)) = t /\ StructOf(Anchor(t)) = t /\ StructOf(Children(t)) = t
  BY DEF ListNode, Anchor, Children, StructOf
<1>3. \A t, u : /\ ListNode(t) = ListNode(u) => t = u
                /\ Anchor(t) = Anchor(u) => t = u
                /\ Children(t) = Children(u) => t = u
  BY DEF ListNode, Anchor, Children
<1>4. \A t, u : ListNode(t) # Anchor(u) /\ ListNode(t) # Children(u) /\ Anchor(t) # Children(u)
  BY DEF ListNode, Anchor, Children
<1>5. \A t : \A h \in Heads \cup {Null, Wild} : ListNode(t) # h /\ Anchor(t) # h /\ Children(t) # h
  BY DEF ListNode, Anchor, Children, Heads, freequeue, readyqueue, blocked, Null, Wild
<1> QED
  BY <1>1, <1>2, <1>3, <1>4, <1>5

LEMMA LabHeads ==
  /\ freequeue \in Memory /\ readyqueue \in Memory /\ blocked \in Memory /\ Null \in Memory
  /\ freequeue # readyqueue /\ freequeue # blocked /\ readyqueue # blocked
  /\ Null \notin Heads /\ Wild \notin Memory /\ Wild # Null /\ Memory \subseteq Address
<1>1. freequeue # readyqueue /\ freequeue # blocked /\ readyqueue # blocked
      /\ Null \notin Heads /\ Wild # Null
  BY DEF Heads, freequeue, readyqueue, blocked, Null, Wild
<1>2. Wild \notin Memory
  BY DEF Memory, InStruct, freequeue, readyqueue, blocked, Null, Wild
<1> QED
  BY <1>1, <1>2 DEF Memory, Address

\* Nodes are not address 0, nor do they hold it.
Node == Memory \ {Null}
LabMemory == [next : [Memory -> Address], prev : [Memory -> Address]]
NullSafe(m) == m.next[Null] = Wild /\ m.prev[Null] = Wild

LEMMA LabStoreInit ==
  ASSUME NEW m \in LabMemory, NullSafe(m), NEW list \in Node
  PROVE  LET r == INIT_LIST_HEAD(m, list) IN
           /\ r \in LabMemory /\ NullSafe(r)
           /\ r.next[list] = list /\ r.prev[list] = list
           /\ \A x \in Memory \ {list} : r.next[x] = m.next[x] /\ r.prev[x] = m.prev[x]
BY LabHeads DEF INIT_LIST_HEAD, LabMemory, NullSafe, Node

LEMMA LabStoreTail ==
  ASSUME NEW m \in LabMemory, NullSafe(m), NEW new \in Node, NEW head \in Node, new # head,
         m.prev[head] \in Node
  PROVE  LET r == list_add_tail(m, new, head) IN
           /\ r \in LabMemory /\ NullSafe(r)
           /\ r.next[m.prev[head]] = new /\ r.prev[head] = new /\ r.prev[new] = m.prev[head]
           /\ m.prev[head] # new => r.next[new] = head
           /\ \A x \in Memory \ {new, m.prev[head]} : r.next[x] = m.next[x]
           /\ \A x \in Memory \ {new, head} : r.prev[x] = m.prev[x]
BY LabHeads DEF list_add_tail, __list_add, LabMemory, NullSafe, Node

LEMMA LabStoreFront ==
  ASSUME NEW m \in LabMemory, NullSafe(m), NEW new \in Node, NEW head \in Node, new # head,
         m.next[head] \in Node, m.next[head] # new
  PROVE  LET r == list_add(m, new, head) IN
           /\ r \in LabMemory /\ NullSafe(r)
           /\ r.next[new] = m.next[head] /\ r.prev[new] = head
           /\ r.next[head] = new /\ r.prev[m.next[head]] = new
           /\ \A x \in Memory \ {new, head} : r.next[x] = m.next[x]
           /\ \A x \in Memory \ {new, m.next[head]} : r.prev[x] = m.prev[x]
BY LabHeads DEF list_add, __list_add, LabMemory, NullSafe, Node

LEMMA LabStoreDel ==
  ASSUME NEW m \in LabMemory, NullSafe(m), NEW entry \in Node,
         m.next[entry] \in Node \ {entry}, m.prev[entry] \in Node \ {entry}
  PROVE  LET r == list_del(m, entry) IN
           /\ r \in LabMemory /\ NullSafe(r)
           /\ r.next[m.prev[entry]] = m.next[entry] /\ r.prev[m.next[entry]] = m.prev[entry]
           /\ \A x \in Memory \ {entry, m.prev[entry]} : r.next[x] = m.next[x]
           /\ \A x \in Memory \ {entry, m.next[entry]} : r.prev[x] = m.prev[x]
BY LabHeads DEF list_del, LabMemory, NullSafe, Node

-----------------------------------------------------------------------------
(* The lists *)

Same(m, r, X) == \A x \in Memory \ X : r.next[x] = m.next[x] /\ r.prev[x] = m.prev[x]

LEMMA ListAppended ==
  ASSUME NEW m \in LabMemory, NullSafe(m), NEW head \in Node, NEW s \in Seq(Node),
         Chained(m, head, s), NEW new \in Node, new \notin ToSet(s) \cup {head}
  PROVE  LET r == list_add_tail(m, new, head) IN
           /\ r \in LabMemory /\ NullSafe(r) /\ Chained(r, head, Append(s, new))
           /\ Same(m, r, ToSet(s) \cup {head, new})
<1> DEFINE r == list_add_tail(m, new, head)
<1>1. m.prev[head] \in ToSet(s) \cup {head} /\ ToSet(s) \subseteq Node
  BY ChainFacts, ToSetIn
<1>2. m.prev[head] \in Node /\ m.prev[head] # new /\ new # head
  BY <1>1
<1>3. /\ r \in LabMemory /\ NullSafe(r)
      /\ r.next[m.prev[head]] = new /\ r.prev[head] = new /\ r.prev[new] = m.prev[head]
      /\ r.next[new] = head
      /\ \A x \in Memory \ {new, m.prev[head]} : r.next[x] = m.next[x]
      /\ \A x \in Memory \ {new, head} : r.prev[x] = m.prev[x]
  BY <1>2, LabStoreTail
<1> HIDE DEF r
<1>4. \A x \in ToSet(s) \cup {head} : /\ x # m.prev[head] => r.next[x] = m.next[x]
                                      /\ x # head => r.prev[x] = m.prev[x]
  BY <1>1, <1>3 DEF Node
<1>5. Chained(r, head, Append(s, new))
  BY <1>3, <1>4, ChainAppend
<1>6. Same(m, r, ToSet(s) \cup {head, new})
  BY <1>1, <1>3 DEF Same
<1> QED
  BY <1>3, <1>5, <1>6 DEF r

LEMMA ListPushed ==
  ASSUME NEW m \in LabMemory, NullSafe(m), NEW head \in Node, NEW s \in Seq(Node),
         Chained(m, head, s), NEW new \in Node, new \notin ToSet(s) \cup {head}
  PROVE  LET r == list_add(m, new, head) IN
           /\ r \in LabMemory /\ NullSafe(r) /\ Chained(r, head, Push(new, s))
           /\ Same(m, r, ToSet(s) \cup {head, new})
<1> DEFINE r == list_add(m, new, head)
<1>1. m.next[head] \in ToSet(s) \cup {head} /\ ToSet(s) \subseteq Node
  BY ChainFacts, ToSetIn
<1>2. m.next[head] \in Node /\ m.next[head] # new /\ new # head
  BY <1>1
<1>3. /\ r \in LabMemory /\ NullSafe(r)
      /\ r.next[new] = m.next[head] /\ r.prev[new] = head
      /\ r.next[head] = new /\ r.prev[m.next[head]] = new
      /\ \A x \in Memory \ {new, head} : r.next[x] = m.next[x]
      /\ \A x \in Memory \ {new, m.next[head]} : r.prev[x] = m.prev[x]
  BY <1>2, LabStoreFront
<1> HIDE DEF r
<1>4. \A x \in ToSet(s) \cup {head} : /\ x # head => r.next[x] = m.next[x]
                                      /\ x # m.next[head] => r.prev[x] = m.prev[x]
  BY <1>1, <1>3 DEF Node
<1>5. Chained(r, head, Push(new, s))
  BY <1>3, <1>4, ChainPush
<1>6. Same(m, r, ToSet(s) \cup {head, new})
  BY <1>1, <1>3 DEF Same
<1> QED
  BY <1>3, <1>5, <1>6 DEF r

LEMMA ListRemoved ==
  ASSUME NEW m \in LabMemory, NullSafe(m), NEW head \in Node, NEW s \in Seq(Node),
         Chained(m, head, s), NEW k \in 1 .. Len(s)
  PROVE  LET r == list_del(m, s[k]) IN
           /\ r \in LabMemory /\ NullSafe(r) /\ Chained(r, head, RemoveAt(s, k))
           /\ Same(m, r, ToSet(s) \cup {head})
<1> DEFINE e == s[k]
           r == list_del(m, e)
<1>1. ToSet(s) \subseteq Node /\ e \in ToSet(s) /\ e \in Node
  <2>1. k \in DOMAIN s
    BY LenProperties
  <2> QED
    BY <2>1, ToSetIn
<1>2. /\ m.next[e] \in ToSet(s) \cup {head} /\ m.prev[e] \in ToSet(s) \cup {head}
      /\ head \notin ToSet(s)
  BY <1>1, ChainFacts DEF Chained
<1>3. m.next[e] # e /\ m.prev[e] # e
  <2>1. /\ k \in 0 .. Len(s) /\ k - 1 \in 0 .. Len(s) /\ (k - 1) + 1 = k /\ Len(s) \in Nat
    BY LenProperties
  <2>2. m.next[Link(s, head, k)] = Link(s, head, k + 1) /\ Link(s, head, k) = e
    BY <2>1 DEF Chained, Link
  <2>3. m.prev[Link(s, head, k)] = Link(s, head, k - 1)
    BY <2>1 DEF Chained
  <2>4. \A i \in 1 .. Len(s) : i # k => s[i] # e
    BY LenProperties DEF Chained, IsInjective
  <2>5. Link(s, head, k + 1) # e
    BY <2>1, <2>4, <1>1, <1>2 DEF Link
  <2>6. Link(s, head, k - 1) # e
    BY <2>1, <2>4, <1>1, <1>2 DEF Link
  <2> QED
    BY <2>2, <2>3, <2>5, <2>6
<1> HIDE DEF e
<1>4. m.next[e] \in Node \ {e} /\ m.prev[e] \in Node \ {e}
  BY <1>1, <1>2, <1>3
<1>5. /\ r \in LabMemory /\ NullSafe(r)
      /\ r.next[m.prev[e]] = m.next[e] /\ r.prev[m.next[e]] = m.prev[e]
      /\ \A x \in Memory \ {e, m.prev[e]} : r.next[x] = m.next[x]
      /\ \A x \in Memory \ {e, m.next[e]} : r.prev[x] = m.prev[x]
  BY <1>1, <1>4, LabStoreDel
<1> HIDE DEF r
<1>6. \A x \in (ToSet(s) \cup {head}) \ {e} :
        /\ x # m.prev[e] => r.next[x] = m.next[x]
        /\ x # m.next[e] => r.prev[x] = m.prev[x]
  BY <1>1, <1>5 DEF Node
<1>7. Chained(r, head, RemoveAt(s, k))
  BY <1>5, <1>6, ChainRemove DEF e
<1>8. Same(m, r, ToSet(s) \cup {head})
  BY <1>1, <1>2, <1>5 DEF Same
<1> QED
  BY <1>5, <1>7, <1>8 DEF r, e

\* What list_for_each visits
LabWalk(g, m, head) ==
  g = [left \in 0 .. Cardinality(Address) |->
        [node \in Address |->
           IF node \in {head, Null, Wild} \/ left = 0 THEN <<node>>
           ELSE <<node>> \o g[left - 1][m.next[node]]]]

LEMMA LabAddresses == IsFiniteSet(Address)
<1>1. IsFiniteSet(Task)
  BY LabAssumption, FS_Interval DEF Task
<1>2. IsFiniteSet({"list", "proc_anchor", "children"})
  <2>1. IsFiniteSet({} \cup {"list"})
    BY FS_EmptySet, FS_AddElement
  <2>2. IsFiniteSet(({} \cup {"list"}) \cup {"proc_anchor"})
    BY <2>1, FS_AddElement
  <2>3. IsFiniteSet((({} \cup {"list"}) \cup {"proc_anchor"}) \cup {"children"})
    BY <2>2, FS_AddElement
  <2>4. (({} \cup {"list"}) \cup {"proc_anchor"}) \cup {"children"}
          = {"list", "proc_anchor", "children"}
    OBVIOUS
  <2> QED
    BY <2>3, <2>4
<1>3. IsFiniteSet(InStruct)
  BY <1>1, <1>2, FS_Product DEF InStruct
<1>4. IsFiniteSet(InStruct \cup {freequeue})
  BY <1>3, FS_AddElement
<1>5. IsFiniteSet((InStruct \cup {freequeue}) \cup {readyqueue})
  BY <1>4, FS_AddElement
<1>6. IsFiniteSet(((InStruct \cup {freequeue}) \cup {readyqueue}) \cup {blocked})
  BY <1>5, FS_AddElement
<1>7. IsFiniteSet((((InStruct \cup {freequeue}) \cup {readyqueue}) \cup {blocked}) \cup {Null})
  BY <1>6, FS_AddElement
<1>8. IsFiniteSet(((((InStruct \cup {freequeue}) \cup {readyqueue}) \cup {blocked}) \cup {Null})
                    \cup {Wild})
  BY <1>7, FS_AddElement
<1>9. Address = ((((InStruct \cup {freequeue}) \cup {readyqueue}) \cup {blocked}) \cup {Null})
                  \cup {Wild}
  BY DEF Address, Memory
<1> QED
  BY <1>8, <1>9

LEMMA LabWalkExists ==
  ASSUME NEW m \in LabMemory, NEW head \in Node
  PROVE  \E g : LabWalk(g, m, head)
<1> DEFINE S == [Address -> Seq(Address)]
           base == [node \in Address |-> <<node>>]
           on(f) == [node \in Address |->
                       IF node \in {head, Null, Wild} THEN <<node>>
                       ELSE <<node>> \o f[m.next[node]]]
           step == [p \in S \X (1 .. Cardinality(Address)) |-> on(p[1])]
<1>0. PICK n \in Nat : n = Cardinality(Address)
  BY LabAddresses, FS_CardinalityType
<1>1. base \in S
  OBVIOUS
<1>2. ASSUME NEW f \in S PROVE on(f) \in S
  <2>1. ASSUME NEW node \in Address, node \notin {head, Null, Wild}
        PROVE  <<node>> \o f[m.next[node]] \in Seq(Address)
    <3>1. node \in Memory
      BY <2>1 DEF Address
    <3>2. m.next[node] \in Address
      BY <3>1 DEF LabMemory
    <3>3. <<node>> \in Seq(Address) /\ f[m.next[node]] \in Seq(Address)
      BY <3>2
    <3> QED
      BY <3>3, ConcatProperties
  <2>2. \A node \in Address : <<node>> \in Seq(Address)
    OBVIOUS
  <2> QED
    BY <2>1, <2>2
<1>3. step \in [S \X (1 .. n) -> S]
  <2> HIDE DEF S, on
  <2> QED
    BY <1>0, <1>2
<1>4. PICK f \in Runs(n, S, base, step) : TRUE
  <2> HIDE DEF step, S, base
  <2> QED
    BY <1>1, <1>3, Recurrence
<1>5. /\ f \in [0 .. n -> S] /\ f[0] = base
      /\ \A i \in 1 .. n : f[i] = step[<<f[i - 1], i>>]
  BY DEF Runs
<1>6. ASSUME NEW i \in 1 .. n PROVE f[i] = on(f[i - 1])
  <2>1. f[i - 1] \in S
    BY <1>5
  <2> HIDE DEF S, on
  <2>2. <<f[i - 1], i>> \in S \X (1 .. Cardinality(Address))
    BY <1>0, <2>1
  <2>3. step[<<f[i - 1], i>>] = on(<<f[i - 1], i>>[1])
    BY <2>2
  <2> QED
    BY <1>5, <2>3
<1>7. f = [left \in 0 .. n |->
        [node \in Address |->
           IF node \in {head, Null, Wild} \/ left = 0 THEN <<node>>
           ELSE <<node>> \o f[left - 1][m.next[node]]]]
  <2>1. \A left \in 0 .. n : f[left] =
        [node \in Address |->
           IF node \in {head, Null, Wild} \/ left = 0 THEN <<node>>
           ELSE <<node>> \o f[left - 1][m.next[node]]]
    <3> TAKE left \in 0 .. n
    <3>1. CASE left = 0
      BY <3>1, <1>5
    <3>2. CASE left # 0
      <4>1. left \in 1 .. n
        BY <3>2
      <4> QED
        BY <4>1, <3>2, <1>6
    <3> QED
      BY <3>1, <3>2
  <2>2. f = [left \in 0 .. n |-> f[left]]
    BY <1>5
  <2> QED
    BY <2>1, <2>2
<1> QED
  BY <1>0, <1>7 DEF LabWalk

LEMMA ListWalked ==
  ASSUME NEW m \in LabMemory, NEW head \in Node, NEW s \in Seq(Node), Chained(m, head, s)
  PROVE  /\ Path(m, head) = Append(s, head)
         /\ Entries(m, head) = s /\ Returns(m, head)
<1> DEFINE C == Cardinality(Address)
           g == CHOOSE g : LabWalk(g, m, head)
           stop == {head, Null, Wild}
           p == Append(s, head)
<1>1. Path(m, head) = g[C][m.next[head]]
  BY DEF Path, LabWalk
<1>2. LabWalk(g, m, head)
  <2>1. \E f : LabWalk(f, m, head)
    BY LabWalkExists
  <2> QED
    BY <2>1
<1>3. C \in Nat
  BY LabAddresses, FS_CardinalityType
<1>4. ToSet(s) \subseteq Node /\ head \notin ToSet(s) /\ Len(s) \in Nat /\ DOMAIN s = 1 .. Len(s)
  BY ToSetIn, LenProperties DEF Chained
<1>5. Len(s) <= C
  <2>1. s \in [1 .. Len(s) -> Address]
    <3>1. s \in [1 .. Len(s) -> Node]
      BY LenProperties
    <3> QED
      BY <3>1, LabHeads DEF Node
  <2>2. s \in Injection(1 .. Len(s), Address)
    BY <2>1 DEF Injection, IsInjective, Chained
  <2>3. Cardinality(1 .. Len(s)) <= C
    BY <2>2, LabAddresses, FS_Injection
  <2>4. Cardinality(1 .. Len(s)) = Len(s)
    BY <1>4, FS_Interval
  <2> QED
    BY <2>3, <2>4
<1> HIDE DEF g, C
<1>6. \A left \in 0 .. C : \A node \in ToSet(s) \cup {head} :
        g[left][node] = IF node \in stop \/ left = 0 THEN <<node>>
                        ELSE <<node>> \o g[left - 1][m.next[node]]
  <2>1. \A left \in 0 .. C :
          g[left] = [node \in Address |->
                    IF node \in {head, Null, Wild} \/ left = 0 THEN <<node>>
                    ELSE <<node>> \o g[left - 1][m.next[node]]]
    BY <1>2 DEF LabWalk, C
  <2>2. \A node \in ToSet(s) \cup {head} : node \in Address
    BY <1>4, LabHeads DEF Node
  <2> QED
    BY <2>1, <2>2
<1>7. head \in stop /\ ToSet(s) \cap stop = {}
  BY <1>4, LabHeads DEF Node
<1> HIDE DEF stop
<1>8. g[C][m.next[head]] = p
  BY <1>3, <1>5, <1>6, <1>7, ChainPath
<1>9. /\ p \in Seq(Node) /\ Len(p) = Len(s) + 1 /\ p[Len(s) + 1] = head
      /\ \A i \in 1 .. Len(s) : p[i] = s[i]
  BY AppendProperties
<1>10. SubSeq(p, 1, Len(p) - 1) = s
  <2> DEFINE n == Len(s)
             q == SubSeq(p, 1, n)
  <2>1. n \in Nat /\ Len(p) - 1 = n
    BY <1>4, <1>9
  <2>2. \A i \in 1 .. n : p[i] \in Node
    BY <1>9, ElementOfSeq, <2>1
  <2> HIDE DEF n, p
  <2>3. /\ q \in Seq(Node) /\ Len(q) = IF 1 <= n THEN n - 1 + 1 ELSE 0
        /\ \A i \in 1 .. n - 1 + 1 : q[i] = p[1 + i - 1]
    BY <2>1, <2>2, SubSeqProperties
  <2>4. Len(q) = n /\ \A i \in 1 .. n : q[i] = s[i]
    BY <2>1, <2>3, <1>9 DEF n
  <2>5. q = s
    BY <2>3, <2>4, SeqEqual DEF n
  <2> QED
    BY <2>1, <2>5
<1>11. Entries(m, head) = s
  BY <1>1, <1>8, <1>10 DEF Entries
<1>12. Returns(m, head)
  BY <1>1, <1>8, <1>9 DEF Returns
<1> QED
  BY <1>1, <1>8, <1>11, <1>12

-----------------------------------------------------------------------------
(* The memory holds the queues f and r, and the children K of the structs L *)

Holds(m, f, r, K, L) ==
  /\ m \in LabMemory /\ NullSafe(m)
  /\ f \in Seq(ListNodes) /\ r \in Seq(ListNodes) /\ ToSet(f) \cap ToSet(r) = {}
  /\ Chained(m, freequeue, f) /\ Chained(m, readyqueue, r)
  /\ L \subseteq Task /\ K \in [Task -> Seq(Anchors)]
  /\ \A t \in L : Chained(m, Children(t), K[t])
  /\ \A t, u \in L : t # u => ToSet(K[t]) \cap ToSet(K[u]) = {}
  /\ m.prev[blocked] \in ListNodes \cup {blocked}

LEMMA NodeSets ==
  /\ ListNodes \subseteq Node /\ Anchors \subseteq Node /\ Heads \subseteq Node
  /\ \A t \in Task : Children(t) \in Node
  /\ ListNodes \cap Anchors = {} /\ ListNodes \cap Heads = {} /\ Anchors \cap Heads = {}
  /\ \A t : Children(t) \notin ListNodes \cup Anchors \cup Heads
<1>1. ListNodes \subseteq Node /\ Anchors \subseteq Node /\ \A t \in Task : Children(t) \in Node
  BY LabNodes DEF ListNodes, Anchors, Node
<1>2. Heads \subseteq Node
  BY LabHeads DEF Heads, Node
<1>3. ListNodes \cap Anchors = {} /\ ListNodes \cap Heads = {} /\ Anchors \cap Heads = {}
  BY LabNodes DEF ListNodes, Anchors
<1>4. \A t : Children(t) \notin ListNodes \cup Anchors \cup Heads
  BY LabNodes DEF ListNodes, Anchors
<1> QED
  BY <1>1, <1>2, <1>3, <1>4

LEMMA HoldFacts ==
  ASSUME NEW m, NEW f, NEW r, NEW K, NEW L, Holds(m, f, r, K, L)
  PROVE  /\ f \in Seq(Node) /\ ToSet(f) \subseteq ListNodes
         /\ r \in Seq(Node) /\ ToSet(r) \subseteq ListNodes
         /\ \A t \in Task : K[t] \in Seq(Node) /\ ToSet(K[t]) \subseteq Anchors
<1>1. ListNodes \subseteq Node /\ Anchors \subseteq Node
  BY NodeSets
<1>2. f \in Seq(ListNodes) /\ r \in Seq(ListNodes) /\ \A t \in Task : K[t] \in Seq(Anchors)
  BY DEF Holds
<1>3. \A s \in Seq(ListNodes) : s \in Seq(Node) /\ ToSet(s) \subseteq ListNodes
  BY <1>1, ToSetIn
<1>4. \A s \in Seq(Anchors) : s \in Seq(Node) /\ ToSet(s) \subseteq Anchors
  BY <1>1, ToSetIn
<1> QED
  BY <1>2, <1>3, <1>4

\* The links of the anchors, which say where the processes without a parent are
SameAnchors(m, n) == \A x \in Anchors : n.next[x] = m.next[x] /\ n.prev[x] = m.prev[x]

LEMMA ListApart ==
  ASSUME NEW m, NEW r, NEW head \in Node, NEW s \in Seq(Node), Chained(m, head, s),
         NEW X, Same(m, r, X), head \notin X, ToSet(s) \cap X = {}
  PROVE  Chained(r, head, s)
<1>1. ToSet(s) \subseteq Node
  BY ToSetIn
<1>2. \A x \in ToSet(s) \cup {head} : r.next[x] = m.next[x] /\ r.prev[x] = m.prev[x]
  BY <1>1 DEF Same, Node
<1> QED
  BY <1>2, ChainElsewhere

\* Stores into nodes that are in none of the lists
LEMMA HoldElsewhere ==
  ASSUME NEW m, NEW f, NEW r, NEW K, NEW L, Holds(m, f, r, K, L),
         NEW n \in LabMemory, NullSafe(n), NEW X, Same(m, n, X)
  PROVE  /\ freequeue \notin X /\ ToSet(f) \cap X = {} => Chained(n, freequeue, f)
         /\ readyqueue \notin X /\ ToSet(r) \cap X = {} => Chained(n, readyqueue, r)
         /\ \A t \in L : Children(t) \notin X /\ ToSet(K[t]) \cap X = {}
                           => Chained(n, Children(t), K[t])
         /\ X \subseteq ListNodes \cup Heads =>
              SameAnchors(m, n) /\ \A t \in L : Chained(n, Children(t), K[t])
         /\ blocked \notin X => n.prev[blocked] \in ListNodes \cup {blocked}
<1>1. /\ f \in Seq(Node) /\ r \in Seq(Node)
      /\ \A t \in Task : K[t] \in Seq(Node) /\ ToSet(K[t]) \subseteq Anchors
  BY HoldFacts
<1>2. /\ Chained(m, freequeue, f) /\ Chained(m, readyqueue, r)
      /\ \A t \in L : t \in Task /\ Chained(m, Children(t), K[t])
      /\ m.prev[blocked] \in ListNodes \cup {blocked}
  BY DEF Holds
<1>3. freequeue \in Node /\ readyqueue \in Node /\ \A t \in Task : Children(t) \in Node
  BY NodeSets DEF Heads
<1>4. freequeue \notin X /\ ToSet(f) \cap X = {} => Chained(n, freequeue, f)
  BY <1>1, <1>2, <1>3, ListApart
<1>5. readyqueue \notin X /\ ToSet(r) \cap X = {} => Chained(n, readyqueue, r)
  BY <1>1, <1>2, <1>3, ListApart
<1>6. \A t \in L : Children(t) \notin X /\ ToSet(K[t]) \cap X = {}
                     => Chained(n, Children(t), K[t])
  BY <1>1, <1>2, <1>3, ListApart
<1>7. X \subseteq ListNodes \cup Heads =>
        \A t \in L : Children(t) \notin X /\ ToSet(K[t]) \cap X = {}
  BY <1>1, <1>2, NodeSets
<1>8. blocked \notin X => n.prev[blocked] = m.prev[blocked]
  BY LabHeads DEF Same
<1>9. X \subseteq ListNodes \cup Heads => SameAnchors(m, n)
  BY NodeSets DEF Same, SameAnchors, Node
<1> QED
  BY <1>2, <1>4, <1>5, <1>6, <1>7, <1>8, <1>9

LEMMA HoldReady ==
  ASSUME NEW m, NEW f, NEW r, NEW K, NEW L, Holds(m, f, r, K, L),
         NEW new \in ListNodes, new \notin ToSet(f) \cup ToSet(r)
  PROVE  /\ Holds(list_add_tail(m, new, readyqueue), f, Append(r, new), K, L)
         /\ SameAnchors(m, list_add_tail(m, new, readyqueue))
<1> DEFINE n == list_add_tail(m, new, readyqueue)
           X == ToSet(r) \cup {readyqueue, new}
<1>1. /\ m \in LabMemory /\ NullSafe(m) /\ Chained(m, readyqueue, r) /\ r \in Seq(Node)
      /\ readyqueue \in Node /\ new \in Node /\ new \notin ToSet(r) \cup {readyqueue}
  BY HoldFacts, NodeSets DEF Holds, Heads
<1>2. /\ n \in LabMemory /\ NullSafe(n) /\ Chained(n, readyqueue, Append(r, new))
      /\ Same(m, n, X)
  BY <1>1, ListAppended
<1> HIDE DEF n
<1>3. /\ freequeue \notin X /\ ToSet(f) \cap X = {} /\ blocked \notin X
      /\ X \subseteq ListNodes \cup Heads
  <2>1. ToSet(f) \cap ToSet(r) = {} /\ ToSet(f) \subseteq ListNodes /\ ToSet(r) \subseteq ListNodes
    BY HoldFacts DEF Holds
  <2> QED
    BY <2>1, NodeSets, LabHeads DEF Heads
<1>4. /\ Chained(n, freequeue, f) /\ n.prev[blocked] \in ListNodes \cup {blocked}
      /\ SameAnchors(m, n) /\ \A t \in L : Chained(n, Children(t), K[t])
  BY <1>2, <1>3, HoldElsewhere
<1>5. r \in Seq(ListNodes) /\ ToSet(f) \cap ToSet(r) = {}
  BY DEF Holds
<1>6. Append(r, new) \in Seq(ListNodes) /\ ToSet(Append(r, new)) = ToSet(r) \cup {new}
  BY <1>5, AppendQueue
<1>7. ToSet(f) \cap ToSet(Append(r, new)) = {}
  BY <1>5, <1>6
<1> QED
  BY <1>2, <1>4, <1>6, <1>7 DEF Holds, n

LEMMA HoldFree ==
  ASSUME NEW m, NEW f, NEW r, NEW K, NEW L, Holds(m, f, r, K, L),
         NEW new \in ListNodes, new \notin ToSet(f) \cup ToSet(r)
  PROVE  /\ Holds(list_add_tail(m, new, freequeue), Append(f, new), r, K, L)
         /\ SameAnchors(m, list_add_tail(m, new, freequeue))
<1> DEFINE n == list_add_tail(m, new, freequeue)
           X == ToSet(f) \cup {freequeue, new}
<1>1. /\ m \in LabMemory /\ NullSafe(m) /\ Chained(m, freequeue, f) /\ f \in Seq(Node)
      /\ freequeue \in Node /\ new \in Node /\ new \notin ToSet(f) \cup {freequeue}
  BY HoldFacts, NodeSets DEF Holds, Heads
<1>2. /\ n \in LabMemory /\ NullSafe(n) /\ Chained(n, freequeue, Append(f, new))
      /\ Same(m, n, X)
  BY <1>1, ListAppended
<1> HIDE DEF n
<1>3. /\ readyqueue \notin X /\ ToSet(r) \cap X = {} /\ blocked \notin X
      /\ X \subseteq ListNodes \cup Heads
  <2>1. ToSet(f) \cap ToSet(r) = {} /\ ToSet(f) \subseteq ListNodes /\ ToSet(r) \subseteq ListNodes
    BY HoldFacts DEF Holds
  <2> QED
    BY <2>1, NodeSets, LabHeads DEF Heads
<1>4. /\ Chained(n, readyqueue, r) /\ n.prev[blocked] \in ListNodes \cup {blocked}
      /\ SameAnchors(m, n) /\ \A t \in L : Chained(n, Children(t), K[t])
  BY <1>2, <1>3, HoldElsewhere
<1>5. f \in Seq(ListNodes) /\ ToSet(f) \cap ToSet(r) = {}
  BY DEF Holds
<1>6. Append(f, new) \in Seq(ListNodes) /\ ToSet(Append(f, new)) = ToSet(f) \cup {new}
  BY <1>5, AppendQueue
<1>7. ToSet(r) \cap ToSet(Append(f, new)) = {}
  BY <1>5, <1>6
<1> QED
  BY <1>2, <1>4, <1>6, <1>7 DEF Holds, n

\* ForkNoFrames gives a struct back with list_add.
LEMMA HoldFreeFirst ==
  ASSUME NEW m, NEW f, NEW r, NEW K, NEW L, Holds(m, f, r, K, L),
         NEW new \in ListNodes, new \notin ToSet(f) \cup ToSet(r)
  PROVE  /\ Holds(list_add(m, new, freequeue), Push(new, f), r, K, L)
         /\ SameAnchors(m, list_add(m, new, freequeue))
<1> DEFINE n == list_add(m, new, freequeue)
           X == ToSet(f) \cup {freequeue, new}
           g == Push(new, f)
<1>1. /\ m \in LabMemory /\ NullSafe(m) /\ Chained(m, freequeue, f) /\ f \in Seq(Node)
      /\ freequeue \in Node /\ new \in Node /\ new \notin ToSet(f) \cup {freequeue}
  BY HoldFacts, NodeSets DEF Holds, Heads
<1>2. /\ n \in LabMemory /\ NullSafe(n) /\ Chained(n, freequeue, g)
      /\ Same(m, n, X)
  BY <1>1, ListPushed
<1>3. ToSet(f) \cap ToSet(r) = {} /\ ToSet(f) \subseteq ListNodes /\ ToSet(r) \subseteq ListNodes
  BY HoldFacts DEF Holds
<1>4. g \in Seq(ListNodes) /\ ToSet(g) = ToSet(f) \cup {new}
  <2>1. f \in Seq(ListNodes)
    BY DEF Holds
  <2> QED
    BY <2>1, PushQueue
<1> HIDE DEF n, g
<1>5. /\ readyqueue \notin X /\ ToSet(r) \cap X = {} /\ blocked \notin X
      /\ X \subseteq ListNodes \cup Heads
  BY <1>3, NodeSets, LabHeads DEF Heads
<1>6. /\ Chained(n, readyqueue, r) /\ n.prev[blocked] \in ListNodes \cup {blocked}
      /\ SameAnchors(m, n) /\ \A t \in L : Chained(n, Children(t), K[t])
  BY <1>2, <1>5, HoldElsewhere
<1>7. ToSet(r) \cap ToSet(g) = {}
  BY <1>3, <1>4
<1> QED
  BY <1>2, <1>4, <1>6, <1>7 DEF Holds, n, g

\* A struct that waits: no queue notices, whatever struct last blocked before.
LEMMA HoldBlocked ==
  ASSUME NEW m, NEW f, NEW r, NEW K, NEW L, Holds(m, f, r, K, L),
         NEW new \in ListNodes, new \notin ToSet(f) \cup ToSet(r),
         m.prev[blocked] \notin ToSet(f) \cup ToSet(r)
  PROVE  /\ Holds(list_add_tail(m, new, blocked), f, r, K, L)
         /\ SameAnchors(m, list_add_tail(m, new, blocked))
<1> DEFINE n == list_add_tail(m, new, blocked)
           last == m.prev[blocked]
           X == {new, last, blocked}
<1>1. /\ m \in LabMemory /\ NullSafe(m) /\ new \in Node /\ blocked \in Node /\ new # blocked
      /\ last \in Node
  BY NodeSets DEF Holds, Heads
<1>2. /\ n \in LabMemory /\ NullSafe(n) /\ n.prev[blocked] = new
      /\ \A x \in Memory \ {new, m.prev[blocked]} : n.next[x] = m.next[x]
      /\ \A x \in Memory \ {new, blocked} : n.prev[x] = m.prev[x]
  BY <1>1, LabStoreTail
<1> HIDE DEF n
<1>3. Same(m, n, X)
  BY <1>2 DEF Same
<1>4. /\ readyqueue \notin X /\ ToSet(r) \cap X = {} /\ freequeue \notin X /\ ToSet(f) \cap X = {}
      /\ X \subseteq ListNodes \cup Heads
  <2>1. /\ last \in ListNodes \cup {blocked}
        /\ ToSet(f) \subseteq ListNodes /\ ToSet(r) \subseteq ListNodes
    BY HoldFacts DEF Holds
  <2> QED
    BY <2>1, NodeSets, LabHeads DEF Heads
<1>5. /\ Chained(n, readyqueue, r) /\ Chained(n, freequeue, f)
      /\ SameAnchors(m, n) /\ \A t \in L : Chained(n, Children(t), K[t])
  BY <1>2, <1>3, <1>4, HoldElsewhere
<1> QED
  BY <1>2, <1>5 DEF Holds, n

LEMMA HoldReadyTaken ==
  ASSUME NEW m, NEW f, NEW r, NEW K, NEW L, Holds(m, f, r, K, L), NEW k \in 1 .. Len(r)
  PROVE  /\ Holds(list_del(m, r[k]), f, RemoveAt(r, k), K, L)
         /\ SameAnchors(m, list_del(m, r[k]))
<1> DEFINE n == list_del(m, r[k])
           X == ToSet(r) \cup {readyqueue}
           q == RemoveAt(r, k)
<1>1. /\ m \in LabMemory /\ NullSafe(m) /\ Chained(m, readyqueue, r) /\ r \in Seq(Node)
      /\ readyqueue \in Node
  BY HoldFacts, NodeSets DEF Holds, Heads
<1>2. /\ n \in LabMemory /\ NullSafe(n) /\ Chained(n, readyqueue, q)
      /\ Same(m, n, X)
  BY <1>1, ListRemoved
<1>3. r \in Seq(ListNodes) /\ ToSet(f) \cap ToSet(r) = {} /\ IsInjective(r) /\ k \in DOMAIN r
  BY LenProperties DEF Holds, Chained
<1>4. q \in Seq(ListNodes) /\ ToSet(q) = ToSet(r) \ {r[k]}
  BY <1>3, RemoveAtQueue
<1> HIDE DEF n, q
<1>5. /\ freequeue \notin X /\ ToSet(f) \cap X = {} /\ blocked \notin X
      /\ X \subseteq ListNodes \cup Heads
  <2>1. ToSet(f) \subseteq ListNodes /\ ToSet(r) \subseteq ListNodes
    BY HoldFacts
  <2> QED
    BY <2>1, <1>3, NodeSets, LabHeads DEF Heads
<1>6. /\ Chained(n, freequeue, f) /\ n.prev[blocked] \in ListNodes \cup {blocked}
      /\ SameAnchors(m, n) /\ \A t \in L : Chained(n, Children(t), K[t])
  BY <1>2, <1>5, HoldElsewhere
<1>7. ToSet(f) \cap ToSet(q) = {}
  BY <1>3, <1>4
<1> QED
  BY <1>2, <1>4, <1>6, <1>7 DEF Holds, n, q

LEMMA HoldFreeTaken ==
  ASSUME NEW m, NEW f, NEW r, NEW K, NEW L, Holds(m, f, r, K, L), NEW k \in 1 .. Len(f)
  PROVE  /\ Holds(list_del(m, f[k]), RemoveAt(f, k), r, K, L)
         /\ SameAnchors(m, list_del(m, f[k]))
<1> DEFINE n == list_del(m, f[k])
           X == ToSet(f) \cup {freequeue}
           q == RemoveAt(f, k)
<1>1. /\ m \in LabMemory /\ NullSafe(m) /\ Chained(m, freequeue, f) /\ f \in Seq(Node)
      /\ freequeue \in Node
  BY HoldFacts, NodeSets DEF Holds, Heads
<1>2. /\ n \in LabMemory /\ NullSafe(n) /\ Chained(n, freequeue, q)
      /\ Same(m, n, X)
  BY <1>1, ListRemoved
<1>3. f \in Seq(ListNodes) /\ ToSet(f) \cap ToSet(r) = {} /\ IsInjective(f) /\ k \in DOMAIN f
  BY LenProperties DEF Holds, Chained
<1>4. q \in Seq(ListNodes) /\ ToSet(q) = ToSet(f) \ {f[k]}
  BY <1>3, RemoveAtQueue
<1> HIDE DEF n, q
<1>5. /\ readyqueue \notin X /\ ToSet(r) \cap X = {} /\ blocked \notin X
      /\ X \subseteq ListNodes \cup Heads
  <2>1. ToSet(f) \subseteq ListNodes /\ ToSet(r) \subseteq ListNodes
    BY HoldFacts
  <2> QED
    BY <2>1, <1>3, NodeSets, LabHeads DEF Heads
<1>6. /\ Chained(n, readyqueue, r) /\ n.prev[blocked] \in ListNodes \cup {blocked}
      /\ SameAnchors(m, n) /\ \A t \in L : Chained(n, Children(t), K[t])
  BY <1>2, <1>5, HoldElsewhere
<1>7. ToSet(r) \cap ToSet(q) = {}
  BY <1>3, <1>4
<1> QED
  BY <1>2, <1>4, <1>6, <1>7 DEF Holds, n, q

\* The copy of a struct changes the nodes of one that is in no list.
LEMMA HoldCopied ==
  ASSUME NEW m, NEW f, NEW r, NEW K, NEW L, Holds(m, f, r, K, L),
         NEW from \in Task, NEW to \in Task, to \notin L,
         ListNode(to) \notin ToSet(f) \cup ToSet(r),
         \A t \in L : Anchor(to) \notin ToSet(K[t])
  PROVE  /\ Holds(CopyStruct(m, from, to), f, r, K, L)
         /\ Same(m, CopyStruct(m, from, to), {ListNode(to), Anchor(to), Children(to)})
<1> DEFINE n == CopyStruct(m, from, to)
           X == {ListNode(to), Anchor(to), Children(to)}
<1>1. m \in LabMemory /\ NullSafe(m) /\ L \subseteq Task
  BY DEF Holds
<1>2. n \in LabMemory
  <2>1. \A a \in InStruct : <<a[1], from>> \in Memory
    BY DEF InStruct, Memory
  <2> QED
    BY <1>1, <2>1 DEF CopyStruct, LabMemory
<1>3. \A a \in Memory \ X : ~(a \in InStruct /\ StructOf(a) = to)
  BY DEF InStruct, StructOf, ListNode, Anchor, Children
<1>4. Same(m, n, X)
  BY <1>3 DEF Same, CopyStruct
<1>5. Null \in Memory \ X /\ blocked \in Memory \ X
  BY LabNodes, LabHeads DEF Heads
<1>6. NullSafe(n)
  BY <1>1, <1>4, <1>5 DEF NullSafe, Same
<1> HIDE DEF n
<1>7. /\ freequeue \notin X /\ ToSet(f) \cap X = {} /\ readyqueue \notin X /\ ToSet(r) \cap X = {}
      /\ blocked \notin X
  <2>1. ToSet(f) \subseteq ListNodes /\ ToSet(r) \subseteq ListNodes
    BY HoldFacts
  <2>2. Anchor(to) \in Anchors
    BY DEF Anchors
  <2>3. Anchor(to) \notin ListNodes /\ Children(to) \notin ListNodes
    BY <2>2, NodeSets
  <2> QED
    BY <2>1, <2>3, LabNodes DEF Heads
<1>8. ASSUME NEW t \in L PROVE Children(t) \notin X /\ ToSet(K[t]) \cap X = {}
  <2>1. t \in Task /\ ToSet(K[t]) \subseteq Anchors
    BY <1>1, HoldFacts
  <2>2. ListNode(to) \in ListNodes
    BY DEF ListNodes
  <2>3. ListNode(to) \notin Anchors /\ Children(to) \notin Anchors
    BY <2>2, NodeSets
  <2>4. Children(t) \notin X
    BY LabNodes
  <2> QED
    BY <2>1, <2>3, <2>4
<1>9. /\ Chained(n, freequeue, f) /\ Chained(n, readyqueue, r)
      /\ n.prev[blocked] \in ListNodes \cup {blocked}
      /\ \A t \in L : Chained(n, Children(t), K[t])
  BY <1>2, <1>4, <1>6, <1>7, <1>8, HoldElsewhere
<1> QED
  BY <1>2, <1>4, <1>6, <1>9 DEF Holds, n

\* A struct that is used from now on, without children
LEMMA HoldNew ==
  ASSUME NEW m, NEW f, NEW r, NEW K, NEW L, Holds(m, f, r, K, L),
         NEW new \in Task, new \notin L
  PROVE  /\ Holds(INIT_LIST_HEAD(m, Children(new)), f, r, [K EXCEPT ![new] = <<>>],
                  L \cup {new})
         /\ Same(m, INIT_LIST_HEAD(m, Children(new)), {Children(new)})
<1> DEFINE n == INIT_LIST_HEAD(m, Children(new))
           X == {Children(new)}
           J == [K EXCEPT ![new] = <<>>]
<1>1. m \in LabMemory /\ NullSafe(m) /\ L \subseteq Task /\ Children(new) \in Node
  BY NodeSets DEF Holds
<1>2. /\ n \in LabMemory /\ NullSafe(n)
      /\ n.next[Children(new)] = Children(new) /\ n.prev[Children(new)] = Children(new)
      /\ Same(m, n, X)
  BY <1>1, LabStoreInit DEF Same
<1> HIDE DEF n
<1>3. /\ freequeue \notin X /\ ToSet(f) \cap X = {} /\ readyqueue \notin X /\ ToSet(r) \cap X = {}
      /\ blocked \notin X
  <2>1. ToSet(f) \subseteq ListNodes /\ ToSet(r) \subseteq ListNodes
    BY HoldFacts
  <2> QED
    BY <2>1, NodeSets DEF Heads
<1>4. ASSUME NEW t \in L PROVE Children(t) \notin X /\ ToSet(K[t]) \cap X = {}
  <2>1. t \in Task /\ ToSet(K[t]) \subseteq Anchors
    BY <1>1, HoldFacts
  <2>2. Children(t) \notin X
    BY LabNodes
  <2> QED
    BY <2>1, <2>2, NodeSets
<1>5. /\ Chained(n, freequeue, f) /\ Chained(n, readyqueue, r)
      /\ n.prev[blocked] \in ListNodes \cup {blocked}
      /\ \A t \in L : Chained(n, Children(t), K[t])
  BY <1>2, <1>3, <1>4, HoldElsewhere
<1>6. Chained(n, Children(new), <<>>)
  BY <1>2, ChainEmpty
<1>7. K \in [Task -> Seq(Anchors)] /\ \A t \in L : t # new /\ J[t] = K[t]
  BY <1>1 DEF Holds
<1>8. J \in [Task -> Seq(Anchors)] /\ J[new] = <<>>
  BY <1>7
<1> HIDE DEF J
<1>9. \A t \in L \cup {new} : Chained(n, Children(t), J[t])
  BY <1>5, <1>6, <1>7, <1>8
<1>10. ToSet(J[new]) = {}
  BY <1>8, EmptySeq DEF ToSet
<1>11. \A t, u \in L \cup {new} : t # u => ToSet(J[t]) \cap ToSet(J[u]) = {}
  BY <1>7, <1>10 DEF Holds
<1> QED
  BY <1>1, <1>2, <1>5, <1>8, <1>9, <1>11 DEF Holds, n, J

LEMMA HoldChild ==
  ASSUME NEW m, NEW f, NEW r, NEW K, NEW L, Holds(m, f, r, K, L),
         NEW p \in L, NEW new \in Anchors, \A t \in L : new \notin ToSet(K[t])
  PROVE  /\ Holds(list_add_tail(m, new, Children(p)), f, r, [K EXCEPT ![p] = Append(@, new)], L)
         /\ Same(m, list_add_tail(m, new, Children(p)), ToSet(K[p]) \cup {Children(p), new})
<1> DEFINE n == list_add_tail(m, new, Children(p))
           X == ToSet(K[p]) \cup {Children(p), new}
           J == [K EXCEPT ![p] = Append(@, new)]
<1>1. /\ m \in LabMemory /\ NullSafe(m) /\ L \subseteq Task /\ Children(p) \in Node
      /\ K[p] \in Seq(Node) /\ Chained(m, Children(p), K[p]) /\ new \in Node
      /\ new \notin ToSet(K[p]) \cup {Children(p)} /\ ToSet(K[p]) \subseteq Anchors
      /\ K \in [Task -> Seq(Anchors)]
  BY HoldFacts, NodeSets DEF Holds
<1>2. /\ n \in LabMemory /\ NullSafe(n) /\ Chained(n, Children(p), Append(K[p], new))
      /\ Same(m, n, X)
  BY <1>1, ListAppended
<1> HIDE DEF n
<1>3. /\ freequeue \notin X /\ ToSet(f) \cap X = {} /\ readyqueue \notin X /\ ToSet(r) \cap X = {}
      /\ blocked \notin X
  <2>1. ToSet(f) \subseteq ListNodes /\ ToSet(r) \subseteq ListNodes
    BY HoldFacts
  <2> QED
    BY <2>1, <1>1, NodeSets DEF Heads
<1>4. ASSUME NEW t \in L, t # p PROVE Children(t) \notin X /\ ToSet(K[t]) \cap X = {}
  <2>1. t \in Task /\ ToSet(K[t]) \subseteq Anchors /\ ToSet(K[t]) \cap ToSet(K[p]) = {}
    BY <1>1, <1>4, HoldFacts DEF Holds
  <2>2. Children(t) \notin X
    BY <1>1, <1>4, LabNodes, NodeSets
  <2> QED
    BY <2>1, <2>2, NodeSets
<1>5. /\ Chained(n, freequeue, f) /\ Chained(n, readyqueue, r)
      /\ n.prev[blocked] \in ListNodes \cup {blocked}
      /\ \A t \in L : t # p => Chained(n, Children(t), K[t])
  BY <1>2, <1>3, <1>4, HoldElsewhere
<1>6. K[p] \in Seq(Anchors) /\ p \in Task
  BY <1>1
<1>7. Append(K[p], new) \in Seq(Anchors) /\ ToSet(Append(K[p], new)) = ToSet(K[p]) \cup {new}
  BY <1>6, AppendQueue
<1>8. /\ J \in [Task -> Seq(Anchors)] /\ J[p] = Append(K[p], new)
      /\ \A t \in L : t # p => J[t] = K[t]
  BY <1>1, <1>6, <1>7
<1> HIDE DEF J
<1>9. \A t \in L : Chained(n, Children(t), J[t])
  BY <1>2, <1>5, <1>8
<1>10. \A t \in L : t # p => ToSet(J[t]) \cap ToSet(J[p]) = {}
  BY <1>7, <1>8 DEF Holds
<1>11. \A t, u \in L : t # u => ToSet(J[t]) \cap ToSet(J[u]) = {}
  BY <1>8, <1>10 DEF Holds
<1> QED
  BY <1>1, <1>2, <1>5, <1>8, <1>9, <1>11 DEF Holds, n, J

LEMMA HoldChildGone ==
  ASSUME NEW m, NEW f, NEW r, NEW K, NEW L, Holds(m, f, r, K, L),
         NEW p \in L, NEW k \in 1 .. Len(K[p])
  PROVE  /\ Holds(list_del(m, K[p][k]), f, r, [K EXCEPT ![p] = RemoveAt(@, k)], L)
         /\ Same(m, list_del(m, K[p][k]), ToSet(K[p]) \cup {Children(p)})
<1> DEFINE s == K[p]
           n == list_del(m, s[k])
           X == ToSet(s) \cup {Children(p)}
           q == RemoveAt(s, k)
           J == [K EXCEPT ![p] = RemoveAt(@, k)]
<1>1. /\ m \in LabMemory /\ NullSafe(m) /\ L \subseteq Task /\ Children(p) \in Node
      /\ s \in Seq(Node) /\ Chained(m, Children(p), s) /\ ToSet(s) \subseteq Anchors
      /\ K \in [Task -> Seq(Anchors)] /\ p \in Task /\ s \in Seq(Anchors)
  BY HoldFacts, NodeSets DEF Holds
<1>2. J = [K EXCEPT ![p] = q]
  OBVIOUS
<1> HIDE DEF s, J
<1>3. k \in 1 .. Len(s)
  BY DEF s
<1>4. /\ n \in LabMemory /\ NullSafe(n) /\ Chained(n, Children(p), q)
      /\ Same(m, n, X)
  BY <1>1, <1>3, ListRemoved
<1>5. q \in Seq(Anchors) /\ ToSet(q) = ToSet(s) \ {s[k]}
  <2>1. IsInjective(s) /\ k \in DOMAIN s
    BY <1>1, <1>3, LenProperties DEF Chained
  <2> QED
    BY <2>1, <1>1, RemoveAtQueue
<1> HIDE DEF n, q
<1>6. /\ freequeue \notin X /\ ToSet(f) \cap X = {} /\ readyqueue \notin X /\ ToSet(r) \cap X = {}
      /\ blocked \notin X
  <2>1. ToSet(f) \subseteq ListNodes /\ ToSet(r) \subseteq ListNodes
    BY HoldFacts
  <2> QED
    BY <2>1, <1>1, NodeSets DEF Heads
<1>7. ASSUME NEW t \in L, t # p PROVE Children(t) \notin X /\ ToSet(K[t]) \cap X = {}
  <2>1. t \in Task /\ ToSet(K[t]) \subseteq Anchors /\ ToSet(K[t]) \cap ToSet(s) = {}
    BY <1>1, <1>7, HoldFacts DEF Holds, s
  <2>2. Children(t) \notin X
    BY <1>1, <1>7, LabNodes, NodeSets
  <2> QED
    BY <2>1, <2>2, NodeSets
<1>8. /\ Chained(n, freequeue, f) /\ Chained(n, readyqueue, r)
      /\ n.prev[blocked] \in ListNodes \cup {blocked}
      /\ \A t \in L : t # p => Chained(n, Children(t), K[t])
  BY <1>4, <1>6, <1>7, HoldElsewhere
<1>9. /\ J \in [Task -> Seq(Anchors)] /\ J[p] = q
      /\ \A t \in L : t # p => J[t] = K[t]
  BY <1>1, <1>2, <1>5
<1>10. \A t \in L : Chained(n, Children(t), J[t])
  BY <1>4, <1>8, <1>9
<1>11. \A t \in L : t # p => ToSet(J[t]) \cap ToSet(J[p]) = {}
  BY <1>5, <1>9 DEF Holds, s
<1>12. \A t, u \in L : t # u => ToSet(J[t]) \cap ToSet(J[u]) = {}
  BY <1>9, <1>11 DEF Holds
<1>13. Holds(n, f, r, J, L)
  BY <1>1, <1>4, <1>8, <1>9, <1>10, <1>12 DEF Holds
<1> QED
  BY <1>4, <1>13 DEF n, J, s

\* A struct that is no longer used
LEMMA HoldFewer ==
  ASSUME NEW m, NEW f, NEW r, NEW K, NEW L, Holds(m, f, r, K, L), NEW M, M \subseteq L
  PROVE  Holds(m, f, r, K, M)
BY DEF Holds

-----------------------------------------------------------------------------
(* The invariant *)

FreeOf(m) == Entries(m, freequeue)
ReadyOf(m) == Entries(m, readyqueue)
UsedOf(m) == {t \in Task \ {idle_task} : ListNode(t) \notin ToSet(FreeOf(m))}
KidsOf(m) == [t \in Task |-> IF t \in UsedOf(m) THEN Entries(m, Children(t)) ELSE <<>>]

(***************************************************************************)
(* Where each struct is, when those of run are on the CPU: L are processes,*)
(* f are free, r ready and K the children, by the fields pid, par and pend.*)
(***************************************************************************)
Ledger(f, r, K, L, run, pid, par, pend) ==
  /\ L = {t \in Task \ {idle_task} : ListNode(t) \notin ToSet(f)}
  /\ run \subseteq L \cup {idle_task} /\ ListNode(idle_task) \notin ToSet(f)
  /\ \A t \in run \cup {idle_task} : ListNode(t) \notin ToSet(r) /\ ~(pend[t] < 0)
  /\ \A t \in Task : pend[t] < 0 => t \in L /\ ListNode(t) \notin ToSet(r)
  /\ \A t \in L : ListNode(t) \in ToSet(r) \/ t \in run \/ pend[t] < 0
  /\ pid[idle_task] = 0
  /\ \A t \in L : /\ pid[t] # 0 /\ par[t] \in (L \cup {idle_task}) \ {t}
                  /\ par[t] # idle_task => Anchor(t) \in ToSet(K[par[t]])
  /\ \A p \in L : \A t \in Task : Anchor(t) \in ToSet(K[p]) => t \in L /\ par[t] = p

(***************************************************************************)
(* The processes without a parent are in no list of children.  Behind them *)
(* is the head of idle and in front of them a head that no process uses:   *)
(* list_del may write there when they exit.                                *)
(***************************************************************************)
Loose(m, L, par) ==
  \A t \in L : par[t] = idle_task =>
    m.prev[Anchor(t)] = Children(idle_task) /\ \E u \in Task \ L : m.next[Anchor(t)] = Children(u)

LEMMA LooseSame ==
  ASSUME NEW m, NEW n, NEW L, L \subseteq Task, NEW par, Loose(m, L, par), SameAnchors(m, n)
  PROVE  Loose(n, L, par)
BY DEF Loose, SameAnchors, Anchors

Sound(m, cur, pid, par, pend) ==
  /\ Holds(m, FreeOf(m), ReadyOf(m), KidsOf(m), UsedOf(m))
  /\ Ledger(FreeOf(m), ReadyOf(m), KidsOf(m), UsedOf(m), {cur}, pid, par, pend)
  /\ Loose(m, UsedOf(m), par)

LabInv ==
  LabTypeOK /\ ~tangled /\ ~crashed /\ Sound(mem, current, PID, parent, pending_unblocks)

\* The lists that the memory holds are those that list_for_each visits.
LEMMA HoldLists ==
  ASSUME NEW m, NEW f, NEW r, NEW K, NEW L, Holds(m, f, r, K, L)
  PROVE  /\ FreeOf(m) = f /\ ReadyOf(m) = r
         /\ Returns(m, freequeue) /\ Returns(m, readyqueue)
         /\ \A t \in L : /\ Entries(m, Children(t)) = K[t] /\ Returns(m, Children(t))
                         /\ Path(m, Children(t)) = Append(K[t], Children(t))
<1>1. m \in LabMemory /\ L \subseteq Task
  BY DEF Holds
<1>2. freequeue \in Node /\ f \in Seq(Node) /\ Chained(m, freequeue, f)
  BY HoldFacts, NodeSets DEF Holds, Heads
<1>3. readyqueue \in Node /\ r \in Seq(Node) /\ Chained(m, readyqueue, r)
  BY HoldFacts, NodeSets DEF Holds, Heads
<1>4. \A t \in L : Children(t) \in Node /\ K[t] \in Seq(Node) /\ Chained(m, Children(t), K[t])
  BY <1>1, HoldFacts, NodeSets DEF Holds
<1> QED
  BY <1>1, <1>2, <1>3, <1>4, ListWalked DEF FreeOf, ReadyOf

ListsAre(m, f, r, K, L) ==
  /\ FreeOf(m) = f /\ ReadyOf(m) = r /\ UsedOf(m) = L
  /\ \A t \in L : KidsOf(m)[t] = K[t]

LEMMA SoundFrom ==
  ASSUME NEW m, NEW f, NEW r, NEW K, NEW L, Holds(m, f, r, K, L),
         NEW cur, NEW pid, NEW par, NEW pend, Ledger(f, r, K, L, {cur}, pid, par, pend),
         Loose(m, L, par)
  PROVE  Sound(m, cur, pid, par, pend) /\ ListsAre(m, f, r, K, L)
<1>1. FreeOf(m) = f /\ ReadyOf(m) = r /\ \A t \in L : Entries(m, Children(t)) = K[t]
  BY HoldLists
<1>2. UsedOf(m) = L
  BY <1>1 DEF Ledger, UsedOf
<1> DEFINE J == KidsOf(m)
<1>3. L \subseteq Task /\ K \in [Task -> Seq(Anchors)]
  BY DEF Holds
<1>4. \A t \in L : J[t] = K[t]
  BY <1>1, <1>2, <1>3 DEF KidsOf
<1>5. J \in [Task -> Seq(Anchors)]
  <2>1. \A t \in L : K[t] \in Seq(Anchors)
    BY <1>3
  <2>2. <<>> \in Seq(Anchors)
    OBVIOUS
  <2> QED
    BY <1>1, <1>2, <2>1, <2>2 DEF KidsOf
<1> HIDE DEF J
<1>6. Holds(m, f, r, J, L)
  <2>1. \A t \in L : Chained(m, Children(t), J[t])
    BY <1>4 DEF Holds
  <2>2. \A t, u \in L : t # u => ToSet(J[t]) \cap ToSet(J[u]) = {}
    BY <1>4 DEF Holds
  <2> QED
    BY <1>5, <2>1, <2>2 DEF Holds
<1>7. Ledger(f, r, J, L, {cur}, pid, par, pend)
  BY <1>4 DEF Ledger
<1> QED
  BY <1>1, <1>2, <1>4, <1>6, <1>7 DEF Sound, ListsAre, J

LEMMA LabTasks ==
  /\ idle_task \in Task /\ task1 \in Task /\ idle_task # task1
  /\ \A t \in Task : t \in Int /\ t # NoParent
BY LabAssumption DEF idle_task, task1, Task, NoParent

LEMMA QueueMember ==
  /\ \A t, u : ListNode(t) = ListNode(u) <=> t = u
  /\ \A t, u : Anchor(t) = Anchor(u) <=> t = u
  /\ \A x \in ListNodes : StructOf(x) \in Task /\ x = ListNode(StructOf(x))
  /\ \A x \in Anchors : StructOf(x) \in Task /\ x = Anchor(StructOf(x))
  /\ \A t \in Task : ListNode(t) \in ListNodes /\ Anchor(t) \in Anchors
BY LabNodes DEF ListNodes, Anchors

-----------------------------------------------------------------------------
(* What the calls do to the ledger *)

LEMMA LedgerQueued ==
  ASSUME NEW f, NEW r \in Seq(ListNodes), NEW K, NEW L, NEW c \in Task, NEW pid, NEW par, NEW pend,
         Ledger(f, r, K, L, {c}, pid, par, pend), c # idle_task
  PROVE  Ledger(f, Append(r, ListNode(c)), K, L, {}, pid, par, pend)
<1>1. ToSet(Append(r, ListNode(c))) = ToSet(r) \cup {ListNode(c)}
  BY QueueMember, AppendQueue
<1>2. \A t : ListNode(t) \in ToSet(Append(r, ListNode(c))) <=> ListNode(t) \in ToSet(r) \/ t = c
  BY <1>1, QueueMember
<1> QED
  BY <1>2 DEF Ledger

LEMMA LedgerIdle ==
  ASSUME NEW f, NEW r, NEW K, NEW L, NEW pid, NEW par, NEW pend
  PROVE  Ledger(f, r, K, L, {idle_task}, pid, par, pend) <=> Ledger(f, r, K, L, {}, pid, par, pend)
BY DEF Ledger

LEMMA LedgerDispatched ==
  ASSUME NEW f, NEW r \in Seq(ListNodes), NEW K, NEW L, NEW pid, NEW par, NEW pend,
         Ledger(f, r, K, L, {}, pid, par, pend), IsInjective(r), NEW k \in 1 .. Len(r)
  PROVE  /\ StructOf(r[k]) \in Task \ {idle_task} /\ ListNode(StructOf(r[k])) = r[k]
         /\ Ledger(f, r, K, L, {}, pid, par, pend)
         /\ ToSet(f) \cap ToSet(r) = {} =>
              Ledger(f, RemoveAt(r, k), K, L, {StructOf(r[k])}, pid, par, pend)
<1> DEFINE next == StructOf(r[k])
<1>1. k \in DOMAIN r /\ r[k] \in ToSet(r) /\ r[k] \in ListNodes
  BY LenProperties, ElementOfSeq, ToSetIn
<1>2. next \in Task /\ ListNode(next) = r[k]
  BY <1>1, QueueMember
<1>3. next # idle_task
  BY <1>1, <1>2 DEF Ledger
<1>4. ASSUME ToSet(f) \cap ToSet(r) = {}
      PROVE  Ledger(f, RemoveAt(r, k), K, L, {next}, pid, par, pend)
  <2>1. ToSet(RemoveAt(r, k)) = ToSet(r) \ {r[k]}
    BY <1>1, RemoveAtQueue
  <2> HIDE DEF next
  <2>2. \A t : ListNode(t) \in ToSet(RemoveAt(r, k)) <=> ListNode(t) \in ToSet(r) /\ t # next
    BY <1>2, <2>1, QueueMember
  <2>3. next \in L /\ ~(pend[next] < 0)
    BY <1>1, <1>2, <1>4 DEF Ledger
  <2> QED
    BY <2>2, <2>3 DEF Ledger
<1> QED
  BY <1>2, <1>3, <1>4

LEMMA LedgerWaits ==
  ASSUME NEW f, NEW r, NEW K, NEW L, NEW c \in Task, NEW pid, NEW par,
         NEW pend \in [Task -> Int],
         Ledger(f, r, K, L, {c}, pid, par, pend), c # idle_task
  PROVE  Ledger(f, r, K, L, {}, pid, par, [pend EXCEPT ![c] = -1])
<1> DEFINE n == [pend EXCEPT ![c] = -1]
<1>1. n[c] < 0 /\ \A t \in Task : t # c => n[t] = pend[t]
  OBVIOUS
<1> HIDE DEF n
<1>2. L \subseteq Task /\ idle_task \in Task
  BY LabTasks DEF Ledger
<1> QED
  BY <1>1, <1>2 DEF Ledger, n

\* pending_unblocks may change, but no wait begins or ends.
LEMMA LedgerCounted ==
  ASSUME NEW f, NEW r, NEW K, NEW L, NEW run, NEW pid, NEW par, NEW pend, NEW n,
         Ledger(f, r, K, L, run, pid, par, pend),
         \A t \in Task : n[t] < 0 <=> pend[t] < 0
  PROVE  Ledger(f, r, K, L, run, pid, par, n)
<1>1. L \subseteq Task /\ idle_task \in Task /\ run \subseteq Task
  BY LabTasks DEF Ledger
<1> QED
  BY <1>1 DEF Ledger

LEMMA LedgerWoken ==
  ASSUME NEW f, NEW r \in Seq(ListNodes), NEW K, NEW L, NEW run, NEW t \in Task, NEW pid, NEW par,
         NEW pend \in [Task -> Int],
         Ledger(f, r, K, L, run, pid, par, pend), pend[t] < 0
  PROVE  Ledger(f, Append(r, ListNode(t)), K, L, run, pid, par, [pend EXCEPT ![t] = 0])
<1> DEFINE n == [pend EXCEPT ![t] = 0]
<1>1. ToSet(Append(r, ListNode(t))) = ToSet(r) \cup {ListNode(t)}
  BY QueueMember, AppendQueue
<1>2. \A u : ListNode(u) \in ToSet(Append(r, ListNode(t))) <=> ListNode(u) \in ToSet(r) \/ u = t
  BY <1>1, QueueMember
<1>3. ~(n[t] < 0) /\ \A u \in Task : u # t => n[u] = pend[u]
  OBVIOUS
<1> HIDE DEF n
<1>4. L \subseteq Task /\ idle_task \in Task /\ run \subseteq Task
  BY LabTasks DEF Ledger
<1>5. t \notin run \cup {idle_task}
  BY DEF Ledger
<1> QED
  BY <1>2, <1>3, <1>4, <1>5 DEF Ledger, n

\* The fields of a free struct are nobody's.
LEMMA LedgerFree ==
  ASSUME NEW f, NEW r, NEW K, NEW L, NEW run, NEW pid, NEW par, NEW pend,
         Ledger(f, r, K, L, run, pid, par, pend),
         NEW pid2, NEW par2, NEW pend2, NEW c, c \notin L \cup {idle_task},
         \A t \in Task \ {c} : pid2[t] = pid[t] /\ par2[t] = par[t] /\ pend2[t] = pend[t],
         ~(pend2[c] < 0)
  PROVE  Ledger(f, r, K, L, run, pid2, par2, pend2)
<1>1. L \subseteq Task \ {c} /\ idle_task \in Task \ {c} /\ run \subseteq L \cup {idle_task}
  BY LabTasks DEF Ledger
<1> QED
  BY <1>1 DEF Ledger

\* The children when child begins and when it is given to its parent c
Newborn(K, child) == [K EXCEPT ![child] = <<>>]
Born(K, child, c) == [Newborn(K, child) EXCEPT ![c] = Append(@, Anchor(child))]

LEMMA FreeStruct ==
  ASSUME NEW f \in Seq(ListNodes), NEW r, NEW K, NEW L, NEW run, NEW pid, NEW par, NEW pend,
         Ledger(f, r, K, L, run, pid, par, pend), NEW k \in 1 .. Len(f), IsInjective(f),
         ToSet(f) \cap ToSet(r) = {}
  PROVE  /\ f[k] = ListNode(StructOf(f[k])) /\ StructOf(f[k]) \in Task \ (L \cup {idle_task})
         /\ f[k] \in ListNodes /\ f[k] \notin ToSet(r)
         /\ RemoveAt(f, k) \in Seq(ListNodes) /\ f[k] \notin ToSet(RemoveAt(f, k))
         /\ \A t : ListNode(t) \in ToSet(RemoveAt(f, k)) <=>
                     ListNode(t) \in ToSet(f) /\ t # StructOf(f[k])
         /\ \A t \in L : Anchor(StructOf(f[k])) \notin ToSet(K[t])
<1> DEFINE child == StructOf(f[k])
<1>1. k \in DOMAIN f /\ f[k] \in ToSet(f) /\ f[k] \in ListNodes
  BY LenProperties, ElementOfSeq, ToSetIn
<1>2. child \in Task /\ ListNode(child) = f[k]
  BY <1>1, QueueMember
<1> HIDE DEF child
<1>3. child \notin L \cup {idle_task}
  BY <1>1, <1>2 DEF Ledger
<1>4. RemoveAt(f, k) \in Seq(ListNodes) /\ ToSet(RemoveAt(f, k)) = ToSet(f) \ {f[k]}
  BY <1>1, RemoveAtQueue
<1>5. \A t : ListNode(t) \in ToSet(RemoveAt(f, k)) <=> ListNode(t) \in ToSet(f) /\ t # child
  BY <1>2, <1>4, QueueMember
<1>6. \A t \in L : Anchor(child) \notin ToSet(K[t])
  BY <1>2, <1>3 DEF Ledger
<1> QED
  BY <1>1, <1>2, <1>3, <1>4, <1>5, <1>6 DEF child

LEMMA LedgerForked ==
  ASSUME NEW f \in Seq(ListNodes), NEW r \in Seq(ListNodes), NEW K \in [Task -> Seq(Anchors)],
         NEW L, NEW c \in Task, NEW pid \in [Task -> Int], NEW par \in [Task -> Int],
         NEW pend \in [Task -> Int], Ledger(f, r, K, L, {c}, pid, par, pend), c # idle_task,
         NEW k \in 1 .. Len(f), IsInjective(f), ToSet(f) \cap ToSet(r) = {},
         NEW child, child = StructOf(f[k]), NEW p \in Int, p # 0
  PROVE  Ledger(RemoveAt(f, k), Append(r, ListNode(child)), Born(K, child, c), L \cup {child}, {c},
                [pid EXCEPT ![child] = p], [par EXCEPT ![child] = c],
                [pend EXCEPT ![child] = pend[c]])
<1> DEFINE g == RemoveAt(f, k)
           q == Append(r, ListNode(child))
           J == Born(K, child, c)
           M == L \cup {child}
           pid2 == [pid EXCEPT ![child] = p]
           par2 == [par EXCEPT ![child] = c]
           pend2 == [pend EXCEPT ![child] = pend[c]]
<1>1. /\ child \in Task \ (L \cup {idle_task}) /\ ListNode(child) = f[k] /\ ListNode(child) \notin ToSet(r)
      /\ \A t : ListNode(t) \in ToSet(g) <=> ListNode(t) \in ToSet(f) /\ t # child
      /\ \A t \in L : Anchor(child) \notin ToSet(K[t])
  BY FreeStruct
<1>2. \A t : ListNode(t) \in ToSet(q) <=> ListNode(t) \in ToSet(r) \/ t = child
  <2>0. ListNode(child) \in ListNodes
    BY <1>1, QueueMember
  <2>1. \A e \in ListNodes : ToSet(Append(r, e)) = ToSet(r) \cup {e}
    BY AppendQueue
  <2> QED
    BY <2>0, <2>1, QueueMember
<1>3. L \subseteq Task /\ idle_task \in Task \ L /\ c \in L /\ child # c /\ child # idle_task
  BY <1>1, LabTasks DEF Ledger
<1>4. /\ \A t \in Task \ {child} : pid2[t] = pid[t] /\ par2[t] = par[t] /\ pend2[t] = pend[t]
      /\ pid2[child] = p /\ par2[child] = c /\ pend2[child] = pend[c]
  BY <1>1
<1>5. /\ J[c] = Append(K[c], Anchor(child)) /\ J[child] = <<>>
      /\ \A t \in L \ {c} : J[t] = K[t]
  BY <1>1, <1>3 DEF Born, Newborn
<1>6. K[c] \in Seq(Anchors) /\ Anchor(child) \in Anchors
  BY <1>1, QueueMember
<1>7. ToSet(J[c]) = ToSet(K[c]) \cup {Anchor(child)} /\ ToSet(J[child]) = {}
  <2>1. ToSet(Append(K[c], Anchor(child))) = ToSet(K[c]) \cup {Anchor(child)}
    BY <1>6, AppendQueue
  <2>2. ToSet(<<>>) = {}
    BY EmptySeq DEF ToSet
  <2> QED
    BY <2>1, <2>2, <1>5
<1> HIDE DEF g, q, J, pid2, par2, pend2
<1>8. \A t : Anchor(t) \in ToSet(J[c]) <=> Anchor(t) \in ToSet(K[c]) \/ t = child
  BY <1>7, QueueMember
<1>9. M = {t \in Task \ {idle_task} : ListNode(t) \notin ToSet(g)}
  <2>1. L = {t \in Task \ {idle_task} : ListNode(t) \notin ToSet(f)}
    BY DEF Ledger
  <2> QED
    BY <1>1, <2>1
<1>10. {c} \subseteq M \cup {idle_task} /\ ListNode(idle_task) \notin ToSet(g)
  BY <1>1, <1>3 DEF Ledger
<1>11. \A t \in {c, idle_task} : ListNode(t) \notin ToSet(q) /\ ~(pend2[t] < 0)
  BY <1>2, <1>3, <1>4 DEF Ledger
<1>12. \A t \in Task : pend2[t] < 0 => t \in M /\ ListNode(t) \notin ToSet(q)
  <2>1. ~(pend2[child] < 0)
    BY <1>4 DEF Ledger
  <2> QED
    BY <2>1, <1>2, <1>4 DEF Ledger
<1>13. \A t \in M : ListNode(t) \in ToSet(q) \/ t \in {c} \/ pend2[t] < 0
  BY <1>1, <1>2, <1>3, <1>4 DEF Ledger
<1>14. pid2[idle_task] = 0
  BY <1>3, <1>4 DEF Ledger
<1>15. ASSUME NEW t \in M
       PROVE  /\ pid2[t] # 0 /\ par2[t] \in (M \cup {idle_task}) \ {t}
              /\ par2[t] # idle_task => Anchor(t) \in ToSet(J[par2[t]])
  <2>1. CASE t = child
    BY <2>1, <1>3, <1>4, <1>8
  <2>2. CASE t # child
    <3>1. t \in L /\ t \in Task
      BY <2>2, <1>3
    <3>2. /\ pid[t] # 0 /\ par[t] \in (L \cup {idle_task}) \ {t}
          /\ par[t] # idle_task => Anchor(t) \in ToSet(K[par[t]])
      BY <3>1 DEF Ledger
    <3>3. par2[t] = par[t] /\ pid2[t] = pid[t]
      BY <2>2, <3>1, <1>4
    <3>4. ASSUME par[t] # idle_task PROVE Anchor(t) \in ToSet(J[par[t]])
      <4>1. CASE par[t] = c
        BY <4>1, <3>2, <3>4, <1>8
      <4>2. CASE par[t] # c
        BY <4>2, <3>2, <3>4, <1>5
      <4> QED
        BY <4>1, <4>2
    <3> QED
      BY <3>2, <3>3, <3>4
  <2> QED
    BY <2>1, <2>2
<1>16. ASSUME NEW h \in M, NEW t \in Task, Anchor(t) \in ToSet(J[h])
       PROVE  t \in M /\ par2[t] = h
  <2>1. h # child
    BY <1>7, <1>16
  <2>2. h \in L
    BY <2>1
  <2>3. CASE h = c /\ t = child
    BY <2>3, <1>3, <1>4
  <2>4. CASE ~(h = c /\ t = child)
    <3>1. Anchor(t) \in ToSet(K[h])
      BY <2>2, <2>4, <1>5, <1>8, <1>16
    <3>2. t \in L /\ par[t] = h
      BY <2>2, <3>1 DEF Ledger
    <3>3. t # child
      BY <3>2, <1>1
    <3> QED
      BY <3>2, <3>3, <1>4
  <2> QED
    BY <2>3, <2>4
<1>17. Ledger(g, q, J, M, {c}, pid2, par2, pend2)
  BY <1>9, <1>10, <1>11, <1>12, <1>13, <1>14, <1>15, <1>16 DEF Ledger
<1> QED
  BY <1>17 DEF g, q, J, pid2, par2, pend2

\* The children of c become idle's.
LEMMA LedgerExited ==
  ASSUME NEW f \in Seq(ListNodes), NEW r, NEW K, NEW L, NEW c \in Task, NEW pid, NEW par, NEW pend,
         Ledger(f, r, K, L, {c}, pid, par, pend), c # idle_task,
         NEW J, \A t \in L \ {c} : ToSet(J[t]) = ToSet(K[t]) \ {Anchor(c)},
         NEW par2, \A t \in Task :
           par2[t] = IF Anchor(t) \in ToSet(K[c]) THEN idle_task ELSE par[t]
  PROVE  Ledger(Append(f, ListNode(c)), r, J, L \ {c}, {}, pid, par2, pend)
<1> DEFINE g == Append(f, ListNode(c))
           M == L \ {c}
<1>1. L \subseteq Task \ {idle_task} /\ c \in L /\ idle_task \in Task
  BY LabTasks DEF Ledger
<1>2. \A t : ListNode(t) \in ToSet(g) <=> ListNode(t) \in ToSet(f) \/ t = c
  <2>1. ToSet(g) = ToSet(f) \cup {ListNode(c)}
    BY QueueMember, AppendQueue
  <2> QED
    BY <2>1, QueueMember
<1> HIDE DEF g
<1>3. \A t \in M : \A u : Anchor(u) \in ToSet(J[t]) <=> Anchor(u) \in ToSet(K[t]) /\ u # c
  BY QueueMember
<1>4. M = {t \in Task \ {idle_task} : ListNode(t) \notin ToSet(g)}
  BY <1>2 DEF Ledger
<1>5. /\ ListNode(idle_task) \notin ToSet(g) /\ pid[idle_task] = 0
      /\ ListNode(idle_task) \notin ToSet(r) /\ ~(pend[idle_task] < 0)
  BY <1>2 DEF Ledger
<1>6. \A t \in Task : pend[t] < 0 => t \in M /\ ListNode(t) \notin ToSet(r)
  BY DEF Ledger
<1>7. \A t \in M : ListNode(t) \in ToSet(r) \/ pend[t] < 0
  BY DEF Ledger
<1>8. ASSUME NEW t \in M
      PROVE  /\ pid[t] # 0 /\ par2[t] \in (M \cup {idle_task}) \ {t}
             /\ par2[t] # idle_task => Anchor(t) \in ToSet(J[par2[t]])
  <2>1. /\ pid[t] # 0 /\ par[t] \in (L \cup {idle_task}) \ {t}
        /\ par[t] # idle_task => Anchor(t) \in ToSet(K[par[t]])
    BY DEF Ledger
  <2>2. CASE Anchor(t) \in ToSet(K[c])
    BY <2>1, <2>2, <1>1
  <2>3. CASE Anchor(t) \notin ToSet(K[c])
    <3>1. par2[t] = par[t] /\ par[t] # c
      BY <2>1, <2>3, <1>1
    <3> QED
      BY <2>1, <3>1, <1>3
  <2> QED
    BY <2>2, <2>3
<1>9. ASSUME NEW p \in M, NEW t \in Task, Anchor(t) \in ToSet(J[p])
      PROVE  t \in M /\ par2[t] = p
  <2>1. t # c /\ Anchor(t) \in ToSet(K[p])
    BY <1>3, <1>9
  <2>2. t \in L /\ par[t] = p
    BY <2>1 DEF Ledger
  <2>3. Anchor(t) \notin ToSet(K[c])
    BY <2>2, <1>1 DEF Ledger
  <2> QED
    BY <2>1, <2>2, <2>3
<1>10. Ledger(g, r, J, M, {}, pid, par2, pend)
  BY <1>4, <1>5, <1>6, <1>7, <1>8, <1>9 DEF Ledger
<1> QED
  BY <1>10 DEF g

-----------------------------------------------------------------------------
(* What the invariant says of the properties *)

LEMMA InUse == LabInv => Live = UsedOf(mem) \cup {idle_task} /\ idle_task \notin UsedOf(mem)
<1> SUFFICES ASSUME LabInv
             PROVE  Live = UsedOf(mem) \cup {idle_task} /\ idle_task \notin UsedOf(mem)
  OBVIOUS
<1> DEFINE f == FreeOf(mem)
<1>1. f \in Seq(ListNodes) /\ ListNode(idle_task) \notin ToSet(f)
  BY DEF LabInv, Sound, Holds, Ledger
<1>2. InQueue(freequeue) = {StructOf(n) : n \in ToSet(f)}
  BY DEF InQueue, FreeOf, ToSet, Range
<1>3. ToSet(f) \subseteq ListNodes
  BY <1>1, ToSetIn
<1> HIDE DEF f
<1>4. \A t \in Task : t \in InQueue(freequeue) <=> ListNode(t) \in ToSet(f)
  BY <1>2, <1>3, QueueMember, LabNodes
<1> QED
  BY <1>1, <1>4, LabTasks DEF Live, UsedOf, f

LEMMA InvConserves == LabInv => StructsConserved
<1> SUFFICES ASSUME LabInv PROVE StructsConserved
  OBVIOUS
<1> DEFINE f == FreeOf(mem)
           r == ReadyOf(mem)
           K == KidsOf(mem)
           L == UsedOf(mem)
<1>1. /\ Holds(mem, f, r, K, L)
      /\ Ledger(f, r, K, L, {current}, PID, parent, pending_unblocks) /\ ~crashed
  BY DEF LabInv, Sound
<1>2. Entries(mem, freequeue) = f /\ Entries(mem, readyqueue) = r
  BY DEF FreeOf, ReadyOf
<1> HIDE DEF f, r, K, L
<1>3. /\ f \in Seq(Node) /\ ToSet(f) \subseteq ListNodes
      /\ r \in Seq(Node) /\ ToSet(r) \subseteq ListNodes
  BY <1>1, HoldFacts
<1>4. Returns(mem, freequeue) /\ Returns(mem, readyqueue)
  BY <1>1, HoldLists
<1>5. /\ InQueue(freequeue) = {t \in Task : ListNode(t) \in ToSet(f)}
      /\ InQueue(readyqueue) = {t \in Task : ListNode(t) \in ToSet(r)}
  <2>1. /\ InQueue(freequeue) = {StructOf(n) : n \in ToSet(f)}
        /\ InQueue(readyqueue) = {StructOf(n) : n \in ToSet(r)}
    BY <1>2 DEF InQueue, ToSet, Range
  <2>2. {StructOf(n) : n \in ToSet(f)} = {t \in Task : ListNode(t) \in ToSet(f)}
    BY <1>3, QueueMember, LabNodes
  <2>3. {StructOf(n) : n \in ToSet(r)} = {t \in Task : ListNode(t) \in ToSet(r)}
    BY <1>3, QueueMember, LabNodes
  <2> QED
    BY <2>1, <2>2, <2>3
<1>6. ToSet(f) \cap ToSet(r) = {}
  BY <1>1 DEF Holds
<1>7. Waiting = {t \in Task : pending_unblocks[t] < 0}
  BY DEF Waiting
<1> DEFINE free == InQueue(freequeue)
           ready == InQueue(readyqueue)
           inuse == {idle_task, current} \cup Waiting
<1>8. /\ free \cup ready \cup inuse = Task /\ free \cap ready = {}
      /\ (free \cup ready) \cap inuse = {} /\ current \notin Waiting
  <2> HIDE DEF free, ready
  <2>1. /\ free = {t \in Task : ListNode(t) \in ToSet(f)}
        /\ ready = {t \in Task : ListNode(t) \in ToSet(r)}
    BY <1>5 DEF free, ready
  <2>2. /\ current \in L \cup {idle_task} /\ idle_task \in Task /\ L \subseteq Task
        /\ L \cup {idle_task} = {t \in Task : ListNode(t) \notin ToSet(f)}
    BY <1>1, LabTasks DEF Ledger
  <2>3. \A t \in Waiting \cup {current, idle_task} :
          t \in L \cup {idle_task} /\ ListNode(t) \notin ToSet(r)
    BY <1>1, <1>7 DEF Ledger
  <2>4. current \notin Waiting
    BY <1>1, <1>7 DEF Ledger
  <2>5. \A t \in L : t \in ready \cup inuse
    BY <1>1, <1>7, <2>1, <2>2 DEF Ledger
  <2>6. free \cap ready = {}
    BY <2>1, <1>6
  <2>7. free \cup ready \cup inuse = Task
    BY <2>1, <2>2, <2>3, <2>5
  <2>8. (free \cup ready) \cap inuse = {}
    BY <2>1, <2>2, <2>3
  <2> QED
    BY <2>4, <2>6, <2>7, <2>8
<1>9. /\ Range(Entries(mem, freequeue)) = ToSet(f) /\ Range(Entries(mem, readyqueue)) = ToSet(r)
  BY <1>2 DEF ToSet, Range
<1>10. /\ \A n \in ToSet(f) \cup {freequeue} :
            mem.prev[mem.next[n]] = n /\ mem.next[mem.prev[n]] = n
       /\ \A n \in ToSet(r) \cup {readyqueue} :
            mem.prev[mem.next[n]] = n /\ mem.next[mem.prev[n]] = n
  BY <1>1, <1>3, ChainFacts DEF Holds
<1> QED
  BY <1>1, <1>4, <1>8, <1>9, <1>10 DEF StructsConserved

LEMMA InvFamilies == LabInv => FamilyTree
<1> SUFFICES ASSUME LabInv PROVE FamilyTree
  OBVIOUS
<1> DEFINE f == FreeOf(mem)
           r == ReadyOf(mem)
           K == KidsOf(mem)
           L == UsedOf(mem)
<1>1. /\ Holds(mem, f, r, K, L)
      /\ Ledger(f, r, K, L, {current}, PID, parent, pending_unblocks)
      /\ Live \ {idle_task} = L /\ Live = L \cup {idle_task}
  BY InUse DEF LabInv, Sound
<1> HIDE DEF f, r, K, L
<1>2. \A t \in L : parent[t] \in Live
  BY <1>1 DEF Ledger
<1>3. ASSUME NEW p \in L
      PROVE  /\ Returns(mem, Children(p))
             /\ InQueue(Children(p)) = {t \in L : parent[t] = p}
  <2>1. Returns(mem, Children(p)) /\ Entries(mem, Children(p)) = K[p]
    BY <1>1, HoldLists
  <2>2. InQueue(Children(p)) = {StructOf(n) : n \in ToSet(K[p])}
    BY <2>1 DEF InQueue, ToSet, Range
  <2>3. ToSet(K[p]) \subseteq Anchors /\ L \subseteq Task
    BY <1>1, HoldFacts DEF Holds
  <2>4. \A t \in Task : Anchor(t) \in ToSet(K[p]) <=> t \in L /\ parent[t] = p
    BY <1>1, <1>3, LabTasks DEF Ledger
  <2>5. {StructOf(n) : n \in ToSet(K[p])} = {t \in Task : Anchor(t) \in ToSet(K[p])}
    BY <2>3, QueueMember, LabNodes
  <2>6. {t \in Task : Anchor(t) \in ToSet(K[p])} = {t \in L : parent[t] = p}
    BY <2>3, <2>4
  <2> QED
    BY <2>1, <2>2, <2>5, <2>6
<1> QED
  BY <1>1, <1>2, <1>3 DEF FamilyTree

-----------------------------------------------------------------------------
(* The steps *)

\* The queue when its first node has been taken, if it has one
Rest(r) == IF r = <<>> THEN r ELSE RemoveAt(r, 1)
Chosen(r) == IF r = <<>> THEN idle_task ELSE StructOf(r[1])

LEMMA Dispatched ==
  ASSUME NEW m, NEW f, NEW r, NEW K, NEW L, NEW pid, NEW par, NEW pend,
         Holds(m, f, r, K, L), Ledger(f, r, K, L, {}, pid, par, pend),
         NEW rem \in [Task -> 0 .. QUANTUM], sched_next_rr(m, rem)
  PROVE  /\ crashed' = FALSE /\ remaining_ticks' \in [Task -> 0 .. QUANTUM]
         /\ current' = Chosen(r) /\ current' \in Task
         /\ Holds(mem', f, Rest(r), K, L) /\ SameAnchors(m, mem')
         /\ Ledger(f, Rest(r), K, L, {current'}, pid, par, pend)
<1> DEFINE first == list_first(m, readyqueue)
           next == IF list_empty(m, readyqueue) THEN idle_task ELSE StructOf(first)
<1>1. /\ r \in Seq(ListNodes) /\ Chained(m, readyqueue, r) /\ NullSafe(m) /\ IsInjective(r)
      /\ ToSet(f) \cap ToSet(r) = {}
  BY DEF Holds, Chained
<1>2. \A t \in Task : quantum(t) \in 0 .. QUANTUM
  BY LabAssumption DEF quantum
<1>3. ASSUME NEW t \in Task PROVE [rem EXCEPT ![t] = quantum(t)] \in [Task -> 0 .. QUANTUM]
  BY <1>2
<1>4. CASE r = <<>>
  <2>1. list_empty(m, readyqueue)
    BY <1>1, <1>4, ChainEnds DEF list_empty
  <2>2. /\ mem' = Unlink(m, idle_task) /\ crashed' = WroteNull(mem') /\ current' = idle_task
        /\ remaining_ticks' = [rem EXCEPT ![idle_task] = quantum(idle_task)]
    BY <2>1 DEF sched_next_rr
  <2>3. mem' = m
    BY <2>2 DEF Unlink
  <2>4. crashed' = FALSE
    BY <1>1, <2>2, <2>3 DEF WroteNull, NullSafe
  <2>5. Ledger(f, r, K, L, {idle_task}, pid, par, pend)
    BY LedgerIdle
  <2>6. Rest(r) = r /\ Chosen(r) = idle_task
    BY <1>4 DEF Rest, Chosen
  <2> QED
    BY <1>3, <2>2, <2>3, <2>4, <2>5, <2>6, LabTasks DEF SameAnchors
<1>5. CASE r # <<>>
  <2>1. ~list_empty(m, readyqueue) /\ first = r[1] /\ r[1] \in ToSet(r) /\ 1 \in 1 .. Len(r)
    <3>1. m.next[readyqueue] = r[1] /\ r[1] \in ToSet(r) /\ readyqueue \notin ToSet(r)
      BY <1>1, <1>5, ChainEnds DEF Chained
    <3>2. 1 \in 1 .. Len(r)
      BY <1>1, <1>5, EmptySeq, LenProperties
    <3> QED
      BY <3>1, <3>2 DEF list_empty, list_first
  <2>2. first \in InStruct
    <3>1. first \in ListNodes
      BY <1>1, <2>1, ToSetIn
    <3> QED
      BY <3>1 DEF ListNodes, ListNode, InStruct
  <2> DEFINE t == StructOf(r[1])
  <2>3. /\ mem' = Unlink(m, t) /\ crashed' = WroteNull(mem') /\ current' = t
        /\ remaining_ticks' = [rem EXCEPT ![t] = quantum(t)]
    BY <2>1, <2>2 DEF sched_next_rr
  <2>4. /\ t \in Task \ {idle_task} /\ ListNode(t) = r[1]
        /\ Ledger(f, RemoveAt(r, 1), K, L, {t}, pid, par, pend)
    BY <1>1, <2>1, LedgerDispatched
  <2> HIDE DEF t
  <2>5. mem' = list_del(m, r[1])
    BY <2>3, <2>4 DEF Unlink
  <2>6. Holds(mem', f, RemoveAt(r, 1), K, L) /\ SameAnchors(m, mem')
    BY <2>1, <2>5, HoldReadyTaken
  <2>7. crashed' = FALSE
    BY <2>3, <2>6 DEF WroteNull, NullSafe, Holds
  <2>8. Rest(r) = RemoveAt(r, 1) /\ Chosen(r) = t
    BY <1>5 DEF Rest, Chosen, t
  <2> QED
    BY <1>3, <2>3, <2>4, <2>6, <2>7, <2>8
<1> QED
  BY <1>4, <1>5

\* The lists and the fields, for a step from a state of the invariant
LEMMA InvFacts ==
  ASSUME LabInv
  PROVE  LET f == FreeOf(mem)
             r == ReadyOf(mem)
             K == KidsOf(mem)
             L == UsedOf(mem)
         IN /\ Holds(mem, f, r, K, L)
            /\ Ledger(f, r, K, L, {current}, PID, parent, pending_unblocks)
            /\ f \in Seq(ListNodes) /\ r \in Seq(ListNodes) /\ K \in [Task -> Seq(Anchors)]
            /\ IsInjective(f) /\ IsInjective(r) /\ ToSet(f) \cap ToSet(r) = {}
            /\ current \in L \cup {idle_task} /\ current \in Task /\ L \subseteq Task
            /\ Loose(mem, L, parent)
            /\ mem \in LabMemory /\ NullSafe(mem) /\ ~crashed /\ ~tangled
BY LabTasks DEF LabInv, Sound, Holds, Ledger, Chained

LEMMA InvTypes ==
  ASSUME LabInv
  PROVE  /\ LabTypeOK /\ ~crashed /\ ~tangled
         /\ pending_unblocks \in [Task -> -1 .. MaxPending] /\ pending_unblocks \in [Task -> Int]
BY LabAssumption DEF LabInv, LabTypeOK

LEMMA MemoryTyped ==
  ASSUME NEW m \in LabMemory
  PROVE  m.next \in [Memory -> Address] /\ m.prev \in [Memory -> Address]
BY DEF LabMemory

\* The ready queue with the process that gives the CPU away
Preempted == IF current = idle_task THEN ReadyOf(mem)
             ELSE Append(ReadyOf(mem), ListNode(current))

LEMMA ClockInv ==
  ASSUME LabInv, ClockInterrupt
  PROVE  /\ LabInv'
         /\ \/ UNCHANGED <<mem, current>>
            \/ LET r == Preempted IN
                /\ ReadyOf(mem) # <<>> /\ current' = Chosen(r)
                /\ ListsAre(mem', FreeOf(mem), Rest(r), KidsOf(mem), UsedOf(mem))
<1> DEFINE f == FreeOf(mem)
           r == ReadyOf(mem)
           K == KidsOf(mem)
           L == UsedOf(mem)
           rem == [remaining_ticks EXCEPT ![current] = TicksLeft]
           queued == IF PID[current] # 0 THEN list_add_tail(mem, ListNode(current), readyqueue)
                     ELSE mem
           q == Preempted
<1>1. /\ Holds(mem, f, r, K, L)
      /\ Ledger(f, r, K, L, {current}, PID, parent, pending_unblocks)
      /\ r \in Seq(ListNodes) /\ current \in L \cup {idle_task} /\ current \in Task
      /\ Loose(mem, L, parent) /\ L \subseteq Task /\ mem \in LabMemory /\ ~crashed
  BY InvFacts
<1>2. LabTypeOK /\ ~tangled /\ pending_unblocks \in [Task -> -1 .. MaxPending]
  BY InvTypes
<1>3. UNCHANGED <<PID, parent, pending_unblocks, frames, BASE_PID, tangled>>
  BY DEF ClockInterrupt
<1>4. rem \in [Task -> 0 .. QUANTUM]
  BY <1>1, <1>2, LabAssumption DEF LabTypeOK, TicksLeft
<1>5. CASE needs_sched_rr
  <2>1. sched_next_rr(queued, rem)
    BY <1>5 DEF ClockInterrupt, schedule
  <2> HIDE DEF f, r, K, L, rem
  <2>2. /\ Holds(queued, f, q, K, L) /\ SameAnchors(mem, queued)
        /\ Ledger(f, q, K, L, {}, PID, parent, pending_unblocks)
    <3>1. CASE PID[current] # 0
      <4>1. current # idle_task
        BY <3>1, <1>1 DEF Ledger
      <4>2. ListNode(current) \in ListNodes /\ ListNode(current) \notin ToSet(f) \cup ToSet(r)
        BY <1>1, QueueMember DEF Ledger
      <4>a. /\ q = Append(r, ListNode(current))
            /\ queued = list_add_tail(mem, ListNode(current), readyqueue)
        BY <3>1, <4>1 DEF Preempted, r
      <4> HIDE DEF q, queued
      <4>3. Holds(queued, f, q, K, L) /\ SameAnchors(mem, queued)
        BY <1>1, <4>a, <4>2, HoldReady
      <4>4. Ledger(f, q, K, L, {}, PID, parent, pending_unblocks)
        BY <1>1, <4>a, <4>1, LedgerQueued
      <4> QED
        BY <4>3, <4>4
    <3>2. CASE PID[current] = 0
      <4>1. current = idle_task
        BY <3>2, <1>1 DEF Ledger
      <4>2. q = r /\ queued = mem
        BY <3>2, <4>1 DEF Preempted, r
      <4>3. Ledger(f, r, K, L, {}, PID, parent, pending_unblocks)
        BY <1>1, <4>1, LedgerIdle
      <4> HIDE DEF q, queued
      <4> QED
        BY <1>1, <4>2, <4>3 DEF SameAnchors
    <3> QED
      BY <3>1, <3>2
  <2> HIDE DEF queued, q
  <2>3. /\ crashed' = FALSE /\ remaining_ticks' \in [Task -> 0 .. QUANTUM] /\ current' \in Task
        /\ Holds(mem', f, Rest(q), K, L) /\ current' = Chosen(q)
        /\ SameAnchors(queued, mem')
        /\ Ledger(f, Rest(q), K, L, {current'}, PID, parent, pending_unblocks)
    BY <2>1, <2>2, <1>4, Dispatched
  <2>b. Loose(mem', L, parent)
    BY <1>1, <2>2, <2>3, LooseSame
  <2>4. Sound(mem', current', PID, parent, pending_unblocks) /\ ListsAre(mem', f, Rest(q), K, L)
    BY <2>3, <2>b, SoundFrom
  <2>a. r # <<>>
    <3>1. mem.next[readyqueue] # readyqueue
      BY <1>5 DEF needs_sched_rr, list_empty
    <3>2. Chained(mem, readyqueue, r)
      BY <1>1 DEF Holds
    <3> QED
      BY <1>1, <3>1, <3>2, ChainEnds
  <2>5. LabTypeOK'
    <3>1. mem' \in LabMemory
      BY <2>3 DEF Holds
    <3> QED
      BY <1>2, <1>3, <2>3, <3>1, MemoryTyped DEF LabTypeOK
  <2>6. LabInv'
    BY <1>2, <1>3, <2>3, <2>4, <2>5 DEF LabInv
  <2> QED
    BY <2>3, <2>4, <2>a, <2>6 DEF f, r, K, L, q
<1>6. CASE ~needs_sched_rr
  <2>1. remaining_ticks' = rem /\ UNCHANGED <<mem, current, crashed>>
    BY <1>6 DEF ClockInterrupt, schedule
  <2>2. LabTypeOK'
    BY <1>2, <1>3, <1>4, <2>1 DEF LabTypeOK
  <2> QED
    BY <1>1, <1>2, <1>3, <2>1, <2>2 DEF LabInv
<1> QED
  BY <1>5, <1>6
\* A fork that takes no struct to which an orphan points
LEMMA ForkInv ==
  ASSUME LabInv, sys_fork, ~tangled'
  PROVE  LET f == FreeOf(mem)
             child == StructOf(f[1])
         IN /\ LabInv' /\ f # <<>> /\ child \in Task \ (UsedOf(mem) \cup {idle_task})
            /\ current \in UsedOf(mem)
            /\ ListsAre(mem', RemoveAt(f, 1), Append(ReadyOf(mem), ListNode(child)),
                        Born(KidsOf(mem), child, current), UsedOf(mem) \cup {child})
            /\ current' = current
            /\ pending_unblocks' = [pending_unblocks EXCEPT ![child] = pending_unblocks[current]]
<1> DEFINE f == FreeOf(mem)
           r == ReadyOf(mem)
           K == KidsOf(mem)
           L == UsedOf(mem)
           node == list_first(mem, freequeue)
           child == StructOf(node)
           m0 == list_del(mem, node)
           m1 == CopyStruct(m0, current, child)
           m2 == INIT_LIST_HEAD(m1, Children(child))
           m3 == list_add_tail(m2, Anchor(child), Children(current))
           m4 == list_add_tail(m3, ListNode(child), readyqueue)
           J == Newborn(K, child)
           M == L \cup {child}
<1>1. /\ Holds(mem, f, r, K, L)
      /\ Ledger(f, r, K, L, {current}, PID, parent, pending_unblocks)
      /\ f \in Seq(ListNodes) /\ r \in Seq(ListNodes) /\ K \in [Task -> Seq(Anchors)]
      /\ IsInjective(f) /\ ToSet(f) \cap ToSet(r) = {}
      /\ current \in L \cup {idle_task} /\ current \in Task /\ L \subseteq Task
      /\ Loose(mem, L, parent)
  BY InvFacts
<1>2. LabTypeOK /\ ~tangled /\ pending_unblocks \in [Task -> -1 .. MaxPending]
  BY InvTypes
<1>3. /\ ~list_empty(mem, freequeue) /\ current # idle_task /\ BASE_PID <= MaxPID /\ frames > 0
      /\ mem' = m4 /\ crashed' = WroteNull(m4)
      /\ PID' = [PID EXCEPT ![child] = BASE_PID]
      /\ parent' = [parent EXCEPT ![child] = current]
      /\ pending_unblocks' = [pending_unblocks EXCEPT ![child] = pending_unblocks[current]]
      /\ remaining_ticks' = [remaining_ticks EXCEPT ![child] = remaining_ticks[current]]
      /\ frames' = frames - 1 /\ BASE_PID' = BASE_PID + 1 /\ UNCHANGED current
      /\ tangled' = FALSE /\ ~StillLinked(child)
  BY <1>2 DEF sys_fork, InProcess
<1>a. current \in L /\ Live = L \cup {idle_task}
  BY <1>1, <1>3, InUse
<1> HIDE DEF f, r, K, L
<1>4. f # <<>> /\ node = f[1] /\ 1 \in 1 .. Len(f)
  <2>1. Chained(mem, freequeue, f)
    BY <1>1 DEF Holds
  <2>2. f # <<>> /\ mem.next[freequeue] = f[1]
    BY <1>1, <1>3, <2>1, ChainEnds DEF list_empty
  <2> QED
    BY <1>1, <2>2, EmptySeq, LenProperties DEF list_first
<1>5. /\ child \in Task \ (L \cup {idle_task}) /\ f[1] = ListNode(child) /\ f[1] \in ListNodes /\ f[1] \notin ToSet(r)
      /\ f[1] \notin ToSet(RemoveAt(f, 1)) /\ \A t \in L : Anchor(child) \notin ToSet(K[t])
  BY <1>1, <1>4, FreeStruct
<1> HIDE DEF node
<1>6. Holds(m0, RemoveAt(f, 1), r, K, L) /\ SameAnchors(mem, m0)
  BY <1>1, <1>4, HoldFreeTaken
<1> HIDE DEF m0, child
<1>7. /\ Holds(m1, RemoveAt(f, 1), r, K, L)
      /\ Same(m0, m1, {ListNode(child), Anchor(child), Children(child)})
  BY <1>1, <1>5, <1>6, HoldCopied
<1> HIDE DEF m1
<1>8. Holds(m2, RemoveAt(f, 1), r, J, M) /\ Same(m1, m2, {Children(child)})
  BY <1>5, <1>7, HoldNew DEF Newborn
<1> HIDE DEF m2
<1>9. /\ Holds(m3, RemoveAt(f, 1), r, Born(K, child, current), M)
      /\ Same(m2, m3, ToSet(K[current]) \cup {Children(current), Anchor(child)})
  <2>1. J[child] = <<>> /\ \A t \in L : J[t] = K[t]
    BY <1>1, <1>5 DEF Newborn
  <2>2. ToSet(J[child]) = {}
    BY <2>1, EmptySeq DEF ToSet
  <2> HIDE DEF J
  <2>3. \A t \in M : Anchor(child) \notin ToSet(J[t])
    BY <1>5, <2>1, <2>2
  <2>4. current \in M /\ Anchor(child) \in Anchors /\ J[current] = K[current]
    BY <1>a, <1>5, <2>1, QueueMember
  <2>5. /\ Holds(m3, RemoveAt(f, 1), r, [J EXCEPT ![current] = Append(@, Anchor(child))], M)
        /\ Same(m2, m3, ToSet(J[current]) \cup {Children(current), Anchor(child)})
    BY <1>8, <2>3, <2>4, HoldChild
  <2> QED
    BY <2>4, <2>5 DEF J, Born
<1> HIDE DEF m3
<1>10. /\ Holds(m4, RemoveAt(f, 1), Append(r, ListNode(child)), Born(K, child, current), M)
       /\ SameAnchors(m3, m4)
  BY <1>5, <1>9, HoldReady
<1> HIDE DEF m4
<1>11. /\ PID \in [Task -> Int] /\ parent \in [Task -> Int] /\ pending_unblocks \in [Task -> Int]
       /\ BASE_PID \in Int /\ BASE_PID # 0
  BY <1>2, LabTasks DEF LabTypeOK, NoParent
<1>12. Ledger(RemoveAt(f, 1), Append(r, ListNode(child)), Born(K, child, current), M, {current},
              PID', parent', pending_unblocks')
  BY <1>1, <1>3, <1>4, <1>11, LedgerForked DEF child
<1>b. Loose(mem', M, parent')
  <2> SUFFICES ASSUME NEW t \in M, parent'[t] = idle_task
               PROVE  /\ t \in L /\ parent[t] = idle_task
                      /\ m4.next[Anchor(t)] = mem.next[Anchor(t)]
                      /\ m4.prev[Anchor(t)] = mem.prev[Anchor(t)]
                      /\ \A u \in Task \ L : mem.next[Anchor(t)] = Children(u) => u \notin M
    BY <1>1, <1>3 DEF Loose
  <2>1. t \in L /\ t # child /\ t \in Task /\ parent[t] = idle_task
    BY <1>1, <1>3, <1>5, <1>11
  <2>2. Anchor(t) \in Anchors /\ Anchor(t) \in Memory
    BY <2>1, QueueMember, LabNodes
  <2>3. Anchor(t) \notin ToSet(K[current])
    BY <1>1, <1>3, <1>a, <2>1 DEF Ledger
  <2>4. Anchor(t) \notin {ListNode(child), Anchor(child), Children(child), Children(current)}
    BY <2>1, LabNodes
  <2>5. mem.next[Anchor(t)] # Children(child)
    BY <1>3, <1>a, <2>1 DEF StillLinked
  <2> QED
    BY <1>6, <1>7, <1>8, <1>9, <1>10, <2>1, <2>2, <2>3, <2>4, <2>5 DEF Same, SameAnchors
<1>13. /\ Sound(mem', current', PID', parent', pending_unblocks')
       /\ ListsAre(mem', RemoveAt(f, 1), Append(r, ListNode(child)), Born(K, child, current), M)
  BY <1>3, <1>b, <1>10, <1>12, SoundFrom
<1>14. crashed' = FALSE /\ mem' \in LabMemory
  BY <1>3, <1>10 DEF WroteNull, NullSafe, Holds
<1>15. LabTypeOK'
  <2>1. child \in Task
    BY <1>5
  <2>2. PID' \in [Task -> 0 .. MaxPID] /\ BASE_PID' \in 2 .. (MaxPID + 1)
    <3>1. PID \in [Task -> 0 .. MaxPID] /\ BASE_PID \in 2 .. (MaxPID + 1) /\ MaxPID \in Nat
      BY <1>2, LabAssumption DEF LabTypeOK
    <3>2. BASE_PID \in 0 .. MaxPID /\ BASE_PID + 1 \in 2 .. (MaxPID + 1)
      BY <3>1, <1>3
    <3> QED
      BY <3>1, <3>2, <1>3
  <2>3. parent' \in [Task -> Task \cup {NoParent}]
    BY <1>1, <1>2, <1>3 DEF LabTypeOK
  <2>4. /\ pending_unblocks' \in [Task -> -1 .. MaxPending]
        /\ remaining_ticks' \in [Task -> 0 .. QUANTUM]
    BY <1>1, <1>2, <1>3 DEF LabTypeOK
  <2>5. frames' \in Nat
    BY <1>2, <1>3 DEF LabTypeOK
  <2> QED
    BY <1>2, <1>3, <1>14, <2>2, <2>3, <2>4, <2>5, MemoryTyped DEF LabTypeOK
<1>16. LabInv'
  BY <1>3, <1>13, <1>14, <1>15 DEF LabInv
<1> QED
  BY <1>3, <1>a, <1>4, <1>5, <1>13, <1>16 DEF f, r, K, L, child

LEMMA PutBack ==
  ASSUME NEW S, NEW f \in Seq(S), f # <<>>
  PROVE  Push(f[1], RemoveAt(f, 1)) = f
<1> DEFINE n == Len(f)
           g == RemoveAt(f, 1)
<1>1. n \in Nat /\ n >= 1 /\ DOMAIN f = 1 .. n /\ 1 \in DOMAIN f /\ f[1] \in S
  <2>1. n \in Nat /\ DOMAIN f = 1 .. n /\ n # 0
    BY LenProperties, EmptySeq
  <2> QED
    BY <2>1, ElementOfSeq
<1>2. /\ g \in Seq(S) /\ Len(g) = n - 1
      /\ \A j \in 1 .. n - 1 : g[j] = IF j < 1 THEN f[j] ELSE f[j + 1]
  BY <1>1, RemoveAtElements
<1>3. f = [j \in 1 .. n |-> f[j]]
  BY <1>1, LenProperties
<1> HIDE DEF g, n
<1>4. <<f[1]>> \o g = [j \in 1 .. n |-> IF j = 1 THEN f[1] ELSE g[j - 1]]
  <2>1. <<f[1]>> \o g = [j \in 1 .. Len(g) + 1 |-> IF j = 1 THEN f[1] ELSE g[j - 1]]
    BY <1>1, <1>2, PutInFront
  <2>2. Len(g) + 1 = n
    BY <1>1, <1>2
  <2> QED
    BY <2>1, <2>2
<1>5. \A j \in 1 .. n : f[j] = IF j = 1 THEN f[1] ELSE g[j - 1]
  <2> TAKE j \in 1 .. n
  <2>1. CASE j = 1
    BY <2>1
  <2>2. CASE j # 1
    <3>1. j - 1 \in 1 .. n - 1 /\ ~(j - 1 < 1) /\ (j - 1) + 1 = j
      BY <2>2, <1>1
    <3> QED
      BY <2>2, <3>1, <1>2
  <2> QED
    BY <2>1, <2>2
<1>6. [j \in 1 .. n |-> f[j]] = [j \in 1 .. n |-> IF j = 1 THEN f[1] ELSE g[j - 1]]
  BY <1>5
<1> QED
  BY <1>3, <1>4, <1>6 DEF g, Push

LEMMA ForkNoFramesInv ==
  ASSUME LabInv, ForkNoFrames
  PROVE  /\ LabInv' /\ current' = current
         /\ ListsAre(mem', FreeOf(mem), ReadyOf(mem), KidsOf(mem), UsedOf(mem))
         /\ \A t \in UsedOf(mem) : pending_unblocks'[t] = pending_unblocks[t]
         /\ \A t \in Task \ UsedOf(mem) : ~(pending_unblocks'[t] < 0)
<1> DEFINE f == FreeOf(mem)
           r == ReadyOf(mem)
           K == KidsOf(mem)
           L == UsedOf(mem)
           node == list_first(mem, freequeue)
           child == StructOf(node)
           m0 == list_del(mem, node)
           m1 == CopyStruct(m0, current, child)
           m2 == list_add(m1, node, freequeue)
<1>1. /\ Holds(mem, f, r, K, L)
      /\ Ledger(f, r, K, L, {current}, PID, parent, pending_unblocks)
      /\ f \in Seq(ListNodes) /\ r \in Seq(ListNodes)
      /\ IsInjective(f) /\ ToSet(f) \cap ToSet(r) = {}
      /\ current \in Task /\ L \subseteq Task /\ Loose(mem, L, parent)
  BY InvFacts
<1>2. LabTypeOK /\ ~tangled /\ pending_unblocks \in [Task -> -1 .. MaxPending]
  BY InvTypes
<1>3. /\ ~list_empty(mem, freequeue)
      /\ mem' = m2 /\ crashed' = WroteNull(m2)
      /\ PID' = [PID EXCEPT ![child] = PID[current]]
      /\ parent' = [parent EXCEPT ![child] = parent[current]]
      /\ pending_unblocks' = [pending_unblocks EXCEPT ![child] = pending_unblocks[current]]
      /\ remaining_ticks' = [remaining_ticks EXCEPT ![child] = remaining_ticks[current]]
      /\ UNCHANGED <<current, frames, BASE_PID, tangled>>
  BY DEF ForkNoFrames
<1> HIDE DEF f, r, K, L
<1>4. f # <<>> /\ node = f[1] /\ 1 \in 1 .. Len(f)
  <2>1. Chained(mem, freequeue, f)
    BY <1>1 DEF Holds
  <2>2. f # <<>> /\ mem.next[freequeue] = f[1]
    BY <1>1, <1>3, <2>1, ChainEnds DEF list_empty
  <2> QED
    BY <1>1, <2>2, EmptySeq, LenProperties DEF list_first
<1>5. /\ child \in Task \ (L \cup {idle_task}) /\ f[1] = ListNode(child) /\ f[1] \in ListNodes /\ f[1] \notin ToSet(r)
      /\ f[1] \notin ToSet(RemoveAt(f, 1)) /\ \A t \in L : Anchor(child) \notin ToSet(K[t])
  BY <1>1, <1>4, FreeStruct
<1> HIDE DEF node
<1>6. Holds(m0, RemoveAt(f, 1), r, K, L) /\ SameAnchors(mem, m0)
  BY <1>1, <1>4, HoldFreeTaken
<1> HIDE DEF m0, child
<1>7. /\ Holds(m1, RemoveAt(f, 1), r, K, L)
      /\ Same(m0, m1, {ListNode(child), Anchor(child), Children(child)})
  BY <1>1, <1>5, <1>6, HoldCopied
<1> HIDE DEF m1
<1>8. Holds(m2, Push(f[1], RemoveAt(f, 1)), r, K, L) /\ SameAnchors(m1, m2)
  BY <1>4, <1>5, <1>7, HoldFreeFirst
<1>9. Holds(m2, f, r, K, L)
  BY <1>1, <1>4, <1>8, PutBack
<1> HIDE DEF m2
<1>10. /\ \A t \in Task \ {child} : /\ PID'[t] = PID[t] /\ parent'[t] = parent[t]
                                    /\ pending_unblocks'[t] = pending_unblocks[t]
       /\ ~(pending_unblocks'[child] < 0)
  <2>1. ~(pending_unblocks[current] < 0)
    BY <1>1 DEF Ledger
  <2> QED
    BY <1>2, <1>3, <1>5, <2>1 DEF LabTypeOK
<1>11. Ledger(f, r, K, L, {current}, PID', parent', pending_unblocks')
  BY <1>1, <1>5, <1>10, LedgerFree
<1>a. Loose(mem', L, parent')
  <2> SUFFICES ASSUME NEW t \in L, parent'[t] = idle_task
               PROVE  /\ parent[t] = idle_task
                      /\ m2.next[Anchor(t)] = mem.next[Anchor(t)]
                      /\ m2.prev[Anchor(t)] = mem.prev[Anchor(t)]
    BY <1>1, <1>3 DEF Loose
  <2>1. t \in Task \ {child} /\ Anchor(t) \in Anchors /\ Anchor(t) \in Memory
    BY <1>1, <1>5, QueueMember, LabNodes
  <2>2. Anchor(t) \notin {ListNode(child), Anchor(child), Children(child)}
    BY <2>1, LabNodes
  <2> QED
    BY <1>6, <1>7, <1>8, <1>10, <2>1, <2>2 DEF Same, SameAnchors
<1>12. /\ Sound(mem', current', PID', parent', pending_unblocks') /\ ListsAre(mem', f, r, K, L)
  BY <1>3, <1>9, <1>11, <1>a, SoundFrom
<1>13. crashed' = FALSE /\ mem' \in LabMemory
  BY <1>3, <1>9 DEF WroteNull, NullSafe, Holds
<1>14. LabTypeOK'
  BY <1>1, <1>2, <1>3, <1>13, MemoryTyped DEF LabTypeOK
<1>15. LabInv'
  BY <1>2, <1>3, <1>12, <1>13, <1>14 DEF LabInv
<1>16. \A t \in L : t \in Task \ {child}
  BY <1>1, <1>5
<1>17. \A t \in Task \ L : ~(pending_unblocks'[t] < 0)
  BY <1>11 DEF Ledger
<1> QED
  BY <1>3, <1>10, <1>12, <1>15, <1>16, <1>17 DEF f, r, K, L

LEMMA BlockPendingInv ==
  ASSUME LabInv, BlockPending
  PROVE  /\ LabInv' /\ pending_unblocks[current] > 0
         /\ UNCHANGED <<mem, current>>
         /\ pending_unblocks' = [pending_unblocks EXCEPT ![current] = @ - 1]
<1> DEFINE f == FreeOf(mem)
           r == ReadyOf(mem)
           K == KidsOf(mem)
           L == UsedOf(mem)
<1>1. /\ Holds(mem, f, r, K, L)
      /\ Ledger(f, r, K, L, {current}, PID, parent, pending_unblocks)
      /\ current \in Task /\ Loose(mem, L, parent)
  BY InvFacts
<1>2. LabTypeOK /\ ~tangled /\ ~crashed /\ pending_unblocks \in [Task -> -1 .. MaxPending]
  BY InvTypes
<1>3. /\ pending_unblocks[current] # 0
      /\ pending_unblocks' = [pending_unblocks EXCEPT ![current] = @ - 1]
      /\ UNCHANGED <<mem, current, PID, parent, remaining_ticks, frames, BASE_PID, crashed,
                     tangled>>
  BY DEF BlockPending
<1>4. pending_unblocks[current] \in 1 .. MaxPending
  <2>1. ~(pending_unblocks[current] < 0)
    BY <1>1 DEF Ledger
  <2> QED
    BY <1>1, <1>2, <1>3, <2>1, LabAssumption DEF LabTypeOK
<1>5. /\ \A t \in Task : pending_unblocks'[t] < 0 <=> pending_unblocks[t] < 0
      /\ pending_unblocks' \in [Task -> -1 .. MaxPending]
  BY <1>1, <1>2, <1>3, <1>4, LabAssumption DEF LabTypeOK
<1> HIDE DEF f, r, K, L
<1>6. Ledger(f, r, K, L, {current}, PID, parent, pending_unblocks')
  BY <1>1, <1>5, LedgerCounted
<1>7. Sound(mem, current, PID, parent, pending_unblocks')
  BY <1>1, <1>6, SoundFrom
<1>8. LabTypeOK'
  BY <1>2, <1>3, <1>5 DEF LabTypeOK
<1> QED
  BY <1>2, <1>3, <1>4, <1>7, <1>8 DEF LabInv

LEMMA BlockWaitsInv ==
  ASSUME LabInv, BlockWaits, ~tangled'
  PROVE  /\ LabInv' /\ pending_unblocks[current] = 0 /\ current \in UsedOf(mem)
         /\ current' = Chosen(ReadyOf(mem))
         /\ ListsAre(mem', FreeOf(mem), Rest(ReadyOf(mem)), KidsOf(mem), UsedOf(mem))
         /\ pending_unblocks' = [pending_unblocks EXCEPT ![current] = -1]
<1> DEFINE f == FreeOf(mem)
           r == ReadyOf(mem)
           K == KidsOf(mem)
           L == UsedOf(mem)
           last == mem.prev[blocked]
           m == list_add_tail(mem, ListNode(current), blocked)
<1>1. /\ Holds(mem, f, r, K, L)
      /\ Ledger(f, r, K, L, {current}, PID, parent, pending_unblocks)
      /\ current \in L \cup {idle_task} /\ current \in Task /\ L \subseteq Task
      /\ Loose(mem, L, parent)
  BY InvFacts
<1>2. LabTypeOK /\ ~tangled /\ pending_unblocks \in [Task -> -1 .. MaxPending]
  BY InvTypes
<1>3. /\ BlocksInTime /\ pending_unblocks[current] = 0 /\ current # idle_task
      /\ pending_unblocks' = [pending_unblocks EXCEPT ![current] = -1]
      /\ sched_next_rr(m, remaining_ticks)
      /\ UNCHANGED <<PID, parent, frames, BASE_PID>> /\ tangled' = FALSE
  BY <1>2 DEF BlockWaits, InProcess
<1> HIDE DEF f, r, K, L
<1>4. ListNode(current) \in ListNodes /\ ListNode(current) \notin ToSet(f) \cup ToSet(r)
  BY <1>1, QueueMember DEF Ledger
<1>5. last \notin ToSet(f) \cup ToSet(r)
  <2>1. /\ last \in ListNodes \cup {blocked}
        /\ ToSet(f) \subseteq ListNodes /\ ToSet(r) \subseteq ListNodes
    BY <1>1, HoldFacts DEF Holds
  <2>2. CASE last = blocked
    BY <2>1, <2>2, NodeSets DEF Heads
  <2>3. CASE last # blocked
    <3>1. StructOf(last) \in Task /\ last = ListNode(StructOf(last))
      BY <2>1, <2>3, QueueMember
    <3>2. pending_unblocks[StructOf(last)] < 0 \/ StructOf(last) = current
      BY <1>3, <2>3 DEF BlocksInTime
    <3> QED
      BY <1>1, <1>4, <3>1, <3>2 DEF Ledger
  <2> QED
    BY <2>2, <2>3
<1>6. Holds(m, f, r, K, L) /\ SameAnchors(mem, m)
  BY <1>1, <1>4, <1>5, HoldBlocked
<1>7. pending_unblocks \in [Task -> Int] /\ remaining_ticks \in [Task -> 0 .. QUANTUM]
  BY <1>2, InvTypes DEF LabTypeOK
<1>8. Ledger(f, r, K, L, {}, PID, parent, pending_unblocks')
  BY <1>1, <1>3, <1>7, LedgerWaits
<1> HIDE DEF m
<1>9. /\ crashed' = FALSE /\ remaining_ticks' \in [Task -> 0 .. QUANTUM]
      /\ current' = Chosen(r) /\ current' \in Task
      /\ Holds(mem', f, Rest(r), K, L) /\ SameAnchors(m, mem')
      /\ Ledger(f, Rest(r), K, L, {current'}, PID, parent, pending_unblocks')
  BY <1>3, <1>6, <1>7, <1>8, Dispatched
<1>a. Loose(mem', L, parent)
  BY <1>1, <1>6, <1>9, LooseSame
<1>10. Sound(mem', current', PID, parent, pending_unblocks') /\ ListsAre(mem', f, Rest(r), K, L)
  BY <1>9, <1>a, SoundFrom
<1>11. LabTypeOK'
  <2>1. mem' \in LabMemory
    BY <1>9 DEF Holds
  <2>2. pending_unblocks' \in [Task -> -1 .. MaxPending]
    BY <1>2, <1>3, LabAssumption DEF LabTypeOK
  <2> QED
    BY <1>2, <1>3, <1>9, <2>1, <2>2, MemoryTyped DEF LabTypeOK
<1>12. LabInv'
  BY <1>3, <1>9, <1>10, <1>11 DEF LabInv
<1> QED
  BY <1>1, <1>3, <1>9, <1>10, <1>12 DEF f, r, K, L

\* The walk of sys_unblock finds a child or comes back to the head.
LEMMA FoundChild ==
  ASSUME LabInv, current # idle_task, NEW pid, FindChild(pid) # Children(current)
  PROVE  /\ FindChild(pid) \in ToSet(KidsOf(mem)[current]) /\ FindChild(pid) # Wild
         /\ StructOf(FindChild(pid)) \in UsedOf(mem) \ {current} /\ current \in UsedOf(mem)
         /\ FindChild(pid) = Anchor(StructOf(FindChild(pid)))
<1> DEFINE f == FreeOf(mem)
           r == ReadyOf(mem)
           K == KidsOf(mem)
           L == UsedOf(mem)
           head == Children(current)
           path == Path(mem, head)
           Found == {i \in DOMAIN path : path[i] \in InStruct /\ PID[StructOf(path[i])] = pid}
           first == CHOOSE i \in Found : \A j \in Found : i <= j
           n == Len(K[current])
<1>1. /\ Holds(mem, f, r, K, L)
      /\ Ledger(f, r, K, L, {current}, PID, parent, pending_unblocks)
      /\ current \in L /\ current \in Task
  BY InvFacts
<1>2. FindChild(pid) = IF Found # {} THEN path[first]
                       ELSE IF path[Len(path)] = head THEN head ELSE Wild
  BY DEF FindChild
<1> HIDE DEF f, r, K, L
<1>3. path = Append(K[current], head) /\ K[current] \in Seq(Node) /\ head \in Node
      /\ ToSet(K[current]) \subseteq Anchors
  BY <1>1, HoldLists, HoldFacts, NodeSets
<1>4. /\ n \in Nat /\ DOMAIN path = 1 .. n + 1 /\ Len(path) = n + 1 /\ path[n + 1] = head
      /\ \A i \in 1 .. n : path[i] = K[current][i] /\ K[current][i] \in ToSet(K[current])
  <2>1. n \in Nat /\ DOMAIN K[current] = 1 .. n
    BY <1>3, LenProperties
  <2>2. /\ path \in Seq(Node) /\ Len(path) = n + 1 /\ path[n + 1] = head
        /\ \A i \in 1 .. n : path[i] = K[current][i]
    BY <1>3, AppendProperties
  <2>3. \A i \in 1 .. n : K[current][i] \in ToSet(K[current])
    BY <2>1 DEF ToSet
  <2>4. DOMAIN path = 1 .. n + 1
    BY <2>2, LenProperties
  <2> QED
    BY <2>1, <2>2, <2>3, <2>4
<1> HIDE DEF n, path
<1>5. Found # {}
  BY <1>2, <1>4
<1>6. Found \subseteq 1 .. n + 1
  BY <1>4
<1> HIDE DEF Found
<1>7. first \in Found
  <2>1. Found \subseteq Nat
    BY <1>4, <1>6
  <2>2. \E i \in Found : \A j \in Found : i <= j
    BY <1>5, <2>1, SmallestElement
  <2> QED
    BY <2>2
<1> HIDE DEF first
<1>8. FindChild(pid) = path[first] /\ first \in 1 .. n
  BY <1>2, <1>4, <1>5, <1>6, <1>7
<1> DEFINE node == FindChild(pid)
<1> HIDE DEF head
<1>9. node \in ToSet(K[current]) /\ node \in Anchors
  BY <1>3, <1>4, <1>8
<1> HIDE DEF node
<1>10. StructOf(node) \in Task /\ node = Anchor(StructOf(node))
  BY <1>9, QueueMember
<1>11. StructOf(node) \in L /\ parent[StructOf(node)] = current
  BY <1>1, <1>9, <1>10 DEF Ledger
<1>12. StructOf(node) # current
  BY <1>1, <1>11 DEF Ledger
<1>13. node # Wild
  BY <1>10, LabNodes
<1> QED
  BY <1>1, <1>9, <1>10, <1>11, <1>12, <1>13 DEF node, K, L

LEMMA UnblockInv ==
  ASSUME LabInv, NEW pid, sys_unblock(pid)
  PROVE  LET child == StructOf(FindChild(pid))
         IN /\ LabInv' /\ current' = current
            /\ FindChild(pid) = Anchor(child) /\ child \in UsedOf(mem) \ {current}
            /\ current \in UsedOf(mem)
            /\ Anchor(child) \in ToSet(KidsOf(mem)[current])
            /\ \/ /\ pending_unblocks[child] < 0
                  /\ pending_unblocks' = [pending_unblocks EXCEPT ![child] = 0]
                  /\ ListsAre(mem', FreeOf(mem), Append(ReadyOf(mem), ListNode(child)),
                              KidsOf(mem), UsedOf(mem))
               \/ /\ pending_unblocks[child] \in Nat
                  /\ pending_unblocks' = [pending_unblocks EXCEPT ![child] = @ + 1]
                  /\ mem' = mem
<1> DEFINE f == FreeOf(mem)
           r == ReadyOf(mem)
           K == KidsOf(mem)
           L == UsedOf(mem)
           node == FindChild(pid)
           child == StructOf(node)
<1>1. /\ Holds(mem, f, r, K, L)
      /\ Ledger(f, r, K, L, {current}, PID, parent, pending_unblocks)
      /\ r \in Seq(ListNodes) /\ L \subseteq Task /\ Loose(mem, L, parent)
  BY InvFacts
<1>2. LabTypeOK /\ ~tangled /\ ~crashed /\ pending_unblocks \in [Task -> -1 .. MaxPending]
  BY InvTypes
<1>3. /\ node # Children(current) /\ current # idle_task
      /\ UNCHANGED <<current, PID, parent, remaining_ticks, frames, BASE_PID, tangled>>
  BY DEF sys_unblock, InProcess
<1>4. /\ node \in ToSet(K[current]) /\ node # Wild /\ child \in L \ {current}
      /\ current \in L
      /\ node = Anchor(child)
  BY <1>3, FoundChild
<1>5. \/ /\ pending_unblocks[child] < 0
         /\ pending_unblocks' = [pending_unblocks EXCEPT ![child] = 0]
         /\ mem' = list_add_tail(mem, ListNode(child), readyqueue)
         /\ crashed' = WroteNull(mem')
      \/ /\ pending_unblocks[child] \in 0 .. (MaxPending - 1)
         /\ pending_unblocks' = [pending_unblocks EXCEPT ![child] = @ + 1]
         /\ UNCHANGED <<mem, crashed>>
  BY <1>4 DEF sys_unblock
<1> HIDE DEF f, r, K, L, child, node
<1>6. child \in Task /\ pending_unblocks \in [Task -> -1 .. MaxPending]
      /\ pending_unblocks \in [Task -> Int]
  BY <1>1, <1>2, <1>4, InvTypes
<1>7. CASE /\ pending_unblocks[child] < 0 /\ mem' = list_add_tail(mem, ListNode(child), readyqueue)
           /\ pending_unblocks' = [pending_unblocks EXCEPT ![child] = 0]
           /\ crashed' = WroteNull(mem')
  <2>1. ListNode(child) \in ListNodes /\ ListNode(child) \notin ToSet(f) \cup ToSet(r)
    BY <1>1, <1>6, <1>7, QueueMember DEF Ledger
  <2>2. Holds(mem', f, Append(r, ListNode(child)), K, L) /\ SameAnchors(mem, mem')
    BY <1>1, <1>7, <2>1, HoldReady
  <2>3. Ledger(f, Append(r, ListNode(child)), K, L, {current}, PID, parent, pending_unblocks')
    BY <1>1, <1>6, <1>7, LedgerWoken
  <2>4. /\ Sound(mem', current, PID, parent, pending_unblocks')
        /\ ListsAre(mem', f, Append(r, ListNode(child)), K, L)
    BY <1>1, <2>2, <2>3, LooseSame, SoundFrom
  <2>5. crashed' = FALSE /\ mem' \in LabMemory
    BY <1>7, <2>2 DEF WroteNull, NullSafe, Holds
  <2>6. pending_unblocks' \in [Task -> -1 .. MaxPending]
    BY <1>6, <1>7, LabAssumption
  <2>7. LabTypeOK'
    BY <1>2, <1>3, <2>5, <2>6, MemoryTyped DEF LabTypeOK
  <2>8. LabInv'
    BY <1>2, <1>3, <2>4, <2>5, <2>7 DEF LabInv
  <2> QED
    BY <1>3, <1>4, <1>7, <2>4, <2>8 DEF f, r, K, L, child, node
<1>8. CASE pending_unblocks[child] \in 0 .. (MaxPending - 1) /\ UNCHANGED <<mem, crashed>>
           /\ pending_unblocks' = [pending_unblocks EXCEPT ![child] = @ + 1]
  <2>1. pending_unblocks' \in [Task -> -1 .. MaxPending]
    BY <1>6, <1>8, LabAssumption
  <2>2. \A t \in Task : pending_unblocks'[t] < 0 <=> pending_unblocks[t] < 0
    BY <1>6, <1>8
  <2>3. Ledger(f, r, K, L, {current}, PID, parent, pending_unblocks')
    BY <1>1, <2>2, LedgerCounted
  <2>4. Sound(mem, current, PID, parent, pending_unblocks')
    BY <1>1, <2>3, SoundFrom
  <2>5. LabTypeOK'
    BY <1>2, <1>3, <1>8, <2>1 DEF LabTypeOK
  <2>6. LabInv'
    BY <1>2, <1>3, <1>8, <2>4, <2>5 DEF LabInv
  <2>7. pending_unblocks[child] \in Nat
    BY <1>8
  <2> QED
    BY <1>3, <1>4, <1>8, <2>6, <2>7 DEF f, r, K, L, child, node
<1> QED
  BY <1>5, <1>7, <1>8

-----------------------------------------------------------------------------
(* sys_exit *)

\* The loop over the children of current, where s is its state after each child
IsReparent(g, m) ==
  LET head == Children(current)
  IN g = [i \in 0 .. Cardinality(Memory) |->
        IF i = 0 THEN [mem |-> m, at |-> m.next[head], kids |-> {}]
        ELSE LET s == g[i - 1]
                 child == StructOf(s.at)
                 added == list_add_tail(s.mem, Children(idle_task), Anchor(child))
             IN IF s.at \notin InStruct \/ s.at = head THEN s
                ELSE [mem |-> added, at |-> added.next[s.at], kids |-> s.kids \cup {child}]]

\* One turn of the loop
NextChild(st) ==
  IF st.at \notin InStruct \/ st.at = Children(current) THEN st
  ELSE LET added == list_add_tail(st.mem, Children(idle_task), Anchor(StructOf(st.at)))
       IN [mem |-> added, at |-> added.next[st.at], kids |-> st.kids \cup {StructOf(st.at)}]

LEMMA ReparentRuns ==
  ASSUME NEW m \in LabMemory, current \in Task
  PROVE  \E g : /\ g[0] = [mem |-> m, at |-> m.next[Children(current)], kids |-> {}]
                /\ \A i \in 1 .. Cardinality(Memory) : g[i] = NextChild(g[i - 1])
                /\ Reparent(m) = g[Cardinality(Memory)]
                /\ Cardinality(Memory) \in Nat
<1> DEFINE C == Cardinality(Memory)
           S == [mem : LabMemory, at : Address, kids : SUBSET Task]
           base == [mem |-> m, at |-> m.next[Children(current)], kids |-> {}]
           step == [p \in S \X (1 .. C) |-> NextChild(p[1])]
           g == CHOOSE g : IsReparent(g, m)
<1>1. Reparent(m) = g[C]
  BY DEF Reparent, IsReparent
<1>2. C \in Nat
  <2>1. Memory \subseteq Address
    BY LabHeads
  <2> QED
    BY <2>1, LabAddresses, FS_Subset, FS_CardinalityType
<1>3. base \in S
  <2>1. m.next[Children(current)] \in Address
    BY LabNodes DEF LabMemory
  <2> QED
    BY <2>1
<1>4. ASSUME NEW st \in S PROVE NextChild(st) \in S
  <2>1. CASE st.at \notin InStruct \/ st.at = Children(current)
    BY <2>1 DEF NextChild
  <2>2. CASE ~(st.at \notin InStruct \/ st.at = Children(current))
    <3> DEFINE child == StructOf(st.at)
               added == list_add_tail(st.mem, Children(idle_task), Anchor(child))
    <3>1. child \in Task /\ st.at \in Memory
      BY <2>2 DEF InStruct, StructOf, Memory
    <3>2. st.mem \in LabMemory /\ Children(idle_task) \in Memory /\ Anchor(child) \in Memory
      BY <3>1, LabNodes, LabTasks
    <3>3. \A x, y \in Memory : list_add_tail(st.mem, x, y) \in LabMemory
      BY <3>2, LabHeads DEF list_add_tail, __list_add, LabMemory
    <3>4. added \in LabMemory
      BY <3>2, <3>3
    <3>5. NextChild(st) = [mem |-> added, at |-> added.next[st.at], kids |-> st.kids \cup {child}]
      BY <2>2 DEF NextChild
    <3> HIDE DEF added, child
    <3>6. added.next[st.at] \in Address
      BY <3>1, <3>4 DEF LabMemory
    <3> QED
      BY <3>1, <3>4, <3>5, <3>6
  <2> QED
    BY <2>1, <2>2
<1>5. step \in [S \X (1 .. C) -> S]
  <2> HIDE DEF S, C
  <2>1. \A p \in S \X (1 .. C) : NextChild(p[1]) \in S
    BY <1>4
  <2> QED
    BY <2>1
<1>6. PICK f \in Runs(C, S, base, step) : TRUE
  <2> HIDE DEF step, S, base, C
  <2> QED
    BY <1>2, <1>3, <1>5, Recurrence
<1>7. /\ f \in [0 .. C -> S] /\ f[0] = base
      /\ \A i \in 1 .. C : f[i] = step[<<f[i - 1], i>>]
  BY DEF Runs
<1>8. \A i \in 1 .. C : f[i] = NextChild(f[i - 1])
  <2> TAKE i \in 1 .. C
  <2>1. f[i - 1] \in S
    BY <1>2, <1>7
  <2> HIDE DEF S, base, C
  <2>2. step[<<f[i - 1], i>>] = NextChild(f[i - 1])
    BY <2>1
  <2> QED
    BY <1>7, <2>2
<1> HIDE DEF step, S
<1>9. IsReparent(f, m)
  <2>1. \A i \in 0 .. C : f[i] = IF i = 0 THEN base ELSE NextChild(f[i - 1])
    <3> TAKE i \in 0 .. C
    <3>1. CASE i = 0
      BY <3>1, <1>7
    <3>2. CASE i # 0
      BY <3>2, <1>2, <1>8
    <3> QED
      BY <3>1, <3>2
  <2>2. f = [i \in 0 .. C |-> f[i]]
    BY <1>7
  <2> QED
    BY <2>1, <2>2 DEF IsReparent, NextChild
<1>10. IsReparent(g, m)
  BY <1>9
<1> HIDE DEF g
<1>11. \A i \in 0 .. C : g[i] = IF i = 0 THEN base ELSE NextChild(g[i - 1])
  BY <1>10 DEF IsReparent, NextChild
<1>12. g[0] = base /\ \A i \in 1 .. C : g[i] = NextChild(g[i - 1])
  <2>1. 0 \in 0 .. C /\ \A i \in 1 .. C : i \in 0 .. C /\ i # 0
    BY <1>2
  <2> QED
    BY <2>1, <1>11
<1> QED
  BY <1>1, <1>2, <1>12

(***************************************************************************)
(* The state st of the loop over the children s, on the memory m, when i   *)
(* of them have been given to idle.  Behind each of these is the head of   *)
(* idle, and in front too, but for the last one, which still leads on.     *)
(***************************************************************************)
Adopted(m, s, i, st) ==
  LET head == Children(current)
      heir == Children(idle_task)
  IN /\ st.mem \in LabMemory /\ NullSafe(st.mem)
     /\ Same(m, st.mem, ToSet(s) \cup {head, heir})
     /\ st.at = Link(s, head, i + 1) /\ st.kids = {StructOf(s[j]) : j \in 1 .. i}
     /\ \A j \in 1 .. i : st.mem.prev[s[j]] = heir
     /\ \A j \in 1 .. Len(s) : st.mem.next[s[j]] = IF j < i THEN heir ELSE Link(s, head, j + 1)
     /\ \A j \in i + 1 .. Len(s) : st.mem.prev[s[j]] = Link(s, head, j - 1)

LEMMA AdoptNext ==
  ASSUME NEW m, current \in Task \ {idle_task}, NEW s \in Seq(Anchors), IsInjective(s),
         NEW i \in Nat, i < Len(s), NEW st, Adopted(m, s, i, st)
  PROVE  Adopted(m, s, i + 1, NextChild(st))
<1> DEFINE head == Children(current)
           heir == Children(idle_task)
           n == Len(s)
           X == ToSet(s) \cup {head, heir}
           x == s[i + 1]
           y == Link(s, head, i)
           r == list_add_tail(st.mem, heir, x)
           next == NextChild(st)
<1>1. /\ st.mem \in LabMemory /\ NullSafe(st.mem) /\ Same(m, st.mem, X)
      /\ st.at = Link(s, head, i + 1) /\ st.kids = {StructOf(s[j]) : j \in 1 .. i}
      /\ \A j \in 1 .. i : st.mem.prev[s[j]] = heir
      /\ \A j \in 1 .. n : st.mem.next[s[j]] = IF j < i THEN heir ELSE Link(s, head, j + 1)
      /\ \A j \in i + 1 .. n : st.mem.prev[s[j]] = Link(s, head, j - 1)
  BY DEF Adopted
<1>2. /\ n \in Nat /\ i + 1 \in 1 .. n /\ DOMAIN s = 1 .. n /\ s \in Seq(Node)
      /\ \A j \in 1 .. n : s[j] \in Anchors /\ s[j] \in ToSet(s) /\ Link(s, head, j) = s[j]
      /\ Link(s, head, 0) = head
  <2>1. n \in Nat /\ DOMAIN s = 1 .. n
    BY LenProperties
  <2>2. s \in Seq(Node)
    BY NodeSets, ToSetIn
  <2>3. i + 1 \in 1 .. n
    BY <2>1
  <2>4. \A j \in 1 .. n : s[j] \in Anchors /\ s[j] \in ToSet(s) /\ Link(s, head, j) = s[j]
    <3>1. \A j \in 1 .. n : s[j] \in Anchors /\ s[j] \in ToSet(s)
      BY <2>1, ToSetIn
    <3> QED
      BY <3>1 DEF Link
  <2>5. Link(s, head, 0) = head
    BY LinkFacts
  <2> HIDE DEF n
  <2> QED
    BY <2>1, <2>2, <2>3, <2>4, <2>5
<1>3. \A j, k \in 1 .. n : s[j] = s[k] => j = k
  BY <1>2 DEF IsInjective
<1>4. /\ head \in Node /\ heir \in Node /\ head # heir
      /\ \A z \in Anchors : z \in Node /\ z # head /\ z # heir /\ z = Anchor(StructOf(z))
  <2>1. head # heir
    BY LabNodes
  <2> QED
    BY <2>1, NodeSets, LabTasks, QueueMember
<1>5. x \in Anchors /\ x \in Node /\ x # heir /\ st.mem.prev[x] = y
  <2>1. st.mem.prev[x] = Link(s, head, (i + 1) - 1) /\ (i + 1) - 1 = i
    BY <1>1, <1>2
  <2> QED
    BY <2>1, <1>2, <1>4
<1>6. y \in Node /\ y # heir /\ y # x /\ y \in X
  <2>1. CASE i = 0
    BY <2>1, <1>2, <1>4
  <2>2. CASE i # 0
    <3>1. i \in 1 .. n /\ i # i + 1
      BY <2>2, <1>2
    <3>2. y = s[i] /\ s[i] # s[i + 1]
      BY <3>1, <1>2, <1>3
    <3> QED
      BY <3>1, <3>2, <1>2, <1>4
  <2> QED
    BY <2>1, <2>2
<1>7. next = [mem |-> r, at |-> r.next[x], kids |-> st.kids \cup {StructOf(x)}]
  <2>1. st.at = x
    BY <1>1, <1>2
  <2>2. x \in InStruct /\ x # head
    BY <1>4, <1>5 DEF Anchors, Anchor, InStruct
  <2>3. Anchor(StructOf(x)) = x
    BY <1>4, <1>5
  <2> HIDE DEF x
  <2> QED
    BY <2>1, <2>2, <2>3 DEF NextChild
<1> HIDE DEF head, heir, next, n, X
<1>8. /\ r \in LabMemory /\ NullSafe(r)
      /\ r.next[y] = heir /\ r.prev[x] = heir
      /\ \A z \in Memory \ {heir, y} : r.next[z] = st.mem.next[z]
      /\ \A z \in Memory \ {heir, x} : r.prev[z] = st.mem.prev[z]
  BY <1>1, <1>4, <1>5, <1>6, LabStoreTail
<1> HIDE DEF r
<1>9. \A z \in Anchors : z \in Memory /\ z # heir
  BY <1>4 DEF Node
<1>10. Same(m, r, X)
  <2>1. \A z \in Memory \ X : z \notin {heir, x, y}
    BY <1>2, <1>6 DEF X
  <2> QED
    BY <1>1, <1>8, <2>1 DEF Same
<1>11. \A j \in 1 .. n : r.next[s[j]] = IF j < i + 1 THEN heir ELSE Link(s, head, j + 1)
  <2> TAKE j \in 1 .. n
  <2>1. CASE j = i
    <3>1. s[j] = y
      BY <2>1, <1>2
    <3> QED
      BY <2>1, <3>1, <1>8
  <2>2. CASE j # i
    <3>1. s[j] # y
      <4>1. CASE i = 0
        BY <4>1, <1>2, <1>4
      <4>2. CASE i # 0
        <5>1. i \in 1 .. n
          BY <4>2, <1>2
        <5> QED
          BY <5>1, <2>2, <1>2, <1>3
      <4> QED
        BY <4>1, <4>2
    <3>2. r.next[s[j]] = st.mem.next[s[j]]
      BY <3>1, <1>2, <1>8, <1>9
    <3>3. j < i <=> j < i + 1
      BY <2>2, <1>2
    <3> QED
      BY <3>2, <3>3, <1>1
  <2> QED
    BY <2>1, <2>2
<1>12. r.next[x] = Link(s, head, (i + 1) + 1)
  BY <1>2, <1>11
<1>13. \A j \in 1 .. i + 1 : r.prev[s[j]] = heir
  <2> TAKE j \in 1 .. i + 1
  <2>1. CASE j = i + 1
    BY <2>1, <1>8
  <2>2. CASE j # i + 1
    <3>1. j \in 1 .. i /\ j \in 1 .. n
      BY <2>2, <1>2
    <3>2. s[j] # x
      BY <2>2, <3>1, <1>2, <1>3
    <3> QED
      BY <3>1, <3>2, <1>1, <1>2, <1>8, <1>9
  <2> QED
    BY <2>1, <2>2
<1>14. \A j \in (i + 1) + 1 .. n : r.prev[s[j]] = Link(s, head, j - 1)
  <2> TAKE j \in (i + 1) + 1 .. n
  <2>1. j \in i + 1 .. n /\ j \in 1 .. n /\ j # i + 1
    BY <1>2
  <2>2. s[j] # x
    BY <2>1, <1>2, <1>3
  <2> QED
    BY <2>1, <2>2, <1>1, <1>2, <1>8, <1>9
<1>15. st.kids \cup {StructOf(x)} = {StructOf(s[j]) : j \in 1 .. i + 1}
  <2>1. 1 .. i + 1 = (1 .. i) \cup {i + 1}
    OBVIOUS
  <2> QED
    BY <2>1, <1>1
<1> HIDE DEF x, y
<1>16. next.mem = r /\ next.at = r.next[x] /\ next.kids = st.kids \cup {StructOf(x)}
  BY <1>7
<1>17. Adopted(m, s, i + 1, next)
  BY <1>8, <1>10, <1>11, <1>12, <1>13, <1>14, <1>15, <1>16 DEF Adopted, head, heir, n, X
<1> QED
  BY <1>17 DEF next

\* It ends after the last child.
LEMMA ReparentLoop ==
  ASSUME NEW m \in LabMemory, NullSafe(m), current \in Task \ {idle_task},
         NEW s \in Seq(Anchors), Chained(m, Children(current), s)
  PROVE  LET loop == Reparent(m)
         IN /\ loop.at = Children(current) /\ loop.mem \in LabMemory /\ NullSafe(loop.mem)
            /\ Same(m, loop.mem, ToSet(s) \cup {Children(current), Children(idle_task)})
            /\ loop.kids = {StructOf(a) : a \in ToSet(s)}
            /\ \A a \in ToSet(s) :
                 /\ loop.mem.prev[a] = Children(idle_task)
                 /\ loop.mem.next[a] \in {Children(idle_task), Children(current)}
<1> DEFINE head == Children(current)
           C == Cardinality(Memory)
           n == Len(s)
<1>1. PICK g : /\ g[0] = [mem |-> m, at |-> m.next[head], kids |-> {}]
               /\ \A i \in 1 .. C : g[i] = NextChild(g[i - 1])
               /\ Reparent(m) = g[C] /\ C \in Nat
  BY ReparentRuns
<1>2. IsInjective(s) /\ n \in Nat /\ DOMAIN s = 1 .. n /\ s \in Seq(Node)
  BY LenProperties, NodeSets, ToSetIn DEF Chained
<1>3. /\ \A j \in 1 .. n : Link(s, head, j) = s[j] /\ s[j] \in ToSet(s)
      /\ Link(s, head, 0) = head /\ Link(s, head, n + 1) = head
      /\ \A z \in ToSet(s) : \E j \in 1 .. n : z = s[j]
  BY <1>2, LinkFacts
<1>4. n <= C
  <2>1. s \in [1 .. n -> Memory]
    <3>1. s \in [1 .. n -> Node]
      BY <1>2, LenProperties
    <3> QED
      BY <3>1 DEF Node
  <2>2. s \in Injection(1 .. n, Memory)
    BY <2>1, <1>2 DEF Injection, IsInjective
  <2>3. IsFiniteSet(Memory)
    BY LabHeads, LabAddresses, FS_Subset
  <2>4. Cardinality(1 .. n) <= C
    BY <2>2, <2>3, FS_Injection
  <2>5. Cardinality(1 .. n) = n
    BY <1>2, FS_Interval
  <2> QED
    BY <2>4, <2>5
<1>5. Adopted(m, s, 0, g[0])
  <2>1. \A j \in 0 .. n : /\ m.next[Link(s, head, j)] = Link(s, head, j + 1)
                          /\ m.prev[Link(s, head, j + 1)] = Link(s, head, j)
    BY DEF Chained
  <2>2. m.next[head] = Link(s, head, 0 + 1)
    <3>1. 0 \in 0 .. n
      BY <1>2
    <3> QED
      BY <2>1, <3>1, <1>3
  <2>3. \A j \in 1 .. n : m.next[s[j]] = Link(s, head, j + 1)
    <3>1. \A j \in 1 .. n : j \in 0 .. n
      OBVIOUS
    <3> QED
      BY <3>1, <2>1, <1>3
  <2>4. \A j \in 1 .. n : m.prev[s[j]] = Link(s, head, j - 1)
    <3>1. \A j \in 1 .. n : j - 1 \in 0 .. n /\ (j - 1) + 1 = j
      BY <1>2
    <3> QED
      BY <3>1, <2>1, <1>3
  <2>5. g[0].mem = m /\ g[0].at = m.next[head] /\ g[0].kids = {}
    BY <1>1
  <2>6. 1 .. 0 = {} /\ \A j \in 1 .. n : ~(j < 0)
    BY <1>2
  <2>7. \A j \in 0 + 1 .. n : j \in 1 .. n
    OBVIOUS
  <2> HIDE DEF n
  <2> QED
    BY <2>2, <2>3, <2>4, <2>5, <2>6, <2>7 DEF Adopted, Same, n
<1> HIDE DEF head, C
<1> DEFINE G == {i \in Nat : i <= C => Adopted(m, s, IF i <= n THEN i ELSE n, g[i])}
<1>6. 0 \in G
  <2>1. 0 <= n
    BY <1>2
  <2> QED
    BY <2>1, <1>5
<1>7. ASSUME NEW i \in Nat, i \in G PROVE i + 1 \in G
  <2> SUFFICES ASSUME i + 1 <= C
               PROVE  Adopted(m, s, IF i + 1 <= n THEN i + 1 ELSE n, g[i + 1])
    OBVIOUS
  <2>1. g[i + 1] = NextChild(g[i]) /\ i <= C
    <3>1. i + 1 \in 1 .. C /\ (i + 1) - 1 = i
      BY <1>1
    <3> QED
      BY <3>1, <1>1
  <2>2. Adopted(m, s, IF i <= n THEN i ELSE n, g[i])
    BY <1>7, <2>1
  <2>3. CASE i < n
    <3>1. Adopted(m, s, i, g[i])
      BY <2>2, <2>3, <1>2
    <3>2. Adopted(m, s, i + 1, g[i + 1])
      BY <3>1, <2>1, <2>3, <1>2, AdoptNext
    <3> QED
      BY <3>2, <2>3, <1>2
  <2>4. CASE ~(i < n)
    <3>1. Adopted(m, s, n, g[i])
      BY <2>2, <2>4, <1>2
    <3>2. g[i].at = head
      BY <3>1, <1>3 DEF Adopted, head
    <3>3. g[i + 1] = g[i]
      BY <2>1, <3>2 DEF NextChild, head
    <3> QED
      BY <3>1, <3>3, <2>4, <1>2
  <2> QED
    BY <2>3, <2>4
<1> HIDE DEF G
<1>8. C \in G
  BY <1>1, <1>6, <1>7, InductionOnSet
<1>9. Adopted(m, s, n, Reparent(m))
  <2>1. Adopted(m, s, IF C <= n THEN C ELSE n, g[C])
    BY <1>1, <1>8 DEF G
  <2> QED
    BY <2>1, <1>1, <1>2, <1>4
<1> DEFINE loop == Reparent(m)
<1>10. /\ loop.mem \in LabMemory /\ NullSafe(loop.mem)
       /\ Same(m, loop.mem, ToSet(s) \cup {Children(current), Children(idle_task)})
       /\ loop.at = Link(s, head, n + 1) /\ loop.kids = {StructOf(s[j]) : j \in 1 .. n}
       /\ \A j \in 1 .. n : /\ loop.mem.prev[s[j]] = Children(idle_task)
                            /\ loop.mem.next[s[j]] = IF j < n THEN Children(idle_task)
                                                     ELSE Link(s, head, j + 1)
  BY <1>9 DEF Adopted, head
<1> HIDE DEF loop
<1>11. \A j \in 1 .. n : loop.mem.next[s[j]] \in {Children(idle_task), head}
  <2> HIDE DEF n
  <2> TAKE j \in 1 .. n
  <2>1. CASE j < n
    BY <2>1, <1>10
  <2>2. CASE ~(j < n)
    <3>1. j = n
      BY <2>2, <1>2
    <3> QED
      BY <2>2, <3>1, <1>3, <1>10
  <2> QED
    BY <2>1, <2>2
<1>12. loop.kids = {StructOf(z) : z \in ToSet(s)}
  BY <1>3, <1>10
<1> QED
  BY <1>3, <1>10, <1>11, <1>12 DEF loop, head

\* A process without a parent leaves no list of children.
LEMMA HoldLooseGone ==
  ASSUME NEW m, NEW f, NEW r, NEW K, NEW L, Holds(m, f, r, K, L),
         NEW t \in Task, NEW u \in Task \ L, idle_task \notin L, \A p \in L : Anchor(t) \notin ToSet(K[p]),
         m.prev[Anchor(t)] = Children(idle_task), m.next[Anchor(t)] = Children(u)
  PROVE  /\ Holds(list_del(m, Anchor(t)), f, r, K, L)
         /\ Same(m, list_del(m, Anchor(t)), {Anchor(t), Children(idle_task), Children(u)})
<1> DEFINE n == list_del(m, Anchor(t))
           X == {Anchor(t), Children(idle_task), Children(u)}
<1>1. m \in LabMemory /\ NullSafe(m) /\ L \subseteq Task
  BY DEF Holds
<1>2. /\ Anchor(t) \in Node /\ Anchor(t) \in Anchors
      /\ Children(idle_task) \in Node \ {Anchor(t)} /\ Children(u) \in Node \ {Anchor(t)}
  BY NodeSets, LabNodes, LabTasks, QueueMember
<1>3. n \in LabMemory /\ NullSafe(n) /\ Same(m, n, X)
  BY <1>1, <1>2, LabStoreDel DEF Same
<1> HIDE DEF n
<1>4. /\ freequeue \notin X /\ ToSet(f) \cap X = {} /\ readyqueue \notin X /\ ToSet(r) \cap X = {}
      /\ blocked \notin X
  <2>1. ToSet(f) \subseteq ListNodes /\ ToSet(r) \subseteq ListNodes
    BY HoldFacts
  <2> QED
    BY <2>1, <1>2, NodeSets DEF Heads
<1>5. ASSUME NEW p \in L PROVE Children(p) \notin X /\ ToSet(K[p]) \cap X = {}
  <2>1. p \in Task /\ p # idle_task /\ p # u /\ ToSet(K[p]) \subseteq Anchors
    BY <1>1, HoldFacts
  <2>2. Children(p) \notin X
    BY <2>1, LabNodes
  <2>3. Children(u) \notin Anchors /\ Children(idle_task) \notin Anchors
    BY NodeSets
  <2> QED
    BY <2>1, <2>2, <2>3
<1>6. /\ Chained(n, freequeue, f) /\ Chained(n, readyqueue, r)
      /\ n.prev[blocked] \in ListNodes \cup {blocked}
      /\ \A p \in L : Chained(n, Children(p), K[p])
  BY <1>3, <1>4, <1>5, HoldElsewhere
<1>7. Holds(n, f, r, K, L)
  BY <1>3, <1>6 DEF Holds
<1> QED
  BY <1>3, <1>7 DEF n

\* The children when the anchor of c has been taken from those of its parent h
Without(K, J, c, h) ==
  \/ h = idle_task /\ J = K
  \/ /\ h # idle_task
     /\ \E i \in 1 .. Len(K[h]) : K[h][i] = Anchor(c) /\ J = [K EXCEPT ![h] = RemoveAt(@, i)]

LEMMA ExitUnlinks ==
  ASSUME LabInv, current # idle_task
  PROVE  LET K == KidsOf(mem)
             L == UsedOf(mem)
             m == list_del(mem, Anchor(current))
         IN \E J : /\ Holds(m, FreeOf(mem), ReadyOf(mem), J, L) /\ Without(K, J, current, parent[current])
                   /\ J[current] = K[current]
                   /\ \A t \in L \ {current} : ToSet(J[t]) = ToSet(K[t]) \ {Anchor(current)}
                   /\ Loose(m, L \ {current}, parent)
<1> DEFINE f == FreeOf(mem)
           r == ReadyOf(mem)
           K == KidsOf(mem)
           L == UsedOf(mem)
           c == current
           h == parent[c]
           m == list_del(mem, Anchor(c))
<1>1. /\ Holds(mem, f, r, K, L)
      /\ Ledger(f, r, K, L, {c}, PID, parent, pending_unblocks)
      /\ K \in [Task -> Seq(Anchors)] /\ c \in L /\ c \in Task /\ L \subseteq Task
      /\ Loose(mem, L, parent)
  BY InvFacts
<1> HIDE DEF f, r, K, L
<1>2. /\ h \in (L \cup {idle_task}) \ {c} /\ idle_task \in Task \ L
      /\ h # idle_task => Anchor(c) \in ToSet(K[h])
      /\ \A p \in L : Anchor(c) \in ToSet(K[p]) => h = p
  BY <1>1, LabTasks DEF Ledger
<1>3. \A t \in L : Anchor(t) \in Anchors /\ Anchor(t) \in Memory /\ \A v : Anchor(t) # Children(v)
  BY <1>1, QueueMember, LabNodes
<1>4. CASE h = idle_task
  <2>1. PICK u \in Task \ L : mem.next[Anchor(c)] = Children(u)
    BY <1>1, <1>4 DEF Loose
  <2>2. mem.prev[Anchor(c)] = Children(idle_task)
    BY <1>1, <1>4 DEF Loose
  <2>3. \A p \in L : Anchor(c) \notin ToSet(K[p])
    BY <1>2, <1>4
  <2>4. Holds(m, f, r, K, L) /\ Same(mem, m, {Anchor(c), Children(idle_task), Children(u)})
    BY <1>1, <1>2, <2>1, <2>2, <2>3, HoldLooseGone
  <2> HIDE DEF m
  <2>5. Loose(m, L \ {c}, parent)
    <3>1. \A t \in L \ {c} : Anchor(t) \notin {Anchor(c), Children(idle_task), Children(u)}
      BY <1>3, LabNodes
    <3>2. \A t \in L \ {c} : m.next[Anchor(t)] = mem.next[Anchor(t)]
                             /\ m.prev[Anchor(t)] = mem.prev[Anchor(t)]
      BY <1>3, <2>4, <3>1 DEF Same
    <3> QED
      BY <1>1, <3>2 DEF Loose
  <2>6. \A t \in L \ {c} : ToSet(K[t]) = ToSet(K[t]) \ {Anchor(c)}
    BY <2>3
  <2> QED
    BY <1>4, <2>4, <2>5, <2>6 DEF Without, m, f, r, K, L
<1>5. CASE h # idle_task
  <2>1. h \in L \ {c} /\ Anchor(c) \in ToSet(K[h]) /\ K[h] \in Seq(Anchors) /\ h \in Task
    BY <1>1, <1>2, <1>5
  <2>2. PICK i \in 1 .. Len(K[h]) : K[h][i] = Anchor(c)
    <3>1. DOMAIN K[h] = 1 .. Len(K[h])
      BY <2>1, LenProperties
    <3> QED
      BY <2>1, <3>1 DEF ToSet
  <2> DEFINE J == [K EXCEPT ![h] = RemoveAt(@, i)]
  <2>3. Holds(m, f, r, J, L) /\ Same(mem, m, ToSet(K[h]) \cup {Children(h)})
    BY <1>1, <2>1, <2>2, HoldChildGone
  <2>4. Without(K, J, c, h)
    BY <1>5, <2>2 DEF Without
  <2>5. J[h] = RemoveAt(K[h], i) /\ \A t \in L : t # h => J[t] = K[t]
    BY <1>1, <2>1
  <2> HIDE DEF m, J
  <2>6. ToSet(J[h]) = ToSet(K[h]) \ {Anchor(c)}
    <3>1. IsInjective(K[h])
      BY <1>1, <2>1 DEF Holds, Chained
    <3>2. i \in DOMAIN K[h]
      BY <2>1, LenProperties
    <3>3. ToSet(RemoveAt(K[h], i)) = ToSet(K[h]) \ {K[h][i]}
      BY <2>1, <3>1, <3>2, RemoveAtQueue
    <3> QED
      BY <2>2, <2>5, <3>3
  <2>7. \A t \in L \ {c} : ToSet(J[t]) = ToSet(K[t]) \ {Anchor(c)}
    <3> TAKE t \in L \ {c}
    <3>1. CASE t = h
      BY <3>1, <2>6
    <3>2. CASE t # h
      <4>1. Anchor(c) \notin ToSet(K[t])
        BY <3>2, <1>2
      <4> QED
        BY <3>2, <4>1, <2>5
    <3> QED
      BY <3>1, <3>2
  <2>8. Loose(m, L \ {c}, parent)
    <3>1. \A t \in L : parent[t] = idle_task => Anchor(t) \notin ToSet(K[h]) \cup {Children(h)}
      BY <1>1, <1>3, <1>5, <2>1 DEF Ledger
    <3>2. \A t \in L \ {c} : parent[t] = idle_task =>
            m.next[Anchor(t)] = mem.next[Anchor(t)] /\ m.prev[Anchor(t)] = mem.prev[Anchor(t)]
      BY <1>3, <2>3, <3>1 DEF Same
    <3> QED
      BY <1>1, <3>2 DEF Loose
  <2>9. J[c] = K[c]
    BY <1>1, <2>1, <2>5
  <2> QED
    BY <2>3, <2>4, <2>7, <2>8, <2>9 DEF m, f, r, K, L
<1> QED
  BY <1>4, <1>5

LEMMA ExitInv ==
  ASSUME LabInv, sys_exit
  PROVE  LET K == KidsOf(mem)
             M == UsedOf(mem) \ {current}
         IN /\ LabInv' /\ current # idle_task /\ UNCHANGED pending_unblocks
            /\ current \in UsedOf(mem) /\ current' = Chosen(ReadyOf(mem))
            /\ \E J : /\ Without(K, J, current, parent[current])
                      /\ ListsAre(mem', Append(FreeOf(mem), ListNode(current)),
                                  Rest(ReadyOf(mem)), J, M)
<1> DEFINE f == FreeOf(mem)
           r == ReadyOf(mem)
           K == KidsOf(mem)
           L == UsedOf(mem)
           c == current
           m0 == list_del(mem, Anchor(c))
           loop == Reparent(m0)
           m1 == loop.mem
           m2 == list_add_tail(m1, ListNode(c), freequeue)
           M == L \ {c}
           g == Append(f, ListNode(c))
<1>1. /\ Holds(mem, f, r, K, L)
      /\ Ledger(f, r, K, L, {c}, PID, parent, pending_unblocks)
      /\ f \in Seq(ListNodes) /\ r \in Seq(ListNodes)
      /\ c \in L \cup {idle_task} /\ c \in Task /\ L \subseteq Task
  BY InvFacts
<1>2. LabTypeOK /\ ~tangled /\ pending_unblocks \in [Task -> -1 .. MaxPending]
  BY InvTypes
<1>3. /\ c # idle_task
      /\ IF loop.at # Children(c)
         THEN crashed' = TRUE /\ UNCHANGED <<mem, current, remaining_ticks>>
         ELSE sched_next_rr(m2, remaining_ticks)
      /\ parent' = [t \in Task |-> IF t \in loop.kids THEN idle_task ELSE parent[t]]
      /\ frames' = frames + 1
      /\ UNCHANGED <<PID, pending_unblocks, BASE_PID, tangled>>
  BY DEF sys_exit, InProcess
<1>4. PICK J : /\ Holds(m0, f, r, J, L) /\ Without(K, J, c, parent[c]) /\ J[c] = K[c]
               /\ \A t \in M : ToSet(J[t]) = ToSet(K[t]) \ {Anchor(c)}
               /\ Loose(m0, M, parent)
  BY <1>3, ExitUnlinks
<1> HIDE DEF f, r, K, L, m0
<1>5. c \in L /\ M \subseteq L /\ M \subseteq Task /\ idle_task \in Task \ L
  BY <1>1, <1>3, LabTasks DEF Ledger
<1> DEFINE s == K[c]
           X == ToSet(s) \cup {Children(c), Children(idle_task)}
<1>6. /\ m0 \in LabMemory /\ NullSafe(m0) /\ s \in Seq(Anchors) /\ Chained(m0, Children(c), s)
      /\ ToSet(s) \subseteq Anchors /\ \A t \in M : ToSet(J[t]) \cap ToSet(s) = {}
  <2>1. J[c] \in Seq(Anchors) /\ Chained(m0, Children(c), J[c]) /\ m0 \in LabMemory /\ NullSafe(m0)
    BY <1>1, <1>4, <1>5 DEF Holds
  <2>2. \A t \in M : ToSet(J[t]) \cap ToSet(J[c]) = {}
    BY <1>4, <1>5 DEF Holds
  <2> QED
    BY <2>1, <2>2, <1>4, ToSetIn
<1>7. /\ loop.at = Children(c) /\ m1 \in LabMemory /\ NullSafe(m1) /\ Same(m0, m1, X)
      /\ loop.kids = {StructOf(a) : a \in ToSet(s)}
      /\ \A a \in ToSet(s) : /\ m1.prev[a] = Children(idle_task)
                             /\ m1.next[a] \in {Children(idle_task), Children(c)}
  BY <1>1, <1>3, <1>6, ReparentLoop
<1>8. sched_next_rr(m2, remaining_ticks)
  BY <1>3, <1>7
<1> DEFINE kids == loop.kids
<1> HIDE DEF s, m1, kids
<1>9. Holds(m1, f, r, J, M)
  <2>1. Holds(m0, f, r, J, M)
    BY <1>4, <1>5, HoldFewer
  <2>2. /\ freequeue \notin X /\ ToSet(f) \cap X = {} /\ readyqueue \notin X
        /\ ToSet(r) \cap X = {} /\ blocked \notin X
    <3>1. ToSet(f) \subseteq ListNodes /\ ToSet(r) \subseteq ListNodes
      BY <1>1, HoldFacts
    <3> QED
      BY <3>1, <1>6, NodeSets DEF Heads
  <2>3. ASSUME NEW t \in M PROVE Children(t) \notin X /\ ToSet(J[t]) \cap X = {}
    <3>1. ToSet(J[t]) \subseteq Anchors /\ t # idle_task /\ t # c
      BY <1>4, <1>5, HoldFacts
    <3>2. Children(t) \notin X
      BY <3>1, <1>6, NodeSets, LabNodes
    <3> QED
      BY <3>1, <3>2, <1>6, NodeSets
  <2>4. /\ Chained(m1, freequeue, f) /\ Chained(m1, readyqueue, r)
        /\ m1.prev[blocked] \in ListNodes \cup {blocked}
        /\ \A t \in M : Chained(m1, Children(t), J[t])
    BY <1>7, <2>1, <2>2, <2>3, HoldElsewhere
  <2> QED
    BY <1>7, <2>1, <2>4 DEF Holds
<1>10. Holds(m2, g, r, J, M) /\ SameAnchors(m1, m2)
  <2>1. ListNode(c) \in ListNodes /\ ListNode(c) \notin ToSet(f) \cup ToSet(r)
    BY <1>1, <1>5, QueueMember DEF Ledger
  <2> QED
    BY <1>9, <2>1, HoldFree
<1> HIDE DEF m2
<1>11. \A t \in Task : /\ t \in kids <=> Anchor(t) \in ToSet(s)
                       /\ parent'[t] = IF Anchor(t) \in ToSet(s) THEN idle_task ELSE parent[t]
  <2>1. \A t \in Task : t \in kids <=> Anchor(t) \in ToSet(s)
    BY <1>6, <1>7, QueueMember, LabNodes DEF kids
  <2> QED
    BY <1>3, <2>1 DEF kids
<1>12. Ledger(g, r, J, M, {}, PID, parent', pending_unblocks)
  BY <1>1, <1>3, <1>4, <1>11, LedgerExited DEF s
<1>13. remaining_ticks \in [Task -> 0 .. QUANTUM]
  BY <1>2 DEF LabTypeOK
<1>14. /\ crashed' = FALSE /\ remaining_ticks' \in [Task -> 0 .. QUANTUM]
       /\ current' = Chosen(r) /\ current' \in Task
       /\ Holds(mem', g, Rest(r), J, M) /\ SameAnchors(m2, mem')
       /\ Ledger(g, Rest(r), J, M, {current'}, PID, parent', pending_unblocks)
  BY <1>8, <1>10, <1>12, <1>13, Dispatched
<1>15. Loose(mem', M, parent')
  <2>1. SameAnchors(m1, mem')
    BY <1>10, <1>14 DEF SameAnchors
  <2>2. ASSUME NEW t \in M, parent'[t] = idle_task
        PROVE  /\ mem'.prev[Anchor(t)] = Children(idle_task)
               /\ \E u \in Task \ M : mem'.next[Anchor(t)] = Children(u)
    <3>1. Anchor(t) \in Anchors /\ Anchor(t) \in Memory
      BY <1>5, QueueMember, LabNodes
    <3>2. mem'.prev[Anchor(t)] = m1.prev[Anchor(t)] /\ mem'.next[Anchor(t)] = m1.next[Anchor(t)]
      BY <2>1, <3>1 DEF SameAnchors
    <3>3. CASE Anchor(t) \in ToSet(s)
      <4>1. m1.prev[Anchor(t)] = Children(idle_task)
            /\ m1.next[Anchor(t)] \in {Children(idle_task), Children(c)}
        BY <1>7, <3>3
      <4>2. c \in Task \ M /\ idle_task \in Task \ M
        BY <1>1, <1>5
      <4> QED
        BY <3>2, <4>1, <4>2
    <3>4. CASE Anchor(t) \notin ToSet(s)
      <4>1. parent[t] = idle_task
        BY <1>5, <1>11, <2>2, <3>4
      <4>2. Anchor(t) \notin X
        BY <3>1, <3>4, LabNodes
      <4>3. m1.prev[Anchor(t)] = m0.prev[Anchor(t)] /\ m1.next[Anchor(t)] = m0.next[Anchor(t)]
        BY <1>7, <3>1, <4>2 DEF Same
      <4> QED
        BY <1>4, <3>2, <4>1, <4>3 DEF Loose
    <3> QED
      BY <3>3, <3>4
  <2> QED
    BY <2>2 DEF Loose
<1>16. Sound(mem', current', PID, parent', pending_unblocks) /\ ListsAre(mem', g, Rest(r), J, M)
  BY <1>14, <1>15, SoundFrom
<1>17. LabTypeOK'
  <2>1. mem' \in LabMemory
    BY <1>14 DEF Holds
  <2>2. frames' \in Nat
    BY <1>2, <1>3 DEF LabTypeOK
  <2>3. parent' \in [Task -> Task \cup {NoParent}]
    BY <1>2, <1>3, <1>5 DEF LabTypeOK
  <2> QED
    BY <1>2, <1>3, <1>14, <2>1, <2>2, <2>3, MemoryTyped DEF LabTypeOK
<1>18. LabInv'
  BY <1>2, <1>3, <1>14, <1>16, <1>17 DEF LabInv
<1> QED
  BY <1>3, <1>4, <1>5, <1>14, <1>16, <1>18 DEF f, r, K, L

-----------------------------------------------------------------------------
(* Boot *)

\* The memory when the first n structs are in freequeue
IsFreequeue(g) ==
  g = [n \in 0 .. NR_TASKS |->
        IF n = 0 THEN INIT_LIST_HEAD(bss, freequeue)
        ELSE list_add(g[n - 1], ListNode(n - 1), freequeue)]

LEMMA BssEmpty == bss \in LabMemory /\ NullSafe(bss)
BY LabHeads DEF bss, LabMemory, NullSafe, Address

LEMMA ListAddTyped ==
  ASSUME NEW m \in LabMemory, NEW new \in Memory, NEW head \in Memory
  PROVE  list_add(m, new, head) \in LabMemory
BY LabHeads DEF list_add, __list_add, LabMemory

LEMMA FreequeueExists == \E g : IsFreequeue(g)
<1> DEFINE S == LabMemory
           N == NR_TASKS
           base == INIT_LIST_HEAD(bss, freequeue)
           step == [p \in S \X (1 .. N) |-> list_add(p[1], ListNode(p[2] - 1), freequeue)]
<1>1. N \in Nat /\ freequeue \in Memory /\ freequeue \in Node
  BY LabAssumption, LabHeads DEF Node, Heads
<1>2. base \in S
  BY <1>1, BssEmpty, LabStoreInit
<1>3. \A i \in 1 .. N : i - 1 \in Task /\ ListNode(i - 1) \in Memory
  <2>1. \A i \in 1 .. N : i - 1 \in Task
    BY <1>1 DEF Task
  <2> QED
    BY <2>1, LabNodes
<1>4. step \in [S \X (1 .. N) -> S]
  <2>1. \A p \in S \X (1 .. N) : list_add(p[1], ListNode(p[2] - 1), freequeue) \in S
    BY <1>1, <1>3, ListAddTyped
  <2> HIDE DEF S
  <2> QED
    BY <2>1
<1>5. PICK f \in Runs(N, S, base, step) : TRUE
  <2> HIDE DEF step, S, base
  <2> QED
    BY <1>1, <1>2, <1>4, Recurrence
<1>6. /\ f \in [0 .. N -> S] /\ f[0] = base
      /\ \A i \in 1 .. N : f[i] = step[<<f[i - 1], i>>]
  BY DEF Runs
<1>7. ASSUME NEW i \in 1 .. N PROVE f[i] = list_add(f[i - 1], ListNode(i - 1), freequeue)
  <2>1. f[i - 1] \in S
    BY <1>1, <1>6
  <2> HIDE DEF S, base
  <2>2. <<f[i - 1], i>> \in S \X (1 .. N)
    BY <2>1
  <2>3. step[<<f[i - 1], i>>] = list_add(f[i - 1], ListNode(i - 1), freequeue)
    BY <2>2
  <2> QED
    BY <1>6, <2>3
<1>8. \A i \in 0 .. N : f[i] = IF i = 0 THEN base
                               ELSE list_add(f[i - 1], ListNode(i - 1), freequeue)
  <2> TAKE i \in 0 .. N
  <2>1. CASE i = 0
    BY <2>1, <1>6
  <2>2. CASE i # 0
    <3>1. i \in 1 .. N
      BY <2>2, <1>1
    <3> QED
      BY <2>2, <3>1, <1>7
  <2> QED
    BY <2>1, <2>2
<1>9. f = [i \in 0 .. N |-> f[i]]
  BY <1>6
<1>10. IsFreequeue(f)
  BY <1>8, <1>9 DEF IsFreequeue
<1> QED
  BY <1>10

\* Every struct is there, and no struct twice.
LEMMA FreequeueFull ==
  /\ init_freequeue \in LabMemory /\ NullSafe(init_freequeue)
  /\ \E s \in Seq(ListNodes) : Chained(init_freequeue, freequeue, s) /\ ToSet(s) = ListNodes
<1> DEFINE g == CHOOSE g : IsFreequeue(g)
           N == NR_TASKS
           Filled(m, n) ==
             /\ m \in LabMemory /\ NullSafe(m)
             /\ \E s \in Seq(ListNodes) : /\ Chained(m, freequeue, s)
                                          /\ ToSet(s) = {ListNode(t) : t \in 0 .. n - 1}
<1>1. init_freequeue = g[N]
  BY DEF init_freequeue, IsFreequeue
<1>2. IsFreequeue(g)
  BY FreequeueExists
<1> HIDE DEF g
<1>3. N \in Nat /\ freequeue \in Node
  BY LabAssumption, LabHeads DEF Node, Heads
<1>4. /\ g[0] = INIT_LIST_HEAD(bss, freequeue)
      /\ \A n \in 1 .. N : g[n] = list_add(g[n - 1], ListNode(n - 1), freequeue)
  <2>1. \A n \in 0 .. N : g[n] = IF n = 0 THEN INIT_LIST_HEAD(bss, freequeue)
                                 ELSE list_add(g[n - 1], ListNode(n - 1), freequeue)
    BY <1>2 DEF IsFreequeue
  <2>2. 0 \in 0 .. N
    BY <1>3
  <2>3. g[0] = INIT_LIST_HEAD(bss, freequeue)
    BY <2>1, <2>2
  <2>4. \A n \in 1 .. N : n \in 0 .. N /\ n # 0
    BY <1>3
  <2> QED
    BY <2>1, <2>3, <2>4
<1> DEFINE G == {n \in Nat : n <= N => Filled(g[n], n)}
<1>5. 0 \in G
  <2> DEFINE m == INIT_LIST_HEAD(bss, freequeue)
  <2>1. /\ m \in LabMemory /\ NullSafe(m)
        /\ m.next[freequeue] = freequeue /\ m.prev[freequeue] = freequeue
    BY <1>3, BssEmpty, LabStoreInit
  <2> HIDE DEF m
  <2>2. Chained(m, freequeue, <<>>)
    BY <2>1, ChainEmpty
  <2>3. <<>> \in Seq(ListNodes) /\ ToSet(<<>>) = {}
    BY EmptySeq DEF ToSet
  <2>4. {ListNode(t) : t \in 0 .. 0 - 1} = {}
    OBVIOUS
  <2>5. Filled(m, 0)
    BY <2>1, <2>2, <2>3, <2>4
  <2>6. g[0] = m
    BY <1>4 DEF m
  <2> HIDE DEF Filled
  <2> QED
    BY <2>5, <2>6
<1>6. ASSUME NEW n \in Nat, n \in G PROVE n + 1 \in G
  <2> SUFFICES ASSUME n + 1 <= N PROVE Filled(g[n + 1], n + 1)
    BY DEF G
  <2> DEFINE m == g[n]
             new == ListNode(n)
             r == list_add(m, new, freequeue)
  <2>1. Filled(m, n)
    BY <1>3, <1>6
  <2>2. g[n + 1] = r
    <3>1. n + 1 \in 1 .. N /\ (n + 1) - 1 = n
      BY <1>3
    <3> QED
      BY <3>1, <1>4
  <2> HIDE DEF m
  <2>3. PICK s \in Seq(ListNodes) : /\ Chained(m, freequeue, s)
                                    /\ ToSet(s) = {ListNode(t) : t \in 0 .. n - 1}
    BY <2>1
  <2>4. n \in Task
    BY <1>3 DEF Task
  <2>5. /\ new \in ListNodes /\ new \in Node /\ new # freequeue /\ s \in Seq(Node)
    <3>1. new \in ListNodes
      BY <2>4, QueueMember
    <3>2. \A q \in Seq(ListNodes) : q \in Seq(Node)
      BY NodeSets
    <3> QED
      BY <3>1, <3>2, NodeSets DEF Heads
  <2>6. new \notin ToSet(s)
    <3>1. \A t \in 0 .. n - 1 : t # n
      OBVIOUS
    <3> QED
      BY <2>3, <3>1, QueueMember
  <2>7. /\ r \in LabMemory /\ NullSafe(r) /\ Chained(r, freequeue, Push(new, s))
    <3>1. m \in LabMemory /\ NullSafe(m) /\ Chained(m, freequeue, s)
      BY <2>1, <2>3
    <3>2. new \notin ToSet(s) \cup {freequeue}
      BY <2>5, <2>6
    <3> HIDE DEF new
    <3> QED
      BY <1>3, <2>5, <3>1, <3>2, ListPushed
  <2>8. Push(new, s) \in Seq(ListNodes) /\ ToSet(Push(new, s)) = ToSet(s) \cup {new}
    BY <2>5, PushQueue
  <2>9. ToSet(s) \cup {new} = {ListNode(t) : t \in 0 .. (n + 1) - 1}
    <3>1. 0 .. (n + 1) - 1 = (0 .. n - 1) \cup {n}
      OBVIOUS
    <3> QED
      BY <2>3, <3>1
  <2> HIDE DEF r, new
  <2>10. Filled(r, n + 1)
    BY <2>7, <2>8, <2>9
  <2> QED
    BY <2>2, <2>10
<1> HIDE DEF G
<1>7. N \in G
  BY <1>3, <1>5, <1>6, InductionOnSet
<1>8. Filled(g[N], N)
  BY <1>3, <1>7 DEF G
<1>9. {ListNode(t) : t \in 0 .. N - 1} = ListNodes
  BY DEF ListNodes, Task
<1> QED
  BY <1>1, <1>8, <1>9

NoKids == [t \in Task |-> <<>>]

LEMMA SchedReady ==
  \E s : Holds(init_sched, s, <<>>, NoKids, {}) /\ ToSet(s) = ListNodes
<1> DEFINE m == init_freequeue
           m1 == INIT_LIST_HEAD(m, readyqueue)
           m2 == INIT_LIST_HEAD(m1, blocked)
<1>1. m \in LabMemory /\ NullSafe(m)
  BY FreequeueFull
<1>2. PICK s \in Seq(ListNodes) : Chained(m, freequeue, s) /\ ToSet(s) = ListNodes
  BY FreequeueFull
<1>3. /\ freequeue \in Node /\ readyqueue \in Node /\ blocked \in Node
      /\ freequeue # readyqueue /\ freequeue # blocked /\ readyqueue # blocked
      /\ readyqueue \in Memory /\ blocked \in Memory
  BY NodeSets, LabHeads DEF Heads
<1> HIDE DEF m
<1>4. /\ m1 \in LabMemory /\ NullSafe(m1)
      /\ m1.next[readyqueue] = readyqueue /\ m1.prev[readyqueue] = readyqueue
      /\ Same(m, m1, {readyqueue})
  BY <1>1, <1>3, LabStoreInit DEF Same
<1> HIDE DEF m1
<1>5. /\ m2 \in LabMemory /\ NullSafe(m2)
      /\ m2.next[blocked] = blocked /\ m2.prev[blocked] = blocked
      /\ Same(m1, m2, {blocked})
  BY <1>3, <1>4, LabStoreInit DEF Same
<1> HIDE DEF m2
<1>6. s \in Seq(Node) /\ \A x \in ToSet(s) : x # readyqueue /\ x # blocked
  <2>1. \A q \in Seq(ListNodes) : q \in Seq(Node)
    BY NodeSets
  <2> QED
    BY <2>1, <1>2, NodeSets DEF Heads
<1>7. Chained(m2, freequeue, s)
  <2>1. Chained(m1, freequeue, s)
    <3>1. freequeue \notin {readyqueue} /\ ToSet(s) \cap {readyqueue} = {}
      BY <1>3, <1>6
    <3> QED
      BY <1>2, <1>3, <1>4, <1>6, <3>1, ListApart
  <2>2. freequeue \notin {blocked} /\ ToSet(s) \cap {blocked} = {}
    BY <1>3, <1>6
  <2> QED
    BY <1>3, <1>5, <1>6, <2>1, <2>2, ListApart
<1>8. Chained(m2, readyqueue, <<>>)
  <2>1. m2.next[readyqueue] = readyqueue /\ m2.prev[readyqueue] = readyqueue
    BY <1>3, <1>4, <1>5 DEF Same
  <2> QED
    BY <2>1, ChainEmpty
<1>9. <<>> \in Seq(ListNodes) /\ <<>> \in Seq(Anchors) /\ ToSet(<<>>) = {}
  BY EmptySeq DEF ToSet
<1>10. NoKids \in [Task -> Seq(Anchors)]
  BY <1>9 DEF NoKids
<1>11. Holds(m2, s, <<>>, NoKids, {})
  BY <1>2, <1>5, <1>7, <1>8, <1>9, <1>10 DEF Holds
<1> QED
  BY <1>2, <1>11 DEF init_sched, m, m1, m2

LEMMA InitHolds ==
  \E f : /\ Holds(init_task1, f, <<>>,
                  [[NoKids EXCEPT ![idle_task] = <<Anchor(task1)>>] EXCEPT ![task1] = <<>>],
                  {idle_task, task1})
         /\ \A t \in Task : ListNode(t) \in ToSet(f) <=> t # idle_task /\ t # task1
<1> DEFINE x == ListNode(idle_task)
           y == ListNode(task1)
           K1 == [NoKids EXCEPT ![idle_task] = <<>>]
           K2 == [K1 EXCEPT ![idle_task] = Append(@, Anchor(task1))]
           K3 == [K2 EXCEPT ![task1] = <<>>]
           m1 == list_del(init_sched, x)
           m3 == list_del(init_idle, y)
           m4 == list_add_tail(m3, Anchor(task1), Children(idle_task))
<1>1. PICK s : Holds(init_sched, s, <<>>, NoKids, {}) /\ ToSet(s) = ListNodes
  BY SchedReady
<1>2. /\ idle_task \in Task /\ task1 \in Task /\ idle_task # task1
      /\ x \in ListNodes /\ y \in ListNodes /\ x # y /\ Anchor(task1) \in Anchors
  BY LabTasks, QueueMember
<1>3. s \in Seq(ListNodes) /\ IsInjective(s)
  BY <1>1 DEF Holds, Chained
<1> HIDE DEF x, y
<1>4. PICK i \in 1 .. Len(s) : x = s[i]
  BY <1>1, <1>2, <1>3, LenProperties DEF ToSet
<1> DEFINE s1 == RemoveAt(s, i)
<1>5. /\ s1 \in Seq(ListNodes) /\ IsInjective(s1) /\ ToSet(s1) = ListNodes \ {x}
  <2>1. i \in DOMAIN s
    BY <1>3, LenProperties
  <2>2. s1 \in Seq(ListNodes) /\ IsInjective(s1) /\ ToSet(s1) = ToSet(s) \ {s[i]}
    BY <1>3, <2>1, RemoveAtQueue
  <2> QED
    BY <2>2, <1>1, <1>4
<1>6. Holds(m1, s1, <<>>, NoKids, {})
  BY <1>1, <1>4, HoldFreeTaken
<1>7. Holds(init_idle, s1, <<>>, K1, {idle_task})
  <2> HIDE DEF m1, s1
  <2>1. idle_task \notin {}
    OBVIOUS
  <2>2. Holds(INIT_LIST_HEAD(m1, Children(idle_task)), s1, <<>>, K1, {} \cup {idle_task})
    BY <1>2, <1>6, <2>1, HoldNew
  <2>3. {} \cup {idle_task} = {idle_task}
    OBVIOUS
  <2> HIDE DEF K1
  <2>4. Holds(INIT_LIST_HEAD(m1, Children(idle_task)), s1, <<>>, K1, {idle_task})
    BY <2>2, <2>3
  <2> QED
    BY <2>4 DEF init_idle, m1, x
<1> HIDE DEF s1
<1>8. PICK j \in 1 .. Len(s1) : y = s1[j]
  BY <1>2, <1>5, LenProperties DEF ToSet
<1> DEFINE s2 == RemoveAt(s1, j)
<1>9. /\ s2 \in Seq(ListNodes) /\ ToSet(s2) = (ListNodes \ {x}) \ {y}
  <2>1. j \in DOMAIN s1
    BY <1>5, LenProperties
  <2>2. s2 \in Seq(ListNodes) /\ IsInjective(s2) /\ ToSet(s2) = ToSet(s1) \ {s1[j]}
    BY <1>5, <2>1, RemoveAtQueue
  <2> QED
    BY <2>2, <1>5, <1>8
<1> HIDE DEF K1
<1>10. Holds(m3, s2, <<>>, K1, {idle_task})
  BY <1>7, <1>8, HoldFreeTaken
<1> HIDE DEF s2, m3
<1>11. K1[idle_task] = <<>> /\ ToSet(<<>>) = {} /\ K1 \in [Task -> Seq(Anchors)]
  <2>1. ToSet(<<>>) = {} /\ <<>> \in Seq(Anchors)
    BY EmptySeq DEF ToSet
  <2> QED
    BY <2>1, <1>2 DEF K1, NoKids
<1>12. Holds(m4, s2, <<>>, K2, {idle_task})
  <2>1. \A t \in {idle_task} : Anchor(task1) \notin ToSet(K1[t])
    BY <1>11
  <2>2. idle_task \in {idle_task}
    OBVIOUS
  <2> QED
    BY <1>2, <1>10, <2>1, <2>2, HoldChild
<1> HIDE DEF m4, K2
<1>13. Holds(init_task1, s2, <<>>, K3, {idle_task, task1})
  <2>1. task1 \notin {idle_task}
    BY <1>2
  <2>2. Holds(INIT_LIST_HEAD(m4, Children(task1)), s2, <<>>, K3, {idle_task} \cup {task1})
    BY <1>2, <1>12, <2>1, HoldNew
  <2>3. {idle_task} \cup {task1} = {idle_task, task1}
    OBVIOUS
  <2> HIDE DEF K3
  <2>4. Holds(INIT_LIST_HEAD(m4, Children(task1)), s2, <<>>, K3, {idle_task, task1})
    BY <2>2, <2>3
  <2> QED
    BY <2>4 DEF init_task1, m4, m3, y
<1>14. K2 = [NoKids EXCEPT ![idle_task] = <<Anchor(task1)>>]
  <2>1. Append(<<>>, Anchor(task1)) = <<Anchor(task1)>>
    OBVIOUS
  <2>2. K1 = [t \in Task |-> <<>>]
    BY DEF K1, NoKids
  <2> QED
    BY <2>1, <2>2, <1>2, <1>11 DEF K2, NoKids
<1>15. \A t \in Task : ListNode(t) \in ToSet(s2) <=> t # idle_task /\ t # task1
  BY <1>9, QueueMember DEF x, y
<1> QED
  BY <1>13, <1>14, <1>15 DEF K3

LEMMA LabInitInv ==
  ASSUME Init
  PROVE  LabInv /\ \E f : ListsAre(mem, f, <<>>, NoKids, {task1})
<1> DEFINE K == [[NoKids EXCEPT ![idle_task] = <<Anchor(task1)>>] EXCEPT ![task1] = <<>>]
           L == {task1}
<1>1. PICK f : /\ Holds(init_task1, f, <<>>, K, {idle_task, task1})
               /\ \A t \in Task : ListNode(t) \in ToSet(f) <=> t # idle_task /\ t # task1
  BY InitHolds
<1>2. /\ idle_task \in Task /\ task1 \in Task /\ idle_task # task1
      /\ \A t \in Task : t \in Int
  BY LabTasks
<1>3. K[idle_task] = <<Anchor(task1)>> /\ K[task1] = <<>>
  BY <1>2 DEF NoKids
<1>4. ToSet(<<>>) = {}
  BY EmptySeq DEF ToSet
<1>5. /\ mem = init_task1 /\ current = task1
      /\ PID = [t \in Task |-> IF t = task1 THEN 1 ELSE 0]
      /\ parent = [t \in Task |-> IF t = task1 THEN idle_task ELSE NoParent]
      /\ pending_unblocks = [t \in Task |-> 0]
      /\ remaining_ticks = [t \in Task |-> 0]
      /\ frames \in Frames /\ BASE_PID = 2 /\ crashed = FALSE /\ tangled = FALSE
  BY DEF Init
<1> HIDE DEF K
<1>6. Ledger(f, <<>>, K, L, {task1}, PID, parent, pending_unblocks)
  <2>1. L = {t \in Task \ {idle_task} : ListNode(t) \notin ToSet(f)}
    BY <1>1, <1>2
  <2>2. {task1} \subseteq L \cup {idle_task} /\ ListNode(idle_task) \notin ToSet(f)
    BY <1>1, <1>2
  <2>3. \A t \in Task : pending_unblocks[t] = 0 /\ ListNode(t) \notin ToSet(<<>>)
    BY <1>4, <1>5
  <2>4. PID[idle_task] = 0 /\ PID[task1] = 1 /\ parent[task1] = idle_task
    BY <1>2, <1>5
  <2>5. \A t \in L : /\ PID[t] # 0 /\ parent[t] \in (L \cup {idle_task}) \ {t}
                     /\ parent[t] # idle_task => Anchor(t) \in ToSet(K[parent[t]])
    BY <2>4, <1>2
  <2>6. \A p \in L : \A t \in Task : Anchor(t) \in ToSet(K[p]) => t \in L /\ parent[t] = p
    BY <1>3, <1>4
  <2>7. \A t \in L : t \in {task1}
    OBVIOUS
  <2> HIDE DEF L
  <2>8. \A t \in {task1} \cup {idle_task} :
          ListNode(t) \notin ToSet(<<>>) /\ ~(pending_unblocks[t] < 0)
    BY <1>2, <2>3
  <2>9. \A t \in Task : ~(pending_unblocks[t] < 0)
    BY <2>3
  <2> QED
    BY <2>1, <2>2, <2>4, <2>5, <2>6, <2>7, <2>8, <2>9 DEF Ledger
<1>7. Loose(mem, L, parent)
  <2>1. Chained(mem, Children(idle_task), <<Anchor(task1)>>)
    BY <1>1, <1>3, <1>5 DEF Holds
  <2>2. mem.next[Anchor(task1)] = Children(idle_task) /\ mem.prev[Anchor(task1)] = Children(idle_task)
    BY <2>1 DEF Chained, Link
  <2> QED
    BY <2>2, <1>2 DEF Loose
<1>8. Holds(mem, f, <<>>, K, L)
  BY <1>1, <1>5, HoldFewer
<1>9. Sound(mem, current, PID, parent, pending_unblocks) /\ ListsAre(mem, f, <<>>, K, L)
  BY <1>5, <1>6, <1>7, <1>8, SoundFrom
<1>10. LabTypeOK
  <2>1. mem \in LabMemory
    BY <1>8 DEF Holds
  <2>2. /\ PID \in [Task -> 0 .. MaxPID] /\ parent \in [Task -> Task \cup {NoParent}]
        /\ pending_unblocks \in [Task -> -1 .. MaxPending]
        /\ remaining_ticks \in [Task -> 0 .. QUANTUM]
        /\ frames \in Nat /\ BASE_PID \in 2 .. (MaxPID + 1)
    BY <1>2, <1>5, LabAssumption
  <2> QED
    BY <2>1, <2>2, <1>2, <1>5, MemoryTyped DEF LabTypeOK
<1>11. ListsAre(mem, f, <<>>, NoKids, {task1})
  BY <1>2, <1>3, <1>9 DEF ListsAre, NoKids
<1> QED
  BY <1>5, <1>9, <1>10, <1>11 DEF LabInv

-----------------------------------------------------------------------------
(* The theorems *)

LEMMA LabStepInv ==
  ASSUME LabInv, [Next]_vars, ~tangled'
  PROVE  LabInv'
<1>1. CASE ClockInterrupt
  BY <1>1, ClockInv
<1>2. CASE sys_fork
  BY <1>2, ForkInv
<1>3. CASE ForkNoFrames
  BY <1>3, ForkNoFramesInv
<1>4. CASE BlockPending
  BY <1>4, BlockPendingInv
<1>5. CASE BlockWaits
  BY <1>5, BlockWaitsInv
<1>6. CASE \E pid \in 1 .. MaxPID : sys_unblock(pid)
  BY <1>6, UnblockInv
<1>7. CASE sys_exit
  BY <1>7, ExitInv
<1>8. CASE UNCHANGED vars
  <2>1. UNCHANGED <<mem, current, PID, parent, pending_unblocks, remaining_ticks,
                    frames, BASE_PID, crashed, tangled>>
    BY <1>8 DEF vars
  <2>2. LabTypeOK'
    BY <2>1 DEF LabInv, LabTypeOK
  <2>3. Sound(mem, current, PID, parent, pending_unblocks)
    BY DEF LabInv
  <2>4. Sound(mem', current', PID', parent', pending_unblocks')
    BY <2>1, <2>3
  <2> QED
    BY <2>1, <2>2, <2>4 DEF LabInv
<1> QED
  BY <1>1, <1>2, <1>3, <1>4, <1>5, <1>6, <1>7, <1>8 DEF Next

\* Nothing takes a node out of a second list.
LEMMA StaysTangled ==
  ASSUME tangled, [Next]_vars
  PROVE  tangled'
BY DEF Next, vars, ClockInterrupt, sys_fork, ForkNoFrames, BlockPending, BlockWaits, sys_unblock,
       sys_exit

LEMMA LabAlways == Spec => [](tangled \/ LabInv)
<1>1. (tangled \/ LabInv) /\ [Next]_vars => (tangled \/ LabInv)'
  BY LabStepInv, StaysTangled
<1>2. Init => tangled \/ LabInv
  BY LabInitInv
<1> QED
  BY <1>1, <1>2, PTL DEF Spec

\* Until a node is linked into two lists, the fields of the structs and every
\* pointer of the laboratory kernel stay in their range; unblocks are counted up
\* to the bound of the model only.
THEOREM LabTypeCorrect == Spec => [](~tangled => LabTypeOK)
<1>1. LabInv => LabTypeOK
  BY DEF LabInv
<1> QED
  BY <1>1, LabAlways, PTL

\* Whatever forks, failed forks, blocks, unblocks and exits with and without
\* children follow each other, no struct is lost, none is in two queues of
\* lab/sched.c, and freequeue and readyqueue stay doubly linked, until a block or
\* a fork links a node into two lists: these two are the only steps that do harm.
THEOREM StructsAreConserved == Spec => []StructsConserved
<1>1. tangled => StructsConserved
  BY DEF StructsConserved
<1> QED
  BY <1>1, LabAlways, InvConserves, PTL

\* Until then sys_unblock of lab/sys.c finds each live child in the list of its
\* parent, and no struct that was given back, although the loop of sys_exit passes
\* the arguments of list_add_tail the wrong way round.
THEOREM FamiliesAreTrees == Spec => []FamilyTree
<1>1. tangled => FamilyTree
  BY DEF FamilyTree
<1> QED
  BY <1>1, LabAlways, InvFamilies, PTL

-----------------------------------------------------------------------------
(***************************************************************************)
(* LabKernel implements LabQueues. The lists of the abstract specification *)
(* hold structs, those of the memory nodes of structs.                     *)
(***************************************************************************)
StructsOf(s) == [i \in DOMAIN s |-> StructOf(s[i])]

LEMMA StructsTyped ==
  ASSUME NEW S, S = ListNodes \/ S = Anchors, NEW s \in Seq(S)
  PROVE  /\ StructsOf(s) \in Seq(Task) /\ Len(StructsOf(s)) = Len(s)
         /\ DOMAIN StructsOf(s) = 1 .. Len(s) /\ DOMAIN s = 1 .. Len(s) /\ Len(s) \in Nat
         /\ \A i \in 1 .. Len(s) : s[i] \in S /\ StructsOf(s)[i] = StructOf(s[i])
         /\ StructsOf(s) = <<>> <=> s = <<>>
<1>1. DOMAIN s = 1 .. Len(s) /\ Len(s) \in Nat /\ \A i \in 1 .. Len(s) : s[i] \in S
  BY LenProperties, ElementOfSeq
<1>2. \A x \in S : StructOf(x) \in Task
  BY QueueMember
<1>3. StructsOf(s) \in [1 .. Len(s) -> Task]
  BY <1>1, <1>2 DEF StructsOf
<1>4. StructsOf(s) \in Seq(Task) /\ Len(StructsOf(s)) = Len(s)
  <2>1. StructsOf(s) \in Seq(Task)
    BY <1>1, <1>3, SeqDef
  <2> QED
    BY <1>1, <1>3, <2>1, LenProperties
<1>5. StructsOf(s) = <<>> <=> s = <<>>
  BY <1>4, EmptySeq
<1> QED
  BY <1>1, <1>3, <1>4, <1>5 DEF StructsOf

LEMMA StructsAppend ==
  ASSUME NEW S, S = ListNodes \/ S = Anchors, NEW s \in Seq(S), NEW x \in S
  PROVE  StructsOf(Append(s, x)) = Append(StructsOf(s), StructOf(x))
<1> DEFINE a == Append(s, x)
           p == StructsOf(a)
           q == Append(StructsOf(s), StructOf(x))
           n == Len(s)
<1>1. /\ a \in Seq(S) /\ Len(a) = n + 1 /\ a[n + 1] = x /\ \A i \in 1 .. n : a[i] = s[i]
  BY AppendProperties
<1>2. StructOf(x) \in Task
  BY QueueMember
<1>3. /\ StructsOf(s) \in Seq(Task) /\ Len(StructsOf(s)) = n /\ n \in Nat
      /\ \A i \in 1 .. n : StructsOf(s)[i] = StructOf(s[i])
  BY StructsTyped
<1>4. /\ q \in Seq(Task) /\ Len(q) = n + 1 /\ q[n + 1] = StructOf(x)
      /\ \A i \in 1 .. n : q[i] = StructsOf(s)[i]
  BY <1>2, <1>3, AppendProperties
<1>5. /\ p \in Seq(Task) /\ Len(p) = n + 1
      /\ \A i \in 1 .. n + 1 : p[i] = StructOf(a[i])
  BY <1>1, StructsTyped
<1> HIDE DEF p, q, a, n
<1>6. \A i \in 1 .. n + 1 : i = n + 1 \/ i \in 1 .. n
  BY <1>3
<1>7. \A i \in 1 .. n + 1 : p[i] = q[i]
  BY <1>1, <1>3, <1>4, <1>5, <1>6
<1>8. p = q
  BY <1>4, <1>5, <1>7, SeqEqual
<1> QED
  BY <1>8 DEF p, q, a

LEMMA StructsRemove ==
  ASSUME NEW S, S = ListNodes \/ S = Anchors, NEW s \in Seq(S), NEW k \in 1 .. Len(s)
  PROVE  StructsOf(RemoveAt(s, k)) = RemoveAt(StructsOf(s), k)
<1> DEFINE a == RemoveAt(s, k)
           t == StructsOf(s)
           p == StructsOf(a)
           q == RemoveAt(t, k)
           n == Len(s)
<1>1. /\ a \in Seq(S) /\ Len(a) = n - 1
      /\ \A j \in 1 .. n - 1 : a[j] = IF j < k THEN s[j] ELSE s[j + 1]
  BY RemoveAtElements
<1>2. /\ t \in Seq(Task) /\ Len(t) = n /\ n \in Nat
      /\ \A i \in 1 .. n : t[i] = StructOf(s[i])
  BY StructsTyped
<1> HIDE DEF t
<1>3. /\ q \in Seq(Task) /\ Len(q) = n - 1
      /\ \A j \in 1 .. n - 1 : q[j] = IF j < k THEN t[j] ELSE t[j + 1]
  BY <1>2, RemoveAtElements
<1>4. /\ p \in Seq(Task) /\ Len(p) = n - 1
      /\ \A i \in 1 .. n - 1 : p[i] = StructOf(a[i])
  BY <1>1, StructsTyped
<1> HIDE DEF p, q, a, n
<1>5. ASSUME NEW j \in 1 .. n - 1 PROVE p[j] = q[j]
  <2>1. j \in 1 .. n /\ j + 1 \in 1 .. n
    BY <1>2
  <2>2. CASE j < k
    BY <2>1, <2>2, <1>1, <1>2, <1>3, <1>4
  <2>3. CASE ~(j < k)
    BY <2>1, <2>3, <1>1, <1>2, <1>3, <1>4
  <2> QED
    BY <2>2, <2>3
<1>6. p = q
  BY <1>3, <1>4, <1>5, SeqEqual
<1> QED
  BY <1>6 DEF p, q, a, t

\* Taking the first one out is Tail.
LEMMA RemoveFront ==
  ASSUME NEW S, NEW s \in Seq(S), s # <<>>
  PROVE  RemoveAt(s, 1) = Tail(s) /\ Head(s) = s[1] /\ 1 \in 1 .. Len(s)
<1> DEFINE p == RemoveAt(s, 1)
           q == Tail(s)
           n == Len(s)
<1>1. n \in Nat /\ n # 0 /\ 1 \in 1 .. n
  BY LenProperties, EmptySeq
<1>2. /\ p \in Seq(S) /\ Len(p) = n - 1
      /\ \A j \in 1 .. n - 1 : p[j] = IF j < 1 THEN s[j] ELSE s[j + 1]
  BY <1>1, RemoveAtElements
<1>3. /\ q \in Seq(S) /\ Len(q) = n - 1
      /\ \A j \in 1 .. n - 1 : q[j] = s[j + 1]
  BY <1>1, HeadTailProperties
<1>4. Head(s) = s[1]
  BY HeadTailProperties
<1> HIDE DEF p, q, n
<1>5. \A j \in 1 .. n - 1 : p[j] = q[j]
  <2>1. \A j \in 1 .. n - 1 : ~(j < 1)
    BY <1>1
  <2> QED
    BY <2>1, <1>2, <1>3
<1>6. p = q
  BY <1>2, <1>3, <1>5, SeqEqual
<1> QED
  BY <1>1, <1>4, <1>6 DEF p, q, n

LEMMA RemoveFirstFound ==
  ASSUME NEW S, NEW s \in Seq(S), IsInjective(s), NEW k \in 1 .. Len(s)
  PROVE  Queues!RemoveFirst(s, s[k]) = RemoveAt(s, k)
<1> DEFINE e == s[k]
<1>1. {i \in 1 .. Len(s) : s[i] = e} = {k}
  BY LenProperties DEF IsInjective
<1>2. k \in Nat
  BY LenProperties
<1>3. Queues!Min({k}) = k
  BY <1>2 DEF Queues!Min
<1> HIDE DEF e
<1>4. Queues!RemoveFirst(s, e) = Queues!RemoveAt(s, k)
  BY <1>1, <1>3 DEF Queues!RemoveFirst, Queues!SelectInSeq, e
<1> QED
  BY <1>4 DEF Queues!RemoveAt, RemoveAt, e

LEMMA RemoveFirstNone ==
  ASSUME NEW s, NEW e, \A i \in 1 .. Len(s) : s[i] # e
  PROVE  Queues!RemoveFirst(s, e) = s
BY DEF Queues!RemoveFirst

AbsFamilies(K, L) == [t \in Task |-> IF t \in L THEN StructsOf(K[t]) ELSE <<>>]
AbsCredits(L, pend) == [t \in Task |-> IF t \in L /\ ~(pend[t] < 0) THEN pend[t] ELSE 0]

LEMMA Mapped ==
  ASSUME LabInv
  PROVE  /\ Structs(readyqueue) = StructsOf(ReadyOf(mem))
         /\ Structs(freequeue) = StructsOf(FreeOf(mem))
         /\ Waiting = {t \in Task : pending_unblocks[t] < 0}
         /\ Families = AbsFamilies(KidsOf(mem), UsedOf(mem))
         /\ Credits = AbsCredits(UsedOf(mem), pending_unblocks)
<1>1. /\ Structs(readyqueue) = StructsOf(ReadyOf(mem))
      /\ Structs(freequeue) = StructsOf(FreeOf(mem))
  BY DEF Structs, StructsOf, ReadyOf, FreeOf
<1>2. Live \ {idle_task} = UsedOf(mem)
  BY InUse
<1>3. \A t \in Task : t \in UsedOf(mem) => Structs(Children(t)) = StructsOf(KidsOf(mem)[t])
  BY DEF Structs, StructsOf, KidsOf
<1>4. Families = AbsFamilies(KidsOf(mem), UsedOf(mem))
  BY <1>2, <1>3 DEF Families, AbsFamilies
<1>5. Credits = AbsCredits(UsedOf(mem), pending_unblocks)
  BY <1>2 DEF Credits, AbsCredits, Waiting
<1> QED
  BY <1>1, <1>4, <1>5 DEF Waiting

LEMMA MappedNext ==
  ASSUME NEW f, NEW r, NEW K, NEW L, ListsAre(mem', f, r, K, L),
         Live' \ {idle_task} = UsedOf(mem')
  PROVE  /\ Structs(readyqueue)' = StructsOf(r)
         /\ Structs(freequeue)' = StructsOf(f)
         /\ Waiting' = {t \in Task : pending_unblocks'[t] < 0}
         /\ Families' = AbsFamilies(K, L)
         /\ Credits' = AbsCredits(L, pending_unblocks')
<1>1. /\ FreeOf(mem') = f /\ ReadyOf(mem') = r /\ UsedOf(mem') = L
      /\ \A t \in L : KidsOf(mem')[t] = K[t]
  BY DEF ListsAre
<1>2. /\ Structs(readyqueue)' = StructsOf(r)
      /\ Structs(freequeue)' = StructsOf(f)
  BY <1>1 DEF Structs, StructsOf, ReadyOf, FreeOf
<1>3. Live' \ {idle_task} = L
  BY <1>1
<1>4. \A t \in Task : t \in L => Structs(Children(t))' = StructsOf(K[t])
  BY <1>1 DEF Structs, StructsOf, KidsOf
<1>5. Families' = AbsFamilies(K, L)
  BY <1>3, <1>4 DEF Families, AbsFamilies
<1>6. Credits' = AbsCredits(L, pending_unblocks')
  BY <1>3 DEF Credits, AbsCredits, Waiting
<1> QED
  BY <1>2, <1>5, <1>6 DEF Waiting

LEMMA DispatchAbs ==
  ASSUME NEW r \in Seq(ListNodes), current' = Chosen(r), Structs(readyqueue)' = StructsOf(Rest(r)),
         NEW q, q = StructsOf(r)
  PROVE  Queues!Dispatch(q)
<1>1. CASE r = <<>>
  <2>1. q = <<>>
    BY <1>1, StructsTyped
  <2> QED
    BY <1>1, <2>1 DEF Queues!Dispatch, Chosen, Rest
<1>2. CASE r # <<>>
  <2>1. /\ q \in Seq(Task) /\ q # <<>> /\ \A i \in 1 .. Len(r) : q[i] = StructOf(r[i])
    BY <1>2, StructsTyped
  <2>2. 1 \in 1 .. Len(r)
    BY <1>2, RemoveFront
  <2>3. RemoveAt(q, 1) = Tail(q) /\ Head(q) = q[1]
    BY <2>1, RemoveFront
  <2>4. StructsOf(RemoveAt(r, 1)) = RemoveAt(q, 1)
    BY <2>2, StructsRemove
  <2>5. current' = Head(q) /\ Structs(readyqueue)' = Tail(q)
    BY <1>2, <2>1, <2>2, <2>3, <2>4 DEF Chosen, Rest
  <2> QED
    BY <2>1, <2>5 DEF Queues!Dispatch
<1> QED
  BY <1>1, <1>2

LEMMA StutterAbs ==
  ASSUME UNCHANGED <<mem, current, pending_unblocks>>
  PROVE  UNCHANGED Queues!vars
BY DEF Queues!vars, Structs, Waiting, Families, Credits, Live, InQueue

LEMMA ClockAbs ==
  ASSUME LabInv, Live' \ {idle_task} = UsedOf(mem'), ClockInterrupt
  PROVE  Queues!Preempt \/ UNCHANGED Queues!vars
<1> DEFINE p == Preempted
           r == ReadyOf(mem)
<1>1. pending_unblocks' = pending_unblocks
  BY DEF ClockInterrupt
<1>2. CASE UNCHANGED <<mem, current>>
  BY <1>1, <1>2, StutterAbs
<1>3. CASE /\ r # <<>> /\ current' = Chosen(p)
           /\ ListsAre(mem', FreeOf(mem), Rest(p), KidsOf(mem), UsedOf(mem))
  <2>1. r \in Seq(ListNodes) /\ current \in Task
    BY InvFacts
  <2>2. ListNode(current) \in ListNodes /\ StructOf(ListNode(current)) = current
    BY <2>1, QueueMember
  <2>3. p = IF current = idle_task THEN r ELSE Append(r, ListNode(current))
    BY DEF Preempted
  <2>4. p \in Seq(ListNodes)
    BY <2>1, <2>2, <2>3, AppendQueue
  <2>5. /\ Structs(readyqueue) = StructsOf(r) /\ Structs(freequeue) = StructsOf(FreeOf(mem))
        /\ Waiting = {t \in Task : pending_unblocks[t] < 0}
        /\ Families = AbsFamilies(KidsOf(mem), UsedOf(mem))
        /\ Credits = AbsCredits(UsedOf(mem), pending_unblocks)
    BY Mapped
  <2>6. /\ Structs(readyqueue)' = StructsOf(Rest(p)) /\ Structs(freequeue)' = StructsOf(FreeOf(mem))
        /\ Waiting' = {t \in Task : pending_unblocks'[t] < 0}
        /\ Families' = AbsFamilies(KidsOf(mem), UsedOf(mem))
        /\ Credits' = AbsCredits(UsedOf(mem), pending_unblocks')
    BY <1>3, MappedNext
  <2>7. Structs(readyqueue) # <<>>
    BY <1>3, <2>1, <2>5, StructsTyped
  <2>8. StructsOf(p) = IF current = idle_task THEN Structs(readyqueue)
                       ELSE Append(Structs(readyqueue), current)
    BY <2>1, <2>2, <2>3, <2>5, StructsAppend
  <2> HIDE DEF p, r
  <2>9. Queues!Dispatch(IF current = idle_task THEN Structs(readyqueue)
                        ELSE Append(Structs(readyqueue), current))
    BY <1>3, <2>4, <2>6, <2>8, DispatchAbs
  <2>10. UNCHANGED <<Structs(freequeue), Waiting, Families, Credits>>
    BY <1>1, <2>5, <2>6
  <2>11. Queues!Preempt
    BY <2>7, <2>9, <2>10 DEF Queues!Preempt
  <2> QED
    BY <2>11
<1> QED
  BY <1>2, <1>3, ClockInv

LEMMA ForkAbs ==
  ASSUME LabInv, Live' \ {idle_task} = UsedOf(mem'), sys_fork, ~tangled'
  PROVE  Queues!Fork
<1> DEFINE f == FreeOf(mem)
           r == ReadyOf(mem)
           K == KidsOf(mem)
           L == UsedOf(mem)
           child == StructOf(f[1])
           pend == pending_unblocks
<1>1. /\ Ledger(f, r, K, L, {current}, PID, parent, pend)
      /\ f \in Seq(ListNodes) /\ r \in Seq(ListNodes) /\ K \in [Task -> Seq(Anchors)]
      /\ L \subseteq Task /\ current \in Task
  BY InvFacts
<1>2. /\ f # <<>> /\ child \in Task \ L /\ current \in L
      /\ ListsAre(mem', RemoveAt(f, 1), Append(r, ListNode(child)), Born(K, child, current),
                  L \cup {child})
      /\ current' = current /\ pend' = [pend EXCEPT ![child] = pend[current]]
  BY ForkInv
<1>3. /\ Structs(readyqueue) = StructsOf(r) /\ Structs(freequeue) = StructsOf(f)
      /\ Waiting = {t \in Task : pend[t] < 0}
      /\ Families = AbsFamilies(K, L) /\ Credits = AbsCredits(L, pend)
  BY Mapped
<1> DEFINE J == Born(K, child, current)
<1>4. /\ Structs(readyqueue)' = StructsOf(Append(r, ListNode(child)))
      /\ Structs(freequeue)' = StructsOf(RemoveAt(f, 1))
      /\ Waiting' = {t \in Task : pend'[t] < 0}
      /\ Families' = AbsFamilies(J, L \cup {child})
      /\ Credits' = AbsCredits(L \cup {child}, pend')
  BY <1>2, MappedNext
<1>5. 1 \in 1 .. Len(f)
  BY <1>1, <1>2, RemoveFront
<1>6. /\ StructsOf(f) # <<>> /\ StructsOf(f) \in Seq(Task) /\ StructsOf(f)[1] = child
  <2>1. f \in Seq(ListNodes) /\ f # <<>>
    BY <1>1, <1>2
  <2> QED
    BY <2>1, <1>5, StructsTyped
<1>7. Structs(freequeue)' = Tail(StructsOf(f)) /\ Head(StructsOf(f)) = child
  <2>1. StructsOf(RemoveAt(f, 1)) = RemoveAt(StructsOf(f), 1)
    BY <1>1, <1>5, StructsRemove
  <2>2. RemoveAt(StructsOf(f), 1) = Tail(StructsOf(f)) /\ Head(StructsOf(f)) = StructsOf(f)[1]
    BY <1>6, RemoveFront
  <2> QED
    BY <2>1, <2>2, <1>4, <1>6
<1> HIDE DEF f, r, K, L, child
<1>8. Structs(readyqueue)' = Append(StructsOf(r), child)
  <2>1. ListNode(child) \in ListNodes /\ StructOf(ListNode(child)) = child
    BY <1>2, QueueMember
  <2> QED
    BY <1>1, <1>4, <2>1, StructsAppend
<1>9. /\ pend \in [Task -> Int] /\ ~(pend[current] < 0) /\ \A t \in Task : pend[t] < 0 => t \in L
  BY <1>1, InvTypes DEF Ledger
<1>10. Waiting' = Waiting
  <2>1. \A t \in Task : pend'[t] < 0 <=> pend[t] < 0
    BY <1>1, <1>2, <1>9
  <2> QED
    BY <2>1, <1>3, <1>4
<1>11. Families' = [Families EXCEPT ![current] = Append(@, child), ![child] = <<>>]
  <2>1. /\ J[child] = <<>> /\ J[current] = Append(K[current], Anchor(child))
        /\ \A t \in Task \ {child, current} : J[t] = K[t]
    BY <1>1, <1>2 DEF Born, Newborn
  <2>2. StructsOf(<<>>) = <<>>
    <3>1. <<>> \in Seq(ListNodes)
      OBVIOUS
    <3> QED
      BY <3>1, StructsTyped
  <2>3. StructsOf(J[current]) = Append(StructsOf(K[current]), child)
    <3>1. Anchor(child) \in Anchors /\ StructOf(Anchor(child)) = child
      BY <1>2, QueueMember
    <3>2. K[current] \in Seq(Anchors)
      BY <1>1, <1>2
    <3>3. StructsOf(Append(K[current], Anchor(child)))
            = Append(StructsOf(K[current]), StructOf(Anchor(child)))
      BY <3>1, <3>2, StructsAppend
    <3> QED
      BY <2>1, <3>1, <3>3
  <2> HIDE DEF J
  <2>4. Families' = [t \in Task |-> IF t \in L \cup {child} THEN StructsOf(J[t]) ELSE <<>>]
    BY <1>4 DEF AbsFamilies
  <2>5. Families = [t \in Task |-> IF t \in L THEN StructsOf(K[t]) ELSE <<>>]
    BY <1>3 DEF AbsFamilies
  <2> QED
    BY <1>1, <1>2, <2>1, <2>2, <2>3, <2>4, <2>5
<1>12. Credits[current] = pend[current] /\ Credits' = [Credits EXCEPT ![child] = pend[current]]
  <2>1. Credits' = [t \in Task |-> IF t \in L \cup {child} /\ ~(pend'[t] < 0) THEN pend'[t] ELSE 0]
    BY <1>4 DEF AbsCredits
  <2>2. Credits = [t \in Task |-> IF t \in L /\ ~(pend[t] < 0) THEN pend[t] ELSE 0]
    BY <1>3 DEF AbsCredits
  <2>3. pend'[child] = pend[current] /\ \A t \in Task \ {child} : pend'[t] = pend[t]
    BY <1>2, <1>9
  <2> QED
    BY <1>1, <1>2, <1>9, <2>1, <2>2, <2>3
<1>13. \E c \in 0 .. Credits[current] : Credits' = [Credits EXCEPT ![child] = c]
  <2>1. Credits[current] \in 0 .. Credits[current]
    BY <1>1, <1>2, <1>9, <1>12
  <2> QED
    BY <2>1, <1>12
<1> QED
  BY <1>2, <1>3, <1>6, <1>7, <1>8, <1>10, <1>11, <1>13 DEF Queues!Fork

\* A fork that fails for want of frames leaves no trace in the queues.
LEMMA ForkNoFramesAbs ==
  ASSUME LabInv, Live' \ {idle_task} = UsedOf(mem'), ForkNoFrames
  PROVE  UNCHANGED Queues!vars
<1> DEFINE L == UsedOf(mem)
           K == KidsOf(mem)
           pend == pending_unblocks
<1>1. /\ ListsAre(mem', FreeOf(mem), ReadyOf(mem), K, L) /\ current' = current
      /\ \A t \in L : pend'[t] = pend[t]
      /\ \A t \in Task \ L : ~(pend'[t] < 0)
  BY ForkNoFramesInv
<1>2. \A t \in Task : pend[t] < 0 => t \in L
  BY InvFacts DEF Ledger
<1>3. L \subseteq Task
  BY InvFacts
<1>4. /\ Structs(readyqueue) = StructsOf(ReadyOf(mem))
      /\ Structs(freequeue) = StructsOf(FreeOf(mem))
      /\ Waiting = {t \in Task : pend[t] < 0}
      /\ Families = AbsFamilies(K, L) /\ Credits = AbsCredits(L, pend)
  BY Mapped
<1>5. /\ Structs(readyqueue)' = StructsOf(ReadyOf(mem))
      /\ Structs(freequeue)' = StructsOf(FreeOf(mem))
      /\ Waiting' = {t \in Task : pend'[t] < 0}
      /\ Families' = AbsFamilies(K, L) /\ Credits' = AbsCredits(L, pend')
  BY <1>1, MappedNext
<1> HIDE DEF L, K
<1>6. Waiting' = Waiting
  BY <1>1, <1>2, <1>4, <1>5
<1>7. Credits' = Credits
  BY <1>1, <1>4, <1>5 DEF AbsCredits
<1> QED
  BY <1>1, <1>4, <1>5, <1>6, <1>7 DEF Queues!vars

LEMMA BlockPendingAbs ==
  ASSUME LabInv, Live' \ {idle_task} = UsedOf(mem'), BlockPending
  PROVE  Queues!Block
<1> DEFINE L == UsedOf(mem)
           K == KidsOf(mem)
           pend == pending_unblocks
<1>1. /\ pend[current] > 0 /\ mem' = mem /\ current' = current
      /\ pend' = [pend EXCEPT ![current] = @ - 1]
  BY BlockPendingInv
<1>2. current # idle_task
  BY DEF BlockPending, InProcess
<1>3. /\ current \in L /\ L \subseteq Task /\ pend \in [Task -> Int]
  BY <1>2, InvFacts, InvTypes
<1>4. /\ Structs(readyqueue)' = Structs(readyqueue) /\ Structs(freequeue)' = Structs(freequeue)
      /\ Families' = Families
  BY <1>1 DEF Structs, Families, Live, InQueue
<1>5. /\ Waiting = {t \in Task : pend[t] < 0} /\ Credits = AbsCredits(L, pend)
  BY Mapped
<1>6. ListsAre(mem', FreeOf(mem), ReadyOf(mem), K, L)
  BY <1>1 DEF ListsAre
<1>7. /\ Waiting' = {t \in Task : pend'[t] < 0} /\ Credits' = AbsCredits(L, pend')
  BY <1>6, MappedNext
<1> HIDE DEF L, K
<1>8. Waiting' = Waiting
  <2>1. \A t \in Task : pend'[t] < 0 <=> pend[t] < 0
    BY <1>1, <1>3
  <2> QED
    BY <2>1, <1>5, <1>7
<1>9. Credits[current] > 0 /\ Credits' = [Credits EXCEPT ![current] = @ - 1]
  <2>1. Credits' = [t \in Task |-> IF t \in L /\ ~(pend'[t] < 0) THEN pend'[t] ELSE 0]
    BY <1>7 DEF AbsCredits
  <2>2. Credits = [t \in Task |-> IF t \in L /\ ~(pend[t] < 0) THEN pend[t] ELSE 0]
    BY <1>5 DEF AbsCredits
  <2>3. Credits[current] = pend[current]
    BY <1>1, <1>3, <2>2
  <2>4. pend'[current] = pend[current] - 1 /\ ~(pend'[current] < 0)
    BY <1>1, <1>3
  <2>5. \A t \in Task \ {current} : pend'[t] = pend[t]
    BY <1>1, <1>3
  <2> QED
    BY <1>1, <1>3, <2>1, <2>2, <2>3, <2>4, <2>5
<1> QED
  BY <1>1, <1>2, <1>4, <1>8, <1>9 DEF Queues!Block

LEMMA BlockWaitsAbs ==
  ASSUME LabInv, Live' \ {idle_task} = UsedOf(mem'), BlockWaits, ~tangled'
  PROVE  Queues!Block
<1> DEFINE L == UsedOf(mem)
           K == KidsOf(mem)
           r == ReadyOf(mem)
           pend == pending_unblocks
<1>1. /\ pend[current] = 0 /\ current' = Chosen(r) /\ current \in L
      /\ ListsAre(mem', FreeOf(mem), Rest(r), K, L)
      /\ pend' = [pend EXCEPT ![current] = -1]
  BY BlockWaitsInv
<1>2. /\ current \in L /\ L \subseteq Task /\ pend \in [Task -> Int] /\ r \in Seq(ListNodes)
  BY <1>1, InvFacts, InvTypes
<1>3. current # idle_task
  BY DEF BlockWaits, InProcess
<1>4. /\ Structs(readyqueue) = StructsOf(r) /\ Structs(freequeue) = StructsOf(FreeOf(mem))
      /\ Waiting = {t \in Task : pend[t] < 0}
      /\ Families = AbsFamilies(K, L) /\ Credits = AbsCredits(L, pend)
  BY Mapped
<1>5. /\ Structs(readyqueue)' = StructsOf(Rest(r)) /\ Structs(freequeue)' = StructsOf(FreeOf(mem))
      /\ Waiting' = {t \in Task : pend'[t] < 0}
      /\ Families' = AbsFamilies(K, L) /\ Credits' = AbsCredits(L, pend')
  BY <1>1, MappedNext
<1> HIDE DEF L, K, r
<1>6. pend'[current] = -1 /\ \A t \in Task \ {current} : pend'[t] = pend[t]
  BY <1>1, <1>2
<1>7. Waiting' = Waiting \cup {current}
  BY <1>2, <1>4, <1>5, <1>6
<1>8. Credits[current] = 0 /\ Credits' = Credits
  <2>1. Credits' = [t \in Task |-> IF t \in L /\ ~(pend'[t] < 0) THEN pend'[t] ELSE 0]
    BY <1>5 DEF AbsCredits
  <2>2. Credits = [t \in Task |-> IF t \in L /\ ~(pend[t] < 0) THEN pend[t] ELSE 0]
    BY <1>4 DEF AbsCredits
  <2>3. Credits[current] = 0
    BY <1>1, <1>2, <2>2
  <2>4. \A t \in Task : (IF t \in L /\ ~(pend'[t] < 0) THEN pend'[t] ELSE 0)
                          = (IF t \in L /\ ~(pend[t] < 0) THEN pend[t] ELSE 0)
    BY <1>1, <1>2, <1>6
  <2> QED
    BY <2>1, <2>2, <2>3, <2>4
<1>9. Queues!Dispatch(Structs(readyqueue))
  BY <1>1, <1>2, <1>4, <1>5, DispatchAbs
<1>10. UNCHANGED <<Structs(freequeue), Families>>
  BY <1>4, <1>5
<1> QED
  BY <1>3, <1>7, <1>8, <1>9, <1>10 DEF Queues!Block

LEMMA UnblockAbs ==
  ASSUME LabInv, Live' \ {idle_task} = UsedOf(mem'), NEW pid, sys_unblock(pid)
  PROVE  Queues!Unblock
<1> DEFINE L == UsedOf(mem)
           K == KidsOf(mem)
           r == ReadyOf(mem)
           pend == pending_unblocks
           child == StructOf(FindChild(pid))
           wakes == /\ pend[child] < 0
                    /\ pend' = [pend EXCEPT ![child] = 0]
                    /\ ListsAre(mem', FreeOf(mem), Append(r, ListNode(child)), K, L)
           counts == /\ pend[child] \in Nat
                     /\ pend' = [pend EXCEPT ![child] = @ + 1]
                     /\ mem' = mem
<1>1. /\ current' = current /\ child \in L \ {current} /\ current \in L
      /\ Anchor(child) \in ToSet(K[current]) /\ (wakes \/ counts)
  BY UnblockInv
<1>2. /\ current \in L /\ L \subseteq Task /\ pend \in [Task -> Int] /\ r \in Seq(ListNodes)
      /\ K \in [Task -> Seq(Anchors)]
  BY <1>1, InvFacts, InvTypes
<1>3. /\ Structs(readyqueue) = StructsOf(r) /\ Structs(freequeue) = StructsOf(FreeOf(mem))
      /\ Waiting = {t \in Task : pend[t] < 0}
      /\ Families = AbsFamilies(K, L) /\ Credits = AbsCredits(L, pend)
  BY Mapped
<1>4. wakes => /\ Structs(readyqueue)' = StructsOf(Append(r, ListNode(child)))
               /\ Structs(freequeue)' = StructsOf(FreeOf(mem))
               /\ Waiting' = {t \in Task : pend'[t] < 0}
               /\ Families' = AbsFamilies(K, L) /\ Credits' = AbsCredits(L, pend')
  BY MappedNext
<1>5. counts => /\ Structs(readyqueue)' = Structs(readyqueue)
                /\ Structs(freequeue)' = Structs(freequeue)
                /\ Waiting' = {t \in Task : pend'[t] < 0}
                /\ Families' = Families /\ Credits' = AbsCredits(L, pend')
  <2> SUFFICES ASSUME counts
               PROVE  /\ Structs(readyqueue)' = Structs(readyqueue)
                      /\ Structs(freequeue)' = Structs(freequeue)
                      /\ Waiting' = {t \in Task : pend'[t] < 0}
                      /\ Families' = Families /\ Credits' = AbsCredits(L, pend')
    OBVIOUS
  <2>1. ListsAre(mem', FreeOf(mem), r, K, L)
    BY DEF ListsAre
  <2>2. /\ Structs(readyqueue)' = StructsOf(r) /\ Structs(freequeue)' = StructsOf(FreeOf(mem))
        /\ Waiting' = {t \in Task : pend'[t] < 0}
        /\ Families' = AbsFamilies(K, L) /\ Credits' = AbsCredits(L, pend')
    BY <2>1, MappedNext
  <2> QED
    BY <2>2, <1>3
<1> HIDE DEF L, K, r, child
<1>6. child \in Queues!ToSet(Families[current])
  <2>1. K[current] \in Seq(Anchors)
    BY <1>2
  <2>2. /\ DOMAIN K[current] = 1 .. Len(K[current])
        /\ DOMAIN StructsOf(K[current]) = 1 .. Len(K[current])
        /\ \A i \in 1 .. Len(K[current]) : StructsOf(K[current])[i] = StructOf(K[current][i])
    BY <2>1, StructsTyped
  <2>3. PICK i \in 1 .. Len(K[current]) : K[current][i] = Anchor(child)
    BY <1>1, <2>2 DEF ToSet
  <2>4. StructOf(Anchor(child)) = child
    BY LabNodes
  <2>5. Families[current] = StructsOf(K[current])
    BY <1>2, <1>3 DEF AbsFamilies
  <2> QED
    BY <2>2, <2>3, <2>4, <2>5 DEF Queues!ToSet
<1>7. Credits = [t \in Task |-> IF t \in L /\ ~(pend[t] < 0) THEN pend[t] ELSE 0]
  BY <1>3 DEF AbsCredits
<1>8. CASE wakes
  <2>1. pend'[child] = 0 /\ \A t \in Task \ {child} : pend'[t] = pend[t]
    BY <1>1, <1>2, <1>8
  <2>2. child \in Waiting /\ Waiting' = Waiting \ {child}
    BY <1>1, <1>2, <1>3, <1>4, <1>8, <2>1
  <2>3. Structs(readyqueue)' = Append(Structs(readyqueue), child)
    <3>1. ListNode(child) \in ListNodes /\ StructOf(ListNode(child)) = child
      BY <1>1, <1>2, QueueMember
    <3>2. StructsOf(Append(r, ListNode(child))) = Append(StructsOf(r), StructOf(ListNode(child)))
      BY <1>2, <3>1, StructsAppend
    <3> QED
      BY <1>3, <1>4, <1>8, <3>1, <3>2
  <2>4. Credits' = Credits
    <3>1. Credits' = [t \in Task |-> IF t \in L /\ ~(pend'[t] < 0) THEN pend'[t] ELSE 0]
      BY <1>4, <1>8 DEF AbsCredits
    <3>2. \A t \in Task : (IF t \in L /\ ~(pend'[t] < 0) THEN pend'[t] ELSE 0)
                            = (IF t \in L /\ ~(pend[t] < 0) THEN pend[t] ELSE 0)
      BY <1>8, <1>2, <2>1
    <3> QED
      BY <3>1, <3>2, <1>7
  <2>5. UNCHANGED <<current, Structs(freequeue), Families>>
    BY <1>1, <1>3, <1>4, <1>8
  <2> QED
    BY <1>6, <2>2, <2>3, <2>4, <2>5 DEF Queues!Unblock
<1>9. CASE counts
  <2>1. pend'[child] = pend[child] + 1 /\ \A t \in Task \ {child} : pend'[t] = pend[t]
    BY <1>1, <1>2, <1>9
  <2>2. ~(pend[child] < 0) /\ ~(pend'[child] < 0)
    BY <1>9, <2>1
  <2>3. child \notin Waiting /\ Waiting' = Waiting
    BY <1>1, <1>2, <1>3, <1>5, <1>9, <2>1, <2>2
  <2>4. Credits' = [Credits EXCEPT ![child] = @ + 1]
    <3>1. Credits' = [t \in Task |-> IF t \in L /\ ~(pend'[t] < 0) THEN pend'[t] ELSE 0]
      BY <1>5, <1>9 DEF AbsCredits
    <3>2. Credits[child] = pend[child]
      BY <1>1, <1>2, <1>7, <2>2
    <3> QED
      BY <1>1, <1>2, <1>7, <2>1, <2>2, <3>1, <3>2
  <2>5. UNCHANGED <<current, Structs(freequeue), Structs(readyqueue), Families>>
    BY <1>1, <1>5, <1>9
  <2> QED
    BY <1>6, <2>3, <2>4, <2>5 DEF Queues!Unblock
<1> QED
  BY <1>1, <1>8, <1>9

LEMMA ExitAbs ==
  ASSUME LabInv, Live' \ {idle_task} = UsedOf(mem'), sys_exit
  PROVE  Queues!Exit
<1> DEFINE L == UsedOf(mem)
           K == KidsOf(mem)
           r == ReadyOf(mem)
           f == FreeOf(mem)
           c == current
           h == parent[c]
           pend == pending_unblocks
<1>1. c # idle_task /\ UNCHANGED pend /\ c' = Chosen(r) /\ c \in L
  BY ExitInv
<1>2. PICK J : /\ Without(K, J, c, h)
               /\ ListsAre(mem', Append(f, ListNode(c)), Rest(r), J, L \ {c})
  BY ExitInv
<1>3. /\ L \subseteq Task /\ r \in Seq(ListNodes)
      /\ f \in Seq(ListNodes) /\ K \in [Task -> Seq(Anchors)]
      /\ Ledger(f, r, K, L, {c}, PID, parent, pend)
      /\ Holds(mem, f, r, K, L)
  BY InvFacts
<1>4. /\ Structs(readyqueue) = StructsOf(r) /\ Structs(freequeue) = StructsOf(f)
      /\ Waiting = {t \in Task : pend[t] < 0}
      /\ Families = AbsFamilies(K, L) /\ Credits = AbsCredits(L, pend)
  BY Mapped
<1>5. /\ Structs(readyqueue)' = StructsOf(Rest(r))
      /\ Structs(freequeue)' = StructsOf(Append(f, ListNode(c)))
      /\ Waiting' = {t \in Task : pend'[t] < 0}
      /\ Families' = AbsFamilies(J, L \ {c}) /\ Credits' = AbsCredits(L \ {c}, pend')
  BY <1>2, MappedNext
<1>6. h \in (L \cup {idle_task}) \ {c}
  BY <1>1, <1>3 DEF Ledger
<1> HIDE DEF L, K, r, f, h
<1>7. Structs(freequeue)' = Append(Structs(freequeue), c)
  <2>1. ListNode(c) \in ListNodes /\ StructOf(ListNode(c)) = c
    BY <1>1, <1>3, QueueMember
  <2>2. StructsOf(Append(f, ListNode(c))) = Append(StructsOf(f), StructOf(ListNode(c)))
    BY <1>3, <2>1, StructsAppend
  <2> QED
    BY <1>4, <1>5, <2>1, <2>2
<1>8. Queues!Dispatch(Structs(readyqueue))
  BY <1>1, <1>3, <1>4, <1>5, DispatchAbs
<1>9. Waiting' = Waiting
  BY <1>1, <1>4, <1>5
<1>10. Credits' = [Credits EXCEPT ![c] = 0]
  BY <1>1, <1>3, <1>4, <1>5 DEF AbsCredits
\* The list of the parent loses this struct, no other list holds it.
<1>11. ASSUME NEW k \in 1 .. Len(K[h]), h \in L, K[h][k] = Anchor(c)
       PROVE  StructsOf(RemoveAt(K[h], k)) = Queues!RemoveFirst(StructsOf(K[h]), c)
  <2>1. K[h] \in Seq(Anchors)
    BY <1>3, <1>11
  <2>2. StructsOf(RemoveAt(K[h], k)) = RemoveAt(StructsOf(K[h]), k)
    BY <2>1, StructsRemove
  <2> DEFINE s == StructsOf(K[h])
  <2>3. /\ s \in Seq(Task) /\ Len(s) = Len(K[h]) /\ DOMAIN s = 1 .. Len(K[h])
        /\ DOMAIN K[h] = 1 .. Len(K[h])
        /\ \A i \in 1 .. Len(K[h]) : K[h][i] \in Anchors /\ s[i] = StructOf(K[h][i])
    BY <2>1, StructsTyped
  <2>4. IsInjective(K[h])
    BY <1>3, <1>11 DEF Holds, Chained
  <2>5. IsInjective(s)
    <3>1. \A x, y \in Anchors : StructOf(x) = StructOf(y) => x = y
      BY QueueMember
    <3> HIDE DEF s
    <3> QED
      BY <2>3, <2>4, <3>1 DEF IsInjective
  <2>6. s[k] = c
    BY <1>11, <2>3, LabNodes
  <2> HIDE DEF s
  <2>7. Queues!RemoveFirst(s, s[k]) = RemoveAt(s, k)
    BY <2>3, <2>5, RemoveFirstFound
  <2> QED
    BY <2>2, <2>6, <2>7 DEF s
<1>12. ASSUME NEW t \in L, t # h
       PROVE  Queues!RemoveFirst(StructsOf(K[t]), c) = StructsOf(K[t])
  <2>1. K[t] \in Seq(Anchors)
    BY <1>3
  <2>2. /\ Len(StructsOf(K[t])) = Len(K[t]) /\ DOMAIN K[t] = 1 .. Len(K[t])
        /\ \A i \in 1 .. Len(K[t]) : K[t][i] \in Anchors /\ StructsOf(K[t])[i] = StructOf(K[t][i])
    BY <2>1, StructsTyped
  <2>3. Anchor(c) \notin ToSet(K[t])
    BY <1>1, <1>3, <1>12 DEF Ledger, h
  <2>4. \A i \in 1 .. Len(K[t]) : K[t][i] # Anchor(c)
    BY <2>2, <2>3 DEF ToSet
  <2>5. \A x \in Anchors : StructOf(x) = c => x = Anchor(c)
    BY QueueMember
  <2> DEFINE s == StructsOf(K[t])
  <2>6. \A i \in 1 .. Len(s) : s[i] # c
    BY <2>2, <2>4, <2>5
  <2> HIDE DEF s
  <2>7. Queues!RemoveFirst(s, c) = s
    BY <2>6, RemoveFirstNone
  <2> QED
    BY <2>7 DEF s
<1>13. \A t \in L \ {c} : StructsOf(J[t]) = Queues!RemoveFirst(StructsOf(K[t]), c)
  <2> TAKE t \in L \ {c}
  <2>1. CASE t = h
    <3>1. h # idle_task
      BY <1>3, <2>1 DEF Ledger
    <3>2. PICK k \in 1 .. Len(K[h]) : K[h][k] = Anchor(c) /\ J = [K EXCEPT ![h] = RemoveAt(@, k)]
      BY <1>2, <3>1 DEF Without
    <3>3. J[h] = RemoveAt(K[h], k)
      BY <1>3, <2>1, <3>2
    <3> QED
      BY <1>11, <2>1, <3>2, <3>3
  <2>2. CASE t # h
    <3>1. J[t] = K[t]
      BY <1>2, <1>3, <2>2 DEF Without
    <3> QED
      BY <1>12, <2>2, <3>1
  <2> QED
    BY <2>1, <2>2
<1>14. Families' = [t \in Task |->
                      IF t = c THEN <<>> ELSE Queues!RemoveFirst(Families[t], c)]
  <2>1. Families' = [t \in Task |-> IF t \in L \ {c} THEN StructsOf(J[t]) ELSE <<>>]
    BY <1>5 DEF AbsFamilies
  <2>2. \A t \in Task : Families[t] = IF t \in L THEN StructsOf(K[t]) ELSE <<>>
    BY <1>4 DEF AbsFamilies
  <2>3. Queues!RemoveFirst(<<>>, c) = <<>>
    <3>1. \A i \in 1 .. Len(<<>>) : <<>>[i] # c
      OBVIOUS
    <3> QED
      BY <3>1, RemoveFirstNone
  <2>4. \A t \in Task : (IF t \in L \ {c} THEN StructsOf(J[t]) ELSE <<>>)
                          = (IF t = c THEN <<>> ELSE Queues!RemoveFirst(Families[t], c))
    BY <1>13, <2>2, <2>3
  <2> QED
    BY <2>1, <2>4
<1> QED
  BY <1>1, <1>7, <1>8, <1>9, <1>10, <1>14 DEF Queues!Exit

LEMMA InitAbs ==
  ASSUME Init
  PROVE  Queues!Init
<1>1. LabInv
  BY LabInitInv
<1>2. PICK f : ListsAre(mem, f, <<>>, NoKids, {task1})
  BY LabInitInv
<1>3. /\ FreeOf(mem) = f /\ ReadyOf(mem) = <<>> /\ UsedOf(mem) = {task1}
      /\ KidsOf(mem)[task1] = NoKids[task1]
  BY <1>2 DEF ListsAre
<1>4. /\ f \in Seq(ListNodes) /\ IsInjective(f) /\ ListNode(idle_task) \notin ToSet(f)
  BY <1>1, <1>3, InvFacts DEF Ledger
<1>5. /\ idle_task \in Task /\ task1 \in Task /\ idle_task # task1
  BY LabTasks
<1>6. \A t \in Task : ListNode(t) \in ToSet(f) <=> t # idle_task /\ t # task1
  BY <1>3, <1>4, <1>5 DEF UsedOf
<1>7. /\ Structs(readyqueue) = StructsOf(<<>>) /\ Structs(freequeue) = StructsOf(f)
      /\ Waiting = {t \in Task : pending_unblocks[t] < 0}
      /\ Families = AbsFamilies(KidsOf(mem), {task1})
      /\ Credits = AbsCredits({task1}, pending_unblocks)
  BY <1>1, <1>3, Mapped
<1>8. StructsOf(<<>>) = <<>>
  <2>1. <<>> \in Seq(Anchors)
    OBVIOUS
  <2> QED
    BY <2>1, StructsTyped
<1>9. /\ Len(StructsOf(f)) = Len(f) /\ DOMAIN StructsOf(f) = 1 .. Len(f) /\ DOMAIN f = 1 .. Len(f)
      /\ \A i \in 1 .. Len(f) : f[i] \in ListNodes /\ StructsOf(f)[i] = StructOf(f[i])
  BY <1>4, StructsTyped
<1>10. Queues!ToSet(StructsOf(f)) = Task \ {idle_task, task1}
  <2>1. ASSUME NEW t \in Queues!ToSet(StructsOf(f)) PROVE t \in Task \ {idle_task, task1}
    <3>1. PICK i \in 1 .. Len(f) : t = StructOf(f[i])
      BY <1>9 DEF Queues!ToSet
    <3>2. f[i] \in ListNodes /\ f[i] \in ToSet(f)
      BY <1>9 DEF ToSet
    <3>3. t \in Task /\ f[i] = ListNode(t)
      BY <3>1, <3>2, QueueMember
    <3> QED
      BY <1>6, <3>2, <3>3
  <2>2. ASSUME NEW t \in Task \ {idle_task, task1} PROVE t \in Queues!ToSet(StructsOf(f))
    <3>1. ListNode(t) \in ToSet(f)
      BY <1>6
    <3>2. PICK i \in 1 .. Len(f) : ListNode(t) = f[i]
      BY <3>1, <1>9 DEF ToSet
    <3>3. StructsOf(f)[i] = t
      BY <3>2, <1>9, LabNodes
    <3> QED
      BY <3>3, <1>9 DEF Queues!ToSet
  <2> QED
    BY <2>1, <2>2
<1>11. Queues!IsInjective(StructsOf(f))
  <2>1. \A x, y \in ListNodes : StructOf(x) = StructOf(y) => x = y
    BY QueueMember
  <2> QED
    BY <1>4, <1>9, <2>1 DEF IsInjective, Queues!IsInjective
<1>12. Families = [t \in Task |-> <<>>]
  BY <1>3, <1>5, <1>7, <1>8 DEF AbsFamilies, NoKids
<1>13. /\ current = task1 /\ \A t \in Task : pending_unblocks[t] = 0
  BY DEF Init
<1>14. Waiting = {}
  BY <1>7, <1>13
<1>15. Credits = [t \in Task |-> 0]
  BY <1>7, <1>13 DEF AbsCredits
<1> QED
  BY <1>5, <1>7, <1>8, <1>10, <1>11, <1>12, <1>13, <1>14, <1>15 DEF Queues!Init

LEMMA StepAbs ==
  ASSUME LabInv, Live' \ {idle_task} = UsedOf(mem'), [Next]_vars, ~tangled'
  PROVE  [Queues!Next]_(Queues!vars)
<1>1. CASE ClockInterrupt
  BY <1>1, ClockAbs DEF Queues!Next
<1>2. CASE sys_fork
  BY <1>2, ForkAbs DEF Queues!Next
<1>3. CASE ForkNoFrames
  BY <1>3, ForkNoFramesAbs
<1>4. CASE BlockPending
  BY <1>4, BlockPendingAbs DEF Queues!Next
<1>5. CASE BlockWaits
  BY <1>5, BlockWaitsAbs DEF Queues!Next
<1>6. CASE \E pid \in 1 .. MaxPID : sys_unblock(pid)
  BY <1>6, UnblockAbs DEF Queues!Next
<1>7. CASE sys_exit
  BY <1>7, ExitAbs DEF Queues!Next
<1>8. CASE UNCHANGED vars
  BY <1>8, StutterAbs DEF vars
<1> QED
  BY <1>1, <1>2, <1>3, <1>4, <1>5, <1>6, <1>7, <1>8 DEF Next

\* The pointers of lab/list.c, lab/sched.c and lab/sys.c do what the queues,
\* families and remembered unblocks of LabQueues say, for any number of structs:
\* each call and each clock interrupt is one step of LabQueues or none, until one
\* links a node into two lists.
THEOREM PointersImplementQueues == Spec => ImplementsQueues
<1>1. Init => Queues!Init
  BY InitAbs
<1>2. LabInv => Live \ {idle_task} = UsedOf(mem)
  BY InUse
<1>3. /\ tangled \/ LabInv
      /\ (tangled \/ (LabInv /\ Live \ {idle_task} = UsedOf(mem)))'
      /\ [Next]_vars
      => [tangled' \/ Queues!Next]_(Queues!vars)
  <2> SUFFICES ASSUME tangled \/ LabInv,
                      (tangled \/ (LabInv /\ Live \ {idle_task} = UsedOf(mem)))',
                      [Next]_vars, ~tangled'
               PROVE  [Queues!Next]_(Queues!vars)
    OBVIOUS
  <2>1. LabInv
    BY StaysTangled
  <2>2. Live' \ {idle_task} = UsedOf(mem')
    BY DEF UsedOf, FreeOf, idle_task
  <2> QED
    BY <2>1, <2>2, StepAbs
<1> QED
  BY <1>1, <1>2, <1>3, LabAlways, PTL DEF Spec, ImplementsQueues

=============================================================================
