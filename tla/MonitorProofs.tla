---------------------------- MODULE MonitorProofs ----------------------------
(***************************************************************************)
(* Proofs about Monitor: the cooldowns of AlertDelivery are kept, the      *)
(* bounded cache gives up the entry that expires first, and whatever fails *)
(* is counted and hides nothing else.                                      *)
(*                                                                         *)
(* The two tables and the history of offers say the same of each other:    *)
(* every entry stands for a delivery, and every delivery whose cooldown is *)
(* not over has its entry, unless the cache gave it up.  Then the check    *)
(* before an emit decides rightly; that it still holds when the sink has   *)
(* taken its time is EmitFresh, since nothing else is delivered meanwhile. *)
(* For the counts, what was offered and is still to be offered is at any   *)
(* time what was found so far: Tallies.                                    *)
(*                                                                         *)
(* The first third is about sequences: what the loops of the pipeline, the *)
(* operations of a dictionary and the folds of the detector return, each   *)
(* by induction over the naturals as the well-foundedness of < gives it.   *)
(***************************************************************************)
EXTENDS Monitor, WellFoundedInduction, SequenceTheorems, FiniteSetTheorems, TLAPS

(* A set of naturals has a least element.                                  *)
LEMMA Least ==
    ASSUME NEW T \in SUBSET Nat, T # {}
    PROVE  \E n \in T : \A m \in T : n <= m
<1>1. IsWellFoundedOn(OpToRel(<, Nat), Nat)
  BY NatLessThanWellFounded
<1>2. PICK n \in T : \A m \in T : ~(<<m, n>> \in OpToRel(<, Nat))
  BY <1>1, WFMin
<1>3. \A m, k \in Nat : m < k => <<m, k>> \in OpToRel(<, Nat)
  BY DEF OpToRel
<1>4. \A m \in T : m \in Nat /\ n \in Nat /\ ~(m < n)
  BY <1>2, <1>3
<1>5. \A m \in T : n <= m
  BY <1>4, SMT
<1> QED
  BY <1>5

(* Induction over the naturals.                                            *)
LEMMA Induction ==
    ASSUME NEW S \in SUBSET Nat, 0 \in S, \A n \in S : n + 1 \in S
    PROVE  S = Nat
<1> DEFINE T == Nat \ S
<1>1. SUFFICES ASSUME T # {} PROVE FALSE
  OBVIOUS
<1>2. PICK n \in T : \A m \in T : n <= m
  BY <1>1, Least
<1>3. n # 0 /\ n - 1 \in Nat /\ ~(n <= n - 1)
  OBVIOUS
<1>4. n - 1 \in S
  BY <1>2, <1>3
<1> QED
  BY <1>3, <1>4

-----------------------------------------------------------------------------
(* Sequences of anything.                                                  *)

IsSeq(s) == s \in Seq(ToSet(s))

LEMMA SeqIs ==
    ASSUME NEW s, IsSeq(s)
    PROVE  Len(s) \in Nat /\ DOMAIN s = 1..Len(s) /\ (s = <<>> <=> Len(s) = 0)
BY LenProperties, EmptySeq DEF IsSeq

LEMMA IsSeqOf ==
    ASSUME NEW T, NEW s \in Seq(T)
    PROVE  IsSeq(s)
<1>1. Len(s) \in Nat /\ DOMAIN s = 1..Len(s) /\ s \in [1..Len(s) -> T]
  BY LenProperties
<1>2. s \in [1..Len(s) -> ToSet(s)]
  BY <1>1 DEF ToSet
<1> QED
  BY <1>1, <1>2 DEF IsSeq

LEMMA EmptyIs == IsSeq(<<>>) /\ Len(<<>>) = 0 /\ DOMAIN <<>> = {}
<1>1. <<>> \in Seq({}) /\ Len(<<>>) = 0
  BY EmptySeq
<1>2. IsSeq(<<>>)
  BY <1>1, IsSeqOf
<1> QED
  BY <1>1, <1>2, SeqIs

LEMMA FunctionIs ==
    ASSUME NEW n \in Nat, NEW s, s = [i \in 1..n |-> s[i]]
    PROVE  IsSeq(s) /\ Len(s) = n
<1>1. s \in [1..n -> ToSet(s)]
  BY DEF ToSet
<1> QED
  BY <1>1 DEF IsSeq

LEMMA AppendIs ==
    ASSUME NEW s, IsSeq(s), NEW e
    PROVE  /\ IsSeq(Append(s, e)) /\ Len(Append(s, e)) = Len(s) + 1
           /\ DOMAIN Append(s, e) = 1..(Len(s) + 1)
           /\ Append(s, e)[Len(s) + 1] = e
           /\ \A i \in 1..Len(s) : Append(s, e)[i] = s[i]
<1> DEFINE T == ToSet(s) \union {e}
<1>1. s \in Seq(T) /\ e \in T
  <2>1. s \in [1..Len(s) -> ToSet(s)] /\ Len(s) \in Nat
    BY LenProperties DEF IsSeq
  <2>2. s \in [1..Len(s) -> T]
    BY <2>1
  <2> QED
    BY <2>1, <2>2
<1> HIDE DEF T
<1>2. /\ Append(s, e) \in Seq(T)
      /\ Len(Append(s, e)) = Len(s) + 1
      /\ \A i \in 1..Len(s) : Append(s, e)[i] = s[i]
      /\ Append(s, e)[Len(s) + 1] = e
  BY <1>1, AppendProperties
<1>3. IsSeq(Append(s, e))
  BY <1>2, IsSeqOf
<1> QED
  BY <1>2, <1>3, SeqIs

LEMMA TailIs ==
    ASSUME NEW s, IsSeq(s), s # <<>>
    PROVE  /\ Len(s) \in Nat \ {0} /\ Head(s) = s[1] /\ 1 \in DOMAIN s
           /\ IsSeq(Tail(s)) /\ Len(Tail(s)) = Len(s) - 1
           /\ DOMAIN Tail(s) = 1..(Len(s) - 1)
           /\ \A i \in 1..(Len(s) - 1) : Tail(s)[i] = s[i + 1]
<1>1. /\ Tail(s) \in Seq(ToSet(s)) /\ Len(Tail(s)) = Len(s) - 1
      /\ \A i \in 1..Len(Tail(s)) : Tail(s)[i] = s[i + 1]
  BY HeadTailProperties DEF IsSeq
<1>2. IsSeq(Tail(s))
  BY <1>1, IsSeqOf
<1>3. Len(s) \in Nat \ {0} /\ DOMAIN s = 1..Len(s)
  BY SeqIs
<1>4. Head(s) = s[1]
  BY <1>3 DEF IsSeq
<1> QED
  BY <1>1, <1>2, <1>3, <1>4, SeqIs

LEMMA ConcatIs ==
    ASSUME NEW s, IsSeq(s), NEW t, IsSeq(t)
    PROVE  /\ IsSeq(s \o t) /\ Len(s \o t) = Len(s) + Len(t)
           /\ DOMAIN (s \o t) = 1..(Len(s) + Len(t))
           /\ \A i \in 1..(Len(s) + Len(t)) :
                 (s \o t)[i] = IF i <= Len(s) THEN s[i] ELSE t[i - Len(s)]
<1> DEFINE T == ToSet(s) \union ToSet(t)
<1>1. s \in Seq(T) /\ t \in Seq(T)
  <2>1. /\ s \in [1..Len(s) -> ToSet(s)] /\ Len(s) \in Nat
        /\ t \in [1..Len(t) -> ToSet(t)] /\ Len(t) \in Nat
    BY LenProperties DEF IsSeq
  <2>2. s \in [1..Len(s) -> T] /\ t \in [1..Len(t) -> T]
    BY <2>1
  <2> QED
    BY <2>1, <2>2
<1> HIDE DEF T
<1>2. /\ s \o t \in Seq(T) /\ Len(s \o t) = Len(s) + Len(t)
      /\ \A i \in 1..(Len(s) + Len(t)) :
            (s \o t)[i] = IF i <= Len(s) THEN s[i] ELSE t[i - Len(s)]
  BY <1>1, ConcatProperties
<1>3. IsSeq(s \o t)
  BY <1>2, IsSeqOf
<1> QED
  BY <1>2, <1>3, SeqIs

-----------------------------------------------------------------------------
(* What Kept leaves: the entries at the positions of S, in their order.    *)

KeptBy(d, S, n, f) ==
    f = [k \in 0..n |-> IF k = 0 THEN <<>>
                        ELSE IF k \in S THEN Append(f[k - 1], d[k]) ELSE f[k - 1]]

LEMMA KeptExists ==
    ASSUME NEW d, NEW S
    PROVE  \A n \in Nat : \E f : KeptBy(d, S, n, f)
<1> DEFINE N == {n \in Nat : \E f : KeptBy(d, S, n, f)}
<1>1. 0 \in N
  <2> DEFINE f == [k \in 0..0 |-> <<>>]
  <2>1. KeptBy(d, S, 0, f)
    <3>1. \A k \in 0..0 : k = 0
      OBVIOUS
    <3> QED
      BY <3>1 DEF KeptBy
  <2> QED
    BY <2>1
<1>2. ASSUME NEW n \in N
      PROVE  n + 1 \in N
  <2>1. PICK f : KeptBy(d, S, n, f)
    OBVIOUS
  <2> DEFINE g == [k \in 0..(n + 1) |->
                     IF k = n + 1
                     THEN IF n + 1 \in S THEN Append(f[n], d[n + 1]) ELSE f[n]
                     ELSE f[k]]
  <2>2. ASSUME NEW k \in 0..(n + 1)
        PROVE  g[k] = IF k = 0 THEN <<>>
                      ELSE IF k \in S THEN Append(g[k - 1], d[k]) ELSE g[k - 1]
    <3>1. CASE k = n + 1
      <4>1. k # 0 /\ k - 1 = n /\ n \in 0..(n + 1) /\ n # n + 1
        BY <3>1
      <4>2. g[k - 1] = f[n]
        BY <4>1
      <4> QED
        BY <3>1, <4>1, <4>2
    <3>2. CASE k # n + 1
      <4>1. k \in 0..n /\ (k # 0 => k - 1 \in 0..(n + 1) /\ k - 1 # n + 1)
        BY <3>2
      <4>2. g[k] = f[k] /\ (k # 0 => g[k - 1] = f[k - 1])
        BY <3>2, <4>1
      <4>3. f[k] = IF k = 0 THEN <<>>
                   ELSE IF k \in S THEN Append(f[k - 1], d[k]) ELSE f[k - 1]
        BY <2>1, <4>1 DEF KeptBy
      <4> QED
        BY <4>2, <4>3
    <3> QED
      BY <3>1, <3>2
  <2>3. KeptBy(d, S, n + 1, g)
    BY <2>2 DEF KeptBy
  <2> QED
    BY <2>3
<1>3. N = Nat
  BY <1>1, <1>2, Induction
<1> QED
  BY <1>3

(* x comes before y in d, at two of the first n positions and in S.        *)
InOrder(d, S, n, x, y) ==
    \E p, q \in S : p \in 1..n /\ q \in 1..n /\ p < q /\ x = d[p] /\ y = d[q]

(* r is what is left of the first n entries of d.                          *)
Remains(d, S, n, r) ==
    /\ IsSeq(r) /\ Len(r) <= n
    /\ \A i \in DOMAIN r : \E p \in S : p \in 1..n /\ r[i] = d[p]
    /\ \A i, j \in DOMAIN r : i < j => InOrder(d, S, n, r[i], r[j])
    /\ \A p \in 1..n : p \in S => \E i \in DOMAIN r : r[i] = d[p]

LEMMA OneMoreRemains ==
    ASSUME NEW d, NEW S, NEW n \in Nat, NEW r, Remains(d, S, n, r)
    PROVE  Remains(d, S, n + 1, IF n + 1 \in S THEN Append(r, d[n + 1]) ELSE r)
<1>1. CASE n + 1 \notin S
  <2>1. \A p \in 1..(n + 1) : p \in S => p \in 1..n
    BY <1>1
  <2>2. \A p \in 1..n : p \in 1..(n + 1)
    OBVIOUS
  <2>3. Len(r) <= n + 1
    BY SeqIs DEF Remains
  <2>5. Remains(d, S, n + 1, r)
    <3>1. \A i \in DOMAIN r : \E p \in S : p \in 1..(n + 1) /\ r[i] = d[p]
      BY <2>2 DEF Remains
    <3>2. \A x, y : InOrder(d, S, n, x, y) => InOrder(d, S, n + 1, x, y)
      BY <2>2 DEF InOrder
    <3>3. \A i, j \in DOMAIN r : i < j => InOrder(d, S, n + 1, r[i], r[j])
      BY <3>2 DEF Remains
    <3>4. \A p \in 1..(n + 1) : p \in S => \E i \in DOMAIN r : r[i] = d[p]
      BY <2>1 DEF Remains
    <3> QED
      BY <3>1, <3>3, <3>4, <2>3 DEF Remains
  <2> QED
    BY <1>1, <2>5
<1>2. CASE n + 1 \in S
  <2> DEFINE t == Append(r, d[n + 1])
             m == Len(r) + 1
  <2>1. Len(r) \in Nat /\ DOMAIN r = 1..Len(r) /\ Len(r) <= n
    BY SeqIs DEF Remains
  <2>2. /\ IsSeq(t) /\ Len(t) = m /\ DOMAIN t = 1..m
        /\ t[m] = d[n + 1] /\ \A i \in 1..Len(r) : t[i] = r[i]
    BY AppendIs DEF Remains
  <2>3. /\ \A i \in 1..m : i \in 1..Len(r) \/ i = m
        /\ \A i \in 1..Len(r) : i \in 1..m /\ i < m
        /\ m \in 1..m /\ m <= n + 1 /\ n + 1 \in 1..(n + 1)
    BY <2>1
  <2>4. \A p \in 1..n : p \in 1..(n + 1) /\ p < n + 1
    OBVIOUS
  <2> HIDE DEF t, m
  <2>5. ASSUME NEW i \in DOMAIN t
        PROVE  \E p \in S : p \in 1..(n + 1) /\ t[i] = d[p]
    <3>1. CASE i = m
      BY <3>1, <1>2, <2>2, <2>3
    <3>2. CASE i \in 1..Len(r)
      BY <3>2, <2>1, <2>2, <2>4 DEF Remains
    <3> QED
      BY <3>1, <3>2, <2>2, <2>3
  <2>6. ASSUME NEW i \in DOMAIN t, NEW j \in DOMAIN t, i < j
        PROVE  InOrder(d, S, n + 1, t[i], t[j])
    <3>0. i \in 1..Len(r)
      BY <2>1, <2>2, <2>6 DEF m
    <3>1. CASE j = m
      <4>1. PICK p \in S : p \in 1..n /\ r[i] = d[p]
        BY <3>0, <2>1 DEF Remains
      <4> QED
        BY <4>1, <3>0, <3>1, <1>2, <2>2, <2>3, <2>4 DEF InOrder
    <3>2. CASE j \in 1..Len(r)
      <4>1. i \in DOMAIN r /\ j \in DOMAIN r /\ i < j
        BY <3>0, <3>2, <2>1, <2>6
      <4>2. InOrder(d, S, n, r[i], r[j])
        BY <4>1 DEF Remains
      <4>3. InOrder(d, S, n + 1, r[i], r[j])
        BY <4>2, <2>4 DEF InOrder
      <4> QED
        BY <4>3, <3>0, <3>2, <2>2
    <3> QED
      BY <3>1, <3>2, <2>2, <2>3
  <2>7. ASSUME NEW p \in 1..(n + 1), p \in S
        PROVE  \E i \in DOMAIN t : t[i] = d[p]
    <3>1. CASE p = n + 1
      BY <3>1, <2>2, <2>3
    <3>2. CASE p # n + 1
      <4>1. p \in 1..n
        BY <3>2
      <4>2. PICK i \in DOMAIN r : r[i] = d[p]
        BY <4>1, <2>7 DEF Remains
      <4> QED
        BY <4>2, <2>1, <2>2, <2>3
    <3> QED
      BY <3>1, <3>2
  <2>8. Len(t) <= n + 1
    BY <2>2, <2>3
  <2>9. Remains(d, S, n + 1, t)
    BY <2>2, <2>5, <2>6, <2>7, <2>8 DEF Remains
  <2> QED
    BY <2>9, <1>2 DEF t
<1> QED
  BY <1>1, <1>2

LEMMA KeptIs ==
    ASSUME NEW d, IsSeq(d), NEW S
    PROVE  Remains(d, S, Len(d), Kept(d, S))
<1>1. Len(d) \in Nat
  BY SeqIs
<1> DEFINE f == CHOOSE f : KeptBy(d, S, Len(d), f)
<1>2. KeptBy(d, S, Len(d), f)
  BY <1>1, KeptExists
<1>3. Kept(d, S) = f[Len(d)]
  BY DEF Kept, KeptBy
<1> HIDE DEF f
<1> DEFINE N == {n \in Nat : n <= Len(d) => Remains(d, S, n, f[n])}
<1>4. 0 \in N
  <2>1. 0 \in 0..Len(d) /\ 1..0 = {}
    BY <1>1
  <2>2. f[0] = <<>>
    BY <1>2, <2>1 DEF KeptBy
  <2>3. Remains(d, S, 0, <<>>)
    BY <2>1, EmptyIs DEF Remains
  <2> QED
    BY <2>2, <2>3
<1>5. ASSUME NEW n \in N
      PROVE  n + 1 \in N
  <2> SUFFICES ASSUME n + 1 <= Len(d) PROVE Remains(d, S, n + 1, f[n + 1])
    OBVIOUS
  <2>1. n \in Nat /\ n <= Len(d) /\ n + 1 \in 0..Len(d) /\ n + 1 # 0 /\ (n + 1) - 1 = n
    BY <1>1
  <2>2. Remains(d, S, n, f[n])
    BY <2>1
  <2>3. f[n + 1] = IF n + 1 \in S THEN Append(f[n], d[n + 1]) ELSE f[n]
    BY <1>2, <2>1 DEF KeptBy
  <2> HIDE DEF N
  <2>4. Remains(d, S, n + 1, IF n + 1 \in S THEN Append(f[n], d[n + 1]) ELSE f[n])
    BY ONLY <2>1, <2>2, OneMoreRemains
  <2> QED
    BY <2>3, <2>4
<1>6. N = Nat
  BY <1>4, <1>5, Induction
<1> QED
  BY <1>1, <1>3, <1>6

-----------------------------------------------------------------------------
(* Dictionaries: a key has one entry.                                      *)

Distinct(d) == \A i, j \in DOMAIN d : d[i].key = d[j].key => i = j

(* r is d with the entry at p, or none, replaced by one for its key.       *)
AssignedAt(d, entry, p, r) ==
    /\ p \in 1..(Len(d) + 1)
    /\ IsSeq(r) /\ Len(r) = IF p = Len(d) + 1 THEN Len(d) + 1 ELSE Len(d)
    /\ r[p] = entry
    /\ \A i \in 1..Len(d) : i # p => r[i] = d[i] /\ d[i].key # entry.key
    /\ p # Len(d) + 1 => d[p].key = entry.key

LEMMA AssignIs ==
    ASSUME NEW d, IsSeq(d), Distinct(d), NEW entry
    PROVE  \E p : AssignedAt(d, entry, p, Assign(d, entry))
<1>1. Len(d) \in Nat /\ DOMAIN d = 1..Len(d)
  BY SeqIs
<1>2. CASE HasKey(d, entry.key)
  <2> DEFINE p == Place(d, entry.key)
             r == [d EXCEPT ![p] = entry]
  <2>1. p \in DOMAIN d /\ d[p].key = entry.key
    BY <1>2 DEF HasKey, Place
  <2>2. Assign(d, entry) = r
    BY <1>2 DEF Assign, ReplaceAt
  <2> HIDE DEF p
  <2>3. /\ DOMAIN r = 1..Len(d) /\ r[p] = entry
        /\ \A i \in 1..Len(d) : i # p => r[i] = d[i]
        /\ r = [i \in 1..Len(d) |-> r[i]]
    BY <1>1, <2>1
  <2> HIDE DEF r
  <2>4. IsSeq(r) /\ Len(r) = Len(d)
    BY <1>1, <2>3, FunctionIs
  <2>5. \A i \in 1..Len(d) : i # p => d[i].key # entry.key
    BY <1>1, <2>1 DEF Distinct
  <2>6. p \in 1..(Len(d) + 1) /\ p # Len(d) + 1
    BY <1>1, <2>1
  <2>7. AssignedAt(d, entry, p, r)
    BY <2>1, <2>3, <2>4, <2>5, <2>6 DEF AssignedAt
  <2> QED
    BY <2>2, <2>7
<1>3. CASE ~HasKey(d, entry.key)
  <2> DEFINE p == Len(d) + 1
             r == Append(d, entry)
  <2>1. Assign(d, entry) = r
    BY <1>3 DEF Assign
  <2>2. /\ IsSeq(r) /\ Len(r) = p /\ r[p] = entry
        /\ \A i \in 1..Len(d) : r[i] = d[i]
    BY AppendIs
  <2>3. \A i \in 1..Len(d) : d[i].key # entry.key
    BY <1>1, <1>3 DEF HasKey
  <2>4. p \in 1..(Len(d) + 1)
    BY <1>1
  <2> HIDE DEF r
  <2>5. AssignedAt(d, entry, p, r)
    BY <2>2, <2>3, <2>4 DEF AssignedAt
  <2> QED
    BY <2>1, <2>5
<1> QED
  BY <1>2, <1>3

(* The same with an entry for its key at the end, and p taken out.         *)
RenewedAt(d, entry, p, r) ==
    /\ p \in 1..(Len(d) + 1)
    /\ IsSeq(r) /\ Len(r) = IF p = Len(d) + 1 THEN Len(d) + 1 ELSE Len(d)
    /\ r[Len(r)] = entry
    /\ \A i \in 1..(Len(r) - 1) : r[i] = d[IF i < p THEN i ELSE i + 1]
    /\ \A i \in 1..Len(d) : i # p => d[i].key # entry.key
    /\ p # Len(d) + 1 => d[p].key = entry.key

LEMMA SubSeqIs ==
    ASSUME NEW s, IsSeq(s), NEW m \in Nat \ {0}, NEW n \in Nat, m <= n + 1, n <= Len(s)
    PROVE  /\ IsSeq(SubSeq(s, m, n)) /\ Len(SubSeq(s, m, n)) = (n + 1) - m
           /\ \A i \in 1..((n + 1) - m) : SubSeq(s, m, n)[i] = s[(m - 1) + i]
<1>1. Len(s) \in Nat /\ DOMAIN s = 1..Len(s)
  BY SeqIs
<1>2. \A i \in m..n : s[i] \in ToSet(s)
  BY <1>1 DEF ToSet
<1>3. m \in Int /\ n \in Int /\ (n - m) + 1 = (n + 1) - m /\ \A i \in Int : (m + i) - 1 = (m - 1) + i
  OBVIOUS
<1>4. /\ SubSeq(s, m, n) \in Seq(ToSet(s))
      /\ Len(SubSeq(s, m, n)) = IF m <= n THEN (n - m) + 1 ELSE 0
      /\ \A i \in 1..((n - m) + 1) : SubSeq(s, m, n)[i] = s[(m + i) - 1]
  BY <1>2, <1>3, SubSeqProperties
<1>5. Len(SubSeq(s, m, n)) = (n + 1) - m
  BY <1>4
<1>6. \A i \in 1..((n + 1) - m) : SubSeq(s, m, n)[i] = s[(m - 1) + i]
  BY <1>3, <1>4
<1> QED
  BY <1>4, <1>5, <1>6, IsSeqOf

LEMMA RenewIs ==
    ASSUME NEW d, IsSeq(d), Distinct(d), NEW entry
    PROVE  \E p : RenewedAt(d, entry, p, MoveToEnd(Assign(d, entry), entry.key))
<1> DEFINE a == Assign(d, entry)
           r == MoveToEnd(a, entry.key)
<1>1. Len(d) \in Nat /\ DOMAIN d = 1..Len(d)
  BY SeqIs
<1>2. PICK p : AssignedAt(d, entry, p, a)
  BY AssignIs
<1> HIDE DEF a
<1>3. /\ IsSeq(a) /\ Len(a) \in Nat /\ DOMAIN a = 1..Len(a) /\ p \in 1..Len(a) /\ a[p] = entry
      /\ \A i \in 1..Len(a) : i # p => i \in 1..Len(d) /\ a[i] = d[i] /\ d[i].key # entry.key
  <2>1. IsSeq(a) /\ Len(a) \in Nat /\ DOMAIN a = 1..Len(a)
    BY <1>2, SeqIs DEF AssignedAt
  <2>2. p \in 1..(Len(d) + 1) /\ Len(a) = IF p = Len(d) + 1 THEN Len(d) + 1 ELSE Len(d)
    BY <1>2 DEF AssignedAt
  <2>3. p \in 1..Len(a) /\ \A i \in 1..Len(a) : i # p => i \in 1..Len(d)
    BY <1>1, <2>1, <2>2
  <2> QED
    BY <1>2, <2>1, <2>3 DEF AssignedAt
<1>4. Place(a, entry.key) = p
  <2>1. \A i \in DOMAIN a : a[i].key = entry.key <=> i = p
    BY <1>3
  <2>2. p \in DOMAIN a
    BY <1>3
  <2> QED
    BY <2>1, <2>2 DEF Place
<1> DEFINE u == SubSeq(a, 1, p - 1)
           v == SubSeq(a, p + 1, Len(a))
<1>5. r = Append(u \o v, entry)
  BY <1>3, <1>4 DEF MoveToEnd, RemoveAt, Lookup
<1>6. IsSeq(u) /\ Len(u) = p - 1 /\ \A i \in 1..(p - 1) : u[i] = a[i]
  <2>1. /\ 1 \in Nat \ {0} /\ p - 1 \in Nat /\ 1 <= (p - 1) + 1 /\ p - 1 <= Len(a)
        /\ ((p - 1) + 1) - 1 = p - 1 /\ \A i \in Int : (1 - 1) + i = i
    BY <1>3
  <2>2. /\ IsSeq(u) /\ Len(u) = ((p - 1) + 1) - 1
        /\ \A i \in 1..(((p - 1) + 1) - 1) : u[i] = a[(1 - 1) + i]
    BY <1>3, <2>1, SubSeqIs
  <2> QED
    BY <2>1, <2>2
<1>7. IsSeq(v) /\ Len(v) = Len(a) - p /\ \A i \in 1..(Len(a) - p) : v[i] = a[p + i]
  <2>1. /\ p + 1 \in Nat \ {0} /\ p + 1 <= Len(a) + 1 /\ Len(a) <= Len(a)
        /\ (Len(a) + 1) - (p + 1) = Len(a) - p /\ (p + 1) - 1 = p
    BY <1>3
  <2>2. /\ IsSeq(v) /\ Len(v) = (Len(a) + 1) - (p + 1)
        /\ \A i \in 1..((Len(a) + 1) - (p + 1)) : v[i] = a[((p + 1) - 1) + i]
    BY <1>3, <2>1, SubSeqIs
  <2> QED
    BY <2>1, <2>2
<1> HIDE DEF u, v
<1> DEFINE w == u \o v
<1>8. IsSeq(w) /\ Len(w) = Len(a) - 1
      /\ \A i \in 1..(Len(a) - 1) : w[i] = IF i <= p - 1 THEN u[i] ELSE v[i - (p - 1)]
  <2>1. Len(u) + Len(v) = Len(a) - 1
    BY <1>3, <1>6, <1>7
  <2> QED
    BY <2>1, <1>6, <1>7, ConcatIs
<1> HIDE DEF w
<1>9. \A i \in 1..(Len(a) - 1) : w[i] = a[IF i < p THEN i ELSE i + 1]
  <2> SUFFICES ASSUME NEW i \in 1..(Len(a) - 1)
               PROVE  w[i] = a[IF i < p THEN i ELSE i + 1]
    OBVIOUS
  <2>1. CASE i < p
    <3>1. i <= p - 1 /\ i \in 1..(p - 1)
      BY <2>1, <1>3
    <3> QED
      BY <2>1, <3>1, <1>6, <1>8
  <2>2. CASE ~(i < p)
    <3>1. ~(i <= p - 1) /\ i - (p - 1) \in 1..(Len(a) - p) /\ p + (i - (p - 1)) = i + 1
      BY <2>2, <1>3
    <3>2. w[i] = v[i - (p - 1)]
      BY <3>1, <1>8
    <3>3. v[i - (p - 1)] = a[p + (i - (p - 1))]
      BY <3>1, <1>7
    <3> QED
      BY <2>2, <3>1, <3>2, <3>3
  <2> QED
    BY <2>1, <2>2
<1>10. /\ IsSeq(r) /\ Len(r) = Len(a) /\ r[Len(r)] = entry
       /\ \A i \in 1..(Len(a) - 1) : r[i] = w[i]
  <2>1. (Len(a) - 1) + 1 = Len(a)
    BY <1>3
  <2>2. r = Append(w, entry)
    BY <1>5 DEF w
  <2>3. /\ IsSeq(Append(w, entry)) /\ Len(Append(w, entry)) = Len(w) + 1
        /\ Append(w, entry)[Len(w) + 1] = entry
        /\ \A i \in 1..Len(w) : Append(w, entry)[i] = w[i]
    BY <1>8, AppendIs
  <2> QED
    BY <2>1, <2>2, <2>3, <1>8
<1> HIDE DEF r
<1>11. \A i \in 1..(Len(r) - 1) : r[i] = d[IF i < p THEN i ELSE i + 1]
  <2> SUFFICES ASSUME NEW i \in 1..(Len(r) - 1)
               PROVE  r[i] = d[IF i < p THEN i ELSE i + 1]
    OBVIOUS
  <2> DEFINE k == IF i < p THEN i ELSE i + 1
  <2>1. k \in 1..Len(a) /\ k # p
    BY <1>3, <1>10
  <2>2. r[i] = a[k]
    BY <1>9, <1>10
  <2> HIDE DEF k
  <2>3. a[k] = d[k]
    BY <2>1, <1>3
  <2> QED
    BY <2>2, <2>3 DEF k
<1>12. RenewedAt(d, entry, p, r)
  BY <1>2, <1>10, <1>11 DEF AssignedAt, RenewedAt
<1> QED
  BY <1>12 DEF r, a

Sorted(d) == \A i, j \in DOMAIN d : i < j => d[i].until <= d[j].until

(* The last entry of r is for its key, and the others are those of d.      *)
OthersAre(d, entry, r) ==
    /\ \A i \in 1..(Len(r) - 1) :
          \E k \in DOMAIN d : r[i] = d[k] /\ d[k].key # entry.key
    /\ \A k \in DOMAIN d : d[k].key # entry.key =>
          \E i \in 1..(Len(r) - 1) : r[i] = d[k]

LEMMA RenewKeeps ==
    ASSUME NEW d, IsSeq(d), Distinct(d), NEW entry, NEW p, NEW r,
           RenewedAt(d, entry, p, r)
    PROVE  /\ Len(r) \in Nat \ {0} /\ DOMAIN r = 1..Len(r) /\ Len(r) <= Len(d) + 1
           /\ Distinct(r) /\ OthersAre(d, entry, r)
<1> DEFINE K(i) == IF i < p THEN i ELSE i + 1
           m == Len(r) - 1
<1>1. Len(d) \in Nat /\ DOMAIN d = 1..Len(d) /\ Len(r) \in Nat /\ DOMAIN r = 1..Len(r)
  BY SeqIs DEF RenewedAt
<1>2. /\ p \in 1..(Len(d) + 1)
      /\ Len(r) = IF p = Len(d) + 1 THEN Len(d) + 1 ELSE Len(d)
      /\ Len(r) \in Nat \ {0} /\ Len(r) <= Len(d) + 1
  BY <1>1 DEF RenewedAt
<1>3. \A i \in 1..m : K(i) \in 1..Len(d) /\ K(i) # p
  BY <1>1, <1>2
<1>4. \A i, j \in 1..m : K(i) = K(j) => i = j
  BY <1>1, <1>2
<1>5. ASSUME NEW k \in 1..Len(d), k # p
      PROVE  \E i \in 1..m : K(i) = k
  <2>1. CASE k < p
    <3>1. k \in 1..m /\ K(k) = k
      BY <2>1, <1>1, <1>2
    <3> QED
      BY <3>1
  <2>2. CASE ~(k < p)
    <3>1. k - 1 \in 1..m /\ K(k - 1) = k
      BY <2>2, <1>1, <1>2, <1>5
    <3> QED
      BY <3>1
  <2> QED
    BY <2>1, <2>2
<1>6. \A i \in 1..m : r[i] = d[K(i)]
  BY DEF RenewedAt
<1>7. r[Len(r)] = entry /\ \A k \in 1..Len(d) : k # p => d[k].key # entry.key
  BY DEF RenewedAt
<1>8. p # Len(d) + 1 => d[p].key = entry.key
  BY DEF RenewedAt
<1>9. m \in Nat /\ \A i \in 1..Len(r) : i \in 1..m \/ i = Len(r)
  <2>1. \A n \in Nat \ {0} : n - 1 \in Nat /\ \A i \in 1..n : i \in 1..(n - 1) \/ i = n
    OBVIOUS
  <2> QED
    BY <1>2, <2>1
<1> HIDE DEF K, m
<1>10. \A i \in 1..m : r[i].key # entry.key
  BY <1>3, <1>6, <1>7
<1>11. ASSUME NEW i \in 1..Len(r), NEW j \in 1..Len(r), r[i].key = r[j].key
       PROVE  i = j
  <2>1. CASE i \in 1..m /\ j \in 1..m
    <3>1. K(i) \in DOMAIN d /\ K(j) \in DOMAIN d /\ d[K(i)].key = d[K(j)].key
      BY <2>1, <1>1, <1>3, <1>6, <1>11
    <3>2. K(i) = K(j)
      BY <3>1 DEF Distinct
    <3> QED
      BY <3>2, <2>1, <1>4
  <2>2. CASE i = Len(r) \/ j = Len(r)
    BY <2>2, <1>7, <1>9, <1>10, <1>11
  <2> QED
    BY <2>1, <2>2, <1>9
<1>12. Distinct(r)
  BY <1>1, <1>11 DEF Distinct
<1>13. \A i \in 1..m : \E k \in DOMAIN d : r[i] = d[k] /\ d[k].key # entry.key
  BY <1>1, <1>3, <1>6, <1>7
<1>14. ASSUME NEW k \in DOMAIN d, d[k].key # entry.key
       PROVE  \E i \in 1..m : r[i] = d[k]
  <2>1. k \in 1..Len(d) /\ k # p
    BY <1>1, <1>2, <1>8, <1>14
  <2>2. PICK i \in 1..m : K(i) = k
    BY <2>1, <1>5
  <2> QED
    BY <2>2, <1>6
<1> QED
  BY <1>1, <1>2, <1>12, <1>13, <1>14 DEF m, OthersAre

LEMMA RenewSorts ==
    ASSUME NEW d, IsSeq(d), Sorted(d), NEW entry, NEW p, NEW r,
           RenewedAt(d, entry, p, r), entry.until \in Int,
           \A i \in DOMAIN d : d[i].until \in Int /\ d[i].until <= entry.until
    PROVE  Sorted(r)
<1>1. Len(d) \in Nat /\ DOMAIN d = 1..Len(d) /\ Len(r) \in Nat /\ DOMAIN r = 1..Len(r)
  BY SeqIs DEF RenewedAt
<1>2. /\ p \in 1..(Len(d) + 1)
      /\ Len(r) = IF p = Len(d) + 1 THEN Len(d) + 1 ELSE Len(d)
  BY <1>1 DEF RenewedAt
<1>3. SUFFICES ASSUME NEW i \in 1..Len(r), NEW j \in 1..Len(r), i < j
               PROVE  r[i].until <= r[j].until
  BY <1>1 DEF Sorted
<1> DEFINE k == IF i < p THEN i ELSE i + 1
           l == IF j < p THEN j ELSE j + 1
<1>4. i \in 1..(Len(r) - 1) /\ k \in DOMAIN d
  BY <1>1, <1>2, <1>3
<1>5. r[i] = d[k]
  BY <1>4 DEF RenewedAt
<1>6. CASE j = Len(r)
  BY <1>4, <1>5, <1>6 DEF RenewedAt
<1>7. CASE j # Len(r)
  <2>1. j \in 1..(Len(r) - 1)
    <3>1. \A n \in Nat : j \in 1..n /\ j # n => j \in 1..(n - 1)
      OBVIOUS
    <3> QED
      BY <3>1, <1>1, <1>7
  <2>2. l \in 1..Len(d)
    BY <2>1, <1>1, <1>2
  <2>3. k < l
    BY <1>1, <1>2, <1>3
  <2>4. r[j] = d[l]
    BY <2>1 DEF RenewedAt
  <2> HIDE DEF k, l
  <2> QED
    BY <2>2, <2>3, <2>4, <1>1, <1>4, <1>5 DEF Sorted
<1> QED
  BY <1>6, <1>7

-----------------------------------------------------------------------------
(* Loops in loops: one sequence after the other.                           *)

FlatBy(ss, n, f) ==
    f = [i \in 1..n |-> IF i = 1 THEN ss[i] ELSE f[i - 1] \o ss[i]]

LEMMA FlatExists ==
    ASSUME NEW ss
    PROVE  \A n \in Nat : \E f : FlatBy(ss, n, f)
<1> DEFINE N == {n \in Nat : \E f : FlatBy(ss, n, f)}
<1>1. 0 \in N
  <2> DEFINE f == [i \in 1..0 |-> <<>>]
  <2>1. FlatBy(ss, 0, f)
    <3>1. \A i \in 1..0 : FALSE
      OBVIOUS
    <3> QED
      BY <3>1 DEF FlatBy
  <2> QED
    BY <2>1
<1>2. ASSUME NEW n \in N
      PROVE  n + 1 \in N
  <2>1. PICK f : FlatBy(ss, n, f)
    OBVIOUS
  <2> DEFINE g == [i \in 1..(n + 1) |->
                     IF i = n + 1 THEN IF n = 0 THEN ss[i] ELSE f[n] \o ss[i] ELSE f[i]]
  <2>2. ASSUME NEW i \in 1..(n + 1)
        PROVE  g[i] = IF i = 1 THEN ss[i] ELSE g[i - 1] \o ss[i]
    <3>1. CASE i = n + 1
      <4>1. (i = 1 <=> n = 0) /\ (i # 1 => i - 1 = n /\ n \in 1..(n + 1) /\ n # n + 1)
        BY <3>1
      <4>2. i # 1 => g[i - 1] = f[n]
        BY <4>1
      <4> QED
        BY <3>1, <4>1, <4>2
    <3>2. CASE i # n + 1
      <4>1. i \in 1..n /\ (i # 1 => i - 1 \in 1..(n + 1) /\ i - 1 # n + 1)
        BY <3>2
      <4>2. g[i] = f[i] /\ (i # 1 => g[i - 1] = f[i - 1])
        BY <3>2, <4>1
      <4>3. f[i] = IF i = 1 THEN ss[i] ELSE f[i - 1] \o ss[i]
        BY <2>1, <4>1 DEF FlatBy
      <4> QED
        BY <4>2, <4>3
    <3> QED
      BY <3>1, <3>2
  <2>3. FlatBy(ss, n + 1, g)
    BY <2>2 DEF FlatBy
  <2> QED
    BY <2>3
<1>3. N = Nat
  BY <1>1, <1>2, Induction
<1> QED
  BY <1>3

(* t consists of elements of the first n sequences of ss.                  *)
Pieced(ss, n, t) ==
    /\ IsSeq(t)
    /\ \A k \in DOMAIN t : \E i \in 1..n : \E j \in DOMAIN ss[i] : t[k] = ss[i][j]

LEMMA FlattenIs ==
    ASSUME NEW ss, IsSeq(ss), \A i \in DOMAIN ss : IsSeq(ss[i])
    PROVE  Pieced(ss, Len(ss), FlattenSeq(ss))
<1>1. Len(ss) \in Nat /\ DOMAIN ss = 1..Len(ss) /\ (ss = <<>> <=> Len(ss) = 0)
  BY SeqIs
<1>2. CASE Len(ss) = 0
  BY <1>1, <1>2, EmptyIs DEF FlattenSeq, Pieced
<1>3. CASE Len(ss) # 0
  <2> DEFINE f == CHOOSE f : FlatBy(ss, Len(ss), f)
  <2>1. FlatBy(ss, Len(ss), f)
    BY <1>1, FlatExists
  <2>2. FlattenSeq(ss) = f[Len(ss)]
    BY <1>3 DEF FlattenSeq, FlatBy
  <2> HIDE DEF f
  <2> DEFINE N == {n \in Nat : n + 1 <= Len(ss) => Pieced(ss, n + 1, f[n + 1])}
  <2>3. 0 \in N
    <3>1. 1 \in 1..Len(ss) /\ 0 + 1 = 1
      BY <1>1, <1>3
    <3>2. f[1] = ss[1]
      BY <2>1, <3>1 DEF FlatBy
    <3>3. Pieced(ss, 1, ss[1])
      <4>1. 1 \in 1..1
        OBVIOUS
      <4> QED
        BY <4>1, <1>1, <3>1 DEF Pieced
    <3> QED
      BY <3>1, <3>2, <3>3
  <2>4. ASSUME NEW n \in N
        PROVE  n + 1 \in N
    <3> DEFINE m == n + 1
    <3>1. n \in Nat /\ m \in Nat
      OBVIOUS
    <3> SUFFICES ASSUME m + 1 <= Len(ss) PROVE Pieced(ss, m + 1, f[m + 1])
      BY <3>1
    <3>2. /\ m <= Len(ss) /\ m + 1 \in 1..Len(ss) /\ m + 1 # 1 /\ (m + 1) - 1 = m
          /\ \A i \in 1..m : i \in 1..(m + 1)
      BY <1>1
    <3>3. Pieced(ss, m, f[m])
      BY <3>2
    <3>4. f[m + 1] = f[m] \o ss[m + 1]
      BY <2>1, <3>2 DEF FlatBy
    <3> HIDE DEF m, N
    <3>5. IsSeq(f[m]) /\ IsSeq(ss[m + 1])
      BY <1>1, <3>2, <3>3 DEF Pieced
    <3> DEFINE s == f[m]
               t == ss[m + 1]
    <3>6. /\ Len(s) \in Nat /\ DOMAIN s = 1..Len(s)
          /\ Len(t) \in Nat /\ DOMAIN t = 1..Len(t)
      BY <3>5, SeqIs
    <3>7. /\ IsSeq(s \o t) /\ DOMAIN (s \o t) = 1..(Len(s) + Len(t))
          /\ \A k \in 1..(Len(s) + Len(t)) :
                (s \o t)[k] = IF k <= Len(s) THEN s[k] ELSE t[k - Len(s)]
      BY <3>5, ConcatIs
    <3>8. ASSUME NEW k \in 1..(Len(s) + Len(t))
          PROVE  \E i \in 1..(m + 1) : \E j \in DOMAIN ss[i] : (s \o t)[k] = ss[i][j]
      <4>1. CASE k <= Len(s)
        <5>1. k \in DOMAIN s
          BY <4>1, <3>6
        <5>2. PICK i \in 1..m : \E j \in DOMAIN ss[i] : s[k] = ss[i][j]
          BY <5>1, <3>3 DEF Pieced
        <5> QED
          BY <5>2, <4>1, <3>2, <3>7
      <4>2. CASE ~(k <= Len(s))
        <5>1. k - Len(s) \in DOMAIN t
          <6>1. \A x, y \in Nat : k \in 1..(x + y) /\ ~(k <= x) => k - x \in 1..y
            OBVIOUS
          <6> QED
            BY <6>1, <4>2, <3>6
        <5>2. m + 1 \in 1..(m + 1)
          BY <3>1
        <5> QED
          BY <5>1, <5>2, <4>2, <3>7
      <4> QED
        BY <4>1, <4>2
    <3>9. Pieced(ss, m + 1, s \o t)
      BY <3>7, <3>8 DEF Pieced
    <3> QED
      BY <3>4, <3>9
  <2>5. N = Nat
    BY <2>3, <2>4, Induction
  <2>6. Len(ss) - 1 \in Nat /\ (Len(ss) - 1) + 1 = Len(ss) /\ Len(ss) <= Len(ss)
    BY <1>1, <1>3
  <2>7. Pieced(ss, Len(ss), f[Len(ss)])
    BY <2>5, <2>6
  <2> QED
    BY <2>2, <2>7
<1> QED
  BY <1>2, <1>3

-----------------------------------------------------------------------------
(* The loop over the metrics of an event, one metric after the other.      *)

FoldedBy(event, start, ms, n, f) ==
    f = [s \in SUBSET (1..n) |->
            IF s = {} THEN start ELSE Score(event, f[s \ {Max(s)}], ms[Max(s)])]

LEMMA MaxIsLast ==
    ASSUME NEW n \in Nat, NEW s \in SUBSET (1..(n + 1)), n + 1 \in s
    PROVE  Max(s) = n + 1
<1>1. n + 1 \in s /\ \A x \in s : n + 1 >= x
  OBVIOUS
<1>2. Max(s) \in s /\ \A x \in s : Max(s) >= x
  BY <1>1 DEF Max
<1>3. Max(s) \in 1..(n + 1) /\ Max(s) >= n + 1
  BY <1>2
<1> QED
  BY <1>3

LEMMA MaxIsIn ==
    ASSUME NEW n \in Nat, NEW s \in SUBSET (1..n), s # {}
    PROVE  Max(s) \in s
<1> DEFINE T == {u \in Nat : n - u \in s}
<1>1. PICK k \in s : TRUE
  OBVIOUS
<1>2. k \in 1..n /\ n - k \in Nat /\ n - (n - k) = k
  BY <1>1
<1>3. PICK u \in T : \A v \in T : u <= v
  <2>1. n - k \in T
    BY <1>1, <1>2
  <2> QED
    BY <2>1, Least
<1>4. ASSUME NEW x \in s
      PROVE  n - u >= x
  <2>1. x \in 1..n /\ n - x \in Nat /\ n - (n - x) = x
    OBVIOUS
  <2>2. n - x \in T
    BY <2>1
  <2>3. u <= n - x /\ u \in Nat
    BY <2>2, <1>3
  <2> QED
    BY <2>1, <2>3
<1>5. n - u \in s
  BY <1>3
<1> HIDE DEF T
<1> QED
  BY <1>4, <1>5 DEF Max

LEMMA FoldExists ==
    ASSUME NEW event, NEW start, NEW ms
    PROVE  \A n \in Nat : \E f : FoldedBy(event, start, ms, n, f)
<1> DEFINE S == {n \in Nat : \E f : FoldedBy(event, start, ms, n, f)}
<1>1. 0 \in S
  <2> DEFINE f == [s \in SUBSET (1..0) |-> start]
  <2>1. \A s \in SUBSET (1..0) : s = {}
    OBVIOUS
  <2>2. FoldedBy(event, start, ms, 0, f)
    BY <2>1 DEF FoldedBy
  <2> QED
    BY <2>2
<1>2. ASSUME NEW n \in S
      PROVE  n + 1 \in S
  <2>1. PICK f : FoldedBy(event, start, ms, n, f)
    OBVIOUS
  <2> DEFINE g == [s \in SUBSET (1..(n + 1)) |->
                     IF n + 1 \in s THEN Score(event, f[s \ {n + 1}], ms[n + 1]) ELSE f[s]]
  <2>2. ASSUME NEW s \in SUBSET (1..(n + 1))
        PROVE  g[s] = IF s = {} THEN start ELSE Score(event, g[s \ {Max(s)}], ms[Max(s)])
    <3>1. CASE s = {}
      <4>1. f[{}] = start
        BY <2>1 DEF FoldedBy
      <4> QED
        BY <3>1, <4>1
    <3>2. CASE s # {} /\ n + 1 \in s
      <4>1. Max(s) = n + 1
        BY <3>2, MaxIsLast
      <4>2. s \ {n + 1} \in SUBSET (1..(n + 1)) /\ n + 1 \notin s \ {n + 1}
        OBVIOUS
      <4>3. g[s \ {n + 1}] = f[s \ {n + 1}]
        BY <4>2
      <4> QED
        BY <3>2, <4>1, <4>3
    <3>3. CASE s # {} /\ n + 1 \notin s
      <4>1. s \in SUBSET (1..n)
        BY <3>3
      <4>2. s \ {Max(s)} \in SUBSET (1..(n + 1)) /\ n + 1 \notin s \ {Max(s)}
        BY <3>3
      <4>3. g[s \ {Max(s)}] = f[s \ {Max(s)}]
        BY <4>2
      <4>4. f[s] = Score(event, f[s \ {Max(s)}], ms[Max(s)])
        BY <2>1, <4>1, <3>3 DEF FoldedBy
      <4> QED
        BY <3>3, <4>3, <4>4
    <3> QED
      BY <3>1, <3>2, <3>3
  <2>3. FoldedBy(event, start, ms, n + 1, g)
    BY <2>2 DEF FoldedBy
  <2> QED
    BY <2>3
<1>3. S = Nat
  BY <1>1, <1>2, Induction
<1> QED
  BY <1>3

(* g[k] is what the loop has after k metrics.                              *)
LEMMA ScoredIs ==
    ASSUME NEW event, NEW table, IsSeq(event.metrics)
    PROVE  \E g : /\ g[0] = [table |-> table, outliers |-> <<>>]
                  /\ \A k \in 1..Len(event.metrics) :
                        g[k] = Score(event, g[k - 1], event.metrics[k])
                  /\ Scored(event, table) = g[Len(event.metrics)]
<1> DEFINE start == [table |-> table, outliers |-> <<>>]
           ms == event.metrics
           n == Len(ms)
           f == CHOOSE f : FoldedBy(event, start, ms, n, f)
           g == [k \in 0..n |-> f[1..k]]
<1>1. n \in Nat /\ DOMAIN ms = 1..n
  BY SeqIs
<1>2. FoldedBy(event, start, ms, n, f)
  BY <1>1, FoldExists
<1>3. Scored(event, table) = f[1..n]
  BY <1>1 DEF Scored, FoldLeft, MapThenFoldSet, FoldedBy
<1> HIDE DEF f, start, ms, n
<1>4. /\ f[{}] = start
      /\ \A s \in SUBSET (1..n) : s # {} => f[s] = Score(event, f[s \ {Max(s)}], ms[Max(s)])
  BY <1>2 DEF FoldedBy
<1>5. g[0] = start
  <2>1. 0 \in 0..n /\ 1..0 = {}
    BY <1>1
  <2> QED
    BY <2>1, <1>4
<1>6. ASSUME NEW k \in 1..n
      PROVE  g[k] = Score(event, g[k - 1], ms[k])
  <2>1. k \in 0..n /\ k - 1 \in 0..n /\ k - 1 \in Nat /\ (k - 1) + 1 = k
    BY <1>1
  <2>2. 1..k \in SUBSET (1..n) /\ k \in 1..k /\ (1..k) \ {k} = 1..(k - 1)
    <3>1. \A x \in Int : (x \in 1..k /\ x # k) <=> x \in 1..(k - 1)
      BY <1>1
    <3> QED
      BY <3>1, <1>1
  <2>3. Max(1..k) = k
    <3>1. 1..k \in SUBSET (1..((k - 1) + 1)) /\ (k - 1) + 1 \in 1..k
      BY <2>1, <2>2
    <3> QED
      BY <3>1, <2>1, MaxIsLast
  <2>4. f[1..k] = Score(event, f[(1..k) \ {k}], ms[k])
    BY <2>2, <2>3, <1>4
  <2> QED
    BY <2>1, <2>2, <2>4
<1>7. g[n] = f[1..n]
  BY <1>1
<1> HIDE DEF g
<1> QED
  BY <1>3, <1>5, <1>6, <1>7 DEF start, ms, n

LEMMA OutliersAre ==
    ASSUME NEW event, NEW table, IsSeq(event.metrics)
    PROVE  IsSeq(Scored(event, table).outliers)
<1> DEFINE n == Len(event.metrics)
<1>1. n \in Nat
  BY SeqIs
<1>2. PICK g : /\ g[0] = [table |-> table, outliers |-> <<>>]
               /\ \A k \in 1..n : g[k] = Score(event, g[k - 1], event.metrics[k])
               /\ Scored(event, table) = g[n]
  BY ScoredIs
<1> DEFINE S == {k \in Nat : k <= n => IsSeq(g[k].outliers)}
<1>3. 0 \in S
  BY <1>2, EmptyIs
<1>4. ASSUME NEW k \in S
      PROVE  k + 1 \in S
  <2> SUFFICES ASSUME k + 1 <= n PROVE IsSeq(g[k + 1].outliers)
    OBVIOUS
  <2>1. k + 1 \in 1..n /\ (k + 1) - 1 = k /\ IsSeq(g[k].outliers)
    BY <1>1
  <2> DEFINE m == event.metrics[k + 1]
             old == g[k].outliers
  <2>2. g[k + 1] = Score(event, g[k], m)
    BY <1>2, <2>1
  <2> HIDE DEF S
  <2>3. g[k + 1].outliers = old \/ g[k + 1].outliers = Append(old, m.name)
    BY <2>2 DEF Score
  <2>4. IsSeq(old) /\ IsSeq(Append(old, m.name))
    BY <2>1, AppendIs
  <2> QED
    BY <2>3, <2>4
<1>5. S = Nat
  BY <1>3, <1>4, Induction
<1>6. n \in S /\ n <= n
  BY <1>1, <1>5
<1> QED
  BY <1>2, <1>6

-----------------------------------------------------------------------------
(* Tasks.                                                                  *)

Task(t) ==
    /\ t.via \in {"rule", "observation", "purge"}
    /\ t.via = "rule" => t.subject.cooldown \in Nat

Tasks(ts) == IsSeq(ts) /\ \A i \in DOMAIN ts : Task(ts[i])

LEMMA FlattenTasks ==
    ASSUME NEW ss, IsSeq(ss), \A i \in DOMAIN ss : Tasks(ss[i])
    PROVE  Tasks(FlattenSeq(ss))
<1>1. Pieced(ss, Len(ss), FlattenSeq(ss))
  BY FlattenIs DEF Tasks
<1>2. DOMAIN ss = 1..Len(ss)
  BY SeqIs
<1> QED
  BY <1>1, <1>2 DEF Pieced, Tasks

LEMMA RuleTasksAre ==
    ASSUME NEW event
    PROVE  Tasks(RuleTasks(event))
<1> DEFINE Of(r) == [s \in DOMAIN Sinks |->
                        [via |-> "rule", subject |-> Rules[r], sink |-> Sinks[s]]]
           ss == [r \in DOMAIN Rules |-> IF Breaches(Rules[r], event) THEN Of(r) ELSE <<>>]
<1>1. /\ Len(Sinks) \in Nat /\ DOMAIN Sinks = 1..Len(Sinks)
      /\ Len(Rules) \in Nat /\ DOMAIN Rules = 1..Len(Rules)
  BY DeliveryAssumption, SeqIs DEF IsSeq
<1>2. ASSUME NEW r \in DOMAIN Rules
      PROVE  Tasks(Of(r))
  <2>1. Of(r) = [s \in 1..Len(Sinks) |-> Of(r)[s]] /\ DOMAIN Of(r) = 1..Len(Sinks)
    BY <1>1
  <2>2. IsSeq(Of(r))
    BY <1>1, <2>1, FunctionIs
  <2>3. Rules[r].cooldown \in Nat
    BY DeliveryAssumption
  <2>4. \A s \in DOMAIN Of(r) : Task(Of(r)[s])
    BY <2>1, <2>3, <1>1 DEF Task
  <2> QED
    BY <2>2, <2>4 DEF Tasks
<1>3. Tasks(<<>>)
  BY EmptyIs DEF Tasks
<1> HIDE DEF Of
<1>4. \A r \in DOMAIN ss : Tasks(ss[r])
  BY <1>2, <1>3
<1>5. IsSeq(ss)
  BY <1>1, FunctionIs
<1>6. RuleTasks(event) = FlattenSeq(ss)
  BY DEF RuleTasks, Of
<1> HIDE DEF ss
<1> QED
  BY <1>4, <1>5, <1>6, FlattenTasks

LEMMA ObservationTasksAre ==
    ASSUME NEW alert
    PROVE  Tasks(ObservationTasks(alert))
<1> DEFINE s == <<[via |-> "purge", subject |-> alert, sink |-> None]>>
           t == [i \in DOMAIN Sinks |->
                    [via |-> "observation", subject |-> alert, sink |-> Sinks[i]]]
<1>1. Len(Sinks) \in Nat /\ DOMAIN Sinks = 1..Len(Sinks)
  BY DeliveryAssumption, SeqIs DEF IsSeq
<1>2. Tasks(s)
  <2>1. s = [i \in 1..1 |-> s[i]] /\ DOMAIN s = 1..1 /\ s[1].via = "purge"
    OBVIOUS
  <2> HIDE DEF s
  <2>2. IsSeq(s)
    BY <2>1, FunctionIs
  <2>3. \A i \in 1..1 : i = 1
    OBVIOUS
  <2> QED
    BY <2>1, <2>2, <2>3 DEF Tasks, Task
<1>3. Tasks(t)
  <2>1. IsSeq(t)
    BY <1>1, FunctionIs
  <2>2. \A i \in DOMAIN t : t[i].via = "observation"
    OBVIOUS
  <2> QED
    BY <2>1, <2>2 DEF Tasks, Task
<1>4. ObservationTasks(alert) = s \o t
  BY DEF ObservationTasks
<1> HIDE DEF s, t
<1>5. /\ Len(s) \in Nat /\ DOMAIN s = 1..Len(s) /\ Len(t) \in Nat /\ DOMAIN t = 1..Len(t)
  BY <1>2, <1>3, SeqIs DEF Tasks
<1>6. /\ IsSeq(s \o t) /\ DOMAIN (s \o t) = 1..(Len(s) + Len(t))
      /\ \A i \in 1..(Len(s) + Len(t)) :
            (s \o t)[i] = IF i <= Len(s) THEN s[i] ELSE t[i - Len(s)]
  BY <1>2, <1>3, ConcatIs DEF Tasks
<1>7. ASSUME NEW i \in 1..(Len(s) + Len(t))
      PROVE  Task((s \o t)[i])
  <2>1. CASE i <= Len(s)
    <3>1. i \in DOMAIN s
      BY <2>1, <1>5
    <3> QED
      BY <3>1, <2>1, <1>2, <1>6 DEF Tasks
  <2>2. CASE ~(i <= Len(s))
    <3>1. i - Len(s) \in DOMAIN t
      <4>1. \A x, y \in Nat : i \in 1..(x + y) /\ ~(i <= x) => i - x \in 1..y
        OBVIOUS
      <4> QED
        BY <4>1, <2>2, <1>5
    <3> QED
      BY <3>1, <2>2, <1>3, <1>6 DEF Tasks
  <2> QED
    BY <2>1, <2>2
<1> QED
  BY <1>4, <1>6, <1>7 DEF Tasks

-----------------------------------------------------------------------------
(* The inductive invariant, in parts.                                      *)

(* What the loops have left to do; a sink takes only what is offered.      *)
WorkSound ==
    /\ Tasks(work)
    /\ phase = "disk" => work = <<>>
    /\ began # None => /\ work # <<>> /\ Head(work).via # "purge"
                       /\ began \in Nat /\ began <= clock

OffersSound(os, now) ==
    /\ IsSeq(os)
    /\ \A n \in DOMAIN os :
          /\ Task(os[n].task) /\ os[n].task.via # "purge"
          /\ os[n].at \in Nat /\ os[n].at <= now

(* The alert of offer n was taken.                                         *)
Took(os, n, via) == os[n].outcome = "delivered" /\ os[n].task.via = via

(* The cache has not given up the entry of offer n.                        *)
Retained(os, n) == \A k \in n..Len(os) : Key(os[n].task) \notin os[k].evicted

(* An entry of the cache, and one of the dictionary of the rules, that     *)
(* stands for offer n.                                                     *)
Keeps(e, os, n) ==
    /\ Took(os, n, "observation")
    /\ e.key = Key(os[n].task) /\ e.until = os[n].at + observation_cooldown

Dates(e, os, n) ==
    Took(os, n, "rule") /\ e.key = Key(os[n].task) /\ e.at = os[n].at

(* Every entry of the cache stands for an observation delivered, and they  *)
(* are in the order in which they expire.                                  *)
CacheSound(d, os) ==
    /\ IsSeq(d) /\ Distinct(d) /\ Sorted(d) /\ Len(d) <= observation_capacity
    /\ \A i \in DOMAIN d : \E n \in DOMAIN os : Keeps(d[i], os, n)

(* An observation delivered less than a cooldown ago has its entry, unless *)
(* the cache gave it up.                                                   *)
CacheComplete(d, os, now) ==
    \A n \in DOMAIN os :
        /\ Took(os, n, "observation") /\ Retained(os, n)
        /\ os[n].at + observation_cooldown > now
        => \E i \in DOMAIN d : /\ d[i].key = Key(os[n].task)
                               /\ d[i].until >= os[n].at + observation_cooldown

(* The same of the dictionary of the rules, which gives up nothing.        *)
RulesSound(d, os) ==
    /\ IsSeq(d) /\ Distinct(d)
    /\ \A i \in DOMAIN d : \E n \in DOMAIN os : Dates(d[i], os, n)

RulesComplete(d, os) ==
    \A n \in DOMAIN os :
        Took(os, n, "rule") =>
            \E i \in DOMAIN d : d[i].key = Key(os[n].task) /\ d[i].at >= os[n].at

(* A task begun at some time follows what was delivered of the same alert  *)
(* by its cooldown.                                                        *)
Follows(os, task, start) ==
    \A n \in DOMAIN os :
        os[n].outcome = "delivered" /\ Retained(os, n) /\ SameAlert(os[n].task, task)
        => start - os[n].at >= CooldownOf(task)

(* What the check before the emit found stays true while the sink takes    *)
(* its time.                                                               *)
EmitFresh == began # None => Follows(offers, Head(work), began)

IInv ==
    /\ clock \in Nat /\ IsSeq(log)
    /\ WorkSound /\ OffersSound(offers, clock)
    /\ CacheSound(observation_delivered, offers)
    /\ CacheComplete(observation_delivered, offers, clock)
    /\ RulesSound(last_delivered, offers) /\ RulesComplete(last_delivered, offers)
    /\ EmitFresh /\ CooldownsAreKept

-----------------------------------------------------------------------------
(* Keys, tables and offers.                                                *)

LEMMA SameIffKey ==
    ASSUME NEW s, NEW t, s.via = t.via, s.via \in {"rule", "observation"}
    PROVE  SameAlert(s, t) <=> Key(s) = Key(t)
<1>1. CASE s.via = "rule"
  <2>1. Key(s) = <<s.subject, s.sink>> /\ Key(t) = <<t.subject, t.sink>>
    BY <1>1 DEF Key
  <2>2. SameAlert(s, t) <=> s.sink = t.sink /\ s.subject = t.subject
    BY <1>1 DEF SameAlert
  <2> QED
    BY <2>1, <2>2
<1>2. CASE s.via # "rule"
  <2>1. /\ Key(s) = <<s.subject.type, s.subject.ip, s.subject.resource, s.subject.metric, s.sink>>
        /\ Key(t) = <<t.subject.type, t.subject.ip, t.subject.resource, t.subject.metric, t.sink>>
    BY <1>2 DEF Key
  <2>2. SameAlert(s, t) <=> /\ s.sink = t.sink
                            /\ s.subject.type = t.subject.type /\ s.subject.ip = t.subject.ip
                            /\ s.subject.resource = t.subject.resource
                            /\ s.subject.metric = t.subject.metric
    BY <1>2 DEF SameAlert
  <2> QED
    BY <2>1, <2>2
<1> QED
  BY <1>1, <1>2

LEMMA LookupIs ==
    ASSUME NEW d, Distinct(d), NEW i \in DOMAIN d, NEW key, key = d[i].key
    PROVE  HasKey(d, key) /\ Lookup(d, key) = d[i]
<1>1. HasKey(d, key)
  BY DEF HasKey
<1>2. Place(d, key) \in DOMAIN d /\ d[Place(d, key)].key = key
  BY DEF Place
<1>3. Place(d, key) = i
  BY <1>2 DEF Distinct
<1> QED
  BY <1>1, <1>3 DEF Lookup

LEMMA FoundIs ==
    ASSUME NEW d, NEW key, HasKey(d, key)
    PROVE  \E i \in DOMAIN d : Lookup(d, key) = d[i] /\ d[i].key = key
BY DEF HasKey, Lookup, Place

LEMMA KeepsIs ==
    ASSUME NEW os, NEW now \in Nat, OffersSound(os, now), NEW n \in DOMAIN os, NEW e
    PROVE  /\ Keeps(e, os, n) => e.until \in Nat /\ e.until <= now + observation_cooldown
           /\ Dates(e, os, n) => e.at \in Nat /\ e.at <= now
<1>1. os[n].at \in Nat /\ os[n].at <= now /\ observation_cooldown \in Nat
  BY DeliveryAssumption DEF OffersSound
<1>2. Keeps(e, os, n) => e.until = os[n].at + observation_cooldown
  BY DEF Keeps
<1>3. Dates(e, os, n) => e.at = os[n].at
  BY DEF Dates
<1> HIDE DEF Keeps, Dates
<1>4. /\ os[n].at + observation_cooldown \in Nat
      /\ os[n].at + observation_cooldown <= now + observation_cooldown
  BY <1>1
<1> QED
  BY <1>1, <1>2, <1>3, <1>4

(* One offer more.                                                         *)
LEMMA OneMoreOffer ==
    ASSUME NEW os, IsSeq(os), NEW o
    PROVE  LET more == Append(os, o)
           IN  /\ IsSeq(more) /\ Len(os) \in Nat /\ Len(more) = Len(os) + 1
               /\ DOMAIN os = 1..Len(os)
               /\ Len(more) \in DOMAIN more /\ more[Len(more)] = o
               /\ \A n \in DOMAIN more : n \in DOMAIN os \/ n = Len(more)
               /\ \A n \in DOMAIN os :
                     /\ n \in DOMAIN more /\ more[n] = os[n]
                     /\ Retained(more, n) => Retained(os, n) /\ Key(os[n].task) \notin o.evicted
<1> DEFINE more == Append(os, o)
<1>1. Len(os) \in Nat /\ DOMAIN os = 1..Len(os)
  BY SeqIs
<1>2. /\ IsSeq(more) /\ Len(more) = Len(os) + 1 /\ DOMAIN more = 1..(Len(os) + 1)
      /\ more[Len(os) + 1] = o /\ \A i \in 1..Len(os) : more[i] = os[i]
  BY AppendIs
<1> HIDE DEF more
<1>3. Len(more) \in DOMAIN more /\ more[Len(more)] = o
  BY <1>1, <1>2
<1>4. \A n \in DOMAIN more : n \in DOMAIN os \/ n = Len(more)
  BY <1>1, <1>2
<1>5. ASSUME NEW n \in DOMAIN os
      PROVE  /\ n \in DOMAIN more /\ more[n] = os[n]
             /\ Retained(more, n) => Retained(os, n) /\ Key(os[n].task) \notin o.evicted
  <2>1. n \in DOMAIN more /\ more[n] = os[n]
    BY <1>1, <1>2
  <2>2. \A k \in n..Len(os) : k \in n..Len(more) /\ more[k] = os[k]
    BY <1>1, <1>2
  <2>3. Len(more) \in n..Len(more)
    BY <1>1, <1>2
  <2> QED
    BY <2>1, <2>2, <2>3, <1>3 DEF Retained
<1> QED
  BY <1>1, <1>2, <1>3, <1>4, <1>5 DEF more

LEMMA OneMoreSound ==
    ASSUME NEW os, NEW now, OffersSound(os, now), NEW o,
           Task(o.task), o.task.via # "purge", o.at = now, now \in Nat
    PROVE  OffersSound(Append(os, o), now)
<1> DEFINE more == Append(os, o)
<1>1. /\ IsSeq(more) /\ more[Len(more)] = o
      /\ \A n \in DOMAIN more : n \in DOMAIN os \/ n = Len(more)
      /\ \A n \in DOMAIN os : more[n] = os[n]
  BY OneMoreOffer DEF OffersSound
<1> HIDE DEF more
<1>2. ASSUME NEW n \in DOMAIN more
      PROVE  /\ Task(more[n].task) /\ more[n].task.via # "purge"
             /\ more[n].at \in Nat /\ more[n].at <= now
  <2>1. CASE n = Len(more)
    BY <2>1, <1>1
  <2>2. CASE n \in DOMAIN os
    BY <2>2, <1>1 DEF OffersSound
  <2> QED
    BY <2>1, <2>2, <1>1
<1> QED
  BY <1>1, <1>2 DEF OffersSound, more

(* An offer that was not taken, or was of the other kind, changes nothing  *)
(* of what a table stands for.                                             *)
LEMMA CacheStays ==
    ASSUME NEW d, NEW os, IsSeq(os), NEW now, NEW o, ~Took(<<o>>, 1, "observation"),
           CacheSound(d, os), CacheComplete(d, os, now)
    PROVE  CacheSound(d, Append(os, o)) /\ CacheComplete(d, Append(os, o), now)
<1> DEFINE more == Append(os, o)
<1>1. /\ more[Len(more)] = o
      /\ \A n \in DOMAIN more : n \in DOMAIN os \/ n = Len(more)
      /\ \A n \in DOMAIN os : /\ n \in DOMAIN more /\ more[n] = os[n]
                              /\ Retained(more, n) => Retained(os, n)
  BY OneMoreOffer
<1> HIDE DEF more
<1>2. ~Took(more, Len(more), "observation")
  BY <1>1 DEF Took
<1>3. \A n \in DOMAIN os : \A e : Keeps(e, os, n) => Keeps(e, more, n)
  BY <1>1 DEF Keeps, Took
<1>4. CacheSound(d, more)
  BY <1>1, <1>3 DEF CacheSound
<1>5. ASSUME NEW n \in DOMAIN more, Took(more, n, "observation"), Retained(more, n),
             more[n].at + observation_cooldown > now
      PROVE  \E i \in DOMAIN d : /\ d[i].key = Key(more[n].task)
                                 /\ d[i].until >= more[n].at + observation_cooldown
  <2>1. n \in DOMAIN os /\ more[n] = os[n] /\ Retained(os, n)
    BY <1>1, <1>2, <1>5
  <2>2. Took(os, n, "observation") /\ os[n].at + observation_cooldown > now
    BY <2>1, <1>5 DEF Took
  <2> QED
    BY <2>1, <2>2 DEF CacheComplete
<1>6. CacheComplete(d, more, now)
  BY <1>5 DEF CacheComplete
<1> QED
  BY <1>4, <1>6 DEF more

LEMMA RulesStay ==
    ASSUME NEW d, NEW os, IsSeq(os), NEW o, ~Took(<<o>>, 1, "rule"),
           RulesSound(d, os), RulesComplete(d, os)
    PROVE  RulesSound(d, Append(os, o)) /\ RulesComplete(d, Append(os, o))
<1> DEFINE more == Append(os, o)
<1>1. /\ more[Len(more)] = o
      /\ \A n \in DOMAIN more : n \in DOMAIN os \/ n = Len(more)
      /\ \A n \in DOMAIN os : n \in DOMAIN more /\ more[n] = os[n]
  BY OneMoreOffer
<1> HIDE DEF more
<1>2. ~Took(more, Len(more), "rule")
  BY <1>1 DEF Took
<1>3. \A n \in DOMAIN os : \A e : Dates(e, os, n) => Dates(e, more, n)
  BY <1>1 DEF Dates, Took
<1>4. RulesSound(d, more)
  BY <1>1, <1>3 DEF RulesSound
<1>5. RulesComplete(d, more)
  BY <1>1, <1>2 DEF RulesComplete, Took
<1> QED
  BY <1>4, <1>5 DEF more

-----------------------------------------------------------------------------
(* The check before an emit.                                               *)

LEMMA CheckedIsFresh ==
    ASSUME IInv, NEW task, Task(task), task.via # "purge", ~Cooling(task)
    PROVE  Follows(offers, task, clock)
<1> SUFFICES ASSUME NEW n \in DOMAIN offers, offers[n].outcome = "delivered",
                    Retained(offers, n), SameAlert(offers[n].task, task),
                    ~(clock - offers[n].at >= CooldownOf(task))
             PROVE  FALSE
  BY DEF Follows
<1>1. offers[n].task.via = task.via /\ task.via \in {"rule", "observation"}
  BY DEF SameAlert, Task
<1>2. Key(offers[n].task) = Key(task)
  BY <1>1, SameIffKey
<1>3. clock \in Nat /\ offers[n].at \in Nat
  BY DEF IInv, OffersSound
<1>4. CASE task.via = "rule"
  <2>1. CooldownOf(task) = task.subject.cooldown /\ task.subject.cooldown \in Nat
    BY <1>4 DEF CooldownOf, Task
  <2>2. Took(offers, n, "rule")
    BY <1>1, <1>4 DEF Took
  <2>3. PICK i \in DOMAIN last_delivered :
           last_delivered[i].key = Key(task) /\ last_delivered[i].at >= offers[n].at
    BY <1>2, <2>2 DEF IInv, RulesComplete
  <2>4. HasKey(last_delivered, Key(task)) /\ Lookup(last_delivered, Key(task)) = last_delivered[i]
    BY <2>3, LookupIs DEF IInv, RulesSound
  <2>5. last_delivered[i].at \in Nat
    <3>1. PICK k \in DOMAIN offers : Dates(last_delivered[i], offers, k)
      BY DEF IInv, RulesSound
    <3> QED
      BY <3>1, <1>3, KeepsIs DEF IInv
  <2>6. clock - last_delivered[i].at < task.subject.cooldown
    BY <1>3, <2>1, <2>3, <2>5
  <2> QED
    BY <1>4, <2>4, <2>6 DEF Cooling
<1>5. CASE task.via = "observation"
  <2>1. CooldownOf(task) = observation_cooldown /\ observation_cooldown \in Nat
    BY <1>5, DeliveryAssumption DEF CooldownOf
  <2>2. Took(offers, n, "observation") /\ offers[n].at + observation_cooldown > clock
    BY <1>1, <1>3, <1>5, <2>1 DEF Took
  <2>3. PICK i \in DOMAIN observation_delivered :
           /\ observation_delivered[i].key = Key(task)
           /\ observation_delivered[i].until >= offers[n].at + observation_cooldown
    BY <1>2, <2>2 DEF IInv, CacheComplete
  <2>4. /\ HasKey(observation_delivered, Key(task))
        /\ Lookup(observation_delivered, Key(task)) = observation_delivered[i]
    BY <2>3, LookupIs DEF IInv, CacheSound
  <2>5. observation_delivered[i].until \in Nat
    <3>1. PICK k \in DOMAIN offers : Keeps(observation_delivered[i], offers, k)
      BY DEF IInv, CacheSound
    <3> QED
      BY <3>1, <1>3, KeepsIs DEF IInv
  <2>6. observation_delivered[i].until > clock
    BY <1>3, <2>1, <2>2, <2>3, <2>5
  <2> QED
    BY <1>5, <2>4, <2>6 DEF Cooling
<1> QED
  BY <1>1, <1>4, <1>5

LEMMA CoolingIsEarned ==
    ASSUME IInv, NEW task, Task(task), task.via # "purge", Cooling(task)
    PROVE  \E n \in DOMAIN offers :
              /\ SameAlert(offers[n].task, task) /\ offers[n].outcome = "delivered"
              /\ clock - offers[n].at < CooldownOf(task)
<1>1. clock \in Nat
  BY DEF IInv
<1>2. CASE task.via = "rule"
  <2>1. CooldownOf(task) = task.subject.cooldown
    BY <1>2 DEF CooldownOf
  <2>2. /\ HasKey(last_delivered, Key(task))
        /\ clock - Lookup(last_delivered, Key(task)).at < task.subject.cooldown
    BY <1>2 DEF Cooling
  <2>3. PICK i \in DOMAIN last_delivered :
           /\ Lookup(last_delivered, Key(task)) = last_delivered[i]
           /\ last_delivered[i].key = Key(task)
    BY <2>2, FoundIs
  <2>4. PICK n \in DOMAIN offers : Dates(last_delivered[i], offers, n)
    BY DEF IInv, RulesSound
  <2>5. /\ offers[n].outcome = "delivered" /\ offers[n].task.via = "rule"
        /\ Key(offers[n].task) = Key(task) /\ last_delivered[i].at = offers[n].at
    BY <2>3, <2>4 DEF Dates, Took
  <2>6. SameAlert(offers[n].task, task)
    BY <1>2, <2>5, SameIffKey
  <2> QED
    BY <2>1, <2>2, <2>3, <2>5, <2>6
<1>3. CASE task.via = "observation"
  <2>1. CooldownOf(task) = observation_cooldown /\ observation_cooldown \in Nat
    BY <1>3, DeliveryAssumption DEF CooldownOf
  <2>2. /\ HasKey(observation_delivered, Key(task))
        /\ Lookup(observation_delivered, Key(task)).until > clock
    BY <1>3 DEF Cooling
  <2>3. PICK i \in DOMAIN observation_delivered :
           /\ Lookup(observation_delivered, Key(task)) = observation_delivered[i]
           /\ observation_delivered[i].key = Key(task)
    BY <2>2, FoundIs
  <2>4. PICK n \in DOMAIN offers : Keeps(observation_delivered[i], offers, n)
    BY DEF IInv, CacheSound
  <2>5. /\ offers[n].outcome = "delivered" /\ offers[n].task.via = "observation"
        /\ Key(offers[n].task) = Key(task)
        /\ observation_delivered[i].until = offers[n].at + observation_cooldown
    BY <2>3, <2>4 DEF Keeps, Took
  <2>6. SameAlert(offers[n].task, task)
    BY <1>3, <2>5, SameIffKey
  <2>7. offers[n].at \in Nat
    BY DEF IInv, OffersSound
  <2>8. clock - offers[n].at < observation_cooldown
    BY <1>1, <2>1, <2>2, <2>3, <2>5, <2>7
  <2> QED
    BY <2>1, <2>5, <2>6, <2>8
<1> QED
  BY <1>2, <1>3 DEF Task

(* The property of cooldowns is about the last offer.                      *)
LEMMA LastOffer ==
    ASSUME IsSeq(offers), NEW o, offers' = Append(offers, o),
           o.outcome \in {"delivered", "unconfirmed"} => Follows(offers, o.task, o.began),
           o.outcome = "suppressed" =>
              \E n \in DOMAIN offers :
                 /\ SameAlert(offers[n].task, o.task) /\ offers[n].outcome = "delivered"
                 /\ o.at - offers[n].at < CooldownOf(o.task)
    PROVE  CooldownsAreKept'
<1> DEFINE j == Len(offers')
<1>1. /\ Len(offers) \in Nat /\ j = Len(offers) + 1 /\ DOMAIN offers = 1..Len(offers)
      /\ offers'[j] = o
      /\ \A n \in DOMAIN offers : offers'[n] = offers[n]
      /\ \A n \in DOMAIN offers : Retained(offers', n) => Retained(offers, n)
  BY OneMoreOffer
<1>2. j - 1 = Len(offers)
  BY <1>1
<1> HIDE DEF j
<1>3. NoRepeatWithinCooldown'
  <2> SUFFICES ASSUME NEW i \in 1..(j - 1),
                      offers'[j].outcome \in {"delivered", "unconfirmed"},
                      offers'[i].outcome = "delivered",
                      SameAlert(offers'[i].task, offers'[j].task),
                      \A k \in i..j : Key(offers'[i].task) \notin offers'[k].evicted
               PROVE  offers'[j].began - offers'[i].at >= CooldownOf(offers'[j].task)
    BY DEF NoRepeatWithinCooldown, j
  <2>1. i \in DOMAIN offers /\ offers'[i] = offers[i]
    BY <1>1, <1>2
  <2>2. Retained(offers', i)
    BY DEF Retained, j
  <2>3. Retained(offers, i)
    BY <2>1, <2>2, <1>1
  <2> QED
    BY <2>1, <2>3, <1>1 DEF Follows
<1>4. SuppressedOnlyAfterSuccess'
  <2> SUFFICES ASSUME offers'[j].outcome = "suppressed"
               PROVE  \E i \in 1..(j - 1) :
                         /\ SameAlert(offers'[i].task, offers'[j].task)
                         /\ offers'[i].outcome = "delivered"
                         /\ offers'[j].at - offers'[i].at < CooldownOf(offers'[j].task)
    BY DEF SuppressedOnlyAfterSuccess, j
  <2> QED
    BY <1>1, <1>2
<1> QED
  BY <1>3, <1>4 DEF CooldownsAreKept

(* A step of the pipeline takes the first task away.                       *)
LEMMA WorkStays ==
    ASSUME IInv, work # <<>>
    PROVE  Tasks(Tail(work)) /\ Task(Head(work)) /\ phase # "disk"
<1>1. /\ IsSeq(Tail(work)) /\ Head(work) = work[1] /\ 1 \in DOMAIN work
      /\ Len(work) \in Nat \ {0} /\ DOMAIN work = 1..Len(work)
      /\ DOMAIN Tail(work) = 1..(Len(work) - 1)
      /\ \A i \in 1..(Len(work) - 1) : Tail(work)[i] = work[i + 1]
  BY TailIs, SeqIs DEF IInv, WorkSound, Tasks
<1>2. \A i \in 1..(Len(work) - 1) : i + 1 \in DOMAIN work
  BY <1>1
<1> QED
  BY <1>1, <1>2 DEF IInv, WorkSound, Tasks

-----------------------------------------------------------------------------
(* The steps of the pipeline.                                              *)

LEMMA RemainsDistinct ==
    ASSUME NEW d, IsSeq(d), Distinct(d), NEW S, NEW r, Remains(d, S, Len(d), r)
    PROVE  Distinct(r)
<1>1. Len(d) \in Nat /\ DOMAIN d = 1..Len(d) /\ Len(r) \in Nat /\ DOMAIN r = 1..Len(r)
  BY SeqIs DEF Remains
<1>2. ASSUME NEW i \in DOMAIN r, NEW j \in DOMAIN r, i < j
      PROVE  r[i].key # r[j].key
  <2>1. PICK p \in S, q \in S : /\ p \in 1..Len(d) /\ q \in 1..Len(d) /\ p < q
                                /\ r[i] = d[p] /\ r[j] = d[q]
    <3>1. InOrder(d, S, Len(d), r[i], r[j])
      BY <1>2 DEF Remains
    <3> QED
      BY <3>1 DEF InOrder
  <2>2. p # q
    BY <2>1, <1>1
  <2> QED
    BY <2>1, <2>2, <1>1 DEF Distinct
<1>3. \A i, j \in DOMAIN r : i = j \/ i < j \/ j < i
  BY <1>1
<1> QED
  BY <1>2, <1>3 DEF Distinct

LEMMA RemainsSorted ==
    ASSUME NEW d, IsSeq(d), Sorted(d), NEW S, NEW r, Remains(d, S, Len(d), r)
    PROVE  Sorted(r)
<1>1. DOMAIN d = 1..Len(d)
  BY SeqIs
<1> SUFFICES ASSUME NEW i \in DOMAIN r, NEW j \in DOMAIN r, i < j
             PROVE  r[i].until <= r[j].until
  BY DEF Sorted
<1>2. InOrder(d, S, Len(d), r[i], r[j])
  BY DEF Remains
<1>3. PICK p \in S, q \in S : /\ p \in 1..Len(d) /\ q \in 1..Len(d) /\ p < q
                              /\ r[i] = d[p] /\ r[j] = d[q]
  BY <1>2 DEF InOrder
<1> QED
  BY <1>1, <1>3 DEF Sorted

LEMMA PurgeKeeps ==
    ASSUME IInv, Purge, phase' = phase, clock' = clock, log' = log
    PROVE  IInv'
<1> DEFINE d == observation_delivered
           S == {i \in DOMAIN d : d[i].until > clock}
           r == Kept(d, S)
<1>1. /\ work # <<>> /\ began = None /\ began' = None /\ work' = Tail(work)
      /\ observation_delivered' = r
      /\ UNCHANGED <<last_delivered, offers>>
  BY DEF Purge, Ready
<1>2. IsSeq(d) /\ Distinct(d) /\ Sorted(d) /\ Len(d) <= observation_capacity
  BY DEF IInv, CacheSound
<1>3. Len(d) \in Nat /\ DOMAIN d = 1..Len(d) /\ observation_capacity \in Nat /\ clock \in Nat
  BY <1>2, SeqIs, DeliveryAssumption DEF IInv
<1>4. Remains(d, S, Len(d), r)
  BY <1>2, KeptIs
<1> HIDE DEF r
<1>5. Distinct(r) /\ Sorted(r)
  BY <1>2, <1>4, RemainsDistinct, RemainsSorted
<1>6. CacheSound(r, offers)
  <2>1. IsSeq(r) /\ Len(r) \in Nat /\ Len(r) <= Len(d)
    BY <1>4, SeqIs DEF Remains
  <2>2. Len(r) <= observation_capacity
    BY <2>1, <1>2, <1>3
  <2>3. \A i \in DOMAIN r : \E p \in DOMAIN d : r[i] = d[p]
    BY <1>3, <1>4 DEF Remains
  <2>4. \A i \in DOMAIN r : \E n \in DOMAIN offers : Keeps(r[i], offers, n)
    BY <2>3 DEF IInv, CacheSound
  <2> QED
    BY <2>1, <2>2, <2>4, <1>5 DEF CacheSound
<1>7. CacheComplete(r, offers, clock)
  <2> SUFFICES ASSUME NEW n \in DOMAIN offers, Took(offers, n, "observation"),
                      Retained(offers, n), offers[n].at + observation_cooldown > clock
               PROVE  \E i \in DOMAIN r :
                         /\ r[i].key = Key(offers[n].task)
                         /\ r[i].until >= offers[n].at + observation_cooldown
    BY DEF CacheComplete
  <2>1. PICK p \in DOMAIN d : /\ d[p].key = Key(offers[n].task)
                              /\ d[p].until >= offers[n].at + observation_cooldown
    BY DEF IInv, CacheComplete
  <2>2. d[p].until \in Nat /\ offers[n].at + observation_cooldown \in Nat
    <3>1. PICK k \in DOMAIN offers : Keeps(d[p], offers, k)
      BY DEF IInv, CacheSound
    <3>2. d[p].until \in Nat
      BY <3>1, <1>3, KeepsIs DEF IInv
    <3>3. offers[n].at \in Nat /\ observation_cooldown \in Nat
      BY DeliveryAssumption DEF IInv, OffersSound
    <3> QED
      BY <3>2, <3>3
  <2>3. d[p].until > clock
    BY <2>1, <2>2, <1>3
  <2>4. p \in 1..Len(d) /\ p \in S
    BY <2>3, <1>3
  <2>5. PICK i \in DOMAIN r : r[i] = d[p]
    BY <2>4, <1>4 DEF Remains
  <2> QED
    BY <2>1, <2>5
<1>8. WorkSound'
  BY <1>1, WorkStays DEF WorkSound
<1>9. EmitFresh'
  BY <1>1 DEF EmitFresh
<1>10. CooldownsAreKept'
  BY <1>1 DEF IInv, CooldownsAreKept, NoRepeatWithinCooldown, SuppressedOnlyAfterSuccess
<1>11. /\ clock' \in Nat /\ IsSeq(log') /\ OffersSound(offers, clock)'
       /\ RulesSound(last_delivered, offers)' /\ RulesComplete(last_delivered, offers)'
  BY <1>1 DEF IInv
<1>12. CacheSound(observation_delivered, offers)' /\ CacheComplete(observation_delivered, offers, clock)'
  BY <1>1, <1>6, <1>7
<1> QED
  BY <1>8, <1>9, <1>10, <1>11, <1>12 DEF IInv

(* An offer that leaves the tables alone.                                  *)
LEMMA OfferKeeps ==
    ASSUME IInv, work # <<>>, Head(work).via # "purge",
           NEW o, o.task = Head(work), o.outcome # "delivered", o.at = clock,
           offers' = Append(offers, o), work' = Tail(work), began' = None,
           CooldownsAreKept',
           UNCHANGED <<observation_delivered, last_delivered, phase, clock, log>>
    PROVE  IInv'
<1>1. IsSeq(offers) /\ clock \in Nat /\ Tasks(Tail(work)) /\ Task(Head(work)) /\ phase # "disk"
  BY WorkStays DEF IInv, OffersSound
<1>2. OffersSound(Append(offers, o), clock)
  BY <1>1, OneMoreSound DEF IInv
<1>3. ~Took(<<o>>, 1, "observation") /\ ~Took(<<o>>, 1, "rule")
  BY DEF Took
<1>4. /\ CacheSound(observation_delivered, Append(offers, o))
      /\ CacheComplete(observation_delivered, Append(offers, o), clock)
  BY <1>1, <1>3, CacheStays DEF IInv
<1>5. /\ RulesSound(last_delivered, Append(offers, o))
      /\ RulesComplete(last_delivered, Append(offers, o))
  BY <1>1, <1>3, RulesStay DEF IInv
<1>6. WorkSound'
  BY <1>1 DEF WorkSound
<1>7. EmitFresh'
  BY DEF EmitFresh
<1>8. /\ OffersSound(offers, clock)' /\ CacheSound(observation_delivered, offers)'
      /\ CacheComplete(observation_delivered, offers, clock)'
      /\ RulesSound(last_delivered, offers)' /\ RulesComplete(last_delivered, offers)'
  BY <1>2, <1>4, <1>5
<1>9. clock' \in Nat /\ IsSeq(log')
  BY DEF IInv
<1> QED
  BY <1>6, <1>7, <1>8, <1>9 DEF IInv

(* The record of an offer.                                                 *)
Offer(name, evicted) ==
    [task |-> Head(work), outcome |-> name, began |-> IF Emitting THEN began ELSE clock,
     at |-> clock, evicted |-> evicted]

LEMMA SuppressKeeps ==
    ASSUME IInv, Suppress, phase' = phase, clock' = clock, log' = log
    PROVE  IInv'
<1> DEFINE o == Offer("suppressed", {})
<1>1. /\ work # <<>> /\ Head(work).via # "purge" /\ Cooling(Head(work))
      /\ began' = None /\ work' = Tail(work)
      /\ offers' = Append(offers, o)
      /\ UNCHANGED <<observation_delivered, last_delivered>>
  BY DEF Suppress, Ready, Outcome, Offer
<1>2. o.task = Head(work) /\ o.outcome = "suppressed" /\ o.at = clock
  BY DEF Offer
<1> HIDE DEF o
<1>3. Task(Head(work))
  BY <1>1, WorkStays
<1>4. CooldownsAreKept'
  <2>1. \E n \in DOMAIN offers :
           /\ SameAlert(offers[n].task, o.task) /\ offers[n].outcome = "delivered"
           /\ o.at - offers[n].at < CooldownOf(o.task)
    BY <1>1, <1>2, <1>3, CoolingIsEarned
  <2>2. IsSeq(offers)
    BY DEF IInv, OffersSound
  <2> QED
    BY <2>1, <2>2, <1>1, <1>2, LastOffer
<1> QED
  BY <1>1, <1>2, <1>4, OfferKeeps

LEMMA FailedKeeps ==
    ASSUME IInv, NEW outcome \in Failures, Failed(outcome),
           phase' = phase, clock' = clock, log' = log
    PROVE  IInv'
<1> DEFINE o == Offer(outcome, {})
<1>1. /\ began # None /\ began' = None /\ work' = Tail(work)
      /\ offers' = Append(offers, o)
      /\ UNCHANGED <<observation_delivered, last_delivered>>
  BY DEF Failed, Emitting, Outcome, Offer
<1>2. o.task = Head(work) /\ o.outcome = outcome /\ o.at = clock /\ o.began = began
  BY <1>1 DEF Offer, Emitting
<1> HIDE DEF o
<1>3. outcome # "delivered" /\ outcome # "suppressed"
  BY DEF Failures
<1>4. work # <<>> /\ Head(work).via # "purge"
  BY <1>1 DEF IInv, WorkSound
<1>5. CooldownsAreKept'
  <2>1. Follows(offers, o.task, o.began)
    BY <1>1, <1>2 DEF IInv, EmitFresh
  <2>2. IsSeq(offers)
    BY DEF IInv, OffersSound
  <2> QED
    BY <2>1, <2>2, <1>1, <1>2, <1>3, LastOffer
<1> QED
  BY <1>1, <1>2, <1>3, <1>4, <1>5, OfferKeeps

LEMMA EmitKeeps ==
    ASSUME IInv, Emit, phase' = phase, clock' = clock, log' = log
    PROVE  IInv'
<1>1. /\ work # <<>> /\ Head(work).via # "purge" /\ ~Cooling(Head(work))
      /\ began' = clock
      /\ UNCHANGED <<observation_delivered, last_delivered, work, offers>>
  BY DEF Emit, Ready
<1>2. Task(Head(work)) /\ clock \in Nat
  BY <1>1, WorkStays DEF IInv
<1>3. Follows(offers, Head(work), clock)
  BY <1>1, <1>2, CheckedIsFresh
<1>4. EmitFresh'
  BY <1>1, <1>3 DEF EmitFresh
<1>5. WorkSound'
  BY <1>1, <1>2 DEF IInv, WorkSound
<1>6. CooldownsAreKept'
  BY <1>1 DEF IInv, CooldownsAreKept, NoRepeatWithinCooldown, SuppressedOnlyAfterSuccess
<1>7. /\ clock' \in Nat /\ IsSeq(log') /\ OffersSound(offers, clock)'
      /\ CacheSound(observation_delivered, offers)'
      /\ CacheComplete(observation_delivered, offers, clock)'
      /\ RulesSound(last_delivered, offers)' /\ RulesComplete(last_delivered, offers)'
  BY <1>1 DEF IInv
<1> QED
  BY <1>4, <1>5, <1>6, <1>7 DEF IInv

-----------------------------------------------------------------------------
(* A delivery.                                                             *)

LEMMA RuleIsDated ==
    ASSUME NEW d, NEW os, NEW now \in Nat, OffersSound(os, now),
           RulesSound(d, os), RulesComplete(d, os),
           NEW o, Took(<<o>>, 1, "rule"), o.at = now
    PROVE  LET r == Assign(d, [key |-> Key(o.task), at |-> now])
           IN  RulesSound(r, Append(os, o)) /\ RulesComplete(r, Append(os, o))
<1> DEFINE e == [key |-> Key(o.task), at |-> now]
           r == Assign(d, e)
           more == Append(os, o)
<1>1. /\ more[Len(more)] = o /\ Len(more) \in DOMAIN more
      /\ \A n \in DOMAIN more : n \in DOMAIN os \/ n = Len(more)
      /\ \A n \in DOMAIN os : n \in DOMAIN more /\ more[n] = os[n]
  BY OneMoreOffer DEF OffersSound
<1>2. e.key = Key(o.task) /\ e.at = now
  OBVIOUS
<1>3. IsSeq(d) /\ Distinct(d) /\ Len(d) \in Nat /\ DOMAIN d = 1..Len(d)
  BY SeqIs DEF RulesSound
<1> HIDE DEF e, more
<1>4. PICK p : AssignedAt(d, e, p, r)
  BY <1>3, AssignIs
<1> HIDE DEF r
<1>5. /\ IsSeq(r) /\ Len(r) \in Nat /\ DOMAIN r = 1..Len(r) /\ p \in 1..(Len(d) + 1)
      /\ Len(r) = IF p = Len(d) + 1 THEN Len(d) + 1 ELSE Len(d)
  BY <1>4, SeqIs DEF AssignedAt
<1>6. p \in DOMAIN r /\ \A i \in DOMAIN r : i = p \/ i \in DOMAIN d
  BY <1>3, <1>5
<1>7. \A i \in DOMAIN d : i \in DOMAIN r
  BY <1>3, <1>5
<1>8. /\ r[p] = e
      /\ \A i \in DOMAIN d : i # p => r[i] = d[i] /\ d[i].key # e.key
  BY <1>3, <1>4 DEF AssignedAt
<1>9. p \in DOMAIN d => d[p].key = e.key
  BY <1>3, <1>4 DEF AssignedAt
<1>10. \A n \in DOMAIN os : \A x : Dates(x, os, n) => Dates(x, more, n)
  BY <1>1 DEF Dates, Took
<1>11. Dates(e, more, Len(more))
  BY <1>1, <1>2 DEF Dates, Took
<1>12. RulesSound(r, more)
  <2>1. Distinct(r)
    BY <1>3, <1>6, <1>8 DEF Distinct
  <2>2. \A i \in DOMAIN r : \E n \in DOMAIN more : Dates(r[i], more, n)
    BY <1>1, <1>6, <1>8, <1>10, <1>11 DEF RulesSound
  <2> QED
    BY <2>1, <2>2, <1>5 DEF RulesSound
<1>13. RulesComplete(r, more)
  <2> SUFFICES ASSUME NEW n \in DOMAIN more, Took(more, n, "rule")
               PROVE  \E i \in DOMAIN r : r[i].key = Key(more[n].task) /\ r[i].at >= more[n].at
    BY DEF RulesComplete
  <2>1. CASE n = Len(more)
    BY <2>1, <1>1, <1>2, <1>6, <1>8
  <2>2. CASE n \in DOMAIN os
    <3>1. more[n] = os[n] /\ Took(os, n, "rule") /\ os[n].at \in Nat /\ os[n].at <= now
      BY <2>2, <1>1 DEF Took, OffersSound
    <3>2. PICK k \in DOMAIN d : d[k].key = Key(os[n].task) /\ d[k].at >= os[n].at
      BY <2>2, <3>1 DEF RulesComplete
    <3>3. CASE k = p
      <4>1. e.key = Key(os[n].task) /\ e.at >= os[n].at
        BY <3>1, <3>2, <3>3, <1>2, <1>9
      <4> QED
        BY <4>1, <3>1, <1>6, <1>8
    <3>4. CASE k # p
      BY <3>1, <3>2, <3>4, <1>7, <1>8
    <3> QED
      BY <3>3, <3>4
  <2> QED
    BY <2>1, <2>2, <1>1
<1> QED
  BY <1>12, <1>13 DEF r, e, more

LEMMA CacheIsRenewed ==
    ASSUME NEW d, NEW os, NEW now \in Nat, OffersSound(os, now),
           CacheSound(d, os), CacheComplete(d, os, now),
           NEW o, Took(<<o>>, 1, "observation"), o.at = now,
           NEW e, e.key = Key(o.task), e.until = now + observation_cooldown,
           NEW s, s = MoveToEnd(Assign(d, e), e.key),
           NEW b, b = Bounded(s), o.evicted = KeysOf(s) \ KeysOf(b)
    PROVE  CacheSound(b, Append(os, o)) /\ CacheComplete(b, Append(os, o), now)
<1> DEFINE more == Append(os, o)
<1>1. /\ more[Len(more)] = o /\ Len(more) \in DOMAIN more
      /\ \A n \in DOMAIN more : n \in DOMAIN os \/ n = Len(more)
      /\ \A n \in DOMAIN os :
            /\ n \in DOMAIN more /\ more[n] = os[n]
            /\ Retained(more, n) => Retained(os, n) /\ Key(os[n].task) \notin o.evicted
      /\ Len(more) \in Nat
  BY OneMoreOffer DEF OffersSound
<1> HIDE DEF more
<1>2. \A n \in DOMAIN more : Retained(more, n) => Key(more[n].task) \notin o.evicted
  BY <1>1 DEF Retained
<1>3. /\ IsSeq(d) /\ Distinct(d) /\ Sorted(d) /\ Len(d) \in Nat /\ DOMAIN d = 1..Len(d)
      /\ Len(d) <= observation_capacity
      /\ observation_capacity \in Nat /\ observation_cooldown \in Nat
  BY SeqIs, DeliveryAssumption DEF CacheSound
<1>4. PICK p : RenewedAt(d, e, p, s)
  BY <1>3, RenewIs
<1>5. /\ Len(s) \in Nat \ {0} /\ DOMAIN s = 1..Len(s) /\ Len(s) <= Len(d) + 1
      /\ Distinct(s)
      /\ \A i \in 1..(Len(s) - 1) : \E k \in DOMAIN d : s[i] = d[k] /\ d[k].key # e.key
      /\ \A k \in DOMAIN d : d[k].key # e.key => \E i \in 1..(Len(s) - 1) : s[i] = d[k]
  <2>1. Len(s) \in Nat \ {0} /\ DOMAIN s = 1..Len(s) /\ Len(s) <= Len(d) + 1
    BY ONLY <1>3, <1>4, RenewKeeps
  <2>2. Distinct(s)
    BY ONLY <1>3, <1>4, RenewKeeps
  <2>3. OthersAre(d, e, s)
    BY ONLY <1>3, <1>4, RenewKeeps
  <2> QED
    BY ONLY <2>1, <2>2, <2>3 DEF OthersAre
<1>6. IsSeq(s) /\ s[Len(s)] = e
  BY <1>4 DEF RenewedAt
<1>7. \A i \in DOMAIN d : d[i].until \in Int /\ d[i].until <= e.until
  <2> SUFFICES ASSUME NEW i \in DOMAIN d
               PROVE  d[i].until \in Int /\ d[i].until <= e.until
    OBVIOUS
  <2>1. PICK n \in DOMAIN os : Keeps(d[i], os, n)
    BY DEF CacheSound
  <2>2. d[i].until \in Nat /\ d[i].until <= now + observation_cooldown
    BY <2>1, KeepsIs
  <2> QED
    BY <2>2
<1>8. Sorted(s)
  <2>1. e.until \in Int
    BY <1>3
  <2> QED
    BY <2>1, <1>3, <1>4, <1>7, RenewSorts
<1>9. /\ Len(s) \in DOMAIN s
      /\ \A i \in DOMAIN s : i = Len(s) \/ i \in 1..(Len(s) - 1)
      /\ \A i \in 1..(Len(s) - 1) : i \in DOMAIN s
  <2>1. \A n \in Nat \ {0} : /\ n \in 1..n
                             /\ \A i \in 1..n : i = n \/ i \in 1..(n - 1)
                             /\ \A i \in 1..(n - 1) : i \in 1..n
    OBVIOUS
  <2> QED
    BY <2>1, <1>5
<1>10. \A i \in DOMAIN s : \E n \in DOMAIN more : Keeps(s[i], more, n)
  <2>1. Keeps(e, more, Len(more))
    BY <1>1 DEF Keeps, Took
  <2>2. \A n \in DOMAIN os : \A x : Keeps(x, os, n) => Keeps(x, more, n)
    BY <1>1 DEF Keeps, Took
  <2>3. \A k \in DOMAIN d : \E n \in DOMAIN more : Keeps(d[k], more, n)
    BY <2>2, <1>1 DEF CacheSound
  <2>4. \A i \in 1..(Len(s) - 1) : \E n \in DOMAIN more : Keeps(s[i], more, n)
    <3> SUFFICES ASSUME NEW i \in 1..(Len(s) - 1)
                 PROVE  \E n \in DOMAIN more : Keeps(s[i], more, n)
      OBVIOUS
    <3>1. PICK k \in DOMAIN d : s[i] = d[k]
      BY ONLY <1>5
    <3> QED
      BY ONLY <3>1, <2>3
  <2>5. \E n \in DOMAIN more : Keeps(s[Len(s)], more, n)
    BY ONLY <2>1, <1>1, <1>6
  <2> QED
    BY ONLY <2>4, <2>5, <1>9
<1>11. ASSUME NEW n \in DOMAIN more, Took(more, n, "observation"), Retained(more, n),
              more[n].at + observation_cooldown > now
       PROVE  \E i \in DOMAIN s : /\ s[i].key = Key(more[n].task)
                                  /\ s[i].until >= more[n].at + observation_cooldown
  <2>1. CASE n = Len(more)
    <3>1. e.key = Key(more[n].task) /\ e.until >= more[n].at + observation_cooldown
      BY <2>1, <1>1, <1>3
    <3> QED
      BY <3>1, <1>6, <1>9
  <2>2. CASE n \in DOMAIN os
    <3>1. /\ more[n] = os[n] /\ Took(os, n, "observation") /\ Retained(os, n)
          /\ os[n].at \in Nat /\ os[n].at <= now
      BY <2>2, <1>1, <1>11 DEF Took, OffersSound
    <3>2. PICK k \in DOMAIN d : /\ d[k].key = Key(os[n].task)
                                /\ d[k].until >= os[n].at + observation_cooldown
      BY <2>2, <3>1, <1>11 DEF CacheComplete
    <3>3. CASE d[k].key = e.key
      <4>1. e.key = Key(os[n].task) /\ e.until >= os[n].at + observation_cooldown
        BY <3>1, <3>2, <3>3, <1>3
      <4> QED
        BY <4>1, <3>1, <1>6, <1>9
    <3>4. CASE d[k].key # e.key
      BY <3>1, <3>2, <3>4, <1>5, <1>9
    <3> QED
      BY <3>3, <3>4
  <2> QED
    BY <2>1, <2>2, <1>1
<1>12. CASE Len(s) <= observation_capacity
  <2>1. b = s
    <3>1. ~(Len(s) > observation_capacity)
      BY <1>3, <1>5, <1>12
    <3> QED
      BY <3>1 DEF Bounded
  <2>2. CacheSound(s, more)
    BY <1>5, <1>6, <1>8, <1>10, <1>12 DEF CacheSound
  <2>3. CacheComplete(s, more, now)
    BY <1>11 DEF CacheComplete
  <2> QED
    BY <2>1, <2>2, <2>3 DEF more
<1>13. CASE ~(Len(s) <= observation_capacity)
  <2>1. b = Tail(s) /\ s # <<>>
    <3>1. Len(s) > observation_capacity /\ Len(s) # 0
      BY <1>3, <1>5, <1>13
    <3> QED
      BY <3>1, <1>6, SeqIs DEF Bounded, PopFirst
  <2>2. /\ IsSeq(b) /\ Len(b) = Len(s) - 1 /\ DOMAIN b = 1..(Len(s) - 1) /\ 1 \in DOMAIN s
        /\ \A i \in 1..(Len(s) - 1) : b[i] = s[i + 1]
    BY <2>1, <1>6, TailIs
  <2>3. Len(b) <= observation_capacity
    BY <2>2, <1>3, <1>5
  <2>4. /\ \A i \in DOMAIN b : i + 1 \in DOMAIN s /\ b[i] = s[i + 1] /\ i \in Int
        /\ \A i \in DOMAIN s : i # 1 => i - 1 \in DOMAIN b /\ b[i - 1] = s[i]
    <3>1. \A n \in Nat \ {0} :
             /\ \A i \in 1..(n - 1) : i + 1 \in 1..n /\ i \in Int
             /\ \A i \in 1..n : i # 1 => i - 1 \in 1..(n - 1) /\ (i - 1) + 1 = i
      OBVIOUS
    <3>2. /\ \A i \in 1..(Len(s) - 1) : i + 1 \in 1..Len(s) /\ i \in Int
          /\ \A i \in 1..Len(s) : i # 1 => i - 1 \in 1..(Len(s) - 1) /\ (i - 1) + 1 = i
      BY ONLY <3>1, <1>5
    <3>3. DOMAIN b = 1..(Len(s) - 1) /\ DOMAIN s = 1..Len(s)
      BY ONLY <2>2, <1>5
    <3>4. \A i \in 1..(Len(s) - 1) : b[i] = s[i + 1]
      BY ONLY <2>2
    <3>5. ASSUME NEW i \in 1..Len(s), i # 1
          PROVE  i - 1 \in 1..(Len(s) - 1) /\ b[i - 1] = s[i]
      <4>1. i - 1 \in 1..(Len(s) - 1) /\ (i - 1) + 1 = i
        BY ONLY <3>2, <3>5
      <4>2. b[i - 1] = s[(i - 1) + 1]
        BY ONLY <4>1, <3>4
      <4> QED
        BY <4>1, <4>2
    <3> QED
      BY ONLY <3>2, <3>3, <3>4, <3>5
  <2>5. Distinct(b)
    <3> SUFFICES ASSUME NEW i \in DOMAIN b, NEW j \in DOMAIN b, b[i].key = b[j].key
                 PROVE  i = j
      BY DEF Distinct
    <3>1. i + 1 = j + 1
      BY <2>4, <1>5 DEF Distinct
    <3> QED
      BY <3>1, <2>4
  <2>6. Sorted(b)
    <3> SUFFICES ASSUME NEW i \in DOMAIN b, NEW j \in DOMAIN b, i < j
                 PROVE  b[i].until <= b[j].until
      BY DEF Sorted
    <3>1. i + 1 < j + 1
      BY <2>4
    <3> QED
      BY <3>1, <2>4, <1>8 DEF Sorted
  <2>7. CacheSound(b, more)
    BY <2>2, <2>3, <2>4, <2>5, <2>6, <1>10 DEF CacheSound
  <2>8. s[1].key \in o.evicted
    <3>1. s[1].key \in KeysOf(s)
      BY <2>2 DEF KeysOf
    <3>2. ASSUME NEW i \in DOMAIN b, b[i].key = s[1].key
          PROVE  FALSE
      <4>1. 1 \in DOMAIN s /\ i + 1 \in DOMAIN s /\ s[i + 1].key = s[1].key
        BY ONLY <3>2, <2>2, <2>4
      <4>2. i + 1 = 1
        BY ONLY <4>1, <1>5 DEF Distinct
      <4>3. i \in 1..(Len(s) - 1)
        BY ONLY <3>2, <2>2
      <4> QED
        BY ONLY <4>2, <4>3
    <3>3. s[1].key \notin KeysOf(b)
      BY <3>2 DEF KeysOf
    <3> QED
      BY <3>1, <3>3
  <2>9. CacheComplete(b, more, now)
    <3> SUFFICES ASSUME NEW n \in DOMAIN more, Took(more, n, "observation"), Retained(more, n),
                        more[n].at + observation_cooldown > now
                 PROVE  \E i \in DOMAIN b :
                           /\ b[i].key = Key(more[n].task)
                           /\ b[i].until >= more[n].at + observation_cooldown
      BY DEF CacheComplete
    <3>1. PICK i \in DOMAIN s : /\ s[i].key = Key(more[n].task)
                                /\ s[i].until >= more[n].at + observation_cooldown
      BY <1>11
    <3>2. i # 1
      BY <3>1, <2>8, <1>2
    <3> QED
      BY <3>1, <3>2, <2>4
  <2> QED
    BY <2>7, <2>9 DEF more
<1> QED
  BY <1>12, <1>13

LEMMA DeliveredKeeps ==
    ASSUME IInv, Delivered, phase' = phase, clock' = clock, log' = log
    PROVE  IInv'
<1> DEFINE task == Head(work)
           r == Assign(last_delivered, [key |-> Key(task), at |-> clock])
           e == [key |-> Key(task), until |-> clock + observation_cooldown]
           s == Stamped(Key(task))
           b == Bounded(s)
           o == IF task.via = "rule" THEN Offer("delivered", {})
                ELSE Offer("delivered", KeysOf(s) \ KeysOf(b))
<1>1. /\ began # None /\ began' = None /\ work' = Tail(work)
      /\ task.via = "rule" => /\ last_delivered' = r
                              /\ offers' = Append(offers, Offer("delivered", {}))
                              /\ UNCHANGED observation_delivered
      /\ task.via # "rule" => /\ observation_delivered' = b
                              /\ offers' = Append(offers, Offer("delivered", KeysOf(s) \ KeysOf(b)))
                              /\ UNCHANGED last_delivered
  BY DEF Delivered, Emitting, Outcome, Offer
<1>2. /\ offers' = Append(offers, o)
      /\ o.task = task /\ o.outcome = "delivered" /\ o.at = clock /\ o.began = began
      /\ task.via # "rule" => o.evicted = KeysOf(s) \ KeysOf(b)
  BY <1>1 DEF Offer, Emitting
<1>3. /\ work # <<>> /\ task.via # "purge" /\ Task(task) /\ Tasks(Tail(work)) /\ phase # "disk"
  <2>1. work # <<>> /\ task.via # "purge"
    BY <1>1 DEF IInv, WorkSound
  <2> QED
    BY <2>1, WorkStays
<1>4. clock \in Nat /\ IsSeq(offers) /\ OffersSound(offers, clock)
  BY DEF IInv, OffersSound
<1>5. s = MoveToEnd(Assign(observation_delivered, e), e.key)
  BY DEF Stamped
<1>6. e.key = Key(task) /\ e.until = clock + observation_cooldown
  OBVIOUS
<1>7. /\ CacheSound(observation_delivered, offers)
      /\ CacheComplete(observation_delivered, offers, clock)
      /\ RulesSound(last_delivered, offers) /\ RulesComplete(last_delivered, offers)
  BY DEF IInv
<1> HIDE DEF task, r, e, s, b, o
<1>8. ASSUME task.via = "rule"
       PROVE  /\ CacheSound(observation_delivered, offers)'
              /\ CacheComplete(observation_delivered, offers, clock)'
              /\ RulesSound(last_delivered, offers)' /\ RulesComplete(last_delivered, offers)'
  <2>1. Took(<<o>>, 1, "rule") /\ ~Took(<<o>>, 1, "observation")
    BY <1>2, <1>8 DEF Took
  <2>2. RulesSound(r, Append(offers, o)) /\ RulesComplete(r, Append(offers, o))
    BY <2>1, <1>2, <1>4, <1>7, RuleIsDated DEF r
  <2>3. /\ CacheSound(observation_delivered, Append(offers, o))
        /\ CacheComplete(observation_delivered, Append(offers, o), clock)
    BY <2>1, <1>4, <1>7, CacheStays
  <2> QED
    BY <2>2, <2>3, <1>1, <1>2, <1>8
<1>9. ASSUME task.via # "rule"
       PROVE  /\ CacheSound(observation_delivered, offers)'
              /\ CacheComplete(observation_delivered, offers, clock)'
              /\ RulesSound(last_delivered, offers)' /\ RulesComplete(last_delivered, offers)'
  <2>1. Took(<<o>>, 1, "observation") /\ ~Took(<<o>>, 1, "rule")
    BY <1>2, <1>3, <1>9 DEF Took, Task
  <2>2. CacheSound(b, Append(offers, o)) /\ CacheComplete(b, Append(offers, o), clock)
    BY <2>1, <1>2, <1>4, <1>5, <1>6, <1>7, <1>9, CacheIsRenewed DEF b
  <2>3. /\ RulesSound(last_delivered, Append(offers, o))
        /\ RulesComplete(last_delivered, Append(offers, o))
    BY <2>1, <1>4, <1>7, RulesStay
  <2> QED
    BY <2>2, <2>3, <1>1, <1>2, <1>9
<1>10. OffersSound(offers, clock)'
  <2>1. OffersSound(Append(offers, o), clock)
    BY <1>2, <1>3, <1>4, OneMoreSound
  <2> QED
    BY <2>1, <1>2
<1>11. CooldownsAreKept'
  <2>1. Follows(offers, o.task, o.began)
    BY <1>1, <1>2 DEF IInv, EmitFresh, task
  <2> QED
    BY <2>1, <1>2, <1>4, LastOffer
<1>12. WorkSound'
  BY <1>1, <1>3 DEF WorkSound
<1>13. EmitFresh'
  BY <1>1 DEF EmitFresh
<1>14. clock' \in Nat /\ IsSeq(log')
  BY DEF IInv
<1> QED
  BY <1>8, <1>9, <1>10, <1>11, <1>12, <1>13, <1>14 DEF IInv

-----------------------------------------------------------------------------
(* The steps around the pipeline.                                          *)

(* New work, while nothing is under way.                                   *)
LEMMA NewWorkKeeps ==
    ASSUME IInv, work = <<>>, Tasks(work'), phase' # "disk", clock' = clock, IsSeq(log'),
           UNCHANGED <<observation_delivered, last_delivered, began, offers>>
    PROVE  IInv'
<1>1. began = None /\ began' = None
  BY DEF IInv, WorkSound
<1>2. WorkSound' /\ EmitFresh'
  BY <1>1 DEF WorkSound, EmitFresh
<1>3. CooldownsAreKept'
  BY DEF IInv, CooldownsAreKept, NoRepeatWithinCooldown, SuppressedOnlyAfterSuccess
<1>4. /\ clock' \in Nat /\ IsSeq(log') /\ OffersSound(offers, clock)'
      /\ CacheSound(observation_delivered, offers)'
      /\ CacheComplete(observation_delivered, offers, clock)'
      /\ RulesSound(last_delivered, offers)' /\ RulesComplete(last_delivered, offers)'
  BY DEF IInv
<1> QED
  BY <1>2, <1>3, <1>4 DEF IInv

LEMMA AnalyzeDiskKeeps ==
    ASSUME IInv, NEW reading, AnalyzeDisk(reading), clock' = clock
    PROVE  IInv'
<1>1. /\ phase = "disk" /\ phase' = "stream" /\ log' = log
      /\ UNCHANGED <<observation_delivered, last_delivered, began, offers>>
      /\ \/ work' = work
         \/ work' = RuleTasks([metric |-> "disk_used_percent", value |-> reading])
  BY DEF AnalyzeDisk
<1>2. work = <<>> /\ Tasks(work) /\ IsSeq(log)
  BY <1>1 DEF IInv, WorkSound
<1>3. Tasks(work')
  BY <1>1, <1>2, RuleTasksAre
<1> QED
  BY <1>1, <1>2, <1>3, NewWorkKeeps

LEMMA EndCycleKeeps ==
    ASSUME IInv, NEW spoiled, EndCycle(spoiled), clock' = clock
    PROVE  IInv'
<1>1. /\ work = <<>> /\ work' = work /\ log' = log
      /\ UNCHANGED <<observation_delivered, last_delivered, began, offers>>
  BY DEF EndCycle, Idle
<1>2. began = None /\ Tasks(work) /\ IsSeq(log)
  BY <1>1 DEF IInv, WorkSound
<1>3. WorkSound' /\ EmitFresh'
  BY <1>1, <1>2 DEF WorkSound, EmitFresh
<1>4. CooldownsAreKept'
  BY <1>1 DEF IInv, CooldownsAreKept, NoRepeatWithinCooldown, SuppressedOnlyAfterSuccess
<1>5. /\ clock' \in Nat /\ IsSeq(log') /\ OffersSound(offers, clock)'
      /\ CacheSound(observation_delivered, offers)'
      /\ CacheComplete(observation_delivered, offers, clock)'
      /\ RulesSound(last_delivered, offers)' /\ RulesComplete(last_delivered, offers)'
  BY <1>1 DEF IInv
<1> QED
  BY <1>3, <1>4, <1>5 DEF IInv

(* Time only takes duties away; a line of offers made stays in the past.   *)
LEMMA TimePassesKeeps ==
    ASSUME IInv, TimePasses
    PROVE  IInv'
<1>1. /\ clock' = clock + 1
      /\ UNCHANGED <<phase, log, observation_delivered, last_delivered, work, began, offers>>
  BY DEF TimePasses, Tick
<1>2. clock \in Nat /\ clock' \in Nat
  BY <1>1 DEF IInv
<1>3. OffersSound(offers, clock + 1)
  BY <1>2 DEF IInv, OffersSound
<1>4. CacheComplete(observation_delivered, offers, clock + 1)
  <2> SUFFICES ASSUME NEW n \in DOMAIN offers, Took(offers, n, "observation"),
                      Retained(offers, n), offers[n].at + observation_cooldown > clock + 1
               PROVE  \E i \in DOMAIN observation_delivered :
                         /\ observation_delivered[i].key = Key(offers[n].task)
                         /\ observation_delivered[i].until >= offers[n].at + observation_cooldown
    BY DEF CacheComplete
  <2>1. offers[n].at + observation_cooldown \in Nat
    BY DeliveryAssumption DEF IInv, OffersSound
  <2>2. offers[n].at + observation_cooldown > clock
    BY <2>1, <1>2
  <2> QED
    BY <2>2 DEF IInv, CacheComplete
<1>5. WorkSound' /\ EmitFresh'
  <2>1. began # None => began \in Nat /\ began <= clock + 1
    BY <1>2 DEF IInv, WorkSound
  <2> QED
    BY <2>1, <1>1 DEF IInv, WorkSound, EmitFresh
<1>6. CooldownsAreKept'
  BY <1>1 DEF IInv, CooldownsAreKept, NoRepeatWithinCooldown, SuppressedOnlyAfterSuccess
<1>7. OffersSound(offers, clock)' /\ CacheComplete(observation_delivered, offers, clock)'
  BY <1>1, <1>3, <1>4
<1>8. /\ clock' \in Nat /\ IsSeq(log') /\ CacheSound(observation_delivered, offers)'
      /\ RulesSound(last_delivered, offers)' /\ RulesComplete(last_delivered, offers)'
  BY <1>1, <1>2 DEF IInv
<1> QED
  BY <1>5, <1>6, <1>7, <1>8 DEF IInv

LEMMA OneIs ==
    ASSUME NEW x
    PROVE  IsSeq(<<x>>)
<1>1. <<x>> = [i \in 1..1 |-> <<x>>[i]]
  OBVIOUS
<1> QED
  BY <1>1, FunctionIs

LEMMA MetricsAre ==
    ASSUME NEW line
    PROVE  IsSeq(NormalizedEvent(line).metrics)
<1> DEFINE data == Fields(line)
           a == Measurement("latency_ms", data.lat_ms)
           b == Measurement("response_bytes", data.bytes)
<1>1. NormalizedEvent(line).metrics = a \o b
  BY DEF NormalizedEvent
<1>2. IsSeq(a) /\ IsSeq(b)
  BY OneIs, EmptyIs DEF Measurement
<1> HIDE DEF a, b
<1> QED
  BY <1>1, <1>2, ConcatIs

(* A line leaves one entry in the log, and its alerts are a sequence.      *)
LEMMA IngestedIs ==
    ASSUME NEW line, IngestRawLog(line), IsSeq(log)
    PROVE  IsSeq(log') /\ IsSeq(Last(log').alerts)
<1>1. SUFFICES ASSUME NEW alerts, IsSeq(alerts), log' = Ingested(line, alerts)
               PROVE  IsSeq(log') /\ IsSeq(Last(log').alerts)
  <2>1. CASE IngestOther(line)
    BY <2>1, <1>1, EmptyIs DEF IngestOther
  <2>2. CASE IngestEvent(line)
    <3> DEFINE event == NormalizedEvent(line)
               seen == Seen(Pruned(sources), event.ip)
               scored == Scored(event, Alive(series))
               st == IF IsFailure(event) THEN Remembered(Last(seen), event.user) ELSE Last(seen)
               bursts == IF IsFailure(event) /\ Len(st.failures) >= 4
                         THEN <<FailureAlert(st, event)>> ELSE <<>>
               outliers == [i \in DOMAIN scored.outliers |->
                               OutlierAlert(event, scored.outliers[i])]
    <3>1. log' = Ingested(line, bursts \o outliers)
      BY <2>2 DEF IngestEvent
    <3>2. IsSeq(bursts)
      BY OneIs, EmptyIs
    <3>3. IsSeq(scored.outliers)
      BY MetricsAre, OutliersAre
    <3>4. IsSeq(outliers)
      <4>1. Len(scored.outliers) \in Nat /\ DOMAIN scored.outliers = 1..Len(scored.outliers)
        BY <3>3, SeqIs
      <4> HIDE DEF scored, event
      <4> QED
        BY <4>1, FunctionIs
    <3> HIDE DEF bursts, outliers
    <3>5. IsSeq(bursts \o outliers)
      BY <3>2, <3>4, ConcatIs
    <3> QED
      BY <3>1, <3>5, <1>1
  <2> QED
    BY <2>1, <2>2 DEF IngestRawLog
<1> DEFINE entry == [line |-> line, at |-> clock, alerts |-> alerts]
<1>2. log' = Append(log, entry) /\ entry.alerts = alerts
  BY <1>1 DEF Ingested
<1> HIDE DEF entry
<1>3. IsSeq(log') /\ log'[Len(log')] = entry
  BY <1>2, AppendIs
<1> QED
  BY <1>1, <1>2, <1>3 DEF Last

LEMMA IngestLineKeeps ==
    ASSUME IInv, NEW line, IngestLine(line), clock' = clock
    PROVE  IInv'
<1>1. /\ work = <<>> /\ phase' = "stream" /\ IsSeq(log)
      /\ UNCHANGED <<observation_delivered, last_delivered, began, offers>>
  BY DEF IngestLine, Idle, IInv
<1>2. Tasks(work') /\ IsSeq(log')
  <2>1. CASE SecurityLine(line)
    <3> DEFINE alerts == Last(log').alerts
               ss == [i \in DOMAIN alerts |-> ObservationTasks(alerts[i])]
    <3>1. work' = FlattenSeq(ss)
      BY <2>1 DEF SecurityLine
    <3>2. IsSeq(log') /\ IsSeq(alerts)
      BY <2>1, <1>1, IngestedIs DEF SecurityLine
    <3> HIDE DEF alerts
    <3>3. IsSeq(ss)
      BY <3>2, SeqIs, FunctionIs
    <3>4. \A i \in DOMAIN ss : Tasks(ss[i])
      BY ObservationTasksAre
    <3> HIDE DEF ss
    <3> QED
      BY <3>1, <3>2, <3>3, <3>4, FlattenTasks
  <2>2. CASE PlainLine(line)
    <3> DEFINE names == Valid(line)
               ss == [i \in DOMAIN names |->
                         RuleTasks([metric |-> names[i], value |-> line[names[i]]])]
    <3>1. work' = FlattenSeq(ss) /\ log' = Ingested(line, <<>>)
      BY <2>2 DEF PlainLine
    <3>2. IsSeq(names)
      <4> DEFINE S == {i \in DOMAIN PlainMetrics : Usable(line, PlainMetrics[i])}
      <4>1. PlainMetrics = [i \in 1..2 |-> PlainMetrics[i]]
        BY DEF PlainMetrics
      <4>2. IsSeq(PlainMetrics)
        BY <4>1, FunctionIs
      <4>3. names = Kept(PlainMetrics, S)
        BY DEF Valid
      <4> HIDE DEF S, names
      <4>4. Remains(PlainMetrics, S, Len(PlainMetrics), names)
        BY <4>2, <4>3, KeptIs
      <4> QED
        BY <4>4 DEF Remains
    <3> HIDE DEF names
    <3>3. IsSeq(ss)
      BY <3>2, SeqIs, FunctionIs
    <3>4. \A i \in DOMAIN ss : Tasks(ss[i])
      BY RuleTasksAre
    <3>5. IsSeq(log')
      BY <3>1, <1>1, AppendIs DEF Ingested
    <3> HIDE DEF ss
    <3> QED
      BY <3>1, <3>3, <3>4, <3>5, FlattenTasks
  <2> QED
    BY <2>1, <2>2 DEF IngestLine
<1> QED
  BY <1>1, <1>2, NewWorkKeeps

-----------------------------------------------------------------------------
LEMMA DeliverKeeps ==
    ASSUME IInv, Deliver, clock' = clock
    PROVE  IInv'
<1>1. phase' = phase /\ log' = log
  BY DEF Deliver
<1>2. \/ Purge \/ Suppress \/ Emit \/ Delivered
      \/ \E outcome \in Failures : Failed(outcome)
  BY DEF Deliver
<1> QED
  BY <1>1, <1>2, PurgeKeeps, SuppressKeeps, EmitKeeps, DeliveredKeeps, FailedKeeps

LEMMA InitHolds == Init => IInv
<1> SUFFICES ASSUME Init PROVE IInv
  OBVIOUS
<1>1. /\ clock = 0 /\ log = <<>> /\ work = <<>> /\ began = None /\ offers = <<>>
      /\ observation_delivered = <<>> /\ last_delivered = <<>>
  BY DEF Init, DetectorInit, DeliveryInit
<1>2. IsSeq(<<>>) /\ Len(<<>>) = 0 /\ DOMAIN <<>> = {}
  BY EmptyIs
<1>3. WorkSound /\ EmitFresh
  BY <1>1, <1>2 DEF WorkSound, EmitFresh, Tasks
<1>4. OffersSound(offers, clock)
  BY <1>1, <1>2 DEF OffersSound
<1>5. CacheSound(observation_delivered, offers)
  BY <1>1, <1>2, DeliveryAssumption DEF CacheSound, Distinct, Sorted
<1>6. /\ CacheComplete(observation_delivered, offers, clock)
      /\ RulesSound(last_delivered, offers) /\ RulesComplete(last_delivered, offers)
  BY <1>1, <1>2 DEF CacheComplete, RulesSound, RulesComplete, Distinct
<1>7. CooldownsAreKept
  <2>1. \A i \in 1..(0 - 1) : FALSE
    OBVIOUS
  <2> QED
    BY <2>1, <1>1, <1>2 DEF CooldownsAreKept, NoRepeatWithinCooldown, SuppressedOnlyAfterSuccess
<1> QED
  BY <1>1, <1>2, <1>3, <1>4, <1>5, <1>6, <1>7 DEF IInv

LEMMA StepKeeps == IInv /\ [Next]_vars => IInv'
<1> SUFFICES ASSUME IInv, [Next]_vars PROVE IInv'
  OBVIOUS
<1>1. CASE Step /\ UNCHANGED clock
  BY <1>1, AnalyzeDiskKeeps, IngestLineKeeps, EndCycleKeeps, DeliverKeeps DEF Step
<1>2. CASE TimePasses
  BY <1>2, TimePassesKeeps
<1>3. CASE UNCHANGED vars
  <2>1. UNCHANGED <<clock, phase, log, observation_delivered, last_delivered, work, began, offers>>
    BY <1>3 DEF vars
  <2>2. WorkSound' /\ EmitFresh'
    BY <2>1 DEF IInv, WorkSound, EmitFresh
  <2>3. CooldownsAreKept'
    BY <2>1 DEF IInv, CooldownsAreKept, NoRepeatWithinCooldown, SuppressedOnlyAfterSuccess
  <2>4. /\ clock' \in Nat /\ IsSeq(log') /\ OffersSound(offers, clock)'
        /\ CacheSound(observation_delivered, offers)'
        /\ CacheComplete(observation_delivered, offers, clock)'
        /\ RulesSound(last_delivered, offers)' /\ RulesComplete(last_delivered, offers)'
    BY <2>1 DEF IInv
  <2> QED
    BY <2>2, <2>3, <2>4 DEF IInv
<1> QED
  BY <1>1, <1>2, <1>3 DEF Next

LEMMA InvariantHolds == Spec => []IInv
BY InitHolds, StepKeeps, PTL DEF Spec

(* A receiver gets an alert twice within its cooldown only if the pipeline *)
(* was told that it failed or the bounded cache gave it up, and an alert   *)
(* is held back only after a success less than a cooldown ago: for any     *)
(* rules, sinks, lines, answers and times, however long the emits take     *)
(* (integrated_alerts.py dispatch_observation and ingest).                 *)
THEOREM CooldownsHold == Spec => []CooldownsAreKept
<1>1. IInv => CooldownsAreKept
  BY DEF IInv
<1> QED
  BY <1>1, InvariantHolds, PTL

-----------------------------------------------------------------------------
(* What the cache gives up.                                                *)

LEMMA FirstIsGivenUp ==
    ASSUME NEW d, IsSeq(d), Distinct(d), Sorted(d), NEW e, e.until \in Int,
           \A i \in DOMAIN d : d[i].until \in Int /\ d[i].until <= e.until,
           NEW s, s = MoveToEnd(Assign(d, e), e.key), NEW b, b = Bounded(s),
           NEW i \in DOMAIN d, d[i].key \in KeysOf(s) \ KeysOf(b),
           NEW j \in DOMAIN b
    PROVE  d[i].until <= b[j].until
<1>1. PICK p : RenewedAt(d, e, p, s)
  BY RenewIs
<1>2. /\ Len(s) \in Nat \ {0} /\ DOMAIN s = 1..Len(s)
      /\ Distinct(s) /\ OthersAre(d, e, s)
  BY <1>1, RenewKeeps
<1>3. IsSeq(s) /\ s[Len(s)] = e
  BY <1>1 DEF RenewedAt
<1>4. Sorted(s)
  BY <1>1, RenewSorts
<1>5. Len(s) > observation_capacity /\ b = Tail(s)
  BY DEF Bounded, PopFirst
<1>6. Len(s) # 1 /\ s # <<>>
  <2>1. observation_capacity \in Nat \ {0}
    BY DeliveryAssumption
  <2> QED
    BY <2>1, <1>2, <1>3, <1>5, SeqIs
<1>7. /\ DOMAIN b = 1..(Len(s) - 1) /\ 1 \in DOMAIN s
      /\ \A k \in 1..(Len(s) - 1) : b[k] = s[k + 1]
  BY <1>3, <1>5, <1>6, TailIs
<1>8. \A k \in DOMAIN s : k # 1 => s[k].key \in KeysOf(b)
  <2> SUFFICES ASSUME NEW k \in DOMAIN s, k # 1
               PROVE  s[k].key \in KeysOf(b)
    OBVIOUS
  <2>1. k - 1 \in 1..(Len(s) - 1) /\ (k - 1) + 1 = k
    BY <1>2
  <2>2. k - 1 \in DOMAIN b /\ b[k - 1] = s[k]
    BY <2>1, <1>7
  <2> QED
    BY <2>2 DEF KeysOf
<1>9. d[i].key = s[1].key
  <2>1. PICK k \in DOMAIN s : d[i].key = s[k].key
    BY DEF KeysOf
  <2> QED
    BY <2>1, <1>8
<1>10. d[i].key # e.key
  <2> SUFFICES ASSUME d[i].key = e.key PROVE FALSE
    OBVIOUS
  <2>1. Len(s) \in DOMAIN s /\ s[Len(s)].key = s[1].key
    BY <1>2, <1>3, <1>9
  <2>2. Len(s) = 1
    BY ONLY <2>1, <1>2, <1>7 DEF Distinct
  <2> QED
    BY <2>2, <1>6
<1>11. d[i] = s[1]
  <2>1. PICK m \in 1..(Len(s) - 1) : s[m] = d[i]
    BY <1>10, <1>2 DEF OthersAre
  <2>2. m \in DOMAIN s
    BY <1>2
  <2>3. m = 1
    BY ONLY <2>1, <2>2, <1>2, <1>7, <1>9 DEF Distinct
  <2> QED
    BY <2>1, <2>3
<1>12. j + 1 \in DOMAIN s /\ 1 < j + 1 /\ b[j] = s[j + 1]
  <2>1. j \in 1..(Len(s) - 1)
    BY <1>7
  <2>2. j + 1 \in 1..Len(s) /\ 1 < j + 1
    BY <2>1, <1>2
  <2> QED
    BY <2>1, <2>2, <1>2, <1>7
<1> QED
  BY <1>4, <1>7, <1>11, <1>12 DEF Sorted

LEMMA UntilsAre ==
    ASSUME IInv, NEW i \in DOMAIN observation_delivered
    PROVE  /\ observation_delivered[i].until \in Int
           /\ observation_delivered[i].until <= clock + observation_cooldown
<1>1. PICK n \in DOMAIN offers : Keeps(observation_delivered[i], offers, n)
  BY DEF IInv, CacheSound
<1> QED
  BY <1>1, KeepsIs DEF IInv

(* What comes of a task is the last offer, if there is a new one.          *)
LEMMA NothingEvicted ==
    ASSUME IsSeq(offers), NEW name, Outcome(name, {})
    PROVE  offers'[Len(offers')].evicted = {}
<1> DEFINE o == Offer(name, {})
<1>1. offers' = Append(offers, o) /\ o.evicted = {}
  BY DEF Outcome, Offer
<1> HIDE DEF o
<1> QED
  BY <1>1, OneMoreOffer

LEMMA SoonestStep ==
    ASSUME IInv, [Next]_vars, NEW i \in DOMAIN observation_delivered,
           Len(offers') > Len(offers),
           observation_delivered[i].key \in offers'[Len(offers')].evicted,
           NEW j \in DOMAIN observation_delivered'
    PROVE  observation_delivered[i].until <= observation_delivered'[j].until
<1> DEFINE task == Head(work)
           e == [key |-> Key(task), until |-> clock + observation_cooldown]
           s == Stamped(Key(task))
           b == Bounded(s)
           o == Offer("delivered", KeysOf(s) \ KeysOf(b))
<1>1. IsSeq(offers) /\ Len(offers) \in Nat /\ clock \in Nat /\ observation_cooldown \in Nat
  BY SeqIs, DeliveryAssumption DEF IInv, OffersSound
<1>2. offers' # offers
  BY <1>1
<1>3. Deliver
  BY <1>2 DEF Next, Step, vars, AnalyzeDisk, IngestLine, EndCycle, TimePasses
<1>4. Delivered /\ task.via # "rule"
  <2>1. offers'[Len(offers')].evicted # {}
    OBVIOUS
  <2>2. ~Suppress
    BY <2>1, <1>1, NothingEvicted DEF Suppress
  <2>3. \A outcome : ~Failed(outcome)
    BY <2>1, <1>1, NothingEvicted DEF Failed
  <2>4. Delivered
    BY <2>2, <2>3, <1>2, <1>3 DEF Deliver, Purge, Emit
  <2>5. task.via = "rule" => Outcome("delivered", {})
    BY <2>4 DEF Delivered
  <2> QED
    BY <2>1, <2>4, <2>5, <1>1, NothingEvicted
<1>5. observation_delivered' = b /\ offers' = Append(offers, o)
  BY <1>4 DEF Delivered, Outcome, Offer
<1>6. o.evicted = KeysOf(s) \ KeysOf(b)
  BY DEF Offer
<1>7. s = MoveToEnd(Assign(observation_delivered, e), e.key)
  BY DEF Stamped
<1>8. e.until = clock + observation_cooldown
  OBVIOUS
<1> HIDE DEF task, e, s, b, o
<1>9. observation_delivered[i].key \in KeysOf(s) \ KeysOf(b)
  BY <1>1, <1>5, <1>6, OneMoreOffer
<1>10. /\ IsSeq(observation_delivered) /\ Distinct(observation_delivered)
       /\ Sorted(observation_delivered)
  BY DEF IInv, CacheSound
<1>11. \A k \in DOMAIN observation_delivered :
          observation_delivered[k].until \in Int /\ observation_delivered[k].until <= e.until
  BY <1>8, UntilsAre
<1>12. e.until \in Int
  BY <1>1, <1>8
<1>13. j \in DOMAIN b
  BY <1>5
<1>14. observation_delivered[i].until <= b[j].until
  BY <1>7, <1>9, <1>10, <1>11, <1>12, <1>13, FirstIsGivenUp DEF b
<1> QED
  BY <1>5, <1>14

(* At its capacity the cache gives up the entry that expires first, for    *)
(* any capacity, cooldown and sequence of observations and purges          *)
(* (integrated_alerts.py dispatch_observation).                            *)
THEOREM SoonestGoesFirst == Spec => EvictsSoonestToExpire
<1>1. IInv /\ [Next]_vars => [GivesUpSoonest]_deliveryVars
  <2>1. ASSUME IInv, [Next]_vars
        PROVE  GivesUpSoonest
    BY ONLY <2>1, SoonestStep DEF GivesUpSoonest
  <2> QED
    BY ONLY <2>1
<1> QED
  BY <1>1, InvariantHolds, PTL DEF Spec, EvictsSoonestToExpire
-----------------------------------------------------------------------------
(* Counting the positions of a sequence.                                   *)

LEMMA PositionsAre ==
    ASSUME NEW n \in Nat, NEW A \in SUBSET (1..n)
    PROVE  IsFiniteSet(A) /\ Cardinality(A) \in Nat
<1>1. IsFiniteSet(1..n)
  BY FS_Interval
<1>2. IsFiniteSet(A)
  BY <1>1, FS_Subset
<1> QED
  BY <1>2, FS_CardinalityType

LEMMA OneMoreIn ==
    ASSUME NEW n \in Nat, NEW A \in SUBSET (1..n), NEW B \in SUBSET (1..(n + 1)),
           \A i \in 1..n : i \in B <=> i \in A
    PROVE  /\ n + 1 \in B => Cardinality(B) = Cardinality(A) + 1
           /\ n + 1 \notin B => Cardinality(B) = Cardinality(A)
<1>1. IsFiniteSet(A) /\ n + 1 \notin A
  <2>1. n + 1 \notin 1..n
    OBVIOUS
  <2> QED
    BY <2>1, PositionsAre
<1>2. \A i \in 1..(n + 1) : i = n + 1 \/ i \in 1..n
  OBVIOUS
<1>3. CASE n + 1 \in B
  <2>1. B = A \union {n + 1}
    BY <1>2, <1>3
  <2> QED
    BY <2>1, <1>1, <1>3, FS_AddElement
<1>4. CASE n + 1 \notin B
  <2>1. B = A
    BY <1>2, <1>4
  <2> QED
    BY <2>1, <1>4
<1> QED
  BY <1>3, <1>4

(* C has n positions as in A, then m as in B.                              *)
Joined(n, m, A, B, C) ==
    /\ A \in SUBSET (1..n) /\ B \in SUBSET (1..m) /\ C \in SUBSET (1..(n + m))
    /\ \A i \in 1..n : i \in C <=> i \in A
    /\ \A i \in 1..m : n + i \in C <=> i \in B

LEMMA BothIn ==
    ASSUME NEW n \in Nat, NEW m \in Nat, NEW A, NEW B, NEW C, Joined(n, m, A, B, C)
    PROVE  Cardinality(C) = Cardinality(A) + Cardinality(B)
<1> USE DEF Joined
<1> DEFINE F(k) == B \intersect (1..k)
           G(k) == C \intersect (1..(n + k))
           N == {k \in Nat : k <= m =>
                    Cardinality(G(k)) = Cardinality(A) + Cardinality(F(k))}
<1>1. 0 \in N
  <2>1. F(0) = {}
    OBVIOUS
  <2>2. G(0) = A
    <3>1. 1..(n + 0) = 1..n
      OBVIOUS
    <3> QED
      BY <3>1
  <2>3. Cardinality(A) \in Nat /\ Cardinality({}) = 0
    BY PositionsAre, FS_EmptySet
  <2> QED
    BY <2>1, <2>2, <2>3
<1>2. ASSUME NEW k \in N
      PROVE  k + 1 \in N
  <2> SUFFICES ASSUME k + 1 <= m
               PROVE  Cardinality(G(k + 1)) = Cardinality(A) + Cardinality(F(k + 1))
    OBVIOUS
  <2>1. Cardinality(G(k)) = Cardinality(A) + Cardinality(F(k))
    OBVIOUS
  <2> DEFINE q == n + k
  <2>2. /\ k \in Nat /\ q \in Nat /\ n + (k + 1) = q + 1 /\ k + 1 \in 1..m
        /\ q + 1 \in 1..(q + 1) /\ k + 1 \in 1..(k + 1)
    OBVIOUS
  <2>3. \A i \in 1..q : i \in 1..(q + 1)
    OBVIOUS
  <2>4. \A i \in 1..k : i \in 1..(k + 1)
    OBVIOUS
  <2> HIDE DEF q
  <2> DEFINE g == C \intersect (1..q)
             h == C \intersect (1..(q + 1))
             f == F(k)
             e == F(k + 1)
  <2>5. g = G(k) /\ h = G(k + 1)
    BY <2>2 DEF q
  <2>6. /\ g \in SUBSET (1..q) /\ h \in SUBSET (1..(q + 1))
        /\ f \in SUBSET (1..k) /\ e \in SUBSET (1..(k + 1))
        /\ \A i \in 1..q : i \in h <=> i \in g
        /\ \A i \in 1..k : i \in e <=> i \in f
        /\ (q + 1 \in h <=> k + 1 \in e)
    BY <2>2, <2>3, <2>4
  <2>7. Cardinality(g) \in Nat /\ Cardinality(f) \in Nat /\ Cardinality(A) \in Nat
    BY <2>2, <2>6, PositionsAre
  <2>8. Cardinality(g) = Cardinality(A) + Cardinality(f)
    BY <2>1, <2>5
  <2> HIDE DEF g, h, f, e
  <2>9. /\ q + 1 \in h => Cardinality(h) = Cardinality(g) + 1
        /\ q + 1 \notin h => Cardinality(h) = Cardinality(g)
    BY <2>2, <2>6, OneMoreIn
  <2>10. /\ k + 1 \in e => Cardinality(e) = Cardinality(f) + 1
         /\ k + 1 \notin e => Cardinality(e) = Cardinality(f)
    BY <2>2, <2>6, OneMoreIn
  <2>11. Cardinality(h) = Cardinality(A) + Cardinality(e)
    BY <2>6, <2>7, <2>8, <2>9, <2>10
  <2> QED
    BY <2>5, <2>11 DEF e
<1>3. N = Nat
  <2>1. N \in SUBSET Nat
    OBVIOUS
  <2> HIDE DEF N
  <2> QED
    BY <2>1, <1>1, <1>2, Induction
<1>4. Cardinality(G(m)) = Cardinality(A) + Cardinality(F(m))
  <2>1. m \in N
    <3> HIDE DEF N
    <3> QED
      BY <1>3
  <2>2. m <= m
    OBVIOUS
  <2> QED
    BY <2>1, <2>2
<1>5. G(m) = C /\ F(m) = B
  OBVIOUS
<1> QED
  BY <1>4, <1>5

(* One thing for each element of F, each apart from those of U.            *)
LEMMA Spread ==
    ASSUME NEW U, IsFiniteSet(U), NEW F, IsFiniteSet(F), NEW n,
           \A f \in F : <<n, f>> \notin U
    PROVE  /\ IsFiniteSet(U \union ({n} \X F))
           /\ Cardinality(U \union ({n} \X F)) = Cardinality(U) + Cardinality(F)
           /\ Cardinality(U) \in Nat /\ Cardinality(F) \in Nat
<1> DEFINE P == {n} \X F
           b == [f \in F |-> <<n, f>>]
<1>1. \A f \in F : b[f] \in P
  OBVIOUS
<1>2. \A p \in P : \E f \in F : b[f] = p
  OBVIOUS
<1>3. \A f, g \in F : b[f] = b[g] => f = g
  OBVIOUS
<1>4. b \in [F -> P]
  BY <1>1
<1>5. b \in Bijection(F, P)
  BY <1>2, <1>3, <1>4 DEF Bijection, Injection, IsInjective, Surjection
<1>6. IsFiniteSet(P) /\ Cardinality(P) = Cardinality(F)
  BY <1>5, FS_Bijection DEF ExistsBijection
<1>7. U \intersect P = {}
  OBVIOUS
<1>8. /\ Cardinality(U) \in Nat /\ Cardinality(F) \in Nat
      /\ Cardinality(U \intersect P) = 0
  BY <1>7, FS_CardinalityType, FS_EmptySet
<1> HIDE DEF P
<1>9. /\ IsFiniteSet(U \union P)
      /\ Cardinality(U \union P) = Cardinality(U) + Cardinality(P) - Cardinality(U \intersect P)
  BY <1>6, FS_Union
<1>10. Cardinality(U \union P) = Cardinality(U) + Cardinality(F)
  BY <1>6, <1>8, <1>9
<1> QED
  BY <1>8, <1>9, <1>10 DEF P

-----------------------------------------------------------------------------
(* Counting tasks and offers: all of the security observations, or one     *)
(* rule for one sink.                                                      *)

Asks(t, v) == t.via = v.via /\ (v.via = "rule" => t = v)
Observation == [via |-> "observation"]

Where(ts, v) == {i \in DOMAIN ts : Asks(ts[i], v)}
Pending(ts, v) == Cardinality(Where(ts, v))
Offered(os, v) == Cardinality({i \in DOMAIN os : Asks(os[i].task, v)})

LEMMA PendingIs ==
    ASSUME NEW ts, IsSeq(ts), NEW v
    PROVE  /\ Len(ts) \in Nat /\ Where(ts, v) \in SUBSET (1..Len(ts))
           /\ Pending(ts, v) \in Nat
<1>1. Len(ts) \in Nat /\ Where(ts, v) \in SUBSET (1..Len(ts))
  BY SeqIs DEF Where
<1> QED
  BY <1>1, PositionsAre DEF Pending

LEMMA PendingNone ==
    ASSUME NEW ts, NEW v, \A i \in DOMAIN ts : ~Asks(ts[i], v)
    PROVE  Pending(ts, v) = 0
<1>1. Where(ts, v) = {}
  BY DEF Where
<1> QED
  BY <1>1, FS_EmptySet DEF Pending

LEMMA PendingAll ==
    ASSUME NEW ts, IsSeq(ts), NEW v, \A i \in DOMAIN ts : Asks(ts[i], v)
    PROVE  Pending(ts, v) = Len(ts)
<1>1. Len(ts) \in Nat /\ Where(ts, v) = 1..Len(ts)
  BY SeqIs DEF Where
<1>2. \A n \in Nat : Cardinality(1..n) = n
  BY FS_Interval
<1> QED
  BY <1>1, <1>2 DEF Pending

LEMMA PendingOne ==
    ASSUME NEW ts, NEW v, NEW p \in DOMAIN ts, \A i \in DOMAIN ts : Asks(ts[i], v) <=> i = p
    PROVE  Pending(ts, v) = 1
<1>1. Where(ts, v) = {p}
  BY DEF Where
<1> QED
  BY <1>1, FS_Singleton DEF Pending

LEMMA PendingBoth ==
    ASSUME NEW s, IsSeq(s), NEW t, IsSeq(t), NEW v
    PROVE  Pending(s \o t, v) = Pending(s, v) + Pending(t, v)
<1> DEFINE n == Len(s)
           m == Len(t)
           A == Where(s, v)
           B == Where(t, v)
           C == Where(s \o t, v)
<1>1. /\ n \in Nat /\ DOMAIN s = 1..n /\ m \in Nat /\ DOMAIN t = 1..m
      /\ DOMAIN (s \o t) = 1..(n + m)
      /\ \A i \in 1..(n + m) : (s \o t)[i] = IF i <= n THEN s[i] ELSE t[i - n]
  BY SeqIs, ConcatIs
<1> DEFINE u == s \o t
<1> HIDE DEF n, m, u
<1>2. \A i \in 1..n : i \in 1..(n + m) /\ i <= n
  BY <1>1
<1>3. \A i \in 1..m : n + i \in 1..(n + m) /\ ~(n + i <= n) /\ (n + i) - n = i
  BY <1>1
<1>4. \A i \in 1..n : u[i] = s[i]
  BY <1>1, <1>2 DEF u
<1>5. \A i \in 1..m : u[n + i] = t[i]
  BY <1>1, <1>3 DEF u
<1>6. A \in SUBSET (1..n) /\ B \in SUBSET (1..m)
  BY <1>1 DEF Where
<1>7. C \in SUBSET (1..(n + m))
  BY <1>1 DEF Where
<1>8. \A i \in 1..n : i \in C <=> i \in A
  <2>1. \A i \in 1..n : i \in DOMAIN u /\ i \in DOMAIN s
    BY <1>1, <1>2 DEF u
  <2> QED
    BY <2>1, <1>4 DEF Where, u
<1>9. \A i \in 1..m : n + i \in C <=> i \in B
  <2>1. \A i \in 1..m : n + i \in DOMAIN u /\ i \in DOMAIN t
    BY <1>1, <1>3 DEF u
  <2> QED
    BY <2>1, <1>5 DEF Where, u
<1> HIDE DEF A, B, C
<1>10. Joined(n, m, A, B, C)
  BY ONLY <1>6, <1>7, <1>8, <1>9 DEF Joined
<1>11. Cardinality(C) = Cardinality(A) + Cardinality(B)
  BY <1>1, <1>10, BothIn
<1> QED
  BY <1>11 DEF Pending, A, B, C

(* The first task is taken off.                                            *)
LEMMA PendingTail ==
    ASSUME NEW ts, IsSeq(ts), ts # <<>>, NEW v
    PROVE  /\ Asks(Head(ts), v) => Pending(ts, v) = Pending(Tail(ts), v) + 1
           /\ ~Asks(Head(ts), v) => Pending(ts, v) = Pending(Tail(ts), v)
<1> DEFINE m == Len(ts) - 1
           A == {i \in 1..1 : Asks(ts[1], v)}
           B == Where(Tail(ts), v)
           C == Where(ts, v)
<1>1. /\ m \in Nat /\ Len(ts) = 1 + m /\ Head(ts) = ts[1] /\ IsSeq(Tail(ts))
      /\ DOMAIN ts = 1..(1 + m) /\ DOMAIN Tail(ts) = 1..m
      /\ \A i \in 1..m : Tail(ts)[i] = ts[i + 1]
  <2>1. /\ Len(ts) \in Nat \ {0} /\ Head(ts) = ts[1] /\ IsSeq(Tail(ts))
        /\ DOMAIN ts = 1..Len(ts) /\ DOMAIN Tail(ts) = 1..(Len(ts) - 1)
        /\ \A i \in 1..(Len(ts) - 1) : Tail(ts)[i] = ts[i + 1]
    BY TailIs, SeqIs
  <2>2. \A n \in Nat \ {0} : n - 1 \in Nat /\ n = 1 + (n - 1)
    OBVIOUS
  <2> QED
    BY <2>1, <2>2
<1> HIDE DEF m
<1>2. /\ \A i \in 1..1 : i = 1 /\ i \in 1..(1 + m)
      /\ \A i \in 1..m : 1 + i = i + 1 /\ 1 + i \in 1..(1 + m)
  BY <1>1
<1>3. /\ A \in SUBSET (1..1) /\ B \in SUBSET (1..m) /\ C \in SUBSET (1..(1 + m))
  BY <1>1 DEF Where
<1>4. \A i \in 1..1 : i \in C <=> i \in A
  BY <1>1, <1>2 DEF Where
<1>5. \A i \in 1..m : 1 + i \in C <=> i \in B
  BY <1>1, <1>2 DEF Where
<1>6. /\ Asks(ts[1], v) => A = {1}
      /\ ~Asks(ts[1], v) => A = {}
  BY <1>2
<1>7. /\ Asks(ts[1], v) => Cardinality(A) = 1
      /\ ~Asks(ts[1], v) => Cardinality(A) = 0
  BY <1>6, FS_Singleton, FS_EmptySet
<1> HIDE DEF A, B, C
<1>8. Cardinality(C) = Cardinality(A) + Cardinality(B)
  <2>1. Joined(1, m, A, B, C)
    BY ONLY <1>3, <1>4, <1>5 DEF Joined
  <2> QED
    BY <2>1, <1>1, BothIn
<1>9. Cardinality(B) \in Nat
  BY <1>1, <1>3, PositionsAre
<1>10. /\ Asks(ts[1], v) => Cardinality(C) = Cardinality(B) + 1
       /\ ~Asks(ts[1], v) => Cardinality(C) = Cardinality(B)
  BY <1>7, <1>8, <1>9
<1> QED
  BY <1>1, <1>10 DEF Pending, B, C

(* c counts what is asked in the first sequences of ss.                    *)
LEMMA PendingFlat ==
    ASSUME NEW ss, IsSeq(ss), \A i \in DOMAIN ss : IsSeq(ss[i]), NEW v,
           NEW c, c[0] = 0,
           \A k \in 1..Len(ss) : c[k] = c[k - 1] + Pending(ss[k], v)
    PROVE  Pending(FlattenSeq(ss), v) = c[Len(ss)]
<1>1. Len(ss) \in Nat /\ DOMAIN ss = 1..Len(ss) /\ (ss = <<>> <=> Len(ss) = 0)
  BY SeqIs
<1>2. CASE Len(ss) = 0
  <2>1. FlattenSeq(ss) = <<>>
    BY <1>1, <1>2 DEF FlattenSeq
  <2>2. Pending(<<>>, v) = 0
    BY EmptyIs, PendingNone
  <2> QED
    BY <2>1, <2>2, <1>2
<1>3. CASE Len(ss) # 0
  <2> DEFINE f == CHOOSE f : FlatBy(ss, Len(ss), f)
  <2>1. FlatBy(ss, Len(ss), f)
    BY <1>1, FlatExists
  <2>2. FlattenSeq(ss) = f[Len(ss)]
    BY <1>3 DEF FlattenSeq, FlatBy
  <2> HIDE DEF f
  <2> DEFINE N == {n \in Nat : n + 1 <= Len(ss) =>
                      IsSeq(f[n + 1]) /\ Pending(f[n + 1], v) = c[n + 1]}
  <2>3. 0 \in N
    <3>1. 1 \in 1..Len(ss) /\ 0 + 1 = 1 /\ 1 - 1 = 0
      BY <1>1, <1>3
    <3>2. f[1] = ss[1] /\ IsSeq(ss[1])
      BY <2>1, <3>1, <1>1 DEF FlatBy
    <3>3. c[1] = c[0] + Pending(ss[1], v) /\ Pending(ss[1], v) \in Nat
      BY <3>1, <3>2, PendingIs
    <3>4. c[1] = Pending(ss[1], v)
      BY <3>3
    <3> QED
      BY <3>1, <3>2, <3>4
  <2>4. ASSUME NEW n \in N
        PROVE  n + 1 \in N
    <3> DEFINE m == n + 1
    <3>1. n \in Nat /\ m \in Nat
      OBVIOUS
    <3> SUFFICES ASSUME m + 1 <= Len(ss)
                 PROVE  IsSeq(f[m + 1]) /\ Pending(f[m + 1], v) = c[m + 1]
      BY <3>1
    <3>2. m <= Len(ss) /\ m + 1 \in 1..Len(ss) /\ m + 1 # 1 /\ (m + 1) - 1 = m
      BY <1>1
    <3>3. IsSeq(f[m]) /\ Pending(f[m], v) = c[m]
      BY <3>2
    <3>4. f[m + 1] = f[m] \o ss[m + 1]
      BY <2>1, <3>2 DEF FlatBy
    <3> HIDE DEF m, N
    <3>5. IsSeq(ss[m + 1]) /\ c[m + 1] = c[m] + Pending(ss[m + 1], v)
      BY <1>1, <3>2
    <3>6. /\ IsSeq(f[m] \o ss[m + 1])
          /\ Pending(f[m] \o ss[m + 1], v) = Pending(f[m], v) + Pending(ss[m + 1], v)
      BY <3>3, <3>5, ConcatIs, PendingBoth
    <3> QED
      BY <3>3, <3>4, <3>5, <3>6
  <2>5. N = Nat
    <3>1. N \in SUBSET Nat
      OBVIOUS
    <3> HIDE DEF N
    <3> QED
      BY <3>1, <2>3, <2>4, Induction
  <2>6. Len(ss) - 1 \in Nat /\ (Len(ss) - 1) + 1 = Len(ss) /\ Len(ss) <= Len(ss)
    BY <1>1, <1>3
  <2>7. Pending(f[Len(ss)], v) = c[Len(ss)]
    BY <2>5, <2>6
  <2> QED
    BY <2>2, <2>7
<1> QED
  BY <1>2, <1>3

(* One more offer.                                                         *)
LEMMA OfferedIs ==
    ASSUME NEW os, IsSeq(os), NEW o, NEW v
    PROVE  /\ Offered(os, v) \in Nat
           /\ Asks(o.task, v) => Offered(Append(os, o), v) = Offered(os, v) + 1
           /\ ~Asks(o.task, v) => Offered(Append(os, o), v) = Offered(os, v)
<1> DEFINE n == Len(os)
           q == Append(os, o)
           A == {i \in DOMAIN os : Asks(os[i].task, v)}
           B == {i \in DOMAIN q : Asks(q[i].task, v)}
<1>1. /\ n \in Nat /\ DOMAIN os = 1..n /\ DOMAIN q = 1..(n + 1) /\ q[n + 1] = o
      /\ \A i \in 1..n : q[i] = os[i]
  BY SeqIs, AppendIs
<1> HIDE DEF n, q
<1>2. (\A i \in 1..n : i \in 1..(n + 1)) /\ n + 1 \in 1..(n + 1)
  BY <1>1
<1>3. A \in SUBSET (1..n) /\ B \in SUBSET (1..(n + 1))
  BY <1>1
<1>4. \A i \in 1..n : i \in B <=> i \in A
  BY <1>1, <1>2
<1>5. n + 1 \in B <=> Asks(o.task, v)
  BY <1>1, <1>2
<1> HIDE DEF A, B
<1>6. Cardinality(A) \in Nat
  BY <1>1, <1>3, PositionsAre
<1>7. /\ n + 1 \in B => Cardinality(B) = Cardinality(A) + 1
      /\ n + 1 \notin B => Cardinality(B) = Cardinality(A)
  BY <1>1, <1>3, <1>4, OneMoreIn
<1> QED
  BY <1>5, <1>6, <1>7 DEF Offered, A, B, q

(* At most one of the sequences asks, once.                                *)
LEMMA PendingOnce ==
    ASSUME NEW ss, IsSeq(ss), \A i \in DOMAIN ss : IsSeq(ss[i]), NEW v,
           NEW S \in SUBSET (DOMAIN ss), \A i, j \in S : i = j,
           \A i \in DOMAIN ss : /\ i \in S => Pending(ss[i], v) = 1
                                /\ i \notin S => Pending(ss[i], v) = 0
    PROVE  /\ S # {} => Pending(FlattenSeq(ss), v) = 1
           /\ S = {} => Pending(FlattenSeq(ss), v) = 0
<1> DEFINE n == Len(ss)
           c == [k \in 0..n |-> IF \E i \in S : i <= k THEN 1 ELSE 0]
<1>1. n \in Nat /\ DOMAIN ss = 1..n
  BY SeqIs
<1> HIDE DEF n
<1>2. c[0] = 0
  <2>1. 0 \in 0..n /\ ~(\E i \in S : i <= 0)
    BY <1>1
  <2> QED
    BY <2>1
<1>3. ASSUME NEW k \in 1..n
      PROVE  c[k] = c[k - 1] + Pending(ss[k], v)
  <2>1. k \in 0..n /\ k - 1 \in 0..n /\ k \in DOMAIN ss
    BY <1>1
  <2>2. \A i \in S : i \in 1..n
    BY <1>1
  <2>3. CASE k \in S
    <3>1. ~(\E i \in S : i <= k - 1)
      BY <1>1, <2>2, <2>3
    <3>2. \E i \in S : i <= k
      BY <1>1, <2>3
    <3> QED
      BY <2>1, <2>3, <3>1, <3>2
  <2>4. CASE k \notin S
    <3>1. (\E i \in S : i <= k) <=> (\E i \in S : i <= k - 1)
      <4>1. \A i \in S : i # k /\ i \in 1..n
        BY <2>2, <2>4
      <4>2. \A i \in S : i <= k <=> i <= k - 1
        BY <1>1, <4>1
      <4> QED
        BY <4>2
    <3>2. Pending(ss[k], v) = 0
      BY <2>1, <2>4
    <3>3. c[k] = c[k - 1] /\ c[k - 1] \in Nat
      BY <2>1, <3>1
    <3> HIDE DEF c
    <3> QED
      BY <3>2, <3>3
  <2> QED
    BY <2>3, <2>4
<1>4. /\ S # {} => c[n] = 1
      /\ S = {} => c[n] = 0
  <2>1. n \in 0..n /\ \A i \in S : i <= n
    BY <1>1
  <2> QED
    BY <2>1
<1> HIDE DEF c
<1>5. Pending(FlattenSeq(ss), v) = c[n]
  BY <1>2, <1>3, PendingFlat DEF n
<1> QED
  BY <1>4, <1>5

-----------------------------------------------------------------------------
(* What the loops of the pipeline are given to do.                         *)

RuleTask(r, s) == [via |-> "rule", subject |-> Rules[r], sink |-> Sinks[s]]

LEMMA SinksAre ==
    /\ Len(Sinks) \in Nat /\ DOMAIN Sinks = 1..Len(Sinks)
    /\ \A i, j \in DOMAIN Sinks : Sinks[i] = Sinks[j] => i = j
    /\ Len(Rules) \in Nat /\ DOMAIN Rules = 1..Len(Rules)
    /\ \A i, j \in DOMAIN Rules : Rules[i] = Rules[j] => i = j
BY DeliveryAssumption, SeqIs DEF IsSeq, IsInjective

LEMMA RulesPending ==
    ASSUME NEW event
    PROVE  /\ Pending(RuleTasks(event), Observation) = 0
           /\ \A r \in DOMAIN Rules, s \in DOMAIN Sinks :
                /\ Breaches(Rules[r], event) => Pending(RuleTasks(event), RuleTask(r, s)) = 1
                /\ ~Breaches(Rules[r], event) => Pending(RuleTasks(event), RuleTask(r, s)) = 0
<1> DEFINE Of(r) == [s \in DOMAIN Sinks |-> RuleTask(r, s)]
           ss == [r \in DOMAIN Rules |-> IF Breaches(Rules[r], event) THEN Of(r) ELSE <<>>]
<1>1. RuleTasks(event) = FlattenSeq(ss)
  BY DEF RuleTasks, RuleTask
<1>2. \A r \in DOMAIN Rules :
          IsSeq(Of(r)) /\ DOMAIN Of(r) = DOMAIN Sinks /\ \A s \in DOMAIN Sinks : Of(r)[s] = RuleTask(r, s)
  BY SinksAre, FunctionIs
<1> HIDE DEF Of
<1>3. IsSeq(ss) /\ DOMAIN ss = DOMAIN Rules
  BY SinksAre, FunctionIs
<1>4. \A r \in DOMAIN Rules : /\ Breaches(Rules[r], event) => ss[r] = Of(r)
                              /\ ~Breaches(Rules[r], event) => ss[r] = <<>>
  OBVIOUS
<1> HIDE DEF ss
<1>5. \A r \in DOMAIN Rules : IsSeq(ss[r])
  BY <1>2, <1>4, EmptyIs
<1>6. Pending(FlattenSeq(ss), Observation) = 0
  <2>1. \A r \in DOMAIN Rules : Pending(ss[r], Observation) = 0
    <3> TAKE r \in DOMAIN Rules
    <3>1. \A s \in DOMAIN ss[r] : ss[r][s].via = "rule"
      <4>1. \A s \in DOMAIN Sinks : RuleTask(r, s).via = "rule"
        BY DEF RuleTask
      <4>2. CASE Breaches(Rules[r], event)
        BY <4>1, <4>2, <1>2, <1>4
      <4>3. CASE ~Breaches(Rules[r], event)
        BY <4>3, <1>4, EmptyIs
      <4> QED
        BY <4>2, <4>3
    <3>2. \A s \in DOMAIN ss[r] : ~Asks(ss[r][s], Observation)
      BY <3>1 DEF Asks, Observation
    <3> QED
      BY <3>2, PendingNone
  <2> DEFINE S == {}
  <2>2. S \in SUBSET DOMAIN ss /\ \A i \in DOMAIN ss : i \notin S
    OBVIOUS
  <2> QED
    BY <1>3, <1>5, <2>1, <2>2, PendingOnce
<1>7. ASSUME NEW r \in DOMAIN Rules, NEW s \in DOMAIN Sinks
      PROVE  /\ Breaches(Rules[r], event) => Pending(FlattenSeq(ss), RuleTask(r, s)) = 1
             /\ ~Breaches(Rules[r], event) => Pending(FlattenSeq(ss), RuleTask(r, s)) = 0
  <2> DEFINE v == RuleTask(r, s)
             S == {i \in {r} : Breaches(Rules[i], event)}
  <2>1. /\ v.via = "rule"
        /\ \A i \in DOMAIN Rules, j \in DOMAIN Sinks :
              RuleTask(i, j) = v => Rules[i] = Rules[r] /\ Sinks[j] = Sinks[s]
    BY DEF RuleTask
  <2> HIDE DEF v
  <2>2. \A i \in DOMAIN Rules, j \in DOMAIN Sinks : RuleTask(i, j) = v <=> i = r /\ j = s
    BY <2>1, SinksAre DEF v
  <2>3. \A i \in DOMAIN Rules, j \in DOMAIN Sinks :
            Asks(RuleTask(i, j), v) <=> i = r /\ j = s
    BY <2>1, <2>2 DEF Asks
  <2>4. S \in SUBSET (DOMAIN ss) /\ \A i, j \in S : i = j
    BY <1>3
  <2>5. ASSUME NEW i \in DOMAIN ss
        PROVE  /\ i \in S => Pending(ss[i], v) = 1
               /\ i \notin S => Pending(ss[i], v) = 0
    <3>1. CASE i \in S
      <4>1. i = r /\ ss[i] = Of(r)
        BY <3>1, <1>3, <1>4
      <4>2. \A j \in DOMAIN Of(r) : Asks(Of(r)[j], v) <=> j = s
        BY <1>2, <2>3
      <4>3. s \in DOMAIN Of(r)
        BY <1>2
      <4> QED
        BY <4>1, <4>2, <4>3, <3>1, PendingOne
    <3>2. CASE i \notin S
      <4>1. \A j \in DOMAIN ss[i] : ~Asks(ss[i][j], v)
        <5>1. CASE Breaches(Rules[i], event)
          <6>1. i # r /\ ss[i] = Of(i)
            BY <5>1, <3>2, <1>3, <1>4
          <6> QED
            BY <6>1, <1>2, <1>3, <2>3
        <5>2. CASE ~Breaches(Rules[i], event)
          BY <5>2, <1>3, <1>4, EmptyIs
        <5> QED
          BY <5>1, <5>2
      <4> QED
        BY <4>1, <3>2, PendingNone
    <3> QED
      BY <3>1, <3>2
  <2>6. /\ Breaches(Rules[r], event) => S # {}
        /\ ~Breaches(Rules[r], event) => S = {}
    OBVIOUS
  <2> HIDE DEF S
  <2>7. /\ S # {} => Pending(FlattenSeq(ss), v) = 1
        /\ S = {} => Pending(FlattenSeq(ss), v) = 0
    BY <1>3, <1>5, <2>4, <2>5, PendingOnce
  <2> QED
    BY <2>6, <2>7 DEF v
<1> QED
  BY <1>1, <1>6, <1>7

LEMMA AlertPending ==
    ASSUME NEW alert
    PROVE  IsSeq(ObservationTasks(alert))
           /\ Pending(ObservationTasks(alert), Observation) = Len(Sinks)
<1> DEFINE s == <<[via |-> "purge", subject |-> alert, sink |-> None]>>
           t == [i \in DOMAIN Sinks |->
                    [via |-> "observation", subject |-> alert, sink |-> Sinks[i]]]
<1>1. ObservationTasks(alert) = s \o t
  BY DEF ObservationTasks
<1>2. IsSeq(s) /\ IsSeq(t) /\ Len(t) = Len(Sinks)
  BY OneIs, SinksAre, FunctionIs
<1>3. \A i \in DOMAIN s : ~Asks(s[i], Observation)
  BY DEF Asks, Observation
<1>4. \A i \in DOMAIN t : Asks(t[i], Observation)
  BY DEF Asks, Observation
<1> HIDE DEF s, t
<1>5. Pending(s, Observation) = 0 /\ Pending(t, Observation) = Len(Sinks)
  BY <1>2, <1>3, <1>4, PendingNone, PendingAll
<1>6. /\ IsSeq(s \o t)
      /\ Pending(s \o t, Observation) = Pending(s, Observation) + Pending(t, Observation)
  BY <1>2, ConcatIs, PendingBoth
<1> QED
  BY <1>1, <1>5, <1>6, SinksAre

LEMMA AlertsPending ==
    ASSUME NEW alerts, IsSeq(alerts)
    PROVE  Pending(FlattenSeq([i \in DOMAIN alerts |-> ObservationTasks(alerts[i])]), Observation)
           = Len(Sinks) * Len(alerts)
<1> DEFINE ss == [i \in DOMAIN alerts |-> ObservationTasks(alerts[i])]
           n == Len(alerts)
           a == Len(Sinks)
           c == [k \in 0..n |-> a * k]
<1>1. n \in Nat /\ DOMAIN alerts = 1..n /\ a \in Nat
  BY SeqIs, SinksAre
<1>2. IsSeq(ss) /\ Len(ss) = n
  BY <1>1, FunctionIs
<1>3. \A k \in 1..n : IsSeq(ss[k]) /\ Pending(ss[k], Observation) = a
  BY <1>1, AlertPending
<1>4. DOMAIN ss = 1..n
  BY <1>1
<1> HIDE DEF ss, n, a
<1>5. c[0] = 0
  BY <1>1
<1>6. ASSUME NEW k \in 1..n PROVE c[k] = c[k - 1] + Pending(ss[k], Observation)
  <2>1. k \in 0..n /\ k - 1 \in 0..n
    BY <1>1
  <2>2. c[k] = a * k /\ c[k - 1] = a * (k - 1)
    BY <2>1
  <2>3. \A x \in Nat, y \in Int : x * y = x * (y - 1) + x
    OBVIOUS
  <2> HIDE DEF c
  <2> QED
    BY <1>1, <1>3, <2>2, <2>3
<1>7. c[n] = a * n
  BY <1>1
<1> HIDE DEF c
<1>8. Pending(FlattenSeq(ss), Observation) = c[n]
  BY <1>2, <1>3, <1>4, <1>5, <1>6, PendingFlat
<1> QED
  BY <1>7, <1>8 DEF ss, n, a

(* The metrics of a plain line that can be used, each once.                *)
LEMMA ValidIs ==
    ASSUME NEW line
    PROVE  /\ IsSeq(Valid(line))
           /\ \A i, j \in DOMAIN Valid(line) : Valid(line)[i] = Valid(line)[j] => i = j
           /\ \A i \in DOMAIN Valid(line) :
                 Valid(line)[i] \in {"lat_ms", "mem_mb"} /\ Usable(line, Valid(line)[i])
           /\ \A m \in {"lat_ms", "mem_mb"} :
                 Usable(line, m) => \E i \in DOMAIN Valid(line) : Valid(line)[i] = m
<1> DEFINE d == PlainMetrics
           S == {i \in DOMAIN d : Usable(line, d[i])}
           r == Valid(line)
<1>1. d = [i \in 1..2 |-> d[i]] /\ d[1] = "lat_ms" /\ d[2] = "mem_mb"
  BY DEF PlainMetrics
<1>2. IsSeq(d) /\ Len(d) = 2 /\ DOMAIN d = 1..2
  BY <1>1, FunctionIs
<1>3. r = Kept(d, S)
  BY DEF Valid
<1> HIDE DEF d, r
<1>4. Remains(d, S, 2, r)
  BY <1>2, <1>3, KeptIs
<1>5. \A p \in 1..2 : p = 1 \/ p = 2
  OBVIOUS
<1>6. \A p \in S : p \in 1..2 /\ d[p] \in {"lat_ms", "mem_mb"} /\ Usable(line, d[p])
  BY <1>1, <1>2, <1>5
<1>7. \A p \in 1..2 : p \in S <=> Usable(line, d[p])
  BY <1>2
<1> HIDE DEF S
<1>8. IsSeq(r) /\ Len(r) \in Nat /\ DOMAIN r = 1..Len(r)
  BY <1>4, SeqIs DEF Remains
<1>9. \A i \in DOMAIN r : r[i] \in {"lat_ms", "mem_mb"} /\ Usable(line, r[i])
  BY <1>4, <1>6 DEF Remains
<1>10. \A m \in {"lat_ms", "mem_mb"} : Usable(line, m) => \E i \in DOMAIN r : r[i] = m
  <2> TAKE m \in {"lat_ms", "mem_mb"}
  <2>1. PICK p \in 1..2 : d[p] = m
    BY <1>1
  <2> QED
    BY <2>1, <1>4, <1>7 DEF Remains
<1>11. \A i, j \in DOMAIN r : i < j => r[i] # r[j]
  <2> TAKE i, j \in DOMAIN r
  <2> SUFFICES ASSUME i < j PROVE r[i] # r[j]
    OBVIOUS
  <2>1. InOrder(d, S, 2, r[i], r[j])
    BY <1>4 DEF Remains
  <2>2. PICK p, q \in S : p \in 1..2 /\ q \in 1..2 /\ p < q /\ r[i] = d[p] /\ r[j] = d[q]
    BY <2>1 DEF InOrder
  <2>3. p = 1 /\ q = 2
    BY <2>2
  <2> QED
    BY <2>2, <2>3, <1>1
<1>12. \A i, j \in DOMAIN r : r[i] = r[j] => i = j
  <2>1. \A i, j \in DOMAIN r : i < j \/ j < i \/ i = j
    BY <1>8
  <2> QED
    BY <2>1, <1>11
<1> QED
  BY <1>8, <1>9, <1>10, <1>12 DEF r

(* The value a plain line has for a rule breaches it.                      *)
Over(rule, line) ==
    /\ rule.metric \in {"lat_ms", "mem_mb"}
    /\ line[rule.metric] \notin {Absent, Malformed}
    /\ Compares(rule.condition, line[rule.metric], rule.threshold)

LineTasks(line) ==
    [i \in DOMAIN Valid(line) |->
        RuleTasks([metric |-> Valid(line)[i], value |-> line[Valid(line)[i]]])]

LEMMA LinePending ==
    ASSUME NEW line
    PROVE  /\ Pending(FlattenSeq(LineTasks(line)), Observation) = 0
           /\ \A r \in DOMAIN Rules, s \in DOMAIN Sinks :
                /\ Over(Rules[r], line) =>
                      Pending(FlattenSeq(LineTasks(line)), RuleTask(r, s)) = 1
                /\ ~Over(Rules[r], line) =>
                      Pending(FlattenSeq(LineTasks(line)), RuleTask(r, s)) = 0
<1> DEFINE names == Valid(line)
           E(m) == [metric |-> m, value |-> line[m]]
           ss == LineTasks(line)
<1>1. /\ IsSeq(names) /\ Len(names) \in Nat /\ DOMAIN names = 1..Len(names)
      /\ \A i, j \in DOMAIN names : names[i] = names[j] => i = j
      /\ \A i \in DOMAIN names : names[i] \in {"lat_ms", "mem_mb"} /\ Usable(line, names[i])
      /\ \A m \in {"lat_ms", "mem_mb"} :
            Usable(line, m) => \E i \in DOMAIN names : names[i] = m
  <2>1. IsSeq(names)
    BY ValidIs
  <2>2. Len(names) \in Nat /\ DOMAIN names = 1..Len(names)
    BY <2>1, SeqIs
  <2> HIDE DEF names
  <2> QED
    BY <2>1, <2>2, ValidIs DEF names
<1>2. ss = [i \in DOMAIN names |-> RuleTasks(E(names[i]))]
  BY DEF LineTasks
<1> HIDE DEF names, ss
<1>3. IsSeq(ss) /\ DOMAIN ss = DOMAIN names
  BY <1>1, <1>2, FunctionIs
<1>4. \A i \in DOMAIN ss : ss[i] = RuleTasks(E(names[i])) /\ IsSeq(ss[i])
  BY <1>2, <1>3, RuleTasksAre DEF Tasks
<1>5. Pending(FlattenSeq(ss), Observation) = 0
  <2> DEFINE S == {}
  <2>1. S \in SUBSET DOMAIN ss /\ \A i \in DOMAIN ss : i \notin S
    OBVIOUS
  <2>2. \A i \in DOMAIN ss : Pending(ss[i], Observation) = 0
    BY <1>4, RulesPending
  <2> QED
    BY <1>3, <1>4, <2>1, <2>2, PendingOnce
<1>6. ASSUME NEW r \in DOMAIN Rules, NEW s \in DOMAIN Sinks
      PROVE  /\ Over(Rules[r], line) => Pending(FlattenSeq(ss), RuleTask(r, s)) = 1
             /\ ~Over(Rules[r], line) => Pending(FlattenSeq(ss), RuleTask(r, s)) = 0
  <2> DEFINE S == {i \in DOMAIN ss : Breaches(Rules[r], E(names[i]))}
             v == RuleTask(r, s)
  <2>1. \A m : Breaches(Rules[r], E(m)) <=>
                 /\ Rules[r].metric = m
                 /\ Compares(Rules[r].condition, line[m], Rules[r].threshold)
    BY DEF Breaches
  <2> HIDE DEF E
  <2>2. \A i, j \in S : i = j
    BY <2>1, <1>1, <1>3
  <2>3. /\ Over(Rules[r], line) => S # {}
        /\ ~Over(Rules[r], line) => S = {}
    <3>1. ASSUME Over(Rules[r], line) PROVE S # {}
      <4>1. PICK i \in DOMAIN names : names[i] = Rules[r].metric
        BY <3>1, <1>1 DEF Over, Usable
      <4>2. Breaches(Rules[r], E(names[i]))
        BY <3>1, <4>1, <2>1 DEF Over
      <4> QED
        BY <4>1, <4>2, <1>3
    <3>2. ASSUME NEW i \in S PROVE Over(Rules[r], line)
      <4>1. /\ names[i] = Rules[r].metric
            /\ Compares(Rules[r].condition, line[names[i]], Rules[r].threshold)
            /\ names[i] \in {"lat_ms", "mem_mb"} /\ Usable(line, names[i])
        BY <2>1, <1>1, <1>3
      <4> QED
        BY <4>1 DEF Over, Usable
    <3> QED
      BY <3>1, <3>2
  <2>4. \A i \in DOMAIN ss : /\ i \in S => Pending(ss[i], v) = 1
                             /\ i \notin S => Pending(ss[i], v) = 0
    BY <1>4, RulesPending
  <2>5. S \in SUBSET (DOMAIN ss)
    OBVIOUS
  <2> HIDE DEF S, v
  <2>6. /\ S # {} => Pending(FlattenSeq(ss), v) = 1
        /\ S = {} => Pending(FlattenSeq(ss), v) = 0
    BY <1>3, <1>4, <2>2, <2>4, <2>5, PendingOnce
  <2> QED
    BY <2>3, <2>6 DEF v
<1> QED
  BY <1>5, <1>6 DEF ss

-----------------------------------------------------------------------------
(* The tallies, in parts: what was offered and is still to be offered is   *)
(* what was found, and the reports count what went wrong.                  *)

FaultsFor(security, line) ==
    IF security
    THEN {f \in {"format"} : line.format # "blank" /\ Rejected(line)}
    ELSE {m \in {"lat_ms", "mem_mb"} : line[m] = Malformed}

Pairs(f) == UNION {{i} \X f[i] : i \in DOMAIN f}
FaultsOf(security, lines) ==
    Pairs([i \in DOMAIN lines |-> FaultsFor(security, lines[i].line)])
AlertsOf(lines) == Pairs([i \in DOMAIN lines |-> DOMAIN lines[i].alerts])

Bad(rs) == Cardinality({i \in DOMAIN rs : rs[i] = Malformed})
High(rule, rs) ==
    Cardinality({i \in DOMAIN rs : /\ rule.metric = "disk_used_percent"
                                   /\ rs[i] # Malformed
                                   /\ Compares(rule.condition, rs[i], rule.threshold)})
LinesOver(rule, lines) == Cardinality({i \in DOMAIN lines : Over(rule, lines[i].line)})
Outcomes(os, S) == Cardinality({i \in DOMAIN os : os[i].outcome \in S})

ErrorsCounted ==
    total.errors + report.errors = Bad(readings) + Cardinality(FaultsOf(scenario.security, log))

DeliveriesCounted ==
    /\ total.delivered + report.delivered = Outcomes(offers, {"delivered"})
    /\ total.delivery_failures + report.delivery_failures = Outcomes(offers, Failures)

AlertsQueued ==
    Offered(offers, Observation) + Pending(work, Observation)
    = Len(Sinks) * Cardinality(AlertsOf(log))

BreachesQueued ==
    \A r \in DOMAIN Rules, s \in DOMAIN Sinks :
        ~scenario.security =>
        Offered(offers, RuleTask(r, s)) + Pending(work, RuleTask(r, s))
        = LinesOver(Rules[r], log) + High(Rules[r], readings)

(* The kinds of everything the tallies are about.                          *)
Kinds ==
    /\ scenario \in Scenarios /\ report \in Reports /\ total \in Reports
    /\ IsSeq(readings)
    /\ IsFiniteSet(FaultsOf(scenario.security, log)) /\ IsFiniteSet(AlertsOf(log))

(* After the last cycle nothing is left to do or to add.                   *)
Ended == phase = "done" => work = <<>> /\ report = NoReport

Tallies ==
    Kinds /\ Ended /\ ErrorsCounted /\ DeliveriesCounted /\ AlertsQueued /\ BreachesQueued

-----------------------------------------------------------------------------
(* How the counts grow.                                                    *)

LEMMA AppendCount ==
    ASSUME NEW s, IsSeq(s), NEW e, NEW A, NEW B,
           A \in SUBSET (DOMAIN s), B \in SUBSET (DOMAIN Append(s, e)),
           \A i \in DOMAIN s : i \in B <=> i \in A
    PROVE  /\ Cardinality(A) \in Nat
           /\ Len(s) + 1 \in B => Cardinality(B) = Cardinality(A) + 1
           /\ Len(s) + 1 \notin B => Cardinality(B) = Cardinality(A)
<1> DEFINE n == Len(s)
<1>1. n \in Nat /\ DOMAIN s = 1..n /\ DOMAIN Append(s, e) = 1..(n + 1)
  BY SeqIs, AppendIs
<1>2. A \in SUBSET (1..n) /\ B \in SUBSET (1..(n + 1)) /\ \A i \in 1..n : i \in B <=> i \in A
  BY <1>1
<1> HIDE DEF n
<1>3. Cardinality(A) \in Nat
  BY <1>1, <1>2, PositionsAre
<1>4. /\ n + 1 \in B => Cardinality(B) = Cardinality(A) + 1
      /\ n + 1 \notin B => Cardinality(B) = Cardinality(A)
  BY <1>1, <1>2, OneMoreIn
<1> QED
  BY <1>3, <1>4 DEF n

LEMMA AppendDomain ==
    ASSUME NEW s, IsSeq(s), NEW e
    PROVE  /\ Len(s) + 1 \in DOMAIN Append(s, e) /\ Append(s, e)[Len(s) + 1] = e
           /\ \A i \in DOMAIN s : i \in DOMAIN Append(s, e) /\ Append(s, e)[i] = s[i]
<1>1. Len(s) \in Nat /\ DOMAIN s = 1..Len(s)
  BY SeqIs
<1>2. \A n \in Nat : n + 1 \in 1..(n + 1) /\ \A i \in 1..n : i \in 1..(n + 1)
  OBVIOUS
<1> QED
  BY <1>1, <1>2, AppendIs

LEMMA BadGrows ==
    ASSUME NEW s, IsSeq(s), NEW e
    PROVE  /\ Bad(s) \in Nat
           /\ e = Malformed => Bad(Append(s, e)) = Bad(s) + 1
           /\ e # Malformed => Bad(Append(s, e)) = Bad(s)
<1> DEFINE A == {i \in DOMAIN s : s[i] = Malformed}
           B == {i \in DOMAIN Append(s, e) : Append(s, e)[i] = Malformed}
<1>1. /\ A \in SUBSET (DOMAIN s) /\ B \in SUBSET (DOMAIN Append(s, e))
      /\ \A i \in DOMAIN s : i \in B <=> i \in A
      /\ Len(s) + 1 \in B <=> e = Malformed
  BY AppendDomain
<1> HIDE DEF A, B
<1>2. /\ Cardinality(A) \in Nat
      /\ Len(s) + 1 \in B => Cardinality(B) = Cardinality(A) + 1
      /\ Len(s) + 1 \notin B => Cardinality(B) = Cardinality(A)
  BY <1>1, AppendCount
<1> QED
  BY <1>1, <1>2 DEF A, B, Bad

LEMMA HighGrows ==
    ASSUME NEW s, IsSeq(s), NEW e, NEW rule
    PROVE  LET high == /\ rule.metric = "disk_used_percent"
                       /\ e # Malformed /\ Compares(rule.condition, e, rule.threshold)
           IN  /\ High(rule, s) \in Nat
               /\ high => High(rule, Append(s, e)) = High(rule, s) + 1
               /\ ~high => High(rule, Append(s, e)) = High(rule, s)
<1> DEFINE P(x) == /\ rule.metric = "disk_used_percent"
                   /\ x # Malformed /\ Compares(rule.condition, x, rule.threshold)
           A == {i \in DOMAIN s : P(s[i])}
           B == {i \in DOMAIN Append(s, e) : P(Append(s, e)[i])}
<1>1. /\ A \in SUBSET (DOMAIN s) /\ B \in SUBSET (DOMAIN Append(s, e))
      /\ \A i \in DOMAIN s : i \in B <=> i \in A
      /\ Len(s) + 1 \in B <=> P(e)
  <2> HIDE DEF P
  <2> QED
    BY AppendDomain
<1>2. High(rule, s) = Cardinality(A) /\ High(rule, Append(s, e)) = Cardinality(B)
  BY DEF High
<1> HIDE DEF A, B
<1>3. /\ Cardinality(A) \in Nat
      /\ Len(s) + 1 \in B => Cardinality(B) = Cardinality(A) + 1
      /\ Len(s) + 1 \notin B => Cardinality(B) = Cardinality(A)
  BY <1>1, AppendCount
<1> QED
  BY <1>1, <1>2, <1>3

LEMMA LinesGrow ==
    ASSUME NEW s, IsSeq(s), NEW e, NEW rule
    PROVE  /\ LinesOver(rule, s) \in Nat
           /\ Over(rule, e.line) => LinesOver(rule, Append(s, e)) = LinesOver(rule, s) + 1
           /\ ~Over(rule, e.line) => LinesOver(rule, Append(s, e)) = LinesOver(rule, s)
<1> DEFINE A == {i \in DOMAIN s : Over(rule, s[i].line)}
           B == {i \in DOMAIN Append(s, e) : Over(rule, Append(s, e)[i].line)}
<1>1. /\ A \in SUBSET (DOMAIN s) /\ B \in SUBSET (DOMAIN Append(s, e))
      /\ \A i \in DOMAIN s : i \in B <=> i \in A
      /\ Len(s) + 1 \in B <=> Over(rule, e.line)
  BY AppendDomain
<1> HIDE DEF A, B
<1>2. /\ Cardinality(A) \in Nat
      /\ Len(s) + 1 \in B => Cardinality(B) = Cardinality(A) + 1
      /\ Len(s) + 1 \notin B => Cardinality(B) = Cardinality(A)
  BY <1>1, AppendCount
<1> QED
  BY <1>1, <1>2 DEF A, B, LinesOver

LEMMA OutcomesGrow ==
    ASSUME NEW s, IsSeq(s), NEW e, NEW S
    PROVE  /\ Outcomes(s, S) \in Nat
           /\ e.outcome \in S => Outcomes(Append(s, e), S) = Outcomes(s, S) + 1
           /\ e.outcome \notin S => Outcomes(Append(s, e), S) = Outcomes(s, S)
<1> DEFINE A == {i \in DOMAIN s : s[i].outcome \in S}
           B == {i \in DOMAIN Append(s, e) : Append(s, e)[i].outcome \in S}
<1>1. /\ A \in SUBSET (DOMAIN s) /\ B \in SUBSET (DOMAIN Append(s, e))
      /\ \A i \in DOMAIN s : i \in B <=> i \in A
      /\ Len(s) + 1 \in B <=> e.outcome \in S
  BY AppendDomain
<1> HIDE DEF A, B
<1>2. /\ Cardinality(A) \in Nat
      /\ Len(s) + 1 \in B => Cardinality(B) = Cardinality(A) + 1
      /\ Len(s) + 1 \notin B => Cardinality(B) = Cardinality(A)
  BY <1>1, AppendCount
<1> QED
  BY <1>1, <1>2 DEF A, B, Outcomes

(* What the follower spoiled.                                              *)
LEMMA SpoiledGrow ==
    ASSUME NEW s, IsSeq(s), NEW k \in Nat, NEW rule
    PROVE  LET t == s \o [i \in 1..k |-> Malformed]
           IN  /\ IsSeq(t) /\ Bad(s) \in Nat /\ High(rule, s) \in Nat
               /\ Bad(t) = Bad(s) + k /\ High(rule, t) = High(rule, s)
<1> DEFINE u == [i \in 1..k |-> Malformed]
           t == s \o u
           n == Len(s)
           P(x) == /\ rule.metric = "disk_used_percent"
                   /\ x # Malformed /\ Compares(rule.condition, x, rule.threshold)
           A == {i \in DOMAIN s : s[i] = Malformed}
           B == {i \in DOMAIN t : t[i] = Malformed}
           C == {i \in DOMAIN s : P(s[i])}
           D == {i \in DOMAIN t : P(t[i])}
<1>1. IsSeq(u) /\ Len(u) = k /\ \A i \in 1..k : u[i] = Malformed
  BY FunctionIs
<1> HIDE DEF u
<1>2. /\ n \in Nat /\ DOMAIN s = 1..n /\ IsSeq(t) /\ DOMAIN t = 1..(n + k)
      /\ \A i \in 1..(n + k) : t[i] = IF i <= n THEN s[i] ELSE u[i - n]
  BY <1>1, SeqIs, ConcatIs
<1> HIDE DEF n, t
<1>3. /\ \A i \in 1..n : i \in 1..(n + k) /\ i <= n
      /\ \A i \in 1..k : n + i \in 1..(n + k) /\ ~(n + i <= n) /\ (n + i) - n = i
  BY <1>2
<1>4. /\ \A i \in 1..n : i \in DOMAIN t /\ t[i] = s[i]
      /\ \A i \in 1..k : n + i \in DOMAIN t /\ t[n + i] = Malformed
  BY <1>1, <1>2, <1>3
<1>5. ~P(Malformed)
  OBVIOUS
<1> HIDE DEF P
<1>6. Joined(n, k, A, 1..k, B)
  BY <1>2, <1>4 DEF Joined
<1>7. Joined(n, k, C, {}, D)
  BY <1>2, <1>4, <1>5 DEF Joined
<1>8. Bad(s) = Cardinality(A) /\ Bad(t) = Cardinality(B)
  BY DEF Bad
<1>9. High(rule, s) = Cardinality(C) /\ High(rule, t) = Cardinality(D)
  BY DEF High, P
<1>10. A \in SUBSET (1..n) /\ C \in SUBSET (1..n)
  BY <1>2
<1> HIDE DEF A, B, C, D
<1>11. Cardinality(B) = Cardinality(A) + Cardinality(1..k)
  BY <1>2, <1>6, BothIn
<1>12. Cardinality(D) = Cardinality(C) + Cardinality({})
  BY <1>2, <1>7, BothIn
<1>13. Cardinality(1..k) = k /\ Cardinality({}) = 0
  BY FS_Interval, FS_EmptySet
<1>14. Cardinality(A) \in Nat /\ Cardinality(C) \in Nat
  BY <1>2, <1>10, PositionsAre
<1> QED
  BY <1>2, <1>8, <1>9, <1>11, <1>12, <1>13, <1>14 DEF t, u

(* One more set of things at the end.                                      *)
LEMMA PairsGrow ==
    ASSUME NEW n \in Nat, NEW f, NEW g, DOMAIN f = 1..n, DOMAIN g = 1..(n + 1),
           \A i \in 1..n : g[i] = f[i], IsFiniteSet(Pairs(f)), IsFiniteSet(g[n + 1])
    PROVE  /\ IsFiniteSet(Pairs(g)) /\ Cardinality(Pairs(f)) \in Nat
           /\ Cardinality(g[n + 1]) \in Nat
           /\ Cardinality(Pairs(g)) = Cardinality(Pairs(f)) + Cardinality(g[n + 1])
<1> DEFINE F == g[n + 1]
           U == Pairs(f)
<1>1. \A i \in 1..(n + 1) : i = n + 1 \/ i \in 1..n
  OBVIOUS
<1>2. n + 1 \in 1..(n + 1) /\ n + 1 \notin 1..n /\ \A i \in 1..n : i \in 1..(n + 1)
  OBVIOUS
<1>3. \A p : p \in U <=> \E i \in 1..n : p \in {i} \X f[i]
  BY DEF Pairs
<1>4. \A p : p \in Pairs(g) <=> \E i \in 1..(n + 1) : p \in {i} \X g[i]
  BY DEF Pairs
<1>5. \A p : p \in Pairs(g) <=> p \in U \/ p \in {n + 1} \X F
  <2> TAKE p
  <2>1. ASSUME p \in Pairs(g) PROVE p \in U \/ p \in {n + 1} \X F
    <3>1. PICK i \in 1..(n + 1) : p \in {i} \X g[i]
      BY <2>1, <1>4
    <3>2. CASE i = n + 1
      BY <3>1, <3>2
    <3>3. CASE i \in 1..n
      BY <3>1, <3>3, <1>3
    <3> QED
      BY <3>2, <3>3, <1>1
  <2>2. ASSUME p \in U PROVE p \in Pairs(g)
    <3>1. PICK i \in 1..n : p \in {i} \X f[i]
      BY <2>2, <1>3
    <3> QED
      BY <3>1, <1>2, <1>4
  <2>3. ASSUME p \in {n + 1} \X F PROVE p \in Pairs(g)
    BY <2>3, <1>2, <1>4
  <2> QED
    BY <2>1, <2>2, <2>3
<1>6. \A x \in F : <<n + 1, x>> \notin U
  <2> SUFFICES ASSUME NEW x, <<n + 1, x>> \in U PROVE FALSE
    OBVIOUS
  <2>1. PICK i \in 1..n : <<n + 1, x>> \in {i} \X f[i]
    BY <1>3
  <2> QED
    BY <2>1, <1>2
<1>7. Pairs(g) = U \union ({n + 1} \X F)
  BY <1>5
<1> HIDE DEF U, F
<1>8. /\ IsFiniteSet(U \union ({n + 1} \X F))
      /\ Cardinality(U \union ({n + 1} \X F)) = Cardinality(U) + Cardinality(F)
      /\ Cardinality(U) \in Nat /\ Cardinality(F) \in Nat
  BY <1>6, Spread DEF U, F
<1> QED
  BY <1>7, <1>8 DEF U, F

LEMMA FaultsGrow ==
    ASSUME NEW s, IsSeq(s), NEW e, NEW security, IsFiniteSet(FaultsOf(security, s))
    PROVE  LET new == FaultsFor(security, e.line)
           IN  /\ IsFiniteSet(FaultsOf(security, Append(s, e)))
               /\ Cardinality(new) \in Nat /\ Cardinality(FaultsOf(security, s)) \in Nat
               /\ Cardinality(FaultsOf(security, Append(s, e)))
                  = Cardinality(FaultsOf(security, s)) + Cardinality(new)
<1> DEFINE n == Len(s)
           t == Append(s, e)
           f == [i \in DOMAIN s |-> FaultsFor(security, s[i].line)]
           g == [i \in DOMAIN t |-> FaultsFor(security, t[i].line)]
<1>1. n \in Nat /\ DOMAIN s = 1..n /\ DOMAIN t = 1..(n + 1) /\ t[n + 1] = e
      /\ \A i \in 1..n : i \in 1..(n + 1) /\ t[i] = s[i]
  BY SeqIs, AppendIs
<1>2. n + 1 \in 1..(n + 1)
  BY <1>1
<1> HIDE DEF n, t
<1>3. FaultsOf(security, s) = Pairs(f) /\ FaultsOf(security, t) = Pairs(g)
  BY DEF FaultsOf
<1>4. DOMAIN f = 1..n /\ DOMAIN g = 1..(n + 1) /\ \A i \in 1..n : g[i] = f[i]
  BY <1>1
<1>5. g[n + 1] = FaultsFor(security, e.line)
  BY <1>1, <1>2
<1>6. IsFiniteSet(FaultsFor(security, e.line))
  <2>1. IsFiniteSet({"format"}) /\ IsFiniteSet({"lat_ms", "mem_mb"})
    <3>1. IsFiniteSet({"lat_ms"} \union {"mem_mb"})
      BY FS_Singleton, FS_Union
    <3>2. {"lat_ms"} \union {"mem_mb"} = {"lat_ms", "mem_mb"}
      OBVIOUS
    <3> QED
      BY <3>1, <3>2, FS_Singleton
  <2>2. \/ FaultsFor(security, e.line) \in SUBSET {"format"}
        \/ FaultsFor(security, e.line) \in SUBSET {"lat_ms", "mem_mb"}
    BY DEF FaultsFor
  <2> QED
    BY <2>1, <2>2, FS_Subset
<1> HIDE DEF f, g
<1>7. /\ IsFiniteSet(Pairs(g)) /\ Cardinality(Pairs(f)) \in Nat
      /\ Cardinality(g[n + 1]) \in Nat
      /\ Cardinality(Pairs(g)) = Cardinality(Pairs(f)) + Cardinality(g[n + 1])
  <2>1. IsFiniteSet(Pairs(f)) /\ IsFiniteSet(g[n + 1])
    BY <1>3, <1>5, <1>6
  <2> QED
    BY <2>1, <1>1, <1>4, PairsGrow
<1> QED
  BY <1>3, <1>5, <1>7 DEF t

LEMMA AlertsGrow ==
    ASSUME NEW s, IsSeq(s), NEW e, IsSeq(e.alerts), IsFiniteSet(AlertsOf(s))
    PROVE  /\ IsFiniteSet(AlertsOf(Append(s, e)))
           /\ Cardinality(AlertsOf(s)) \in Nat /\ Len(e.alerts) \in Nat
           /\ Cardinality(AlertsOf(Append(s, e))) = Cardinality(AlertsOf(s)) + Len(e.alerts)
<1> DEFINE n == Len(s)
           t == Append(s, e)
           f == [i \in DOMAIN s |-> DOMAIN s[i].alerts]
           g == [i \in DOMAIN t |-> DOMAIN t[i].alerts]
<1>1. n \in Nat /\ DOMAIN s = 1..n /\ DOMAIN t = 1..(n + 1) /\ t[n + 1] = e
      /\ \A i \in 1..n : i \in 1..(n + 1) /\ t[i] = s[i]
  BY SeqIs, AppendIs
<1>2. n + 1 \in 1..(n + 1)
  BY <1>1
<1> HIDE DEF n, t
<1>3. AlertsOf(s) = Pairs(f) /\ AlertsOf(t) = Pairs(g)
  BY DEF AlertsOf
<1>4. DOMAIN f = 1..n /\ DOMAIN g = 1..(n + 1) /\ \A i \in 1..n : g[i] = f[i]
  BY <1>1
<1>5. g[n + 1] = 1..Len(e.alerts) /\ Len(e.alerts) \in Nat
  BY <1>1, <1>2, SeqIs
<1>6. IsFiniteSet(1..Len(e.alerts)) /\ Cardinality(1..Len(e.alerts)) = Len(e.alerts)
  <2>1. \A m \in Nat : IsFiniteSet(1..m) /\ Cardinality(1..m) = m
    BY FS_Interval
  <2> QED
    BY <2>1, <1>5
<1> HIDE DEF f, g
<1>7. /\ IsFiniteSet(Pairs(g)) /\ Cardinality(Pairs(f)) \in Nat
      /\ Cardinality(Pairs(g)) = Cardinality(Pairs(f)) + Cardinality(g[n + 1])
  <2>1. IsFiniteSet(Pairs(f)) /\ IsFiniteSet(g[n + 1])
    BY <1>3, <1>5, <1>6
  <2> QED
    BY <2>1, <1>1, <1>4, PairsGrow
<1> QED
  BY <1>3, <1>5, <1>6, <1>7 DEF t

-----------------------------------------------------------------------------
(* Reports.                                                                *)

(* s is r with so many errors, deliveries and failed deliveries more.      *)
Counted(r, s, e, d, f) ==
    /\ s \in Reports
    /\ s.errors = r.errors + e /\ s.delivered = r.delivered + d
    /\ s.delivery_failures = r.delivery_failures + f

LEMMA ReportIs ==
    /\ NoReport \in Reports
    /\ NoReport.errors = 0 /\ NoReport.delivered = 0 /\ NoReport.delivery_failures = 0
    /\ \A r \in Reports : /\ r.events \in Nat /\ r.errors \in Nat
                          /\ r.delivered \in Nat /\ r.delivery_failures \in Nat
BY DEF NoReport, Reports

LEMMA ReportsGrow ==
    ASSUME NEW r \in Reports, NEW n \in Nat, NEW k \in Nat
    PROVE  /\ Counted(r, r, 0, 0, 0)
           /\ Counted(r, [r EXCEPT !.events = @ + k], 0, 0, 0)
           /\ Counted(r, [r EXCEPT !.errors = @ + n], n, 0, 0)
           /\ Counted(r, [r EXCEPT !.events = @ + k, !.errors = @ + n], n, 0, 0)
           /\ Counted(r, [r EXCEPT !.delivered = @ + 1], 0, 1, 0)
           /\ Counted(r, [r EXCEPT !.delivery_failures = @ + 1], 0, 0, 1)
<1>1. DOMAIN NoReport = {"events", "errors", "delivered", "delivery_failures"}
  BY DEF NoReport
<1>2. /\ r \in [DOMAIN NoReport -> Nat]
      /\ r.events \in Nat /\ r.errors \in Nat
      /\ r.delivered \in Nat /\ r.delivery_failures \in Nat
  BY ReportIs DEF Reports
<1>3. Counted(r, r, 0, 0, 0)
  BY <1>2 DEF Counted, Reports
<1>4. Counted(r, [r EXCEPT !.events = @ + k], 0, 0, 0)
  BY <1>1, <1>2 DEF Counted, Reports
<1>5. Counted(r, [r EXCEPT !.errors = @ + n], n, 0, 0)
  BY <1>1, <1>2 DEF Counted, Reports
<1>6. Counted(r, [r EXCEPT !.events = @ + k, !.errors = @ + n], n, 0, 0)
  <2> DEFINE q == [r EXCEPT !.events = @ + k]
             s == [r EXCEPT !.events = @ + k, !.errors = @ + n]
  <2>1. Counted(r, q, 0, 0, 0)
    BY <1>4
  <2>2. s = [q EXCEPT !.errors = @ + n]
    BY <1>1, <1>2
  <2> HIDE DEF q, s
  <2>3. q \in [DOMAIN NoReport -> Nat] /\ q.errors = r.errors
    BY <2>1, <1>2 DEF Counted, Reports
  <2>4. Counted(q, s, n, 0, 0)
    BY <2>2, <2>3, <1>1 DEF Counted, Reports
  <2>5. Counted(r, s, n, 0, 0)
    BY <2>1, <2>4, <1>2 DEF Counted
  <2> QED
    BY <2>5 DEF s
<1>7. Counted(r, [r EXCEPT !.delivered = @ + 1], 0, 1, 0)
  BY <1>1, <1>2 DEF Counted, Reports
<1>8. Counted(r, [r EXCEPT !.delivery_failures = @ + 1], 0, 0, 1)
  BY <1>1, <1>2 DEF Counted, Reports
<1> QED
  BY <1>3, <1>4, <1>5, <1>6, <1>7, <1>8

LEMMA TotalGrows ==
    ASSUME NEW r \in Reports, NEW s \in Reports
    PROVE  Counted(r, Plus(r, s), s.errors, s.delivered, s.delivery_failures)
<1>1. DOMAIN NoReport = {"events", "errors", "delivered", "delivery_failures"}
  BY DEF NoReport
<1> QED
  BY <1>1 DEF Counted, Reports, Plus

-----------------------------------------------------------------------------
(* Each step keeps the tallies.                                            *)

LEMMA AnalyzeDiskTallies ==
    ASSUME IInv, Tallies, NEW reading, AnalyzeDisk(reading)
    PROVE  Tallies'
<1> DEFINE event == [metric |-> "disk_used_percent", value |-> reading]
<1>1. /\ phase' = "stream" /\ work = <<>> /\ readings' = Append(readings, reading)
      /\ UNCHANGED <<scenario, total, log, offers>>
      /\ reading = Malformed =>
            report' = [report EXCEPT !.errors = @ + 1] /\ work' = work
      /\ reading # Malformed =>
            report' = [report EXCEPT !.events = @ + 1] /\ work' = RuleTasks(event)
  BY DEF AnalyzeDisk, IInv, WorkSound
<1> HIDE DEF event
<1>2. /\ scenario \in Scenarios /\ report \in Reports /\ total \in Reports
      /\ IsSeq(readings) /\ IsSeq(log) /\ IsSeq(offers)
      /\ IsFiniteSet(FaultsOf(scenario.security, log)) /\ IsFiniteSet(AlertsOf(log))
  BY DEF Tallies, Kinds, IInv, OffersSound
<1>3. /\ reading = Malformed => Counted(report, report', 1, 0, 0)
      /\ reading # Malformed => Counted(report, report', 0, 0, 0)
  BY <1>1, <1>2, ReportsGrow
<1>4. Kinds'
  <2>1. IsSeq(Append(readings, reading))
    BY <1>2, AppendIs
  <2>2. report' \in Reports
    BY <1>3 DEF Counted
  <2> QED
    BY <2>1, <2>2, <1>1, <1>2 DEF Kinds
<1>5. Ended'
  BY <1>1 DEF Ended
<1>6. ErrorsCounted'
  <2>1. /\ Bad(readings) \in Nat
        /\ reading = Malformed => Bad(readings') = Bad(readings) + 1
        /\ reading # Malformed => Bad(readings') = Bad(readings)
    BY <1>1, <1>2, BadGrows
  <2>2. total.errors \in Nat /\ report.errors \in Nat
    BY <1>2, ReportIs
  <2>3. Cardinality(FaultsOf(scenario.security, log)) \in Nat
    BY <1>2, FS_CardinalityType
  <2>4. total.errors + report.errors = Bad(readings) + Cardinality(FaultsOf(scenario.security, log))
    BY DEF Tallies, ErrorsCounted
  <2>5. /\ reading = Malformed => report'.errors = report.errors + 1
        /\ reading # Malformed => report'.errors = report.errors + 0
    BY <1>3 DEF Counted
  <2>6. total.errors + report'.errors
        = Bad(readings') + Cardinality(FaultsOf(scenario.security, log))
    BY <2>1, <2>2, <2>3, <2>4, <2>5
  <2> QED
    BY <2>6, <1>1 DEF ErrorsCounted
<1>7. DeliveriesCounted'
  <2>1. report.delivered \in Nat /\ report.delivery_failures \in Nat
    BY <1>2, ReportIs
  <2>2. /\ report'.delivered = report.delivered + 0
        /\ report'.delivery_failures = report.delivery_failures + 0
    BY <1>3 DEF Counted
  <2>3. /\ report'.delivered = report.delivered
        /\ report'.delivery_failures = report.delivery_failures
    BY <2>1, <2>2
  <2> QED
    BY <2>3, <1>1 DEF Tallies, DeliveriesCounted
<1>8. \A v : Pending(work, v) = 0
  BY <1>1, EmptyIs, PendingNone
<1>9. AlertsQueued'
  <2>1. Pending(work', Observation) = 0
    BY <1>1, <1>8, RulesPending
  <2> QED
    BY <2>1, <1>1, <1>8 DEF Tallies, AlertsQueued
<1>10. BreachesQueued'
  <2> SUFFICES ASSUME NEW r \in DOMAIN Rules, NEW s \in DOMAIN Sinks,
                      ~scenario.security
               PROVE  Offered(offers, RuleTask(r, s)) + Pending(work', RuleTask(r, s))
                      = LinesOver(Rules[r], log) + High(Rules[r], readings')
    BY <1>1 DEF BreachesQueued
  <2> DEFINE high == /\ Rules[r].metric = "disk_used_percent"
                     /\ reading # Malformed
                     /\ Compares(Rules[r].condition, reading, Rules[r].threshold)
             v == RuleTask(r, s)
  <2>1. Offered(offers, v) + Pending(work, v) = LinesOver(Rules[r], log) + High(Rules[r], readings)
    BY DEF Tallies, BreachesQueued
  <2>2. /\ High(Rules[r], readings) \in Nat
        /\ high => High(Rules[r], readings') = High(Rules[r], readings) + 1
        /\ ~high => High(Rules[r], readings') = High(Rules[r], readings)
    BY <1>1, <1>2, HighGrows
  <2>3. /\ high => Pending(work', v) = 1
        /\ ~high => Pending(work', v) = 0
    <3>1. CASE reading = Malformed
      BY <3>1, <1>1, <1>8
    <3>2. CASE reading # Malformed
      <4>1. Breaches(Rules[r], event) <=> high
        BY <3>2 DEF Breaches, event
      <4> QED
        BY <4>1, <3>2, <1>1, RulesPending
    <3> QED
      BY <3>1, <3>2
  <2>4. Offered(offers, v) \in Nat /\ LinesOver(Rules[r], log) \in Nat
    BY <1>2, OfferedIs, LinesGrow
  <2>5. Pending(work, v) = 0
    BY <1>8
  <2> HIDE DEF high, v
  <2>6. Offered(offers, v) + Pending(work', v) = LinesOver(Rules[r], log) + High(Rules[r], readings')
    BY <2>1, <2>2, <2>3, <2>4, <2>5
  <2> QED
    BY <2>6 DEF v
<1> QED
  BY <1>4, <1>5, <1>6, <1>7, <1>9, <1>10 DEF Tallies

LEMMA EndCycleTallies ==
    ASSUME IInv, Tallies, NEW spoiled \in scenario.spoiled, EndCycle(spoiled)
    PROVE  Tallies'
<1> DEFINE r == [report EXCEPT !.errors = @ + spoiled]
<1>1. /\ work = <<>> /\ work' = work /\ report' = NoReport /\ total' = Plus(total, r)
      /\ readings' = readings \o [i \in 1..spoiled |-> Malformed]
      /\ UNCHANGED <<scenario, log, offers>>
  BY DEF EndCycle, Idle
<1> HIDE DEF r
<1>2. /\ scenario \in Scenarios /\ report \in Reports /\ total \in Reports
      /\ IsSeq(readings) /\ IsSeq(log) /\ IsSeq(offers)
      /\ IsFiniteSet(FaultsOf(scenario.security, log)) /\ IsFiniteSet(AlertsOf(log))
  BY DEF Tallies, Kinds, IInv, OffersSound
<1>3. spoiled \in Nat
  BY <1>2, ScenarioAssumption
<1>4. Counted(report, r, spoiled, 0, 0)
  BY <1>2, <1>3, ReportsGrow DEF r
<1>5. r \in Reports
  BY <1>4 DEF Counted
<1>6. Counted(total, total', r.errors, r.delivered, r.delivery_failures)
  BY <1>1, <1>2, <1>5, TotalGrows
<1>7. /\ IsSeq(readings') /\ Bad(readings') = Bad(readings) + spoiled /\ Bad(readings) \in Nat
      /\ \A rule : High(rule, readings') = High(rule, readings)
  BY <1>1, <1>2, <1>3, SpoiledGrow
<1>8. /\ NoReport \in Reports
      /\ NoReport.errors = 0 /\ NoReport.delivered = 0 /\ NoReport.delivery_failures = 0
  BY ReportIs
<1>9. Kinds'
  <2>1. total' \in Reports
    BY <1>6 DEF Counted
  <2> QED
    BY <2>1, <1>1, <1>2, <1>7, <1>8 DEF Kinds
<1>10. Ended'
  BY <1>1 DEF Ended
<1>11. /\ total.errors \in Nat /\ report.errors \in Nat /\ total.delivered \in Nat
       /\ report.delivered \in Nat /\ total.delivery_failures \in Nat
       /\ report.delivery_failures \in Nat
  BY <1>2, ReportIs
<1>12. ErrorsCounted'
  <2>1. Cardinality(FaultsOf(scenario.security, log)) \in Nat
    BY <1>2, FS_CardinalityType
  <2>2. total.errors + report.errors = Bad(readings) + Cardinality(FaultsOf(scenario.security, log))
    BY DEF Tallies, ErrorsCounted
  <2>3. total'.errors = total.errors + (report.errors + spoiled)
    BY <1>4, <1>6 DEF Counted
  <2>4. total'.errors + 0 = Bad(readings') + Cardinality(FaultsOf(scenario.security, log))
    BY <1>3, <1>7, <1>11, <2>1, <2>2, <2>3
  <2> QED
    BY <2>4, <1>1, <1>8 DEF ErrorsCounted
<1>13. DeliveriesCounted'
  <2>1. /\ total'.delivered = total.delivered + (report.delivered + 0)
        /\ total'.delivery_failures = total.delivery_failures + (report.delivery_failures + 0)
    BY <1>4, <1>6 DEF Counted
  <2>2. /\ total'.delivered + 0 = total.delivered + report.delivered
        /\ total'.delivery_failures + 0 = total.delivery_failures + report.delivery_failures
    BY <2>1, <1>11
  <2> QED
    BY <2>2, <1>1, <1>8 DEF Tallies, DeliveriesCounted
<1>14. AlertsQueued' /\ BreachesQueued'
  BY <1>1, <1>7 DEF Tallies, AlertsQueued, BreachesQueued
<1> QED
  BY <1>9, <1>10, <1>12, <1>13, <1>14 DEF Tallies

(* A line of a security log: an error if it is rejected, and its alerts.   *)
LEMMA SecurityLineTallies ==
    ASSUME IInv, Tallies, NEW line, IngestLine(line), scenario.security
    PROVE  Tallies'
<1>1. /\ work = <<>> /\ phase' = "stream" /\ IsSeq(log)
      /\ UNCHANGED <<scenario, total, readings, offers>>
      /\ SecurityLine(line)
  BY DEF IngestLine, Idle, IInv
<1>2. PICK alerts : log' = Ingested(line, alerts)
  BY <1>1 DEF SecurityLine, IngestRawLog, IngestEvent, IngestOther
<1> DEFINE e == [line |-> line, at |-> clock, alerts |-> alerts]
           bad == line.format # "blank" /\ Rejected(line)
<1>3. log' = Append(log, e) /\ e.alerts = alerts /\ e.line = line
  BY <1>2 DEF Ingested
<1> HIDE DEF e
<1>4. Last(log') = e
  BY <1>1, <1>3, AppendIs DEF Last
<1>5. IsSeq(alerts) /\ IsSeq(e.alerts)
  BY <1>1, <1>3, <1>4, IngestedIs DEF SecurityLine
<1>6. work' = FlattenSeq([i \in DOMAIN alerts |-> ObservationTasks(alerts[i])])
  BY <1>1, <1>3, <1>4 DEF SecurityLine
<1>7. /\ bad => report' = [report EXCEPT !.errors = @ + 1]
      /\ ~bad => report' = report \/ report' = [report EXCEPT !.events = @ + 1]
  BY <1>1 DEF SecurityLine
<1> HIDE DEF bad
<1>8. /\ scenario \in Scenarios /\ report \in Reports /\ total \in Reports
      /\ IsSeq(readings) /\ IsSeq(offers)
      /\ IsFiniteSet(FaultsOf(scenario.security, log)) /\ IsFiniteSet(AlertsOf(log))
  BY DEF Tallies, Kinds, IInv, OffersSound
<1>9. /\ bad => Counted(report, report', 1, 0, 0)
      /\ ~bad => Counted(report, report', 0, 0, 0)
  BY <1>7, <1>8, ReportsGrow
<1> DEFINE new == FaultsFor(scenario.security, line)
<1>10. /\ bad => Cardinality(new) = 1
       /\ ~bad => Cardinality(new) = 0
  <2>1. /\ bad => new = {"format"}
        /\ ~bad => new = {}
    BY DEF FaultsFor, bad
  <2> QED
    BY <2>1, FS_Singleton, FS_EmptySet
<1> HIDE DEF new
<1>11. /\ IsFiniteSet(FaultsOf(scenario.security, log'))
       /\ Cardinality(FaultsOf(scenario.security, log)) \in Nat
       /\ Cardinality(FaultsOf(scenario.security, log'))
          = Cardinality(FaultsOf(scenario.security, log)) + Cardinality(new)
  BY <1>1, <1>3, <1>8, FaultsGrow DEF new
<1>12. /\ IsFiniteSet(AlertsOf(log'))
       /\ Cardinality(AlertsOf(log)) \in Nat /\ Len(alerts) \in Nat
       /\ Cardinality(AlertsOf(log')) = Cardinality(AlertsOf(log)) + Len(alerts)
  BY <1>1, <1>3, <1>5, <1>8, AlertsGrow
<1>13. report' \in Reports
  BY <1>9 DEF Counted
<1>14. Kinds'
  BY <1>1, <1>8, <1>11, <1>12, <1>13 DEF Kinds
<1>15. Ended'
  BY <1>1 DEF Ended
<1>16. /\ total.errors \in Nat /\ report.errors \in Nat /\ report.delivered \in Nat
       /\ report.delivery_failures \in Nat /\ Bad(readings) \in Nat
  BY <1>8, ReportIs, BadGrows
<1>17. ErrorsCounted'
  <2>1. total.errors + report.errors = Bad(readings) + Cardinality(FaultsOf(scenario.security, log))
    BY DEF Tallies, ErrorsCounted
  <2>2. /\ bad => report'.errors = report.errors + 1
        /\ ~bad => report'.errors = report.errors + 0
    BY <1>9 DEF Counted
  <2>3. report'.errors = report.errors + Cardinality(new) /\ Cardinality(new) \in Nat
    <3>1. CASE bad
      BY <3>1, <2>2, <1>10
    <3>2. CASE ~bad
      BY <3>2, <2>2, <1>10
    <3> QED
      BY <3>1, <3>2
  <2>4. total.errors + report'.errors
        = Bad(readings) + Cardinality(FaultsOf(scenario.security, log'))
    BY ONLY <1>11, <1>16, <2>1, <2>3
  <2> QED
    BY <2>4, <1>1 DEF ErrorsCounted
<1>18. DeliveriesCounted'
  <2>1. /\ report'.delivered = report.delivered + 0
        /\ report'.delivery_failures = report.delivery_failures + 0
    BY <1>9 DEF Counted
  <2>2. /\ report'.delivered = report.delivered
        /\ report'.delivery_failures = report.delivery_failures
    BY <2>1, <1>16
  <2> QED
    BY <2>2, <1>1 DEF Tallies, DeliveriesCounted
<1>19. AlertsQueued'
  <2>1. Pending(work', Observation) = Len(Sinks) * Len(alerts)
    BY <1>5, <1>6, AlertsPending
  <2>2. Pending(work, Observation) = 0
    BY <1>1, EmptyIs, PendingNone
  <2>3. Offered(offers, Observation) + Pending(work, Observation)
        = Len(Sinks) * Cardinality(AlertsOf(log))
    BY DEF Tallies, AlertsQueued
  <2>4. Offered(offers, Observation) \in Nat /\ Len(Sinks) \in Nat
    BY <1>8, OfferedIs, SinksAre
  <2>5. \A a, b, c \in Nat : a * (b + c) = a * b + a * c
    OBVIOUS
  <2>6. Len(Sinks) * (Cardinality(AlertsOf(log)) + Len(alerts))
        = Len(Sinks) * Cardinality(AlertsOf(log)) + Len(Sinks) * Len(alerts)
    BY <2>4, <2>5, <1>12
  <2>7. Offered(offers, Observation) = Len(Sinks) * Cardinality(AlertsOf(log))
    BY <2>2, <2>3, <2>4
  <2>8. Offered(offers, Observation) + Pending(work', Observation)
        = Len(Sinks) * Cardinality(AlertsOf(log'))
    BY <2>1, <2>6, <2>7, <1>12
  <2> QED
    BY <2>8, <1>1 DEF AlertsQueued
<1>20. BreachesQueued'
  BY <1>1 DEF BreachesQueued
<1> QED
  BY <1>14, <1>15, <1>17, <1>18, <1>19, <1>20 DEF Tallies

(* A line of plain metrics: an error for each bad value, and the tasks of  *)
(* the rules that the others breach.                                       *)
LEMMA PlainLineTallies ==
    ASSUME IInv, Tallies, NEW line, IngestLine(line), ~scenario.security
    PROVE  Tallies'
<1> DEFINE e == [line |-> line, at |-> clock, alerts |-> <<>>]
           worse == {m \in ToSet(PlainMetrics) : line[m] = Malformed}
           n == Cardinality(worse)
           k == Len(Valid(line))
           new == FaultsFor(scenario.security, line)
<1>1. /\ work = <<>> /\ phase' = "stream" /\ IsSeq(log)
      /\ UNCHANGED <<scenario, total, readings, offers>>
      /\ log' = Append(log, e) /\ e.alerts = <<>> /\ e.line = line
      /\ report' = [report EXCEPT !.events = @ + k, !.errors = @ + n]
      /\ work' = FlattenSeq(LineTasks(line))
  BY DEF IngestLine, Idle, IInv, PlainLine, Ingested, LineTasks
<1>2. new = worse
  <2>1. ToSet(PlainMetrics) = {"lat_ms", "mem_mb"}
    <3>1. ToSet(PlainMetrics) = {PlainMetrics[i] : i \in {1, 2}}
      BY DEF ToSet, PlainMetrics
    <3> QED
      BY <3>1 DEF PlainMetrics
  <2> QED
    BY <2>1 DEF FaultsFor
<1> HIDE DEF e, worse, k, new
<1>3. /\ scenario \in Scenarios /\ report \in Reports /\ total \in Reports
      /\ IsSeq(readings) /\ IsSeq(offers)
      /\ IsFiniteSet(FaultsOf(scenario.security, log)) /\ IsFiniteSet(AlertsOf(log))
  BY DEF Tallies, Kinds, IInv, OffersSound
<1>4. IsSeq(e.alerts) /\ Len(e.alerts) = 0
  BY <1>1, EmptyIs
<1>5. /\ IsFiniteSet(FaultsOf(scenario.security, log'))
      /\ Cardinality(FaultsOf(scenario.security, log)) \in Nat /\ Cardinality(new) \in Nat
      /\ Cardinality(FaultsOf(scenario.security, log'))
         = Cardinality(FaultsOf(scenario.security, log)) + Cardinality(new)
  BY <1>1, <1>3, FaultsGrow DEF new
<1>6. n \in Nat
  BY <1>2, <1>5
<1>7. /\ IsFiniteSet(AlertsOf(log'))
      /\ Cardinality(AlertsOf(log)) \in Nat
      /\ Cardinality(AlertsOf(log')) = Cardinality(AlertsOf(log)) + Len(e.alerts)
  BY <1>1, <1>3, <1>4, AlertsGrow
<1>8. k \in Nat
  BY ValidIs, SeqIs DEF k
<1> HIDE DEF n
<1>9. Counted(report, report', n, 0, 0)
  BY <1>1, <1>3, <1>6, <1>8, ReportsGrow
<1>10. report' \in Reports
  BY <1>9 DEF Counted
<1>11. Kinds'
  BY <1>1, <1>3, <1>5, <1>7, <1>10 DEF Kinds
<1>12. Ended'
  BY <1>1 DEF Ended
<1>13. /\ total.errors \in Nat /\ report.errors \in Nat /\ report.delivered \in Nat
       /\ report.delivery_failures \in Nat /\ Bad(readings) \in Nat
  BY <1>3, ReportIs, BadGrows
<1>14. ErrorsCounted'
  <2>1. total.errors + report.errors = Bad(readings) + Cardinality(FaultsOf(scenario.security, log))
    BY DEF Tallies, ErrorsCounted
  <2>2. report'.errors = report.errors + n /\ n = Cardinality(new)
    BY <1>2, <1>9 DEF Counted, n
  <2>3. total.errors + report'.errors
        = Bad(readings) + Cardinality(FaultsOf(scenario.security, log'))
    BY <1>5, <1>13, <2>1, <2>2
  <2> QED
    BY <2>3, <1>1 DEF ErrorsCounted
<1>15. DeliveriesCounted'
  <2>1. /\ report'.delivered = report.delivered + 0
        /\ report'.delivery_failures = report.delivery_failures + 0
    BY <1>9 DEF Counted
  <2>2. /\ report'.delivered = report.delivered
        /\ report'.delivery_failures = report.delivery_failures
    BY <2>1, <1>13
  <2> QED
    BY <2>2, <1>1 DEF Tallies, DeliveriesCounted
<1>16. \A v : Pending(work, v) = 0
  BY <1>1, EmptyIs, PendingNone
<1>17. AlertsQueued'
  <2>1. Pending(work', Observation) = 0
    BY <1>1, LinePending
  <2>2. Cardinality(AlertsOf(log')) = Cardinality(AlertsOf(log))
    BY <1>4, <1>7
  <2> QED
    BY <2>1, <2>2, <1>1, <1>16 DEF Tallies, AlertsQueued
<1>18. BreachesQueued'
  <2> SUFFICES ASSUME NEW r \in DOMAIN Rules, NEW s \in DOMAIN Sinks
               PROVE  Offered(offers, RuleTask(r, s)) + Pending(work', RuleTask(r, s))
                      = LinesOver(Rules[r], log') + High(Rules[r], readings)
    BY <1>1 DEF BreachesQueued
  <2> DEFINE v == RuleTask(r, s)
  <2>1. Offered(offers, v) + Pending(work, v) = LinesOver(Rules[r], log) + High(Rules[r], readings)
    BY DEF Tallies, BreachesQueued
  <2>2. /\ LinesOver(Rules[r], log) \in Nat
        /\ Over(Rules[r], line) => LinesOver(Rules[r], log') = LinesOver(Rules[r], log) + 1
        /\ ~Over(Rules[r], line) => LinesOver(Rules[r], log') = LinesOver(Rules[r], log)
    BY <1>1, LinesGrow
  <2>3. /\ Over(Rules[r], line) => Pending(work', v) = 1
        /\ ~Over(Rules[r], line) => Pending(work', v) = 0
    BY <1>1, LinePending
  <2>4. Offered(offers, v) \in Nat /\ High(Rules[r], readings) \in Nat
    BY <1>3, OfferedIs, HighGrows
  <2>5. Pending(work, v) = 0
    BY <1>16
  <2> HIDE DEF v
  <2>6. Offered(offers, v) + Pending(work', v) = LinesOver(Rules[r], log') + High(Rules[r], readings)
    BY <2>1, <2>2, <2>3, <2>4, <2>5
  <2> QED
    BY <2>6 DEF v
<1> QED
  BY <1>11, <1>12, <1>14, <1>15, <1>17, <1>18 DEF Tallies

(* What becomes of the task in front is told by its offer.                 *)
LEMMA OfferTallies ==
    ASSUME IInv, Tallies, work # <<>>, work' = Tail(work),
           NEW o, offers' = Append(offers, o), o.task = Head(work),
           UNCHANGED <<scenario, phase, total, readings, log>>,
           o.outcome = "delivered" => report' = [report EXCEPT !.delivered = @ + 1],
           o.outcome \in Failures => report' = [report EXCEPT !.delivery_failures = @ + 1],
           o.outcome \notin Failures \union {"delivered"} => report' = report
    PROVE  Tallies'
<1> DEFINE d == IF o.outcome = "delivered" THEN 1 ELSE 0
           f == IF o.outcome \in Failures THEN 1 ELSE 0
<1>1. /\ scenario \in Scenarios /\ report \in Reports /\ total \in Reports
      /\ IsSeq(readings) /\ IsSeq(offers) /\ IsSeq(work) /\ Ended
      /\ IsFiniteSet(FaultsOf(scenario.security, log)) /\ IsFiniteSet(AlertsOf(log))
  BY DEF Tallies, Kinds, IInv, OffersSound, WorkSound, Tasks
<1>2. "delivered" \notin Failures
  BY DEF Failures
<1>3. Counted(report, report', 0, d, f)
  <2>1. /\ Counted(report, report, 0, 0, 0)
        /\ Counted(report, [report EXCEPT !.delivered = @ + 1], 0, 1, 0)
        /\ Counted(report, [report EXCEPT !.delivery_failures = @ + 1], 0, 0, 1)
    BY <1>1, ReportsGrow
  <2>2. CASE o.outcome = "delivered"
    BY <2>1, <2>2, <1>2
  <2>3. CASE o.outcome \in Failures
    BY <2>1, <2>3, <1>2
  <2>4. CASE o.outcome \notin Failures \union {"delivered"}
    BY <2>1, <2>4
  <2> QED
    BY <2>2, <2>3, <2>4
<1>4. Kinds'
  <2>1. report' \in Reports
    BY <1>3 DEF Counted
  <2> QED
    BY <2>1, <1>1 DEF Kinds
<1>5. Ended'
  BY <1>1 DEF Ended
<1>6. /\ report.errors \in Nat /\ report.delivered \in Nat /\ report.delivery_failures \in Nat
      /\ total.delivered \in Nat /\ total.delivery_failures \in Nat
  BY <1>1, ReportIs
<1>7. ErrorsCounted'
  <2>1. report'.errors = report.errors
    BY <1>3, <1>6 DEF Counted
  <2> QED
    BY <2>1 DEF Tallies, ErrorsCounted
<1>8. DeliveriesCounted'
  <2>1. report'.delivered = report.delivered + d
        /\ report'.delivery_failures = report.delivery_failures + f
    BY <1>3 DEF Counted
  <2>2. Outcomes(offers', {"delivered"}) = Outcomes(offers, {"delivered"}) + d
        /\ Outcomes(offers, {"delivered"}) \in Nat
    <3>1. /\ Outcomes(offers, {"delivered"}) \in Nat
          /\ o.outcome \in {"delivered"} =>
                Outcomes(offers', {"delivered"}) = Outcomes(offers, {"delivered"}) + 1
          /\ o.outcome \notin {"delivered"} =>
                Outcomes(offers', {"delivered"}) = Outcomes(offers, {"delivered"})
      BY <1>1, OutcomesGrow
    <3> QED
      BY <3>1
  <2>3. Outcomes(offers', Failures) = Outcomes(offers, Failures) + f
        /\ Outcomes(offers, Failures) \in Nat
    <3>1. /\ Outcomes(offers, Failures) \in Nat
          /\ o.outcome \in Failures =>
                Outcomes(offers', Failures) = Outcomes(offers, Failures) + 1
          /\ o.outcome \notin Failures =>
                Outcomes(offers', Failures) = Outcomes(offers, Failures)
      BY <1>1, OutcomesGrow
    <3> QED
      BY <3>1
  <2>4. /\ total.delivered + report.delivered = Outcomes(offers, {"delivered"})
        /\ total.delivery_failures + report.delivery_failures = Outcomes(offers, Failures)
    BY DEF Tallies, DeliveriesCounted
  <2>5. d \in Nat /\ f \in Nat
    OBVIOUS
  <2> HIDE DEF d, f
  <2>6. total.delivered + report'.delivered = Outcomes(offers', {"delivered"})
    BY <2>1, <2>2, <2>4, <2>5, <1>6
  <2>7. total.delivery_failures + report'.delivery_failures = Outcomes(offers', Failures)
    BY <2>1, <2>3, <2>4, <2>5, <1>6
  <2> QED
    BY <2>6, <2>7 DEF DeliveriesCounted
<1>9. ASSUME NEW v
      PROVE  Offered(offers', v) + Pending(work', v) = Offered(offers, v) + Pending(work, v)
  <2>1. /\ Offered(offers, v) \in Nat
        /\ Asks(o.task, v) => Offered(offers', v) = Offered(offers, v) + 1
        /\ ~Asks(o.task, v) => Offered(offers', v) = Offered(offers, v)
    BY <1>1, OfferedIs
  <2>2. /\ Asks(o.task, v) => Pending(work, v) = Pending(work', v) + 1
        /\ ~Asks(o.task, v) => Pending(work, v) = Pending(work', v)
    BY <1>1, PendingTail
  <2>3. Pending(work', v) \in Nat
    BY <1>1, TailIs, PendingIs
  <2> QED
    BY <2>1, <2>2, <2>3
<1>10. AlertsQueued' /\ BreachesQueued'
  BY <1>9 DEF Tallies, AlertsQueued, BreachesQueued
<1> QED
  BY <1>4, <1>5, <1>7, <1>8, <1>10 DEF Tallies

(* Without an offer only a purge may be taken off.                         *)
LEMMA QuietTallies ==
    ASSUME IInv, Tallies, UNCHANGED <<scenario, report, total, readings, log, offers>>,
           \/ work' = work /\ (phase' = "done" => phase = "done")
           \/ work # <<>> /\ Head(work).via = "purge" /\ work' = Tail(work) /\ phase' = phase
    PROVE  Tallies'
<1>1. Kinds' /\ ErrorsCounted' /\ DeliveriesCounted'
  BY DEF Tallies, Kinds, ErrorsCounted, DeliveriesCounted
<1>2. CASE work' = work /\ (phase' = "done" => phase = "done")
  <2>1. Ended' /\ AlertsQueued' /\ BreachesQueued'
    BY <1>2 DEF Tallies, Ended, AlertsQueued, BreachesQueued
  <2> QED
    BY <1>1, <2>1 DEF Tallies
<1>3. CASE work # <<>> /\ Head(work).via = "purge" /\ work' = Tail(work) /\ phase' = phase
  <2>1. IsSeq(work)
    BY DEF IInv, WorkSound, Tasks
  <2>2. \A r, s : RuleTask(r, s).via = "rule"
    BY DEF RuleTask
  <2>3. ~Asks(Head(work), Observation) /\ \A r, s : ~Asks(Head(work), RuleTask(r, s))
    BY <1>3, <2>2 DEF Asks, Observation
  <2>4. /\ Pending(work, Observation) = Pending(work', Observation)
        /\ \A r, s : Pending(work, RuleTask(r, s)) = Pending(work', RuleTask(r, s))
    BY <1>3, <2>1, <2>3, PendingTail
  <2>5. AlertsQueued' /\ BreachesQueued'
    BY <2>4 DEF Tallies, AlertsQueued, BreachesQueued
  <2>6. Ended'
    BY <1>3 DEF Tallies, Ended
  <2> QED
    BY <1>1, <2>5, <2>6 DEF Tallies
<1> QED
  BY <1>2, <1>3

LEMMA DeliverTallies ==
    ASSUME IInv, Tallies, Deliver
    PROVE  Tallies'
<1> DEFINE O(name, evicted) ==
             [task |-> Head(work), outcome |-> name, began |-> IF Emitting THEN began ELSE clock,
              at |-> clock, evicted |-> evicted]
<1>1. /\ UNCHANGED <<scenario, phase, cycle, total, readings, sources, series, log>>
      /\ IsSeq(offers)
      /\ Len(offers') = Len(offers) => report' = report
      /\ Len(offers') # Len(offers) =>
           /\ Last(offers').outcome = "delivered" =>
                 report' = [report EXCEPT !.delivered = @ + 1]
           /\ Last(offers').outcome \in Failures =>
                 report' = [report EXCEPT !.delivery_failures = @ + 1]
           /\ Last(offers').outcome \notin Failures \union {"delivered"} => report' = report
  BY DEF Deliver, IInv, OffersSound, Failures
<1>2. ASSUME work # <<>>, work' = Tail(work), NEW name, NEW evicted,
             offers' = Append(offers, O(name, evicted))
      PROVE  Tallies'
  <2> DEFINE o == O(name, evicted)
  <2>1. offers' = Append(offers, o) /\ o.task = Head(work)
    BY <1>2
  <2> HIDE DEF O, o
  <2>2. Len(offers') # Len(offers) /\ Last(offers') = o
    <3>1. Len(offers') = Len(offers) + 1 /\ offers'[Len(offers) + 1] = o /\ Len(offers) \in Nat
      BY <1>1, <2>1, AppendIs, SeqIs
    <3> QED
      BY <3>1 DEF Last
  <2> QED
    BY <1>1, <1>2, <2>1, <2>2, OfferTallies
<1>3. Emitting => work # <<>>
  BY DEF IInv, WorkSound, Emitting
<1>4. CASE Purge
  BY <1>4, <1>1, QuietTallies DEF Purge, Ready
<1>5. CASE Emit
  BY <1>5, <1>1, QuietTallies DEF Emit
<1>6. CASE Suppress
  BY <1>6, <1>2 DEF Suppress, Ready, Outcome
<1>7. CASE Delivered
  <2>1. work # <<>> /\ work' = Tail(work)
    BY <1>7, <1>3 DEF Delivered
  <2>2. \E evicted : offers' = Append(offers, O("delivered", evicted))
    BY <1>7 DEF Delivered, Outcome
  <2> QED
    BY <2>1, <2>2, <1>2
<1>8. CASE \E outcome \in Failures : Failed(outcome)
  BY <1>8, <1>2, <1>3 DEF Failed, Outcome
<1> QED
  BY <1>4, <1>5, <1>6, <1>7, <1>8 DEF Deliver

LEMMA TalliesBegin == Init => Tallies
<1> SUFFICES ASSUME Init PROVE Tallies
  OBVIOUS
<1>1. /\ scenario \in Scenarios /\ report = NoReport /\ total = NoReport /\ phase = "disk"
      /\ readings = <<>> /\ log = <<>> /\ work = <<>> /\ offers = <<>>
  BY DEF Init, DetectorInit, DeliveryInit
<1>2. IsSeq(<<>>) /\ DOMAIN <<>> = {} /\ Cardinality({}) = 0 /\ IsFiniteSet({})
  BY EmptyIs, FS_EmptySet
<1>3. FaultsOf(scenario.security, log) = {} /\ AlertsOf(log) = {}
  BY <1>1, <1>2 DEF FaultsOf, AlertsOf, Pairs
<1>4. Bad(readings) = 0 /\ (\A S : Outcomes(offers, S) = 0)
      /\ (\A v : Offered(offers, v) = 0 /\ Pending(work, v) = 0)
      /\ (\A rule : High(rule, readings) = 0 /\ LinesOver(rule, log) = 0)
  <2>1. {i \in DOMAIN <<>> : readings[i] = Malformed} = {}
    BY <1>2
  <2>2. \A S : {i \in DOMAIN <<>> : offers[i].outcome \in S} = {}
    BY <1>2
  <2>3. \A v : {i \in DOMAIN <<>> : Asks(offers[i].task, v)} = {}
    BY <1>2
  <2>4. \A rule : {i \in DOMAIN <<>> : Over(rule, log[i].line)} = {}
    BY <1>2
  <2>5. \A rule : {i \in DOMAIN <<>> : /\ rule.metric = "disk_used_percent"
                                       /\ readings[i] # Malformed
                                       /\ Compares(rule.condition, readings[i], rule.threshold)} = {}
    BY <1>2
  <2>6. \A v : Pending(work, v) = 0
    BY <1>1, <1>2, PendingNone
  <2> QED
    BY <1>1, <1>2, <2>1, <2>2, <2>3, <2>4, <2>5, <2>6
       DEF Bad, Outcomes, Offered, High, LinesOver
<1>5. /\ NoReport \in Reports
      /\ NoReport.errors = 0 /\ NoReport.delivered = 0 /\ NoReport.delivery_failures = 0
  BY ReportIs
<1>6. Kinds /\ Ended
  BY <1>1, <1>2, <1>3, <1>5 DEF Kinds, Ended
<1>7. ErrorsCounted
  <2>1. Cardinality(FaultsOf(scenario.security, log)) = 0 /\ Bad(readings) = 0
    BY <1>2, <1>3, <1>4
  <2>2. total.errors = 0 /\ report.errors = 0
    BY <1>1, <1>5
  <2> QED
    BY <2>1, <2>2 DEF ErrorsCounted
<1>8. DeliveriesCounted
  <2>1. /\ total.delivered = 0 /\ report.delivered = 0
        /\ total.delivery_failures = 0 /\ report.delivery_failures = 0
    BY <1>1, <1>5
  <2> QED
    BY <2>1, <1>4 DEF DeliveriesCounted
<1>9. AlertsQueued
  <2>1. Len(Sinks) * 0 = 0
    BY SinksAre
  <2> QED
    BY <2>1, <1>2, <1>3, <1>4 DEF AlertsQueued
<1>10. BreachesQueued
  BY <1>4 DEF BreachesQueued
<1> QED
  BY <1>6, <1>7, <1>9, <1>10, <1>8 DEF Tallies

LEMMA TalliesKept == IInv /\ Tallies /\ [Next]_vars => Tallies'
<1> SUFFICES ASSUME IInv, Tallies, [Next]_vars PROVE Tallies'
  OBVIOUS
<1>1. CASE Step
  <2>1. ASSUME NEW line, IngestLine(line) PROVE Tallies'
    BY <2>1, SecurityLineTallies, PlainLineTallies
  <2> QED
    BY <1>1, <2>1, AnalyzeDiskTallies, EndCycleTallies, DeliverTallies DEF Step
<1>2. CASE TimePasses
  BY <1>2, QuietTallies DEF TimePasses
<1>3. CASE UNCHANGED vars
  BY <1>3, QuietTallies DEF vars
<1> QED
  BY <1>1, <1>2, <1>3 DEF Next

LEMMA TalliesHold == Spec => []Tallies
BY InvariantHolds, TalliesBegin, TalliesKept, PTL DEF Spec

-----------------------------------------------------------------------------
(* What the tallies say in the words of Monitor.                           *)
LEMMA TalliesTell == IInv /\ Tallies => FailuresHideNothing
<1> SUFFICES ASSUME IInv, Tallies PROVE FailuresHideNothing
  OBVIOUS
<1>1. Faults = FaultsOf(scenario.security, log)
  <2>1. \A line : FaultsIn(line) = FaultsFor(scenario.security, line)
    BY DEF FaultsIn, FaultsFor
  <2> QED
    BY <2>1 DEF Faults, FaultsOf, Pairs
<1>2. Alerts = AlertsOf(log)
  BY DEF Alerts, AlertsOf, Pairs
<1>3. \A S : OutcomesIn(S) = Outcomes(offers, S)
  BY DEF OutcomesIn, Outcomes
<1>4. /\ report \in Reports /\ total \in Reports
      /\ IsFiniteSet(FaultsOf(scenario.security, log)) /\ IsFiniteSet(AlertsOf(log))
      /\ IsSeq(readings) /\ IsSeq(offers)
  BY DEF Tallies, Kinds, IInv, OffersSound
<1>5. Counted(total, Plus(total, report), report.errors, report.delivered, report.delivery_failures)
  BY <1>4, TotalGrows
<1>6. \A v : Idle => Pending(work, v) = 0
  BY EmptyIs, PendingNone DEF Idle
<1>7. Cardinality({i \in DOMAIN readings : readings[i] = Malformed}) = Bad(readings)
  BY DEF Bad
<1>8. Idle => Cardinality({i \in DOMAIN offers : offers[i].task.via = "observation"})
              = Len(Sinks) * Cardinality(Alerts)
  <2>1. {i \in DOMAIN offers : offers[i].task.via = "observation"}
        = {i \in DOMAIN offers : Asks(offers[i].task, Observation)}
    BY DEF Asks, Observation
  <2>2. Offered(offers, Observation) \in Nat
    BY <1>4, OfferedIs
  <2>3. Offered(offers, Observation) + Pending(work, Observation)
        = Len(Sinks) * Cardinality(Alerts)
    BY <1>2 DEF Tallies, AlertsQueued
  <2>4. Idle => Offered(offers, Observation) = Len(Sinks) * Cardinality(Alerts)
    BY <2>2, <2>3, <1>6
  <2> QED
    BY <2>1, <2>4 DEF Offered
<1>9. ASSUME phase = "done", ExitStatus = 0
      PROVE  /\ OutcomesIn(Failures) = 0 /\ Faults = {}
             /\ \A i \in DOMAIN readings : readings[i] # Malformed
  <2>1. /\ total.errors \in Nat /\ total.delivery_failures \in Nat
        /\ report.errors = 0 /\ report.delivery_failures = 0
    BY <1>4, <1>9, ReportIs DEF Tallies, Ended
  <2>2. total.errors = 0 /\ total.delivery_failures = 0
    BY <1>9, <2>1 DEF ExitStatus
  <2>3. Bad(readings) \in Nat /\ Cardinality(FaultsOf(scenario.security, log)) \in Nat
    BY <1>4, BadGrows, FS_CardinalityType
  <2>4. Bad(readings) = 0 /\ Cardinality(FaultsOf(scenario.security, log)) = 0
    BY <2>1, <2>2, <2>3 DEF Tallies, ErrorsCounted
  <2>5. OutcomesIn(Failures) = 0
    BY <1>3, <2>1, <2>2 DEF Tallies, DeliveriesCounted
  <2>6. Faults = {}
    BY <2>4, <1>1, <1>4, FS_EmptySet
  <2>7. \A i \in DOMAIN readings : readings[i] # Malformed
    <3> DEFINE B == {i \in DOMAIN readings : readings[i] = Malformed}
    <3>1. B \in SUBSET (1..Len(readings)) /\ Len(readings) \in Nat
      BY <1>4, SeqIs
    <3>2. IsFiniteSet(B) /\ Cardinality(B) = 0
      BY <3>1, <2>4, <1>7, PositionsAre
    <3>3. B = {}
      BY <3>2, FS_EmptySet
    <3> QED
      BY <3>3
  <2> QED
    BY <2>5, <2>6, <2>7
<1>10. NothingGoesUncounted
  <2> DEFINE sum == Plus(total, report)
  <2>1. sum.errors = total.errors + report.errors
        /\ sum.delivered = total.delivered + report.delivered
        /\ sum.delivery_failures = total.delivery_failures + report.delivery_failures
    BY <1>5 DEF Counted
  <2>2. sum.errors = Cardinality({i \in DOMAIN readings : readings[i] = Malformed})
                     + Cardinality(Faults)
    BY <2>1, <1>1, <1>7 DEF Tallies, ErrorsCounted
  <2>3. /\ sum.delivered = OutcomesIn({"delivered"})
        /\ sum.delivery_failures = OutcomesIn(Failures)
    BY <2>1, <1>3 DEF Tallies, DeliveriesCounted
  <2> HIDE DEF sum
  <2> QED
    BY <2>2, <2>3, <1>8, <1>9 DEF NothingGoesUncounted, sum
<1>11. EveryBreachIsOffered
  <2> SUFFICES ASSUME Idle, ~scenario.security,
                      NEW r \in DOMAIN Rules, NEW s \in DOMAIN Sinks
               PROVE  Cardinality({i \in DOMAIN offers : offers[i].task = RuleTask(r, s)})
                      = LinesOver(Rules[r], log) + High(Rules[r], readings)
    BY DEF EveryBreachIsOffered, RuleTask, LinesOver, High, Over
  <2>1. \A t : t = RuleTask(r, s) <=> Asks(t, RuleTask(r, s))
    BY DEF Asks, RuleTask
  <2>2. {i \in DOMAIN offers : offers[i].task = RuleTask(r, s)}
        = {i \in DOMAIN offers : Asks(offers[i].task, RuleTask(r, s))}
    BY <2>1
  <2>3. Offered(offers, RuleTask(r, s)) + Pending(work, RuleTask(r, s))
        = LinesOver(Rules[r], log) + High(Rules[r], readings)
    BY DEF Tallies, BreachesQueued
  <2>4. Offered(offers, RuleTask(r, s)) \in Nat /\ Pending(work, RuleTask(r, s)) = 0
    BY <1>4, <1>6, OfferedIs
  <2>5. Offered(offers, RuleTask(r, s)) = LinesOver(Rules[r], log) + High(Rules[r], readings)
    BY <2>3, <2>4
  <2> QED
    BY <2>2, <2>5 DEF Offered
<1> QED
  BY <1>10, <1>11 DEF FailuresHideNothing

(* A failure of one sink, value, line or cycle hides nothing of the others *)
(* and is itself reported: the totals count every rejected value, failed   *)
(* reading and failed delivery once, every alert and every breach goes to  *)
(* every sink, and the exit status is 0 only if nothing went wrong, for    *)
(* any rules, sinks, lines, answers and number of cycles                   *)
(* (integrated_alerts.py ingest, dispatch_observation and run_watch).      *)
THEOREM NothingIsHidden == Spec => []FailuresHideNothing
BY InvariantHolds, TalliesHold, TalliesTell, PTL
=============================================================================
