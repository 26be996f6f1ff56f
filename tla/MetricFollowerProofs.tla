------------------------ MODULE MetricFollowerProofs ------------------------
(***************************************************************************)
(* For reads, lines and files of any size: the cursor stays inside what a  *)
(* generation can hold, and each line is returned once.                    *)
(*                                                                         *)
(* EachLineOnce speaks of the lines of whole generations, the code of      *)
(* chunks.  Followed relates what was returned and counted to the prefix   *)
(* before the cursor, and Mid to a place inside a chunk that is being      *)
(* split.  A generation replaced under the identity of the cursor is       *)
(* shorter than the offset (Shorter), or the comparison of sizes would not *)
(* notice.                                                                 *)
(***************************************************************************)
EXTENDS MetricFollower, WellFoundedInduction, SequenceTheorems, FiniteSetTheorems, TLAPS

(* A set of naturals has a least element.                                  *)
LEMMA Least ==
    ASSUME NEW T \in SUBSET Nat, T # {}
    PROVE  \E n \in T : \A m \in T : n <= m
<1>1. IsWellFoundedOn(OpToRel(<, Nat), Nat)
  BY NatLessThanWellFounded
<1>2. PICK n \in T : \A m \in T : ~(<<m, n>> \in OpToRel(<, Nat))
  BY <1>1, WFMin
<1>3. \A m, k \in Nat : m < k => <<m, k>> \in OpToRel(<, Nat)
  BY DEF OpToRel
<1>4. \A m \in T : m \in Nat /\ n \in Nat /\ ~(m < n)
  BY <1>2, <1>3
<1>5. \A m \in T : n <= m
  BY <1>4, SMT
<1> QED
  BY <1>5

(* Induction over the naturals.                                            *)
LEMMA Induction ==
    ASSUME NEW S \in SUBSET Nat, 0 \in S, \A n \in S : n + 1 \in S
    PROVE  S = Nat
<1> DEFINE T == Nat \ S
<1>1. SUFFICES ASSUME T # {} PROVE FALSE
  OBVIOUS
<1>2. PICK n \in T : \A m \in T : n <= m
  BY <1>1, Least
<1>3. n # 0 /\ n - 1 \in Nat /\ ~(n <= n - 1)
  OBVIOUS
<1>4. n - 1 \in S
  BY <1>2, <1>3
<1> QED
  BY <1>3, <1>4

(* A bounded set of naturals has a greatest element.                       *)
LEMMA Greatest ==
    ASSUME NEW n \in Nat, NEW T \in SUBSET (0..n), T # {}
    PROVE  \E m \in T : \A k \in T : k <= m
<1> DEFINE U == {u \in Nat : n - u \in T}
<1>1. \A k \in T : n - k \in U
  <2>1. \A k \in T : k \in Int /\ 0 <= k /\ k <= n
    OBVIOUS
  <2>2. \A k \in T : n - k \in Nat /\ n - (n - k) = k
    BY <2>1, SMT
  <2> QED
    BY <2>2
<1>2. U \in SUBSET Nat /\ U # {}
  BY <1>1
<1>3. PICK u \in U : \A v \in U : u <= v
  BY <1>2, Least
<1>4. \A k \in T : u <= n - k /\ k \in Int
  BY <1>1, <1>3
<1>5. u \in Int /\ \A k \in T : k <= n - u
  BY <1>4, SMT
<1>6. n - u \in T
  OBVIOUS
<1> QED
  BY <1>5, <1>6

-----------------------------------------------------------------------------
(* FoldLeft(Split, ...): one byte after the other.                         *)

Folded(start, chunk, n, f) ==
    f = [s \in SUBSET (1..n) |->
            IF s = {} THEN start ELSE Split(f[s \ {Max(s)}], chunk[Max(s)])]

LEMMA MaxIsThere ==
    ASSUME NEW n \in Nat, NEW s \in SUBSET (1..n), s # {}
    PROVE  Max(s) \in s /\ \A x \in s : Max(s) >= x
<1>1. PICK m \in s : \A k \in s : k <= m
  <2>1. s \in SUBSET (0..n)
    OBVIOUS
  <2> QED
    BY <2>1, Greatest
<1>2. \A k \in s : m >= k
  BY <1>1, SMT
<1> QED
  BY <1>2 DEF Max

LEMMA FoldsExist ==
    ASSUME NEW start, NEW chunk
    PROVE  \A n \in Nat : \E f : Folded(start, chunk, n, f)
<1> DEFINE S == {n \in Nat : \E f : Folded(start, chunk, n, f)}
<1>1. 0 \in S
  <2> DEFINE f == [s \in SUBSET (1..0) |-> start]
  <2>1. \A s \in SUBSET (1..0) : s = {}
    OBVIOUS
  <2>2. Folded(start, chunk, 0, f)
    BY <2>1 DEF Folded
  <2> QED
    BY <2>2
<1>2. ASSUME NEW n \in S
      PROVE  n + 1 \in S
  <2>1. PICK f : Folded(start, chunk, n, f)
    OBVIOUS
  <2> DEFINE g == [s \in SUBSET (1..(n + 1)) |->
                     IF n + 1 \in s THEN Split(f[s \ {n + 1}], chunk[n + 1]) ELSE f[s]]
  <2>2. ASSUME NEW s \in SUBSET (1..(n + 1))
        PROVE  g[s] = IF s = {} THEN start ELSE Split(g[s \ {Max(s)}], chunk[Max(s)])
    <3>1. CASE s = {}
      <4>1. f[{}] = start
        BY <2>1 DEF Folded
      <4> QED
        BY <3>1, <4>1
    <3>2. CASE s # {} /\ n + 1 \in s
      <4>1. Max(s) = n + 1
        <5>1. /\ n + 1 \in Nat /\ s \in SUBSET (1..(n + 1))
              /\ Max(s) \in s /\ \A x \in s : Max(s) >= x
          BY <3>2, MaxIsThere
        <5>2. Max(s) \in 1..(n + 1) /\ Max(s) >= n + 1
          BY <5>1, <3>2
        <5> QED
          BY <5>2, SMT
      <4>2. s \ {n + 1} \in SUBSET (1..(n + 1)) /\ n + 1 \notin s \ {n + 1}
        OBVIOUS
      <4>3. g[s \ {n + 1}] = f[s \ {n + 1}]
        BY <4>2
      <4> QED
        BY <3>2, <4>1, <4>3
    <3>3. CASE s # {} /\ n + 1 \notin s
      <4>1. s \in SUBSET (1..n)
        BY <3>3
      <4>2. n + 1 \in Nat /\ Max(s) \in s
        BY <3>3, MaxIsThere
      <4>3. s \ {Max(s)} \in SUBSET (1..(n + 1)) /\ n + 1 \notin s \ {Max(s)}
        BY <3>3
      <4>4. g[s \ {Max(s)}] = f[s \ {Max(s)}]
        BY <4>3
      <4>5. f[s] = Split(f[s \ {Max(s)}], chunk[Max(s)])
        BY <2>1, <4>1, <3>3 DEF Folded
      <4> QED
        BY <3>3, <4>4, <4>5
    <3> QED
      BY <3>1, <3>2, <3>3
  <2>3. Folded(start, chunk, n + 1, g)
    BY <2>2 DEF Folded
  <2> QED
    BY <2>3
<1>3. S = Nat
  BY <1>1, <1>2, Induction
<1> QED
  BY <1>3

LEMMA FoldLeftIs ==
    ASSUME NEW start, NEW chunk, NEW n \in Nat, DOMAIN chunk = 1..n
    PROVE  \E f : /\ Folded(start, chunk, n, f)
                  /\ Pieces(start, chunk) = f[1..n]
<1> DEFINE f == CHOOSE f : Folded(start, chunk, n, f)
<1>1. Folded(start, chunk, n, f)
  BY FoldsExist
<1>2. Pieces(start, chunk) = f[1..n]
  BY DEF Pieces, FoldLeft, MapThenFoldSet, Folded
<1> QED
  BY <1>1, <1>2

-----------------------------------------------------------------------------
(* What the properties say of a generation, said of its bytes.             *)
Begin(b, i) ==
    LET before == {j \in 1..(i - 1) : b[j].kind = "newline"}
    IN  IF before = {} THEN 1 ELSE (CHOOSE j \in before : \A k \in before : k <= j) + 1

Whole(b, from, to) ==
    {i \in (from + 1)..to : /\ b[i].kind = "newline" /\ Begin(b, i) > from
                            /\ i - Begin(b, i) <= LineLimit}

Over(b, from, to) ==
    {i \in (from + 1)..to : /\ b[i].kind = "newline" /\ Begin(b, i) > from
                            /\ i - Begin(b, i) > LineLimit}

Marked(b, g) == \A i \in 1..Len(b) : b[i].gen = g /\ b[i].pos = i

Of(ls, g) == {n \in DOMAIN ls : Last(ls[n]).gen = g}

Returned(ls, b, g, from, to) ==
    /\ {Last(ls[n]).pos : n \in Of(ls, g)} = Whole(b, from, to)
    /\ \A n \in Of(ls, g) :
          ls[n] = SubSeq(b, Begin(b, Last(ls[n]).pos), Last(ls[n]).pos)
    /\ \A m, n \in Of(ls, g) : m < n => Last(ls[m]).pos < Last(ls[n]).pos

(* What the splitting knows after byte `to', in the middle of a chunk: the *)
(* partial line, unless it is being discarded, either because reading      *)
(* began inside it or because it is too long and counted already.          *)
Mid(s, b, g, from, to) ==
    /\ s.discard \in BOOLEAN
    /\ ~s.discard => Begin(b, to + 1) > from /\ s.pending = SubSeq(b, Begin(b, to + 1), to)
    /\ s.discard /\ Begin(b, to + 1) > from => (to + 1) - Begin(b, to + 1) > LineLimit
    /\ s.errors = Cardinality(Over(b, from, to))
                    + (IF s.discard /\ Begin(b, to + 1) > from THEN 1 ELSE 0)
    /\ Returned(s.lines, b, g, from, to)

(* Lines too long, those that ended and the one the cursor is in.          *)
Counted(e, b, from, to) ==
    e = Cardinality(Over(b, from, to))
          + (IF Begin(b, to + 1) > from /\ (to + 1) - Begin(b, to + 1) > LineLimit
             THEN 1 ELSE 0)

Splits == [pending : Seq(Bytes), discard : BOOLEAN, lines : Seq(Seq(Bytes)), errors : Nat]

Upto(ls, g) == \A n \in DOMAIN ls : ls[n] # <<>> /\ Last(ls[n]).gen <= g

Cursor == [pending |-> pending, discard |-> discard, lines |-> lines, errors |-> errors]

-----------------------------------------------------------------------------
(* The inductive invariant, in parts.                                      *)

(* Generations are numbered in order, the path names the last or none, and *)
(* every byte says where it is.                                            *)
FilesSound ==
    /\ Len(files) <= MaxGenerations
    /\ path \in {0, Len(files)}
    /\ \A g \in DOMAIN files : Len(files[g].bytes) <= MaxBytes /\ Marked(files[g].bytes, g)

(* The cursor stands in the generation it is about, and no line comes from *)
(* a later one.                                                            *)
CursorSound ==
    /\ skip <= offset
    /\ IF seen = 0 THEN identity = None /\ offset = 0
       ELSE identity = files[seen].inode /\ offset <= Len(files[seen].bytes)
    /\ Upto(lines, seen)
    /\ discard => pending = <<>>
    /\ Len(pending) <= LineLimit
    /\ offset = 0 => /\ pending = <<>> /\ ~discard /\ errors = 0
                     /\ \A n \in DOMAIN lines : Last(lines[n]).gen # seen
    /\ first => /\ lines = <<>> /\ pending = <<>> /\ ~discard /\ errors = 0
                /\ skip = offset
                /\ opened # None => offset > 0

(* The last generation with an inode.                                      *)
NewestOf(fs, inode) ==
    CHOOSE g \in DOMAIN fs :
        /\ fs[g].inode = inode
        /\ \A h \in DOMAIN fs : fs[h].inode = inode => h <= g

(* A generation that took the place of the one the cursor is about, under  *)
(* the same identity, is still shorter than the offset.                    *)
Shorter ==
    /\ seen # 0 /\ path # 0 /\ seen # path /\ identity = files[path].inode /\ offset > 0
          => Len(files[path].bytes) < offset
    /\ opened # None =>
          /\ opened = identity /\ seen # 0
          /\ offset > 0 /\ seen # NewestOf(files, opened)
                => Len(files[NewestOf(files, opened)].bytes) < offset

(* The generation the cursor is about can be read from again.              *)
Live == path = seen \/ (opened # None /\ NewestOf(files, opened) = seen)

Followed ==
    Following =>
        /\ Returned(lines, files[seen].bytes, seen, skip, offset)
        /\ Counted(errors, files[seen].bytes, skip, offset)
        /\ Live => Mid(Cursor, files[seen].bytes, seen, skip, offset)

IInv == TypeOK /\ FilesSound /\ CursorSound /\ Shorter /\ Followed

-----------------------------------------------------------------------------
(* Where lines begin and end.                                              *)

LEMMA BeginIs ==
    ASSUME NEW b, NEW i \in Nat \ {0}
    PROVE  /\ Begin(b, i) \in 1..i
           /\ \A j \in 1..(i - 1) : b[j].kind = "newline" => j < Begin(b, i)
           /\ Begin(b, i) = 1 \/ b[Begin(b, i) - 1].kind = "newline"
<1> DEFINE before == {j \in 1..(i - 1) : b[j].kind = "newline"}
<1>1. CASE before = {}
  BY <1>1 DEF Begin
<1>2. CASE before # {}
  <2> DEFINE m == CHOOSE j \in before : \A k \in before : k <= j
  <2>1. i - 1 \in Nat /\ before \in SUBSET (0..(i - 1))
    OBVIOUS
  <2>2. \E j \in before : \A k \in before : k <= j
    BY <1>2, <2>1, Greatest
  <2>3. m \in before /\ \A k \in before : k <= m
    BY <2>2
  <2>4. Begin(b, i) = m + 1
    BY <1>2 DEF Begin
  <2> HIDE DEF m
  <2>5. m \in 1..(i - 1) /\ b[m].kind = "newline" /\ (m + 1) - 1 = m
    BY <2>3
  <2>6. \A j \in 1..(i - 1) : b[j].kind = "newline" => j <= m
    BY <2>3
  <2> QED
    BY <2>4, <2>5, <2>6
<1> QED
  BY <1>1, <1>2

LEMMA BeginUnique ==
    ASSUME NEW b, NEW i \in Nat \ {0}, NEW p \in 1..i,
           \A j \in 1..(i - 1) : b[j].kind = "newline" => j < p,
           p = 1 \/ b[p - 1].kind = "newline"
    PROVE  Begin(b, i) = p
<1>1. /\ Begin(b, i) \in 1..i
      /\ \A j \in 1..(i - 1) : b[j].kind = "newline" => j < Begin(b, i)
      /\ Begin(b, i) = 1 \/ b[Begin(b, i) - 1].kind = "newline"
  BY BeginIs
<1> DEFINE q == Begin(b, i)
<1> HIDE DEF q
<1>2. q \in 1..i
  BY <1>1 DEF q
<1>3. ~(q < p)
  <2>1. SUFFICES ASSUME q < p PROVE FALSE
    OBVIOUS
  <2>2. p - 1 \in 1..(i - 1) /\ p # 1 /\ ~(p - 1 < q)
    BY <1>2, <2>1
  <2> QED
    BY <1>1, <2>2 DEF q
<1>4. ~(p < q)
  <2>1. SUFFICES ASSUME p < q PROVE FALSE
    OBVIOUS
  <2>2. q - 1 \in 1..(i - 1) /\ q # 1 /\ ~(q - 1 < p)
    BY <1>2, <2>1
  <2> QED
    BY <1>1, <2>2 DEF q
<1>5. q = p
  BY <1>2, <1>3, <1>4
<1> QED
  BY <1>5 DEF q

LEMMA BeginNext ==
    ASSUME NEW b, NEW i \in Nat \ {0}
    PROVE  /\ b[i].kind = "newline" => Begin(b, i + 1) = i + 1
           /\ b[i].kind # "newline" => Begin(b, i + 1) = Begin(b, i)
<1>1. CASE b[i].kind = "newline"
  <2>1. i + 1 \in Nat \ {0} /\ i + 1 \in 1..(i + 1) /\ (i + 1) - 1 = i
    OBVIOUS
  <2>2. \A j \in 1..((i + 1) - 1) : b[j].kind = "newline" => j < i + 1
    OBVIOUS
  <2>3. Begin(b, i + 1) = i + 1
    BY <1>1, <2>1, <2>2, BeginUnique
  <2> QED
    BY <1>1, <2>3
<1>2. CASE b[i].kind # "newline"
  <2> DEFINE p == Begin(b, i)
  <2>1. /\ p \in 1..i
        /\ \A j \in 1..(i - 1) : b[j].kind = "newline" => j < p
        /\ p = 1 \/ b[p - 1].kind = "newline"
    BY BeginIs
  <2> HIDE DEF p
  <2>2. i + 1 \in Nat \ {0} /\ p \in 1..(i + 1)
    BY <2>1
  <2>3. \A j \in 1..((i + 1) - 1) : j \in 1..(i - 1) \/ j = i
    OBVIOUS
  <2>4. \A j \in 1..((i + 1) - 1) : b[j].kind = "newline" => j < p
    BY <1>2, <2>1, <2>3
  <2>5. Begin(b, i + 1) = p
    BY <2>1, <2>2, <2>4, BeginUnique
  <2> QED
    BY <1>2, <2>5 DEF p
<1> QED
  BY <1>1, <1>2

LEMMA BeginFirst ==
    ASSUME NEW b
    PROVE  Begin(b, 1) = 1
<1>1. Begin(b, 1) \in 1..1
  BY BeginIs
<1> QED
  BY <1>1

(* Later bytes do not matter.                                              *)
LEMMA BeginAgrees ==
    ASSUME NEW b, NEW c, NEW n \in Nat, \A j \in 1..n : b[j] = c[j],
           NEW i \in 1..(n + 1)
    PROVE  Begin(b, i) = Begin(c, i)
<1> DEFINE p == Begin(b, i)
<1>1. i \in Nat \ {0}
  OBVIOUS
<1>2. /\ p \in 1..i
      /\ \A j \in 1..(i - 1) : b[j].kind = "newline" => j < p
      /\ p = 1 \/ b[p - 1].kind = "newline"
  BY <1>1, BeginIs
<1> HIDE DEF p
<1>3. \A j \in 1..(i - 1) : b[j] = c[j]
  OBVIOUS
<1>4. p = 1 \/ p - 1 \in 1..(i - 1)
  BY <1>2
<1>5. Begin(c, i) = p
  BY <1>1, <1>2, <1>3, <1>4, BeginUnique
<1> QED
  BY <1>5 DEF p

LEMMA LinesAgree ==
    ASSUME NEW b, NEW c, NEW from \in Nat, NEW to \in Nat, \A j \in 1..to : b[j] = c[j]
    PROVE  Whole(b, from, to) = Whole(c, from, to) /\ Over(b, from, to) = Over(c, from, to)
<1>1. \A i \in (from + 1)..to : b[i] = c[i] /\ i \in 1..(to + 1)
  OBVIOUS
<1>2. \A i \in (from + 1)..to : Begin(b, i) = Begin(c, i)
  BY <1>1, BeginAgrees
<1> QED
  BY <1>1, <1>2 DEF Whole, Over

(* The lines that end with the next byte.                                  *)
LEMMA LinesNext ==
    ASSUME NEW b, NEW from \in Nat, NEW to \in Nat, from <= to
    PROVE  LET ends == b[to + 1].kind = "newline" /\ Begin(b, to + 1) > from
               long == (to + 1) - Begin(b, to + 1) > LineLimit
           IN  /\ Whole(b, from, to + 1) =
                     Whole(b, from, to) \union (IF ends /\ ~long THEN {to + 1} ELSE {})
               /\ Over(b, from, to + 1) =
                     Over(b, from, to) \union (IF ends /\ long THEN {to + 1} ELSE {})
<1>1. (from + 1)..(to + 1) = ((from + 1)..to) \union {to + 1}
  OBVIOUS
<1>2. Begin(b, to + 1) \in 1..(to + 1) /\ LineLimit \in Nat
  BY BeginIs, FollowerAssumption
<1>3. ((to + 1) - Begin(b, to + 1) > LineLimit) <=> ~((to + 1) - Begin(b, to + 1) <= LineLimit)
  BY <1>2
<1>4. Whole(b, from, to + 1) = Whole(b, from, to) \union
         {i \in {to + 1} : /\ b[i].kind = "newline" /\ Begin(b, i) > from
                           /\ i - Begin(b, i) <= LineLimit}
  BY <1>1 DEF Whole
<1>5. Over(b, from, to + 1) = Over(b, from, to) \union
         {i \in {to + 1} : /\ b[i].kind = "newline" /\ Begin(b, i) > from
                           /\ i - Begin(b, i) > LineLimit}
  BY <1>1 DEF Over
<1> QED
  BY <1>3, <1>4, <1>5

LEMMA NoLines ==
    ASSUME NEW b, NEW from \in Nat
    PROVE  Whole(b, from, from) = {} /\ Over(b, from, from) = {}
<1>1. (from + 1)..from = {}
  OBVIOUS
<1> QED
  BY <1>1 DEF Whole, Over

LEMMA OverFinite ==
    ASSUME NEW b, NEW from \in Nat, NEW to \in Nat
    PROVE  /\ IsFiniteSet(Over(b, from, to)) /\ Cardinality(Over(b, from, to)) \in Nat
           /\ Over(b, from, to) \subseteq 1..to
<1>1. Over(b, from, to) \subseteq 1..to
  BY DEF Over
<1>2. IsFiniteSet(1..to)
  BY FS_Interval
<1> QED
  BY <1>1, <1>2, FS_Subset, FS_CardinalityType

-----------------------------------------------------------------------------
(* Splitting byte by byte.                                                 *)

LEMMA SubSeqIs ==
    ASSUME NEW T, NEW b \in Seq(T), NEW p \in Nat \ {0}, NEW to \in Nat,
           p <= to + 1, to <= Len(b)
    PROVE  /\ SubSeq(b, p, to) \in Seq(T)
           /\ Len(SubSeq(b, p, to)) = (to + 1) - p
           /\ \A k \in 1..((to + 1) - p) : SubSeq(b, p, to)[k] = b[(p - 1) + k]
<1>1. \A i \in p..to : b[i] \in T
  <2>1. \A i \in p..to : i \in 1..Len(b)
    OBVIOUS
  <2> QED
    BY <2>1, ElementOfSeq
<1>2. p \in Int /\ to \in Int /\ (to - p) + 1 = (to + 1) - p
  OBVIOUS
<1>3. SubSeq(b, p, to) \in Seq(T)
  <2>1. CASE p <= to
    BY <2>1, <1>1, SubSeqProperties
  <2>2. CASE ~(p <= to)
    BY <2>2, SubSeqProperties
  <2> QED
    BY <2>1, <2>2
<1>4. Len(SubSeq(b, p, to)) = (to + 1) - p
  BY <1>2
<1>5. \A k \in 1..((to + 1) - p) : SubSeq(b, p, to)[k] = b[(p - 1) + k]
  BY <1>2
<1> QED
  BY <1>3, <1>4, <1>5

LEMMA SubSeqIsOn ==
    ASSUME NEW T, NEW b \in Seq(T), NEW p \in Nat \ {0}, NEW to \in Nat,
           p <= to + 1, to + 1 <= Len(b)
    PROVE  /\ SubSeq(b, p, to + 1) \in Seq(T)
           /\ Len(SubSeq(b, p, to + 1)) = (to + 2) - p
           /\ \A k \in 1..((to + 2) - p) : SubSeq(b, p, to + 1)[k] = b[(p - 1) + k]
<1> DEFINE t == SubSeq(b, p, to + 1)
<1>1. to + 1 \in Nat /\ p <= (to + 1) + 1 /\ ((to + 1) + 1) - p = (to + 2) - p
  OBVIOUS
<1>2. /\ t \in Seq(T) /\ Len(t) = ((to + 1) + 1) - p
      /\ \A k \in 1..(((to + 1) + 1) - p) : t[k] = b[(p - 1) + k]
  BY <1>1, SubSeqIs
<1> QED
  BY <1>1, <1>2

LEMMA OneMore ==
    ASSUME NEW T, NEW b \in Seq(T), NEW p \in Nat \ {0}, NEW to \in Nat,
           p <= to + 1, to + 1 <= Len(b)
    PROVE  Append(SubSeq(b, p, to), b[to + 1]) = SubSeq(b, p, to + 1)
<1> DEFINE s == SubSeq(b, p, to)
           t == SubSeq(b, p, to + 1)
<1>1. /\ s \in Seq(T) /\ Len(s) = (to + 1) - p
      /\ \A k \in 1..((to + 1) - p) : s[k] = b[(p - 1) + k]
  BY SubSeqIs
<1>2. /\ t \in Seq(T) /\ Len(t) = (to + 2) - p
      /\ \A k \in 1..((to + 2) - p) : t[k] = b[(p - 1) + k]
  BY SubSeqIsOn
<1> HIDE DEF s, t
<1>3. b[to + 1] \in T
  BY ElementOfSeq
<1>4. /\ Append(s, b[to + 1]) \in Seq(T) /\ Len(Append(s, b[to + 1])) = Len(s) + 1
      /\ \A k \in 1..Len(s) : Append(s, b[to + 1])[k] = s[k]
      /\ Append(s, b[to + 1])[Len(s) + 1] = b[to + 1]
  BY <1>1, <1>3, AppendProperties
<1>5. Len(Append(s, b[to + 1])) = Len(t)
  BY <1>1, <1>2, <1>4
<1>6. ASSUME NEW k \in 1..Len(t)
      PROVE  Append(s, b[to + 1])[k] = t[k]
  <2>1. k \in 1..((to + 2) - p) /\ (k \in 1..Len(s) \/ k = Len(s) + 1)
    BY <1>1, <1>2
  <2>2. CASE k \in 1..Len(s)
    BY <2>1, <2>2, <1>1, <1>2, <1>4
  <2>3. CASE k = Len(s) + 1
    <3>1. (p - 1) + k = to + 1
      BY <2>3, <1>1
    <3> QED
      BY <2>1, <2>3, <3>1, <1>2, <1>4
  <2> QED
    BY <2>1, <2>2, <2>3
<1>7. Append(s, b[to + 1]) = t
  BY <1>2, <1>4, <1>5, <1>6, SeqEqual
<1> QED
  BY <1>7 DEF s, t

(* A line returned now is after those returned before.                     *)
LEMMA OneMoreReturned ==
    ASSUME NEW ls \in Seq(Seq(Bytes)), NEW b \in Seq(Bytes), NEW g \in Nat,
           NEW from \in Nat, NEW to \in Nat, from <= to, to + 1 <= Len(b), Marked(b, g),
           Returned(ls, b, g, from, to),
           NEW p, p = Begin(b, to + 1), p > from, b[to + 1].kind = "newline",
           (to + 1) - p <= LineLimit, Upto(ls, g)
    PROVE  /\ Append(ls, SubSeq(b, p, to + 1)) \in Seq(Seq(Bytes))
           /\ Upto(Append(ls, SubSeq(b, p, to + 1)), g)
           /\ Returned(Append(ls, SubSeq(b, p, to + 1)), b, g, from, to + 1)
<1> DEFINE line == SubSeq(b, p, to + 1)
           more == Append(ls, line)
           N == Len(ls)
<1>1. p \in 1..(to + 1)
  <2>1. to + 1 \in Nat \ {0}
    OBVIOUS
  <2> QED
    BY <2>1, BeginIs
<1>2. /\ line \in Seq(Bytes) /\ Len(line) = (to + 2) - p
      /\ \A k \in 1..((to + 2) - p) : line[k] = b[(p - 1) + k]
  <2>1. p \in Nat \ {0} /\ p <= to + 1
    BY <1>1
  <2>2. /\ SubSeq(b, p, to + 1) \in Seq(Bytes)
        /\ Len(SubSeq(b, p, to + 1)) = (to + 2) - p
        /\ \A k \in 1..((to + 2) - p) : SubSeq(b, p, to + 1)[k] = b[(p - 1) + k]
    <3> HIDE DEF line, more, N
    <3> QED
      BY ONLY <2>1, b \in Seq(Bytes), to \in Nat, to + 1 <= Len(b), SubSeqIsOn
  <2> QED
    BY <2>2
<1> HIDE DEF line
<1>3. Last(line) = b[to + 1] /\ line # <<>>
  <2>1. Len(line) \in 1..((to + 2) - p) /\ (p - 1) + Len(line) = to + 1
    BY <1>1, <1>2
  <2>2. line[Len(line)] = b[to + 1]
    BY <1>2, <2>1
  <2> QED
    BY <2>1, <2>2 DEF Last
<1>4. Last(line).gen = g /\ Last(line).pos = to + 1
  BY <1>3 DEF Marked
<1>5. /\ more \in Seq(Seq(Bytes)) /\ Len(more) = N + 1 /\ N \in Nat /\ N = Len(ls)
      /\ \A n \in 1..N : more[n] = ls[n]
      /\ more[N + 1] = line
  BY <1>2, AppendProperties
<1>6. DOMAIN more = 1..(N + 1) /\ DOMAIN ls = 1..N
  BY <1>5
<1> HIDE DEF more, N
<1>7. Of(more, g) = Of(ls, g) \union {N + 1}
  <2>1. \A n \in 1..(N + 1) : n \in 1..N \/ n = N + 1
    BY <1>5
  <2>2. 1..N \subseteq 1..(N + 1) /\ N + 1 \in 1..(N + 1)
    BY <1>5
  <2> QED
    BY <1>4, <1>5, <1>6, <2>1, <2>2 DEF Of
<1>8. \A n \in Of(ls, g) : n \in 1..N /\ more[n] = ls[n] /\ n # N + 1 /\ n < N + 1
  BY <1>5, <1>6 DEF Of
<1>9. {Last(more[n]).pos : n \in Of(more, g)} = Whole(b, from, to + 1)
  <2>1. Whole(b, from, to + 1) = Whole(b, from, to) \union {to + 1}
    <3>1. LineLimit \in Nat /\ ~((to + 1) - p > LineLimit)
      BY <1>1, FollowerAssumption
    <3> QED
      BY <3>1, LinesNext
  <2>2. {Last(more[n]).pos : n \in Of(more, g)}
           = {Last(ls[n]).pos : n \in Of(ls, g)} \union {Last(more[N + 1]).pos}
    BY <1>7, <1>8
  <2> QED
    BY <2>1, <2>2, <1>4, <1>5 DEF Returned
<1>10. \A n \in Of(more, g) :
          more[n] = SubSeq(b, Begin(b, Last(more[n]).pos), Last(more[n]).pos)
  <2>1. more[N + 1] = SubSeq(b, Begin(b, Last(more[N + 1]).pos), Last(more[N + 1]).pos)
    BY <1>4, <1>5 DEF line
  <2> QED
    BY <2>1, <1>7, <1>8 DEF Returned
<1>11. ASSUME NEW m \in Of(more, g), NEW n \in Of(more, g), m < n
       PROVE  Last(more[m]).pos < Last(more[n]).pos
  <2>1. CASE n \in Of(ls, g)
    <3>1. m # N + 1
      BY <1>8, <1>11, <2>1, <1>5
    <3>2. m \in Of(ls, g)
      BY <3>1, <1>7
    <3> QED
      BY <2>1, <3>2, <1>8, <1>11 DEF Returned
  <2>2. CASE n = N + 1
    <3>1. m \in Of(ls, g)
      BY <1>7, <1>11, <2>2, <1>5
    <3>2. Last(ls[m]).pos \in Whole(b, from, to)
      BY <3>1 DEF Returned
    <3>3. Last(ls[m]).pos < to + 1
      BY <3>2 DEF Whole
    <3> QED
      BY <2>2, <3>1, <3>3, <1>4, <1>5, <1>8
  <2> QED
    BY <2>1, <2>2, <1>7
<1>12. Upto(more, g)
  <2>1. ASSUME NEW n \in 1..(N + 1)
        PROVE  more[n] # <<>> /\ Last(more[n]).gen <= g
    <3>1. CASE n \in 1..N
      BY <3>1, <1>5, <1>6 DEF Upto
    <3>2. CASE n = N + 1
      BY <3>2, <1>3, <1>4, <1>5
    <3> QED
      BY <3>1, <3>2, <1>5
  <2> QED
    BY <2>1, <1>6 DEF Upto
<1> QED
  BY <1>5, <1>9, <1>10, <1>11, <1>12 DEF Returned, more, line

LEMMA SplitIs ==
    ASSUME NEW s \in Splits, NEW byte \in Bytes
    PROVE  LET t == Split(s, byte)
               line == Append(s.pending, byte)
           IN  /\ t \in Splits
               /\ byte.kind # "newline" =>
                     /\ t.pending = line /\ t.discard = s.discard
                     /\ t.lines = s.lines /\ t.errors = s.errors
               /\ byte.kind = "newline" => t.pending = <<>> /\ ~t.discard
               /\ byte.kind = "newline" /\ ~s.discard /\ Fits(s.pending) =>
                     t.lines = Append(s.lines, line) /\ t.errors = s.errors
               /\ byte.kind = "newline" /\ ~s.discard /\ ~Fits(s.pending) =>
                     t.lines = s.lines /\ t.errors = s.errors + 1
               /\ byte.kind = "newline" /\ s.discard =>
                     t.lines = s.lines /\ t.errors = s.errors
<1> DEFINE line == Append(s.pending, byte)
<1>1. /\ s.pending \in Seq(Bytes) /\ s.discard \in BOOLEAN
      /\ s.lines \in Seq(Seq(Bytes)) /\ s.errors \in Nat
      /\ s = [pending |-> s.pending, discard |-> s.discard, lines |-> s.lines,
              errors |-> s.errors]
  BY DEF Splits
<1>2. line \in Seq(Bytes) /\ <<>> \in Seq(Bytes) /\ s.errors + 1 \in Nat
  BY <1>1, AppendProperties, EmptySeq
<1>3. Append(s.lines, line) \in Seq(Seq(Bytes))
  BY <1>1, <1>2, AppendProperties
<1>4. CASE byte.kind # "newline"
  <2>1. Split(s, byte) = [pending |-> line, discard |-> s.discard, lines |-> s.lines,
                          errors |-> s.errors]
    BY <1>1, <1>4 DEF Split
  <2> QED
    BY <2>1, <1>1, <1>2, <1>4 DEF Splits
<1>5. CASE byte.kind = "newline" /\ s.discard
  <2>1. Split(s, byte) = [pending |-> <<>>, discard |-> FALSE, lines |-> s.lines,
                          errors |-> s.errors]
    BY <1>1, <1>5 DEF Split
  <2> QED
    BY <2>1, <1>1, <1>2, <1>5 DEF Splits
<1>6. CASE byte.kind = "newline" /\ ~s.discard /\ Fits(s.pending)
  <2>1. Split(s, byte) = [pending |-> <<>>, discard |-> s.discard,
                          lines |-> Append(s.lines, line), errors |-> s.errors]
    BY <1>1, <1>6 DEF Split
  <2> QED
    BY <2>1, <1>1, <1>2, <1>3, <1>6 DEF Splits
<1>7. CASE byte.kind = "newline" /\ ~s.discard /\ ~Fits(s.pending)
  <2>1. Split(s, byte) = [pending |-> <<>>, discard |-> s.discard,
                          lines |-> s.lines, errors |-> s.errors + 1]
    BY <1>1, <1>7 DEF Split
  <2> QED
    BY <2>1, <1>1, <1>2, <1>7 DEF Splits
<1> QED
  BY <1>4, <1>5, <1>6, <1>7

LEMMA SplitKeeps ==
    ASSUME NEW s \in Splits, NEW b \in Seq(Bytes), NEW g \in Nat,
           NEW from \in Nat, NEW to \in Nat, from <= to, to + 1 <= Len(b), Marked(b, g),
           Mid(s, b, g, from, to), Upto(s.lines, g)
    PROVE  /\ Split(s, b[to + 1]) \in Splits
           /\ Mid(Split(s, b[to + 1]), b, g, from, to + 1)
           /\ Upto(Split(s, b[to + 1]).lines, g)
<1> DEFINE byte == b[to + 1]
           p == Begin(b, to + 1)
           q == Begin(b, to + 2)
           long == (to + 1) - p > LineLimit
           t == Split(s, byte)
<1>1. p \in 1..(to + 1) /\ LineLimit \in Nat
  BY BeginIs, FollowerAssumption
<1>2. /\ byte.kind = "newline" => q = to + 2
      /\ byte.kind # "newline" => q = p
  <2>1. to + 1 \in Nat \ {0} /\ (to + 1) + 1 = to + 2
    OBVIOUS
  <2> QED
    BY <2>1, BeginNext
<1>3. (to + 1) + 1 = to + 2
  OBVIOUS
<1>4. byte \in Bytes
  BY ElementOfSeq
<1>5. /\ s.pending \in Seq(Bytes) /\ s.discard \in BOOLEAN
      /\ s.lines \in Seq(Seq(Bytes)) /\ s.errors \in Nat
  BY DEF Splits
<1>6. /\ Whole(b, from, to + 1) =
             Whole(b, from, to)
               \union (IF byte.kind = "newline" /\ p > from /\ ~long THEN {to + 1} ELSE {})
      /\ Over(b, from, to + 1) =
             Over(b, from, to)
               \union (IF byte.kind = "newline" /\ p > from /\ long THEN {to + 1} ELSE {})
  BY LinesNext
<1>7. /\ IsFiniteSet(Over(b, from, to)) /\ Cardinality(Over(b, from, to)) \in Nat
      /\ to + 1 \notin Over(b, from, to)
  <2>1. to + 1 \notin 1..to
    OBVIOUS
  <2> QED
    BY <2>1, OverFinite
<1>8. Cardinality(Over(b, from, to) \union {to + 1}) = Cardinality(Over(b, from, to)) + 1
  BY <1>7, FS_AddElement
<1>9. /\ ~s.discard => p > from /\ s.pending = SubSeq(b, p, to)
      /\ s.discard /\ p > from => long
      /\ s.errors = Cardinality(Over(b, from, to))
                      + (IF s.discard /\ p > from THEN 1 ELSE 0)
      /\ Returned(s.lines, b, g, from, to)
  BY DEF Mid
<1>10. SUFFICES /\ t \in Splits
                /\ ~t.discard => q > from /\ t.pending = SubSeq(b, q, to + 1)
                /\ t.discard /\ q > from => (to + 2) - q > LineLimit
                /\ t.errors = Cardinality(Over(b, from, to + 1))
                                + (IF t.discard /\ q > from THEN 1 ELSE 0)
                /\ Returned(t.lines, b, g, from, to + 1)
                /\ Upto(t.lines, g)
  <2>1. t \in Splits => t.discard \in BOOLEAN
    BY DEF Splits
  <2> QED
    BY <2>1, <1>3 DEF Mid
<1> HIDE DEF byte, p, q
<1>20. t \in Splits
  BY <1>4, SplitIs
<1>11. CASE byte.kind # "newline"
  <2>2. /\ t.pending = Append(s.pending, byte) /\ t.discard = s.discard
        /\ t.lines = s.lines /\ t.errors = s.errors
    BY <1>4, <1>11, SplitIs
  <2>4. q = p
    BY <1>2, <1>11
  <2>5. ~t.discard => q > from /\ t.pending = SubSeq(b, q, to + 1)
    <3>1. Append(SubSeq(b, p, to), byte) = SubSeq(b, p, to + 1)
      BY <1>1, OneMore DEF byte
    <3> QED
      BY <1>9, <2>2, <2>4, <3>1
  <2>6. t.discard /\ q > from => (to + 2) - q > LineLimit
    BY <1>1, <1>9, <2>2, <2>4
  <2>7. Over(b, from, to + 1) = Over(b, from, to) /\ Whole(b, from, to + 1) = Whole(b, from, to)
    BY <1>6, <1>11
  <2>8. Returned(t.lines, b, g, from, to + 1)
    BY <1>9, <2>2, <2>7 DEF Returned
  <2>9. t.errors = Cardinality(Over(b, from, to + 1)) + (IF t.discard /\ q > from THEN 1 ELSE 0)
    BY <1>9, <2>2, <2>4, <2>7
  <2> QED
    BY <2>2, <1>20, <2>5, <2>6, <2>8, <2>9, <1>9
<1>12. CASE byte.kind = "newline" /\ s.discard
  <2>2. t.pending = <<>> /\ ~t.discard /\ t.lines = s.lines /\ t.errors = s.errors
    BY <1>4, <1>12, SplitIs
  <2>3. q = to + 2
    BY <1>2, <1>12
  <2>4. q > from /\ t.pending = SubSeq(b, q, to + 1)
    <3>1. SubSeq(b, to + 2, to + 1) = <<>>
      <4>1. to + 2 \in Int /\ to + 1 \in Int /\ to + 2 > to + 1
        OBVIOUS
      <4> QED
        BY <4>1, SubSeqEmpty
    <3> QED
      BY <2>2, <2>3, <3>1
  <2>5. Whole(b, from, to + 1) = Whole(b, from, to)
    BY <1>6, <1>9, <1>12
  <2>6. Returned(t.lines, b, g, from, to + 1)
    BY <1>9, <2>2, <2>5 DEF Returned
  <2>7. t.errors = Cardinality(Over(b, from, to + 1))
    <3>1. CASE p > from
      BY <3>1, <1>6, <1>8, <1>9, <1>12, <2>2
    <3>2. CASE ~(p > from)
      <4>1. Over(b, from, to + 1) = Over(b, from, to)
        BY <3>2, <1>6
      <4> QED
        BY <3>2, <4>1, <1>7, <1>9, <2>2
    <3> QED
      BY <3>1, <3>2
  <2>8. t.errors = t.errors + 0
    BY <2>2, <1>5
  <2> QED
    BY <2>2, <2>4, <2>6, <2>7, <2>8, <1>9, <1>20
<1>13. CASE byte.kind = "newline" /\ ~s.discard
  <2>1. q = to + 2 /\ q > from /\ SubSeq(b, q, to + 1) = <<>>
    <3>1. SubSeq(b, to + 2, to + 1) = <<>>
      <4>1. to + 2 \in Int /\ to + 1 \in Int /\ to + 2 > to + 1
        OBVIOUS
      <4> QED
        BY <4>1, SubSeqEmpty
    <3> QED
      BY <3>1, <1>2, <1>13
  <2>2. p > from /\ s.pending = SubSeq(b, p, to) /\ Len(s.pending) = (to + 1) - p
    BY <1>1, <1>9, <1>13, SubSeqIs
  <2>3. CASE ~long
    <3>1. Fits(s.pending)
      BY <2>2, <2>3, <1>1 DEF Fits
    <3>3. Append(s.pending, byte) = SubSeq(b, p, to + 1)
      BY <1>1, <2>2, OneMore DEF byte
    <3>4. /\ t.pending = <<>> /\ ~t.discard
          /\ t.lines = Append(s.lines, SubSeq(b, p, to + 1)) /\ t.errors = s.errors
      BY <1>4, <1>13, <3>1, <3>3, SplitIs
    <3>5. (to + 1) - p <= LineLimit /\ byte.kind = "newline" /\ Upto(s.lines, g)
      BY <2>3, <1>1, <1>13
    <3>6. /\ t.lines \in Seq(Seq(Bytes)) /\ Upto(t.lines, g)
          /\ Returned(t.lines, b, g, from, to + 1)
      BY <3>4, <3>5, <1>5, <1>9, <2>2, OneMoreReturned DEF byte, p
    <3>7. Over(b, from, to + 1) = Over(b, from, to)
      BY <1>6, <2>3
    <3>8. t.errors = Cardinality(Over(b, from, to + 1)) + 0
      BY <1>7, <1>9, <1>13, <3>4, <3>7
    <3> QED
      BY <2>1, <3>4, <3>6, <3>8, <1>20
  <2>4. CASE long
    <3>1. ~Fits(s.pending)
      BY <2>2, <2>4, <1>1 DEF Fits
    <3>3. t.pending = <<>> /\ ~t.discard /\ t.lines = s.lines /\ t.errors = s.errors + 1
      BY <1>4, <1>13, <3>1, SplitIs
    <3>4. Whole(b, from, to + 1) = Whole(b, from, to)
      BY <1>6, <2>4
    <3>5. Returned(t.lines, b, g, from, to + 1)
      BY <1>9, <3>3, <3>4 DEF Returned
    <3>6. Over(b, from, to + 1) = Over(b, from, to) \union {to + 1}
      BY <1>6, <1>13, <2>2, <2>4
    <3>7. t.errors = Cardinality(Over(b, from, to + 1)) + 0
      <4>1. s.errors = Cardinality(Over(b, from, to))
        BY <1>7, <1>9, <1>13
      <4>2. Cardinality(Over(b, from, to + 1)) = Cardinality(Over(b, from, to)) + 1
        BY <3>6, <1>8
      <4> QED
        BY <4>1, <4>2, <3>3, <1>7
    <3> QED
      BY <2>1, <3>3, <3>5, <3>7, <1>20
  <2> QED
    BY <2>3, <2>4
<1> QED
  BY <1>5, <1>11, <1>12, <1>13

-----------------------------------------------------------------------------
(* A chunk, and what is left of it.                                        *)

LEMMA ChunkKeeps ==
    ASSUME NEW start \in Splits, NEW b \in Seq(Bytes), NEW g \in Nat,
           NEW from \in Nat, NEW at \in Nat, NEW to \in Nat,
           from <= at, at <= to, to <= Len(b), Marked(b, g),
           Mid(start, b, g, from, at), Upto(start.lines, g)
    PROVE  LET s == Pieces(start, SubSeq(b, at + 1, to))
           IN  s \in Splits /\ Mid(s, b, g, from, to) /\ Upto(s.lines, g)
<1> DEFINE chunk == SubSeq(b, at + 1, to)
           n == to - at
           Good(s, k) == s \in Splits /\ Mid(s, b, g, from, at + k) /\ Upto(s.lines, g)
<1>1. n \in Nat /\ at + n = to
  OBVIOUS
<1>2. DOMAIN chunk = 1..n /\ \A k \in 1..n : chunk[k] = b[at + k]
  <2>1. at + 1 \in Nat \ {0} /\ at + 1 <= to + 1 /\ (to + 1) - (at + 1) = n /\ (at + 1) - 1 = at
    OBVIOUS
  <2>2. /\ chunk \in Seq(Bytes) /\ Len(chunk) = (to + 1) - (at + 1)
        /\ \A k \in 1..((to + 1) - (at + 1)) : chunk[k] = b[((at + 1) - 1) + k]
    BY <2>1, SubSeqIs
  <2> QED
    BY <2>1, <2>2
<1> HIDE DEF chunk, n
<1>3. PICK f : Folded(start, chunk, n, f) /\ Pieces(start, chunk) = f[1..n]
  <2>1. n \in Nat /\ DOMAIN chunk = 1..n
    BY <1>1, <1>2
  <2> QED
    BY ONLY <2>1, FoldLeftIs
<1>4. f[{}] = start /\ \A s \in SUBSET (1..n) :
         s # {} => f[s] = Split(f[s \ {Max(s)}], chunk[Max(s)])
  BY <1>3 DEF Folded
<1> DEFINE S == {k \in Nat : k <= n => Good(f[1..k], k)}
<1>5. 0 \in S
  <2>1. 1..0 = {} /\ at + 0 = at
    OBVIOUS
  <2> QED
    BY <2>1, <1>4
<1>6. ASSUME NEW k \in S
      PROVE  k + 1 \in S
  <2> SUFFICES ASSUME k + 1 <= n PROVE Good(f[1..(k + 1)], k + 1)
    OBVIOUS
  <2>1. k \in Nat /\ k <= n
    BY <1>1
  <2>2. f[1..k] \in Splits /\ Mid(f[1..k], b, g, from, at + k) /\ Upto(f[1..k].lines, g)
    BY <2>1
  <2>3. Max(1..(k + 1)) = k + 1
    <3>1. /\ k + 1 \in Nat /\ 1..(k + 1) \in SUBSET (1..(k + 1)) /\ 1..(k + 1) # {}
          /\ k + 1 \in 1..(k + 1)
      <4>1. k + 1 \in Nat /\ k + 1 \in 1..(k + 1)
        BY ONLY <2>1
      <4> QED
        BY ONLY <4>1
    <3>2. Max(1..(k + 1)) \in 1..(k + 1) /\ Max(1..(k + 1)) >= k + 1
      BY <3>1, MaxIsThere
    <3> QED
      BY <3>2, <2>1
  <2>4. /\ 1..(k + 1) \in SUBSET (1..n) /\ 1..(k + 1) # {} /\ k + 1 \in 1..n
        /\ (1..(k + 1)) \ {k + 1} = 1..k
    <3>1. 1..(k + 1) \in SUBSET (1..n)
      BY <2>1, <1>1
    <3>2. k + 1 \in 1..(k + 1) /\ k + 1 \in 1..n
      BY <2>1, <1>1
    <3>3. (1..(k + 1)) \ {k + 1} = 1..k
      BY <2>1
    <3> QED
      BY <3>1, <3>2, <3>3
  <2>5. f[1..(k + 1)] = Split(f[1..k], b[(at + k) + 1])
    <3>1. at + (k + 1) = (at + k) + 1
      BY <2>1
    <3> DEFINE top == 1..(k + 1)
    <3>2. f[top] = Split(f[top \ {Max(top)}], chunk[Max(top)])
      BY <1>4, <2>4
    <3>3. top \ {Max(top)} = 1..k /\ chunk[Max(top)] = b[at + (k + 1)]
      BY <1>2, <2>3, <2>4
    <3> HIDE DEF top
    <3>4. f[top] = Split(f[1..k], b[(at + k) + 1])
      BY <3>1, <3>2, <3>3
    <3> QED
      BY <3>4 DEF top
  <2>6. at + k \in Nat /\ from <= at + k /\ (at + k) + 1 <= Len(b) /\ (at + k) + 1 = at + (k + 1)
    BY <2>1, <1>1
  <2>7. /\ Split(f[1..k], b[(at + k) + 1]) \in Splits
        /\ Mid(Split(f[1..k], b[(at + k) + 1]), b, g, from, (at + k) + 1)
        /\ Upto(Split(f[1..k], b[(at + k) + 1]).lines, g)
    BY <2>2, <2>6, SplitKeeps
  <2> QED
    BY <2>5, <2>6, <2>7
<1> HIDE DEF S
<1>7. S = Nat
  <2>1. S \in SUBSET Nat
    BY DEF S
  <2> QED
    BY <2>1, <1>5, <1>6, Induction
<1>8. Good(f[1..n], n)
  <2>1. n \in S
    BY <1>1, <1>7
  <2> QED
    BY <2>1, <1>1 DEF S
<1> QED
  BY <1>1, <1>3, <1>8 DEF chunk

LEMMA LimitIs ==
    ASSUME NEW s \in Splits
    PROVE  LET t == Limit(s)
           IN  /\ t \in Splits /\ t.lines = s.lines
               /\ t.discard => t.pending = <<>>
               /\ Len(t.pending) <= LineLimit
               /\ s.discard => t.discard /\ t.errors = s.errors
               /\ ~s.discard /\ Len(s.pending) <= LineLimit => t = s
               /\ ~s.discard /\ Len(s.pending) > LineLimit =>
                     t.discard /\ t.errors = s.errors + 1
               /\ s.discard /\ s.pending = <<>> => t = s
<1>1. /\ s.pending \in Seq(Bytes) /\ s.discard \in BOOLEAN
      /\ s.lines \in Seq(Seq(Bytes)) /\ s.errors \in Nat
      /\ s = [pending |-> s.pending, discard |-> s.discard, lines |-> s.lines,
              errors |-> s.errors]
  BY DEF Splits
<1>2. /\ <<>> \in Seq(Bytes) /\ s.errors + 1 \in Nat /\ Len(<<>>) = 0
      /\ LineLimit \in Nat /\ Len(s.pending) \in Nat
  BY <1>1, EmptySeq, FollowerAssumption
<1>3. CASE s.discard
  <2>1. Limit(s) = [pending |-> <<>>, discard |-> s.discard, lines |-> s.lines,
                    errors |-> s.errors]
    BY <1>1, <1>3 DEF Limit
  <2> QED
    BY <2>1, <1>1, <1>2, <1>3 DEF Splits
<1>4. CASE ~s.discard /\ Len(s.pending) <= LineLimit
  <2>1. Limit(s) = s
    BY <1>2, <1>4 DEF Limit
  <2> QED
    BY <2>1, <1>1, <1>2, <1>4
<1>5. CASE ~s.discard /\ Len(s.pending) > LineLimit
  <2>1. Limit(s) = [pending |-> <<>>, discard |-> TRUE, lines |-> s.lines,
                    errors |-> s.errors + 1]
    BY <1>1, <1>5 DEF Limit
  <2> QED
    BY <2>1, <1>1, <1>2, <1>5 DEF Splits
<1> QED
  BY <1>2, <1>3, <1>4, <1>5

LEMMA LimitKeeps ==
    ASSUME NEW s \in Splits, NEW b \in Seq(Bytes), NEW g \in Nat,
           NEW from \in Nat, NEW to \in Nat, to <= Len(b), Mid(s, b, g, from, to)
    PROVE  Mid(Limit(s), b, g, from, to)
<1> DEFINE t == Limit(s)
           p == Begin(b, to + 1)
           c == Cardinality(Over(b, from, to))
<1>1. p \in 1..(to + 1) /\ c \in Nat
  <2>1. to + 1 \in Nat \ {0}
    OBVIOUS
  <2> QED
    BY <2>1, BeginIs, OverFinite
<1>2. /\ s.discard \in BOOLEAN
      /\ ~s.discard => p > from /\ s.pending = SubSeq(b, p, to)
      /\ s.discard /\ p > from => (to + 1) - p > LineLimit
      /\ s.errors = c + (IF s.discard /\ p > from THEN 1 ELSE 0)
      /\ Returned(s.lines, b, g, from, to)
  BY DEF Mid
<1>3. /\ t \in Splits /\ t.lines = s.lines
      /\ s.discard => t.discard /\ t.errors = s.errors
      /\ ~s.discard /\ Len(s.pending) <= LineLimit => t = s
      /\ ~s.discard /\ Len(s.pending) > LineLimit => t.discard /\ t.errors = s.errors + 1
  BY LimitIs
<1>4. /\ LineLimit \in Nat /\ s.discard \in BOOLEAN /\ t.discard \in BOOLEAN
      /\ Len(s.pending) \in Nat
  BY <1>3, FollowerAssumption DEF Splits
<1> HIDE DEF t, p, c
<1>5. CASE s.discard
  BY <1>2, <1>3, <1>4, <1>5 DEF Mid, t, p, c
<1>6. CASE ~s.discard /\ Len(s.pending) <= LineLimit
  BY <1>3, <1>6 DEF t
<1>7. CASE ~s.discard /\ Len(s.pending) > LineLimit
  <2>1. Len(s.pending) = (to + 1) - p
    BY <1>1, <1>2, <1>7, SubSeqIs
  <2>2. p > from /\ (to + 1) - p > LineLimit /\ t.discard /\ t.errors = c + 1
    BY <2>1, <1>1, <1>2, <1>3, <1>7
  <2> QED
    BY <2>2, <1>2, <1>3, <1>4 DEF Mid, t, p, c
<1> QED
  BY <1>4, <1>5, <1>6, <1>7

LEMMA MidCounts ==
    ASSUME NEW s \in Splits, NEW b \in Seq(Bytes), NEW g \in Nat,
           NEW from \in Nat, NEW to \in Nat, to <= Len(b), Mid(s, b, g, from, to),
           Len(s.pending) <= LineLimit
    PROVE  Returned(s.lines, b, g, from, to) /\ Counted(s.errors, b, from, to)
<1> DEFINE p == Begin(b, to + 1)
           c == Cardinality(Over(b, from, to))
<1>1. p \in 1..(to + 1) /\ c \in Nat /\ LineLimit \in Nat
  <2>1. to + 1 \in Nat \ {0}
    OBVIOUS
  <2> QED
    BY <2>1, BeginIs, OverFinite, FollowerAssumption
<1>2. /\ s.discard \in BOOLEAN
      /\ ~s.discard => p > from /\ s.pending = SubSeq(b, p, to)
      /\ s.discard /\ p > from => (to + 1) - p > LineLimit
      /\ s.errors = c + (IF s.discard /\ p > from THEN 1 ELSE 0)
      /\ Returned(s.lines, b, g, from, to)
  BY DEF Mid
<1>3. ~s.discard => Len(s.pending) = (to + 1) - p
  BY <1>1, <1>2, SubSeqIs
<1> HIDE DEF p, c
<1>4. (s.discard /\ p > from) <=> (p > from /\ (to + 1) - p > LineLimit)
  BY <1>1, <1>2, <1>3
<1> QED
  BY <1>2, <1>4 DEF Counted, p, c

(* Nothing read yet.                                                       *)
LEMMA MidFresh ==
    ASSUME NEW s \in Splits, NEW b \in Seq(Bytes), NEW g \in Nat, NEW from \in Nat,
           from <= Len(b), s.pending = <<>>, s.errors = 0,
           \A n \in DOMAIN s.lines : Last(s.lines[n]).gen # g,
           from = 0 => ~s.discard,
           from > 0 => (s.discard <=> b[from].kind # "newline")
    PROVE  Mid(s, b, g, from, from)
<1>1. Whole(b, from, from) = {} /\ Over(b, from, from) = {}
  BY NoLines
<1>2. Of(s.lines, g) = {}
  BY DEF Of
<1>3. Returned(s.lines, b, g, from, from)
  BY <1>1, <1>2 DEF Returned
<1>4. Cardinality({}) = 0
  BY FS_EmptySet
<1>5. s.discard \in BOOLEAN
  BY DEF Splits
<1>6. CASE ~s.discard
  <2>1. Begin(b, from + 1) = from + 1
    <3>1. CASE from = 0
      BY <3>1, BeginFirst
    <3>2. CASE from > 0
      BY <3>2, <1>6, BeginNext
    <3> QED
      BY <3>1, <3>2
  <2>2. SubSeq(b, from + 1, from) = <<>>
    <3>1. from + 1 \in Int /\ from \in Int /\ from + 1 > from
      OBVIOUS
    <3> QED
      BY <3>1, SubSeqEmpty
  <2> QED
    BY <2>1, <2>2, <1>1, <1>3, <1>4, <1>5, <1>6 DEF Mid
<1>7. CASE s.discard
  <2>1. from > 0 /\ b[from].kind # "newline"
    BY <1>7
  <2>2. Begin(b, from + 1) = Begin(b, from) /\ Begin(b, from) \in 1..from
    BY <2>1, BeginNext, BeginIs
  <2>3. ~(Begin(b, from + 1) > from)
    BY <2>2
  <2> QED
    BY <2>3, <1>1, <1>3, <1>4, <1>5, <1>7 DEF Mid
<1> QED
  BY <1>5, <1>6, <1>7

(* Later bytes change none of this.                                        *)
LEMMA Prefix ==
    ASSUME NEW b \in Seq(Bytes), NEW c \in Seq(Bytes), NEW from \in Nat, NEW to \in Nat,
           to <= Len(b), to <= Len(c), \A j \in 1..to : b[j] = c[j], NEW g
    PROVE  /\ \A ls : Returned(ls, b, g, from, to) => Returned(ls, c, g, from, to)
           /\ \A e : Counted(e, b, from, to) => Counted(e, c, from, to)
           /\ \A s : Mid(s, b, g, from, to) => Mid(s, c, g, from, to)
<1>1. Whole(b, from, to) = Whole(c, from, to) /\ Over(b, from, to) = Over(c, from, to)
  BY LinesAgree
<1>2. \A i \in 1..(to + 1) : Begin(b, i) = Begin(c, i) /\ Begin(b, i) \in 1..i
  <2>1. \A i \in 1..(to + 1) : i \in Nat \ {0}
    OBVIOUS
  <2> QED
    BY <2>1, BeginAgrees, BeginIs
<1>3. ASSUME NEW p \in 1..(to + 1), NEW m \in 0..to, p <= m + 1
      PROVE  SubSeq(b, p, m) = SubSeq(c, p, m)
  <2>1. p \in Nat \ {0} /\ m \in Nat /\ m <= Len(b) /\ m <= Len(c)
    OBVIOUS
  <2>2. /\ SubSeq(b, p, m) \in Seq(Bytes) /\ Len(SubSeq(b, p, m)) = (m + 1) - p
        /\ \A k \in 1..((m + 1) - p) : SubSeq(b, p, m)[k] = b[(p - 1) + k]
    BY <1>3, <2>1, SubSeqIs
  <2>3. /\ SubSeq(c, p, m) \in Seq(Bytes) /\ Len(SubSeq(c, p, m)) = (m + 1) - p
        /\ \A k \in 1..((m + 1) - p) : SubSeq(c, p, m)[k] = c[(p - 1) + k]
    BY <1>3, <2>1, SubSeqIs
  <2>4. \A k \in 1..((m + 1) - p) : (p - 1) + k \in 1..to
    BY <2>1
  <2>5. \A k \in 1..((m + 1) - p) : SubSeq(b, p, m)[k] = SubSeq(c, p, m)[k]
    BY <2>2, <2>3, <2>4
  <2> QED
    BY <2>2, <2>3, <2>5, SeqEqual
<1>4. \A i \in Whole(b, from, to) : SubSeq(b, Begin(b, i), i) = SubSeq(c, Begin(c, i), i)
  <2>1. \A i \in Whole(b, from, to) : i \in 1..(to + 1) /\ i \in 0..to
    BY DEF Whole
  <2>2. \A i \in Whole(b, from, to) : Begin(b, i) \in 1..(to + 1) /\ Begin(b, i) <= i + 1
    BY <2>1, <1>2
  <2> QED
    BY <2>1, <2>2, <1>2, <1>3
<1>5. to + 1 \in 1..(to + 1) /\ to \in 0..to
  OBVIOUS
<1>6. Begin(b, to + 1) = Begin(c, to + 1)
      /\ SubSeq(b, Begin(b, to + 1), to) = SubSeq(c, Begin(c, to + 1), to)
  <2>1. Begin(b, to + 1) = Begin(c, to + 1) /\ Begin(b, to + 1) \in 1..(to + 1)
    BY <1>2, <1>5
  <2>2. Begin(b, to + 1) <= to + 1
    BY <2>1
  <2> QED
    BY <2>1, <2>2, <1>3, <1>5
<1>7. ASSUME NEW ls, Returned(ls, b, g, from, to)
      PROVE  Returned(ls, c, g, from, to)
  <2>1. \A n \in Of(ls, g) : Last(ls[n]).pos \in Whole(b, from, to)
    BY <1>7 DEF Returned
  <2>2. \A n \in Of(ls, g) : ls[n] = SubSeq(c, Begin(c, Last(ls[n]).pos), Last(ls[n]).pos)
    BY <2>1, <1>4, <1>7 DEF Returned
  <2> QED
    BY <2>2, <1>1, <1>7 DEF Returned
<1>8. \A e : Counted(e, b, from, to) => Counted(e, c, from, to)
  BY <1>1, <1>6 DEF Counted
<1>9. ASSUME NEW s, Mid(s, b, g, from, to)
      PROVE  Mid(s, c, g, from, to)
  <2>1. Returned(s.lines, c, g, from, to)
    BY <1>7, <1>9 DEF Mid
  <2> QED
    BY <2>1, <1>1, <1>6, <1>9 DEF Mid
<1> QED
  BY <1>7, <1>8, <1>9

-----------------------------------------------------------------------------
(* The files.                                                              *)

Generations == [inode : Inodes, bytes : Seq(Bytes)]

LEMMA NewestIs ==
    ASSUME NEW fs \in Seq(Generations), NEW h \in DOMAIN fs
    PROVE  /\ NewestOf(fs, fs[h].inode) \in DOMAIN fs
           /\ fs[NewestOf(fs, fs[h].inode)].inode = fs[h].inode
           /\ h <= NewestOf(fs, fs[h].inode)
           /\ \A k \in DOMAIN fs : fs[k].inode = fs[h].inode => k <= NewestOf(fs, fs[h].inode)
<1> DEFINE x == fs[h].inode
           T == {k \in DOMAIN fs : fs[k].inode = x}
<1>1. Len(fs) \in Nat /\ DOMAIN fs = 1..Len(fs)
  BY LenProperties
<1>2. T \in SUBSET (0..Len(fs)) /\ T # {}
  BY <1>1
<1>3. PICK m \in T : \A k \in T : k <= m
  BY <1>1, <1>2, Greatest
<1> HIDE DEF x
<1>4. \E g \in DOMAIN fs : fs[g].inode = x /\ \A k \in DOMAIN fs : fs[k].inode = x => k <= g
  BY <1>3
<1>5. /\ NewestOf(fs, x) \in DOMAIN fs /\ fs[NewestOf(fs, x)].inode = x
      /\ \A k \in DOMAIN fs : fs[k].inode = x => k <= NewestOf(fs, x)
  BY <1>4 DEF NewestOf
<1> QED
  BY <1>5 DEF x

LEMMA LastIsNewest ==
    ASSUME NEW fs \in Seq(Generations), Len(fs) # 0
    PROVE  NewestOf(fs, fs[Len(fs)].inode) = Len(fs)
<1>1. Len(fs) \in DOMAIN fs /\ DOMAIN fs = 1..Len(fs) /\ Len(fs) \in Nat
  BY LenProperties
<1>2. /\ NewestOf(fs, fs[Len(fs)].inode) \in DOMAIN fs
      /\ Len(fs) <= NewestOf(fs, fs[Len(fs)].inode)
  BY <1>1, NewestIs
<1> QED
  BY <1>1, <1>2

LEMMA SameNewest ==
    ASSUME NEW fs, NEW gs, NEW x, DOMAIN fs = DOMAIN gs,
           \A h \in DOMAIN fs : fs[h].inode = gs[h].inode
    PROVE  NewestOf(fs, x) = NewestOf(gs, x)
<1>1. \A g \in DOMAIN fs :
        (fs[g].inode = x /\ \A h \in DOMAIN fs : fs[h].inode = x => h <= g)
        <=> (gs[g].inode = x /\ \A h \in DOMAIN gs : gs[h].inode = x => h <= g)
  OBVIOUS
<1> QED
  BY <1>1 DEF NewestOf

LEMMA FileIs ==
    ASSUME TypeOK, FilesSound, NEW g \in DOMAIN files
    PROVE  /\ files[g] \in Generations
           /\ files[g].bytes \in Seq(Bytes) /\ files[g].inode \in Inodes
           /\ Len(files[g].bytes) \in 0..MaxBytes /\ Size(g) = Len(files[g].bytes)
           /\ g \in Nat \ {0} /\ g <= Len(files) /\ Marked(files[g].bytes, g)
           /\ DOMAIN files = 1..Len(files) /\ Len(files) \in Nat
<1>1. files[g] \in Generations
  BY ElementOfSeq, LenProperties DEF TypeOK, Generations
<1>2. DOMAIN files = 1..Len(files) /\ Len(files) \in Nat
  BY LenProperties DEF TypeOK
<1>3. Len(files[g].bytes) \in Nat
  BY <1>1, LenProperties DEF Generations
<1>4. files[g].bytes \in Seq(Bytes) /\ files[g].inode \in Inodes
  BY <1>1 DEF Generations
<1>5. Len(files[g].bytes) <= MaxBytes /\ Marked(files[g].bytes, g)
  BY DEF FilesSound
<1>6. Len(files[g].bytes) \in 0..MaxBytes
  BY <1>3, <1>5, FollowerAssumption
<1>7. g \in Nat \ {0} /\ g <= Len(files)
  BY <1>2
<1> QED
  BY <1>1, <1>2, <1>4, <1>5, <1>6, <1>7 DEF Size

(* The cursor is a state of the splitting.                                 *)
LEMMA CursorIs ==
    ASSUME TypeOK
    PROVE  /\ Cursor \in Splits /\ Cursor.pending = pending /\ Cursor.discard = discard
           /\ Cursor.lines = lines /\ Cursor.errors = errors
  BY DEF TypeOK, Cursor, Splits

-----------------------------------------------------------------------------
(* Initially.                                                              *)

LEMMA InitInvariant == Init => IInv
<1> SUFFICES ASSUME Init PROVE IInv
  OBVIOUS
<1>1. /\ seen = 0 /\ skip = 0 /\ lines = <<>> /\ errors = 0 /\ first = TRUE /\ identity = None
      /\ offset = 0 /\ pending = <<>> /\ discard = FALSE /\ opened = None /\ faults = 0
  BY DEF Init
<1>2. PICK inode \in Inodes, kinds \in Histories, there \in {0, 1} :
          /\ path = there
          /\ files = IF there = 0 THEN <<>>
                     ELSE <<[inode |-> inode,
                             bytes |-> [i \in DOMAIN kinds |->
                                           [gen |-> 1, pos |-> i, kind |-> kinds[i]]]]>>
  BY DEF Init
<1> DEFINE b == [i \in DOMAIN kinds |-> [gen |-> 1, pos |-> i, kind |-> kinds[i]]]
<1>3. kinds \in Seq(Kinds) /\ Len(kinds) \in 0..2
  <2>1. kinds = <<>> \/ kinds = <<"text">> \/ kinds = <<"text", "newline">>
        \/ kinds = <<"newline", "text">>
    BY DEF Histories
  <2>2. "text" \in Kinds /\ "newline" \in Kinds
    BY DEF Kinds
  <2>3. \A x, y \in Kinds :
           /\ <<>> \in Seq(Kinds) /\ <<x>> \in Seq(Kinds) /\ <<x, y>> \in Seq(Kinds)
           /\ Len(<<>>) \in 0..2 /\ Len(<<x>>) \in 0..2 /\ Len(<<x, y>>) \in 0..2
    OBVIOUS
  <2> QED
    BY <2>1, <2>2, <2>3, Zenon
<1>4. MaxBytes \in Nat /\ 2 <= MaxBytes /\ MaxGenerations \in Nat /\ 1 <= MaxGenerations
      /\ MaxFaults \in Nat /\ LineLimit \in Nat
  BY FollowerAssumption
<1>5. /\ b \in Seq(Bytes) /\ Len(b) = Len(kinds)
      /\ \A i \in 1..Len(b) : b[i] = [gen |-> 1, pos |-> i, kind |-> kinds[i]]
  <2>1. DOMAIN kinds = 1..Len(kinds) /\ \A i \in 1..Len(kinds) : kinds[i] \in Kinds
    BY <1>3, LenProperties, ElementOfSeq
  <2>2. \A i \in 1..Len(kinds) : [gen |-> 1, pos |-> i, kind |-> kinds[i]] \in Bytes
    BY <2>1, <1>3, <1>4 DEF Bytes
  <2>3. b = [i \in 1..Len(kinds) |-> [gen |-> 1, pos |-> i, kind |-> kinds[i]]]
    BY <2>1
  <2>4. b \in Seq(Bytes) /\ Len(b) = Len(kinds)
    BY <2>2, <2>3, <1>3, IsASeq
  <2> QED
    BY <2>3, <2>4
<1> HIDE DEF b
<1>6. CASE there = 0
  <2>1. files = <<>> /\ path = 0 /\ Len(files) = 0 /\ DOMAIN files = {}
    BY <1>2, <1>6
  <2>2. files \in Seq([inode : Inodes, bytes : Seq(Bytes)])
    BY <2>1, EmptySeq
  <2>3. lines \in Seq(Seq(Bytes)) /\ pending \in Seq(Bytes)
    BY <1>1, EmptySeq
  <2>5. errors \in 0..MaxBytes /\ offset \in 0..MaxBytes /\ skip \in 0..MaxBytes
        /\ faults \in 0..MaxFaults /\ path \in 0..Len(files) /\ seen \in 0..Len(files)
    BY <1>1, <1>4, <2>1
  <2>4. TypeOK
    BY <1>1, <2>2, <2>3, <2>5 DEF TypeOK
  <2> QED
    BY <1>1, <1>4, <2>1, <2>4
       DEF IInv, FilesSound, CursorSound, Shorter, Followed, Following, Upto
<1>7. CASE there = 1
  <2> DEFINE file == [inode |-> inode, bytes |-> b]
  <2>1. files = <<file>> /\ path = 1
    BY <1>2, <1>7 DEF b
  <2>2. file \in [inode : Inodes, bytes : Seq(Bytes)]
    BY <1>5
  <2>3. files \in Seq([inode : Inodes, bytes : Seq(Bytes)]) /\ Len(files) = 1
        /\ DOMAIN files = {1} /\ files[1].bytes = b
    BY <2>1, <2>2
  <2>4. lines \in Seq(Seq(Bytes)) /\ pending \in Seq(Bytes)
    BY <1>1, EmptySeq
  <2>7. errors \in 0..MaxBytes /\ offset \in 0..MaxBytes /\ skip \in 0..MaxBytes
        /\ faults \in 0..MaxFaults /\ path \in 0..Len(files) /\ seen \in 0..Len(files)
    BY <1>1, <1>4, <2>1, <2>3
  <2>5. TypeOK
    BY <1>1, <2>3, <2>4, <2>7 DEF TypeOK
  <2>8. Len(b) <= MaxBytes
    BY <1>3, <1>4, <1>5
  <2>9. Marked(b, 1)
    <3>1. \A i \in 1..Len(b) : b[i].gen = 1 /\ b[i].pos = i
      <4> SUFFICES ASSUME NEW i \in 1..Len(b) PROVE b[i].gen = 1 /\ b[i].pos = i
        OBVIOUS
      <4>1. b[i] = [gen |-> 1, pos |-> i, kind |-> kinds[i]]
        BY <1>5
      <4> QED
        BY <4>1
    <3> QED
      BY <3>1 DEF Marked
  <2>6. FilesSound
    BY <1>4, <2>1, <2>3, <2>8, <2>9 DEF FilesSound
  <2> QED
    BY <1>1, <1>4, <2>1, <2>5, <2>6
       DEF IInv, CursorSound, Shorter, Followed, Following, Upto
<1> QED
  BY <1>6, <1>7

-----------------------------------------------------------------------------
(* The surroundings.                                                       *)

LEMMA PathIs ==
    ASSUME TypeOK, FilesSound, path # 0
    PROVE  /\ path = Len(files) /\ path \in DOMAIN files /\ path \in Nat
           /\ NewestOf(files, files[path].inode) = path
<1>1. path = Len(files) /\ Len(files) \in Nat /\ DOMAIN files = 1..Len(files)
  BY LenProperties DEF TypeOK, FilesSound
<1>2. files \in Seq(Generations)
  BY DEF TypeOK, Generations
<1> QED
  BY <1>1, <1>2, LastIsNewest

LEMMA SeenIs ==
    ASSUME TypeOK, FilesSound, CursorSound
    PROVE  /\ seen \in Nat /\ seen <= Len(files) /\ offset \in Nat /\ skip \in Nat
           /\ seen # 0 => seen \in DOMAIN files
<1>1. Len(files) \in Nat /\ DOMAIN files = 1..Len(files)
  BY LenProperties DEF TypeOK
<1> QED
  BY <1>1, FollowerAssumption DEF TypeOK

(* An opened file has an inode that some generation has.                   *)
LEMMA OpenedIs ==
    ASSUME TypeOK, FilesSound, CursorSound, Shorter, opened # None
    PROVE  /\ seen # 0 /\ opened = identity /\ files[seen].inode = opened
           /\ NewestOf(files, opened) \in DOMAIN files
           /\ files[NewestOf(files, opened)].inode = opened
           /\ seen <= NewestOf(files, opened)
<1>1. seen # 0 /\ opened = identity
  BY DEF Shorter
<1>2. seen \in DOMAIN files /\ files[seen].inode = opened
  BY <1>1, SeenIs DEF CursorSound
<1>3. files \in Seq(Generations)
  BY DEF TypeOK, Generations
<1> QED
  BY <1>1, <1>2, <1>3, NewestIs

LEMMA UnlinkKeeps ==
    ASSUME IInv, Unlink
    PROVE  IInv'
<1>1. /\ path' = 0 /\ UNCHANGED <<files, opened, faults, seen, skip, lines, errors>>
      /\ UNCHANGED <<first, identity, offset, pending, discard>>
  BY DEF Unlink, cursor, history
<1>2. TypeOK'
  <2>1. 0 \in 0..Len(files)
    BY LenProperties DEF IInv, TypeOK
  <2> QED
    BY <1>1, <2>1 DEF IInv, TypeOK
<1>3. FilesSound'
  BY <1>1 DEF IInv, FilesSound
<1>4. CursorSound'
  BY <1>1 DEF IInv, CursorSound
<1>5. Shorter'
  BY <1>1 DEF IInv, Shorter
<1>6. Followed'
  BY <1>1 DEF IInv, Followed, Following, Live, Cursor
<1> QED
  BY <1>2, <1>3, <1>4, <1>5, <1>6 DEF IInv

LEMMA UnreadableKeeps ==
    ASSUME IInv, Unreadable
    PROVE  IInv'
<1>1. /\ opened' = None /\ faults' = faults + 1 /\ faults < MaxFaults
      /\ UNCHANGED <<files, path, seen, skip, lines, errors>>
      /\ UNCHANGED <<first, identity, offset, pending, discard>>
  BY DEF Unreadable, cursor, history
<1>2. TypeOK'
  <2>1. faults + 1 \in 0..MaxFaults
    BY <1>1, FollowerAssumption DEF IInv, TypeOK
  <2> QED
    BY <1>1, <2>1 DEF IInv, TypeOK
<1>3. FilesSound'
  BY <1>1 DEF IInv, FilesSound
<1>4. CursorSound'
  BY <1>1 DEF IInv, CursorSound
<1>5. Shorter'
  BY <1>1 DEF IInv, Shorter
<1>6. Followed'
  BY <1>1 DEF IInv, Followed, Following, Live, Cursor
<1> QED
  BY <1>2, <1>3, <1>4, <1>5, <1>6 DEF IInv

(* Where reading began, nothing has been counted.                          *)
LEMMA CountedFresh ==
    ASSUME NEW b, NEW from \in Nat
    PROVE  Counted(0, b, from, from)
<1>1. Over(b, from, from) = {} /\ Cardinality({}) = 0
  BY NoLines, FS_EmptySet
<1>2. Begin(b, from + 1) \in 1..(from + 1)
  <2>1. from + 1 \in Nat \ {0}
    OBVIOUS
  <2> QED
    BY <2>1, BeginIs
<1>3. ~(Begin(b, from + 1) > from /\ (from + 1) - Begin(b, from + 1) > LineLimit)
  BY <1>2, FollowerAssumption
<1> QED
  BY <1>1, <1>3 DEF Counted

LEMMA MissingKeeps ==
    ASSUME IInv, Missing
    PROVE  IInv'
<1>1. /\ opened = None /\ path = 0 /\ first' = FALSE
      /\ UNCHANGED <<files, path, opened, faults, seen, skip, lines, errors>>
      /\ UNCHANGED <<identity, offset, pending, discard>>
  BY DEF Missing, history
<1>2. TypeOK'
  BY <1>1 DEF IInv, TypeOK
<1>3. FilesSound'
  BY <1>1 DEF IInv, FilesSound
<1>4. CursorSound'
  BY <1>1 DEF IInv, CursorSound
<1>5. Shorter'
  BY <1>1 DEF IInv, Shorter
<1>6. Followed'
  <2>1. CASE ~first
    BY <1>1, <2>1 DEF IInv, Followed, Following, Live, Cursor
  <2>2. CASE first
    <3>1. lines = <<>> /\ errors = 0 /\ skip = offset /\ offset \in Nat
      BY <2>2, SeenIs DEF IInv, CursorSound
    <3> DEFINE b == files[seen].bytes
    <3>2. Counted(errors, b, skip, offset)
      BY <3>1, CountedFresh
    <3>3. Returned(lines, b, seen, skip, offset)
      <4>1. Whole(b, offset, offset) = {}
        BY <3>1, NoLines
      <4>2. Of(lines, seen) = {}
        BY <3>1 DEF Of
      <4> QED
        BY <3>1, <4>1, <4>2 DEF Returned
    <3>4. ~Live \/ seen = 0
      BY <1>1 DEF Live
    <3> QED
      BY <1>1, <3>2, <3>3, <3>4 DEF Followed, Following, Live
  <2> QED
    BY <2>1, <2>2
<1> QED
  BY <1>2, <1>3, <1>4, <1>5, <1>6 DEF IInv

LEMMA NewGenerationKeeps ==
    ASSUME IInv, NEW inode \in Inodes, NewGeneration(inode)
    PROVE  IInv'
<1> DEFINE file == [inode |-> inode, bytes |-> <<>>]
           N == Len(files)
<1>1. /\ N < MaxGenerations /\ files' = Append(files, file) /\ path' = N + 1
      /\ UNCHANGED <<opened, faults, seen, skip, lines, errors>>
      /\ UNCHANGED <<first, identity, offset, pending, discard>>
  BY DEF NewGeneration, cursor, history
<1>2. N \in Nat /\ DOMAIN files = 1..N /\ files \in Seq(Generations)
  BY LenProperties DEF IInv, TypeOK, Generations
<1>3. file \in Generations
  BY EmptySeq DEF Generations
<1>4. /\ files' \in Seq(Generations) /\ Len(files') = N + 1 /\ files'[N + 1] = file
      /\ \A g \in 1..N : files'[g] = files[g]
      /\ DOMAIN files' = 1..(N + 1)
  <2>1. /\ Append(files, file) \in Seq(Generations) /\ Len(Append(files, file)) = N + 1
        /\ \A g \in 1..N : Append(files, file)[g] = files[g]
        /\ Append(files, file)[N + 1] = file
    BY <1>2, <1>3, AppendProperties
  <2> QED
    BY <1>1, <2>1, LenProperties
<1>5. file.bytes = <<>> /\ file.inode = inode /\ Len(<<>>) = 0
  BY EmptySeq
<1> HIDE DEF file, N
<1>6. TypeOK'
  <2>1. files' \in Seq([inode : Inodes, bytes : Seq(Bytes)])
    BY <1>4 DEF Generations
  <2>2. path' \in 0..Len(files') /\ seen \in 0..Len(files')
    BY <1>1, <1>2, <1>4 DEF IInv, TypeOK, N
  <2> QED
    BY <1>1, <2>1, <2>2 DEF IInv, TypeOK
<1>7. FilesSound'
  <2>1. ASSUME NEW g \in DOMAIN files'
        PROVE  Len(files'[g].bytes) <= MaxBytes /\ Marked(files'[g].bytes, g)
    <3>1. CASE g \in 1..N
      BY <3>1, <1>2, <1>4 DEF IInv, FilesSound
    <3>2. CASE g = N + 1
      BY <3>2, <1>4, <1>5, FollowerAssumption DEF Marked
    <3> QED
      BY <3>1, <3>2, <1>2, <1>4
  <2>2. Len(files') <= MaxGenerations
    BY <1>1, <1>2, <1>4, FollowerAssumption
  <2> QED
    BY <1>1, <1>4, <2>1, <2>2 DEF FilesSound
<1>8. seen \in Nat /\ seen <= N /\ offset \in Nat /\ skip \in Nat
      /\ (seen # 0 => seen \in 1..N /\ files'[seen] = files[seen])
  BY <1>2, <1>4, SeenIs DEF IInv, N
<1>9. CursorSound'
  BY <1>1, <1>8 DEF IInv, CursorSound
<1>10. ASSUME opened # None
       PROVE  \/ NewestOf(files', opened) = N + 1
              \/ NewestOf(files', opened) = NewestOf(files, opened)
                   /\ files'[NewestOf(files', opened)] = files[NewestOf(files, opened)]
  <2>1. /\ seen # 0 /\ files[seen].inode = opened
        /\ NewestOf(files, opened) \in DOMAIN files
        /\ files[NewestOf(files, opened)].inode = opened
    BY <1>10, OpenedIs DEF IInv
  <2>2. files'[seen].inode = opened /\ seen \in DOMAIN files' /\ seen \in DOMAIN files
    BY <1>2, <1>4, <1>8, <2>1
  <2> DEFINE old == NewestOf(files, opened)
             new == NewestOf(files', opened)
  <2>3. /\ new \in DOMAIN files' /\ files'[new].inode = opened
        /\ \A k \in DOMAIN files' : files'[k].inode = opened => k <= new
    BY <1>4, <2>2, NewestIs
  <2>4. \A k \in DOMAIN files : files[k].inode = opened => k <= old
    BY <1>2, <2>1, <2>2, NewestIs
  <2> HIDE DEF old, new
  <2>5. CASE new \in 1..N
    <3>1. new <= old
      BY <2>3, <2>4, <2>5, <1>2, <1>4
    <3>2. old <= new
      BY <2>1, <2>3, <1>2, <1>4 DEF old
    <3>3. old = new
      BY <3>1, <3>2, <2>1, <2>5, <1>2 DEF old
    <3> QED
      BY <3>3, <1>4, <2>5 DEF old, new
  <2>6. CASE new = N + 1
    BY <2>6 DEF new
  <2> QED
    BY <2>3, <2>5, <2>6, <1>2, <1>4
<1>11. Shorter'
  <2>1. offset > 0 => Len(files'[N + 1].bytes) < offset
    BY <1>4, <1>5, <1>8
  <2>2. opened # None =>
          /\ opened = identity /\ seen # 0
          /\ offset > 0 /\ seen # NewestOf(files, opened)
                => Len(files[NewestOf(files, opened)].bytes) < offset
    BY DEF IInv, Shorter
  <2> QED
    BY <1>1, <1>10, <2>1, <2>2 DEF Shorter
<1>12. Live' /\ seen # 0 => Live
  BY <1>1, <1>2, <1>8, <1>10 DEF Live
<1>13. Followed'
  BY <1>1, <1>8, <1>12 DEF IInv, Followed, Following, Cursor
<1> QED
  BY <1>6, <1>7, <1>9, <1>11, <1>13 DEF IInv

LEMMA AppendKeeps ==
    ASSUME IInv, AppendByte
    PROVE  IInv'
<1>1. /\ path # 0 /\ Size(path) < MaxBytes /\ ~WouldHide
      /\ UNCHANGED <<path, opened, faults, seen, skip, lines, errors>>
      /\ UNCHANGED <<first, identity, offset, pending, discard>>
  BY DEF AppendByte, cursor, history
<1>2. PICK kind \in Kinds : Grow(kind)
  BY DEF AppendByte
<1> DEFINE b == files[path].bytes
           byte == [gen |-> path, pos |-> Size(path) + 1, kind |-> kind]
           c == Append(b, byte)
<1>3. /\ path = Len(files) /\ path \in DOMAIN files /\ path \in Nat
      /\ NewestOf(files, files[path].inode) = path
  BY <1>1, PathIs DEF IInv
<1>4. /\ files[path] \in Generations /\ b \in Seq(Bytes) /\ files[path].inode \in Inodes
      /\ Len(b) \in 0..MaxBytes /\ Size(path) = Len(b) /\ Marked(b, path)
      /\ DOMAIN files = 1..Len(files) /\ Len(files) \in Nat
  BY <1>3, FileIs DEF IInv
<1>5. byte \in Bytes
  <2>1. path \in 1..MaxGenerations
    BY <1>1, <1>3, FollowerAssumption DEF IInv, FilesSound
  <2>2. Size(path) + 1 \in 1..MaxBytes
    BY <1>1, <1>4, FollowerAssumption
  <2> QED
    BY <2>1, <2>2, <1>2 DEF Bytes
<1>6. byte.gen = path /\ byte.pos = Len(b) + 1
  BY <1>4
<1> HIDE DEF byte
<1>7. /\ c \in Seq(Bytes) /\ Len(c) = Len(b) + 1 /\ c[Len(b) + 1] = byte
      /\ \A i \in 1..Len(b) : c[i] = b[i]
  BY <1>4, <1>5, AppendProperties
<1>8. files' = [files EXCEPT ![path].bytes = c]
  BY <1>2 DEF Grow, byte
<1> HIDE DEF b, c
<1>9. /\ files' \in Seq(Generations) /\ Len(files') = Len(files) /\ DOMAIN files' = DOMAIN files
      /\ files'[path].bytes = c /\ files'[path].inode = files[path].inode
      /\ \A g \in DOMAIN files : g # path => files'[g] = files[g]
  <2>1. files \in Seq(Generations)
    BY DEF IInv, TypeOK, Generations
  <2>5. files' = [files EXCEPT ![path] = [files[path] EXCEPT !.bytes = c]]
    BY <1>8
  <2>6. [files[path] EXCEPT !.bytes = c] = [inode |-> files[path].inode, bytes |-> c]
    BY <1>4 DEF Generations
  <2>2. files' = [files EXCEPT ![path] = [inode |-> files[path].inode, bytes |-> c]]
    BY <2>5, <2>6
  <2>3. [inode |-> files[path].inode, bytes |-> c] \in Generations
    BY <1>4, <1>7 DEF Generations
  <2>4. files' \in Seq(Generations) /\ Len(files') = Len(files)
    BY <2>1, <2>2, <2>3, <1>3, <1>4, ExceptSeq
  <2> QED
    BY <2>2, <2>4, <1>3
<1>10. \A g \in DOMAIN files : files'[g].inode = files[g].inode
  BY <1>9
<1>11. \A x : NewestOf(files', x) = NewestOf(files, x)
  BY <1>9, <1>10, SameNewest
<1>12. TypeOK'
  <2>1. files' \in Seq([inode : Inodes, bytes : Seq(Bytes)])
    BY <1>9 DEF Generations
  <2> QED
    BY <1>1, <1>9, <2>1 DEF IInv, TypeOK
<1>13. Marked(c, path)
  <2>1. \A i \in 1..Len(c) : i \in 1..Len(b) \/ i = Len(b) + 1
    BY <1>4, <1>7
  <2> QED
    BY <2>1, <1>4, <1>6, <1>7 DEF Marked
<1>14. FilesSound'
  <2>1. ASSUME NEW g \in DOMAIN files'
        PROVE  Len(files'[g].bytes) <= MaxBytes /\ Marked(files'[g].bytes, g)
    <3>1. CASE g = path
      <4>1. Len(c) <= MaxBytes
        BY <1>1, <1>4, <1>7, FollowerAssumption
      <4> QED
        BY <3>1, <4>1, <1>9, <1>13
    <3>2. CASE g # path
      BY <3>2, <1>9 DEF IInv, FilesSound
    <3> QED
      BY <3>1, <3>2
  <2> QED
    BY <1>1, <1>9, <2>1 DEF IInv, FilesSound
<1>15. seen \in Nat /\ offset \in Nat /\ skip \in Nat /\ (seen # 0 => seen \in DOMAIN files)
  BY SeenIs DEF IInv
<1>16. ASSUME seen # 0
       PROVE  /\ files[seen].bytes \in Seq(Bytes) /\ files'[seen].bytes \in Seq(Bytes)
              /\ offset <= Len(files[seen].bytes)
              /\ Len(files[seen].bytes) <= Len(files'[seen].bytes)
              /\ \A j \in 1..Len(files[seen].bytes) : files'[seen].bytes[j] = files[seen].bytes[j]
  <2>1. /\ files[seen].bytes \in Seq(Bytes) /\ offset <= Len(files[seen].bytes)
        /\ Len(files[seen].bytes) \in Nat
    BY <1>15, <1>16, FileIs, LenProperties DEF IInv, CursorSound
  <2>2. CASE seen = path
    BY <2>1, <2>2, <1>4, <1>7, <1>9 DEF b
  <2>3. CASE seen # path
    BY <2>1, <2>3, <1>9, <1>15, <1>16
  <2> QED
    BY <2>2, <2>3
<1>17. CursorSound'
  <2>1. seen # 0 => files'[seen].inode = files[seen].inode
    BY <1>10, <1>15
  <2>2. seen # 0 => offset <= Len(files'[seen].bytes)
    <3> SUFFICES ASSUME seen # 0 PROVE offset <= Len(files'[seen].bytes)
      OBVIOUS
    <3>1. Len(files[seen].bytes) \in Nat /\ Len(files'[seen].bytes) \in Nat
      BY <1>16, LenProperties
    <3> QED
      BY <3>1, <1>15, <1>16
  <2> QED
    BY <1>1, <2>1, <2>2 DEF IInv, CursorSound
<1>18. Shorter'
  <2>1. Len(b) + 1 >= offset => ~(identity = files[path].inode /\ seen # path /\ offset > 0)
    BY <1>1, <1>4 DEF WouldHide
  <2>2. identity = files[path].inode /\ seen # path /\ offset > 0 => Len(c) < offset
    BY <2>1, <1>4, <1>7, <1>15
  <2>3. opened # None =>
          /\ opened = identity /\ seen # 0 /\ files[NewestOf(files, opened)].inode = opened
          /\ NewestOf(files, opened) \in DOMAIN files
          /\ offset > 0 /\ seen # NewestOf(files, opened)
                => Len(files[NewestOf(files, opened)].bytes) < offset
    BY OpenedIs DEF IInv, Shorter
  <2>4. opened # None /\ offset > 0 /\ seen # NewestOf(files, opened)
           => Len(files'[NewestOf(files, opened)].bytes) < offset
    <3>1. CASE NewestOf(files, opened) = path
      BY <3>1, <2>2, <2>3, <1>9
    <3>2. CASE NewestOf(files, opened) # path
      BY <3>2, <2>3, <1>9
    <3> QED
      BY <3>1, <3>2
  <2> QED
    BY <1>1, <1>9, <1>11, <2>2, <2>3, <2>4 DEF Shorter
<1>19. Live' => Live
  BY <1>1, <1>11 DEF Live
<1>20. Followed'
  <2> SUFFICES ASSUME Following PROVE Followed'
    BY <1>1 DEF Followed, Following
  <2>1. seen # 0
    BY DEF Following
  <2>2. /\ Returned(lines, files[seen].bytes, seen, skip, offset)
        /\ Counted(errors, files[seen].bytes, skip, offset)
        /\ Live => Mid(Cursor, files[seen].bytes, seen, skip, offset)
    BY DEF IInv, Followed
  <2>3. /\ files[seen].bytes \in Seq(Bytes) /\ files'[seen].bytes \in Seq(Bytes)
        /\ offset <= Len(files[seen].bytes) /\ offset <= Len(files'[seen].bytes)
        /\ \A j \in 1..offset : files[seen].bytes[j] = files'[seen].bytes[j]
    <3>1. Len(files[seen].bytes) \in Nat /\ Len(files'[seen].bytes) \in Nat
      BY <1>16, <2>1, LenProperties
    <3> QED
      BY <3>1, <1>15, <1>16, <2>1
  <2>4. /\ Returned(lines, files'[seen].bytes, seen, skip, offset)
        /\ Counted(errors, files'[seen].bytes, skip, offset)
        /\ Live => Mid(Cursor, files'[seen].bytes, seen, skip, offset)
    BY <2>2, <2>3, <1>15, Prefix
  <2>5. Cursor' = Cursor
    BY <1>1 DEF Cursor
  <2> QED
    BY <1>1, <1>19, <2>4, <2>5 DEF Followed
<1> QED
  BY <1>12, <1>14, <1>17, <1>18, <1>20 DEF IInv

-----------------------------------------------------------------------------
(* poll, up to fstat and the comparison with the cursor.                   *)

(* A generation of which nothing has been read or skipped.                 *)
LEMMA FreshStart ==
    ASSUME NEW b \in Seq(Bytes), NEW g \in Nat, NEW ls \in Seq(Seq(Bytes)),
           \A n \in DOMAIN ls : Last(ls[n]).gen # g
    PROVE  /\ Mid([pending |-> <<>>, discard |-> FALSE, lines |-> ls, errors |-> 0], b, g, 0, 0)
           /\ Returned(ls, b, g, 0, 0)
           /\ Counted(0, b, 0, 0)
<1> DEFINE s == [pending |-> <<>>, discard |-> FALSE, lines |-> ls, errors |-> 0]
<1>1. s \in Splits
  BY EmptySeq DEF Splits
<1>2. /\ s.pending = <<>> /\ s.errors = 0 /\ s.lines = ls /\ ~s.discard
      /\ 0 \in Nat /\ 0 <= Len(b) /\ Len(<<>>) <= LineLimit
  BY LenProperties, EmptySeq, FollowerAssumption
<1> HIDE DEF s
<1>3. Mid(s, b, g, 0, 0)
  BY <1>1, <1>2, MidFresh
<1>4. Returned(s.lines, b, g, 0, 0) /\ Counted(s.errors, b, 0, 0)
  BY <1>1, <1>2, <1>3, MidCounts
<1> QED
  BY <1>2, <1>3, <1>4 DEF s

LEMMA OpenFirstKeeps ==
    ASSUME IInv, Open, OpenFirst
    PROVE  IInv'
<1> DEFINE b == files[path].bytes
<1>1. /\ opened = None /\ path # 0 /\ first
      /\ identity' = files[path].inode /\ seen' = path /\ errors' = 0
      /\ UNCHANGED <<lines, faults, files, path, pending, discard>>
      /\ offset' = Size(path) /\ skip' = Size(path)
  BY DEF Open, OpenFirst, Identified
<1>2. IF Size(path) = 0 THEN first' = FALSE /\ opened' = None
      ELSE opened' = files[path].inode /\ first' = first
  BY <1>1 DEF OpenFirst
<1>3. /\ path = Len(files) /\ path \in DOMAIN files /\ path \in Nat
      /\ NewestOf(files, files[path].inode) = path
  BY <1>1, PathIs DEF IInv
<1>4. /\ b \in Seq(Bytes) /\ files[path].inode \in Inodes
      /\ Len(b) \in 0..MaxBytes /\ Size(path) = Len(b)
  BY <1>3, FileIs DEF IInv
<1>5. lines = <<>> /\ pending = <<>> /\ ~discard /\ discard \in BOOLEAN /\ first \in BOOLEAN
  BY <1>1 DEF IInv, CursorSound, TypeOK
<1>6. Len(pending) = 0 /\ DOMAIN lines = {} /\ LineLimit \in Nat /\ 0 \in 0..MaxBytes
  BY <1>5, EmptySeq, FollowerAssumption
<1>7. TypeOK'
  <2>1. path \in 0..Len(files)
    BY DEF IInv, TypeOK
  <2>2. first' \in BOOLEAN /\ opened' \in Inodes \union {None}
    BY <1>2, <1>4, <1>5
  <2> QED
    BY <1>1, <1>4, <1>6, <2>1, <2>2 DEF IInv, TypeOK
<1>8. FilesSound'
  BY <1>1 DEF IInv, FilesSound
<1>9. CursorSound'
  <2>1. first' => (opened' # None => offset' > 0)
    BY <1>1, <1>2, <1>4
  <2> QED
    BY <1>1, <1>4, <1>5, <1>6, <2>1 DEF CursorSound, Upto
<1>10. Shorter'
  <2>1. opened' # None => opened' = files[path].inode
    BY <1>2
  <2> QED
    BY <1>1, <1>3, <2>1 DEF Shorter
<1>11. Followed'
  <2>1. CASE Size(path) = 0
    <3>1. Cursor' = [pending |-> <<>>, discard |-> FALSE, lines |-> <<>>, errors |-> 0]
      BY <1>1, <1>5 DEF Cursor
    <3>2. /\ Mid(Cursor', b, path, 0, 0) /\ Returned(<<>>, b, path, 0, 0) /\ Counted(0, b, 0, 0)
      <4>1. lines \in Seq(Seq(Bytes)) /\ \A n \in DOMAIN lines : Last(lines[n]).gen # path
        BY <1>5, <1>6, EmptySeq
      <4> QED
        BY <4>1, <3>1, <1>3, <1>4, <1>5, FreshStart
    <3> QED
      BY <3>2, <1>1, <1>5, <2>1 DEF Followed
  <2>2. CASE Size(path) # 0
    BY <1>1, <1>2, <2>2 DEF Followed, Following
  <2> QED
    BY <2>1, <2>2
<1> QED
  BY <1>7, <1>8, <1>9, <1>10, <1>11 DEF IInv

(* Lines come from generations the cursor has been about, and those are    *)
(* older than one it has not.                                              *)
LEMMA NoLinesYet ==
    ASSUME IInv, path # 0, seen # path \/ offset = 0
    PROVE  \A n \in DOMAIN lines : Last(lines[n]).gen # path /\ Last(lines[n]).gen <= path
                                     /\ lines[n] # <<>>
<1>1. path = Len(files) /\ path \in Nat /\ seen \in Nat /\ seen <= Len(files)
  BY PathIs, SeenIs DEF IInv
<1>2. ASSUME NEW n \in DOMAIN lines
      PROVE  Last(lines[n]).gen # path /\ Last(lines[n]).gen <= path /\ lines[n] # <<>>
  <2>1. lines[n] # <<>> /\ Last(lines[n]).gen <= seen
    BY DEF IInv, CursorSound, Upto
  <2>2. Last(lines[n]).gen \in Nat
    <3>1. lines[n] \in Seq(Bytes)
      BY ElementOfSeq, LenProperties DEF IInv, TypeOK
    <3>2. Len(lines[n]) \in 1..Len(lines[n])
      <4>1. Len(lines[n]) \in Nat /\ Len(lines[n]) # 0
        BY <2>1, <3>1, EmptySeq, LenProperties
      <4> QED
        BY <4>1
    <3>3. Last(lines[n]) \in Bytes
      BY <3>1, <3>2, ElementOfSeq DEF Last
    <3> QED
      BY <3>3, FollowerAssumption DEF Bytes
  <2>3. CASE offset = 0 /\ seen = path
    BY <2>1, <2>3, <1>1 DEF IInv, CursorSound
  <2>4. CASE seen # path
    BY <2>1, <2>2, <2>4, <1>1
  <2> QED
    BY <2>3, <2>4
<1> QED
  BY <1>2

LEMMA OpenReplacedKeeps ==
    ASSUME IInv, Open, OpenReplaced
    PROVE  IInv'
<1> DEFINE b == files[path].bytes
<1>1. /\ opened = None /\ path # 0 /\ ~first /\ Replaced
      /\ identity' = files[path].inode /\ seen' = path /\ errors' = 0
      /\ UNCHANGED <<lines, faults, files, path, first>>
      /\ offset' = 0 /\ skip' = 0 /\ pending' = <<>> /\ discard' = FALSE
      /\ opened' = files[path].inode
  BY DEF Open, OpenReplaced, Identified
<1>2. /\ path = Len(files) /\ path \in DOMAIN files /\ path \in Nat
      /\ NewestOf(files, files[path].inode) = path
  BY <1>1, PathIs DEF IInv
<1>3. /\ b \in Seq(Bytes) /\ files[path].inode \in Inodes
      /\ Len(b) \in 0..MaxBytes /\ Size(path) = Len(b)
  BY <1>2, FileIs DEF IInv
<1>4. seen # path
  <2>1. SUFFICES ASSUME seen = path PROVE FALSE
    OBVIOUS
  <2>2. identity = files[path].inode /\ offset <= Len(b) /\ offset \in Nat
    BY <1>1, <2>1, SeenIs DEF IInv, CursorSound
  <2> QED
    BY <1>1, <1>3, <2>2 DEF Replaced
<1>5. \A n \in DOMAIN lines : Last(lines[n]).gen # path /\ Last(lines[n]).gen <= path
                                /\ lines[n] # <<>>
  BY <1>1, <1>4, NoLinesYet
<1>6. Len(<<>>) = 0 /\ LineLimit \in Nat /\ 0 \in 0..MaxBytes /\ <<>> \in Seq(Bytes)
  BY EmptySeq, FollowerAssumption
<1>7. TypeOK'
  BY <1>1, <1>3, <1>6 DEF IInv, TypeOK
<1>8. FilesSound'
  BY <1>1 DEF IInv, FilesSound
<1>9. CursorSound'
  BY <1>1, <1>3, <1>5, <1>6 DEF CursorSound, Upto
<1>10. Shorter'
  BY <1>1, <1>2 DEF Shorter
<1>11. Followed'
  <2>1. Cursor' = [pending |-> <<>>, discard |-> FALSE, lines |-> lines, errors |-> 0]
    BY <1>1 DEF Cursor
  <2>2. lines \in Seq(Seq(Bytes))
    BY DEF IInv, TypeOK
  <2>3. /\ Mid(Cursor', b, path, 0, 0) /\ Returned(lines, b, path, 0, 0) /\ Counted(0, b, 0, 0)
    BY <2>1, <2>2, <1>2, <1>3, <1>5, FreshStart
  <2> QED
    BY <2>3, <1>1 DEF Followed
<1> QED
  BY <1>7, <1>8, <1>9, <1>10, <1>11 DEF IInv

LEMMA OpenSameKeeps ==
    ASSUME IInv, Open, OpenSame
    PROVE  IInv'
<1> DEFINE b == files[path].bytes
<1>1. /\ opened = None /\ path # 0 /\ ~first /\ ~Replaced
      /\ opened' = files[path].inode
      /\ seen' = IF offset = 0 THEN path ELSE seen
      /\ UNCHANGED <<first, identity, offset, pending, discard, skip, lines, errors>>
      /\ UNCHANGED <<files, path, faults>>
  BY DEF Open, OpenSame, cursor
<1>2. /\ path = Len(files) /\ path \in DOMAIN files /\ path \in Nat
      /\ NewestOf(files, files[path].inode) = path
  BY <1>1, PathIs DEF IInv
<1>3. /\ b \in Seq(Bytes) /\ files[path].inode \in Inodes
      /\ Len(b) \in 0..MaxBytes /\ Size(path) = Len(b)
  BY <1>2, FileIs DEF IInv
<1>4. offset \in Nat /\ skip \in Nat /\ seen \in Nat /\ skip <= offset
  BY SeenIs DEF IInv, CursorSound
<1>5. identity = files[path].inode /\ offset <= Len(b)
  BY <1>1, <1>3, <1>4 DEF Replaced
<1>6. offset # 0 => seen = path
  <2> SUFFICES ASSUME offset # 0, seen # path PROVE FALSE
    OBVIOUS
  <2>1. seen # 0
    BY <1>4 DEF IInv, CursorSound
  <2>2. Len(b) < offset
    BY <2>1, <1>1, <1>4, <1>5 DEF IInv, Shorter
  <2> QED
    BY <2>2, <1>3, <1>4, <1>5
<1>7. seen' = path
  BY <1>1, <1>6
<1>8. TypeOK'
  BY <1>1, <1>3, <1>7 DEF IInv, TypeOK
<1>9. FilesSound'
  BY <1>1 DEF IInv, FilesSound
<1>10. CursorSound'
  <2>1. CASE offset # 0
    <3>1. seen' = seen
      BY <1>6, <1>7, <2>1
    <3> QED
      BY <1>1, <2>1, <3>1 DEF IInv, CursorSound
  <2>2. CASE offset = 0
    <3>1. \A n \in DOMAIN lines : Last(lines[n]).gen # path /\ Last(lines[n]).gen <= path
                                    /\ lines[n] # <<>>
      BY <1>1, <2>2, NoLinesYet
    <3>2. /\ skip <= offset /\ (discard => pending = <<>>) /\ Len(pending) <= LineLimit
          /\ pending = <<>> /\ ~discard /\ errors = 0
      BY <2>2 DEF IInv, CursorSound
    <3> QED
      BY <1>1, <1>2, <1>5, <1>7, <2>2, <3>1, <3>2 DEF CursorSound, Upto
  <2> QED
    BY <2>1, <2>2
<1>11. Shorter'
  BY <1>1, <1>2, <1>5, <1>7 DEF Shorter
<1>12. Followed'
  <2>1. CASE offset # 0
    <3>1. seen' = seen /\ seen = path
      BY <1>6, <1>7, <2>1
    <3>2. Following /\ Live /\ Cursor' = Cursor
      BY <3>1, <1>1 DEF Following, Live, Cursor
    <3> QED
      BY <1>1, <3>1, <3>2 DEF IInv, Followed
  <2>2. CASE offset = 0
    <3>1. \A n \in DOMAIN lines : Last(lines[n]).gen # path
      BY <1>1, <2>2, NoLinesYet
    <3>2. pending = <<>> /\ ~discard /\ errors = 0 /\ skip = 0 /\ discard \in BOOLEAN
      BY <1>4, <2>2 DEF IInv, CursorSound, TypeOK
    <3>3. Cursor' = [pending |-> <<>>, discard |-> FALSE, lines |-> lines, errors |-> 0]
      BY <1>1, <3>2 DEF Cursor
    <3>4. lines \in Seq(Seq(Bytes))
      BY DEF IInv, TypeOK
    <3>5. /\ Mid(Cursor', b, path, 0, 0) /\ Returned(lines, b, path, 0, 0) /\ Counted(0, b, 0, 0)
      BY <3>1, <3>3, <3>4, <1>2, <1>3, FreshStart
    <3> QED
      BY <3>2, <3>5, <1>1, <1>7, <2>2 DEF Followed
  <2> QED
    BY <2>1, <2>2
<1> QED
  BY <1>8, <1>9, <1>10, <1>11, <1>12 DEF IInv

-----------------------------------------------------------------------------
(* poll, from the read on.                                                 *)

LEMMA ReadLastByteKeeps ==
    ASSUME IInv, ReadLastByte
    PROVE  IInv'
<1> DEFINE g == NewestOf(files, opened)
           b == files[seen].bytes
<1>1. /\ opened # None /\ first /\ first' = FALSE /\ opened' = None
      /\ discard' = ~(offset <= Size(g) /\ files[g].bytes[offset].kind = "newline")
      /\ UNCHANGED <<files, path, identity, offset, pending, faults>>
      /\ UNCHANGED <<seen, skip, lines, errors>>
  BY DEF ReadLastByte, history, Newest, NewestOf
<1>2. /\ seen # 0 /\ opened = identity /\ files[seen].inode = opened
      /\ g \in DOMAIN files /\ files[g].inode = opened
  BY <1>1, OpenedIs DEF IInv
<1>3. /\ seen \in Nat /\ seen \in DOMAIN files /\ offset \in Nat /\ skip = offset /\ offset > 0
      /\ offset <= Len(b) /\ lines = <<>> /\ pending = <<>> /\ errors = 0
  BY <1>1, <1>2, SeenIs DEF IInv, CursorSound
<1>4. b \in Seq(Bytes) /\ Len(b) \in Nat /\ Size(seen) = Len(b)
  BY <1>3, FileIs, LenProperties DEF IInv
<1>5. TypeOK'
  BY <1>1 DEF IInv, TypeOK
<1>6. FilesSound'
  BY <1>1 DEF IInv, FilesSound
<1>7. CursorSound'
  BY <1>1, <1>3 DEF IInv, CursorSound
<1>8. Shorter'
  BY <1>1 DEF IInv, Shorter
<1>9. Followed'
  <2>1. Returned(lines, b, seen, skip, offset)
    <3>1. Whole(b, offset, offset) = {}
      BY <1>3, NoLines
    <3>2. Of(lines, seen) = {}
      BY <1>3 DEF Of
    <3> QED
      BY <1>3, <3>1, <3>2 DEF Returned
  <2>2. Counted(errors, b, skip, offset)
    BY <1>3, CountedFresh
  <2>3. ASSUME path = seen
        PROVE  Mid(Cursor', b, seen, skip, offset)
    <3>1. path # 0 /\ g = path
      BY <1>2, <2>3, PathIs DEF IInv
    <3>2. discard' <=> b[offset].kind # "newline"
      BY <1>1, <1>3, <1>4, <2>3, <3>1
    <3>3. /\ Cursor' \in Splits /\ Cursor'.pending = <<>> /\ Cursor'.errors = 0
          /\ Cursor'.lines = <<>> /\ Cursor'.discard = discard'
      <4>1. discard' \in BOOLEAN /\ pending' = <<>> /\ lines' = <<>> /\ errors' = 0
        BY <1>1, <1>3
      <4>2. Cursor' = [pending |-> <<>>, discard |-> discard', lines |-> <<>>, errors |-> 0]
        BY <4>1 DEF Cursor
      <4> QED
        BY <4>1, <4>2, EmptySeq DEF Splits
    <3>4. \A n \in DOMAIN Cursor'.lines : Last(Cursor'.lines[n]).gen # seen
      BY <3>3
    <3>5. ~Cursor'.discard => offset > 0 /\ b[offset].kind = "newline"
      BY <3>2, <3>3, <1>3
    <3>6. Mid(Cursor', b, seen, offset, offset)
      BY <3>2, <3>3, <3>4, <3>5, <1>3, <1>4, MidFresh
    <3> QED
      BY <3>6, <1>3
  <2>4. Live' => path = seen
    BY <1>1 DEF Live
  <2> QED
    BY <1>1, <2>1, <2>2, <2>3, <2>4 DEF Followed
<1> QED
  BY <1>5, <1>6, <1>7, <1>8, <1>9 DEF IInv

(* The errors of a file are at most its bytes.                             *)
LEMMA CountedBound ==
    ASSUME NEW e, NEW b, NEW from \in Nat, NEW to \in Nat, Counted(e, b, from, to)
    PROVE  e \in 0..to
<1> DEFINE p == Begin(b, to + 1)
           c == Cardinality(Over(b, from, to))
<1>1. /\ p \in 1..(to + 1)
      /\ \A j \in 1..to : b[j].kind = "newline" => j < p
  <2>1. to + 1 \in Nat \ {0} /\ (to + 1) - 1 = to
    OBVIOUS
  <2>2. /\ p \in 1..(to + 1)
        /\ \A j \in 1..((to + 1) - 1) : b[j].kind = "newline" => j < p
    BY <2>1, BeginIs
  <2> QED
    BY <2>1, <2>2
<1>2. IsFiniteSet(Over(b, from, to)) /\ c \in Nat /\ Over(b, from, to) \subseteq 1..to
  BY OverFinite
<1>3. \A n \in Nat : Over(b, from, to) \subseteq 1..n => c <= n
  <2> SUFFICES ASSUME NEW n \in Nat, Over(b, from, to) \subseteq 1..n PROVE c <= n
    OBVIOUS
  <2>1. IsFiniteSet(1..n) /\ Cardinality(1..n) = n
    <3>1. Cardinality(1..n) = IF 1 > n THEN 0 ELSE n - 1 + 1
      BY FS_Interval
    <3> QED
      BY <3>1, FS_Interval
  <2> QED
    BY <2>1, FS_Subset
<1>4. Over(b, from, to) \subseteq 1..(p - 1)
  <2>1. \A i \in Over(b, from, to) : i \in 1..to /\ b[i].kind = "newline"
    BY <1>2 DEF Over
  <2> QED
    BY <2>1, <1>1
<1>5. e = c + (IF p > from /\ (to + 1) - p > LineLimit THEN 1 ELSE 0)
  BY DEF Counted
<1>6. c <= to /\ c <= p - 1
  BY <1>1, <1>2, <1>3, <1>4
<1>7. LineLimit \in Nat /\ LineLimit > 0
  BY FollowerAssumption
<1> HIDE DEF p, c
<1> QED
  BY <1>1, <1>2, <1>5, <1>6, <1>7

LEMMA ReadKeeps ==
    ASSUME IInv, Read
    PROVE  IInv'
<1> DEFINE g == NewestOf(files, opened)
           b == files[g].bytes
           to == After(g)
           r == Pieces(Cursor, SubSeq(b, offset + 1, to))
           s == Limit(r)
<1>1. /\ opened # None /\ ~first /\ opened' = None
      /\ offset' = to /\ pending' = s.pending /\ discard' = s.discard
      /\ lines' = s.lines /\ errors' = s.errors
      /\ seen' = IF offset = 0 THEN g ELSE seen
      /\ UNCHANGED <<files, path, first, identity, skip, faults>>
  <2>1. g = Newest(opened)
    BY DEF Newest, NewestOf
  <2> QED
    BY <2>1 DEF Read, Cursor
<1>2. /\ seen # 0 /\ opened = identity /\ files[seen].inode = opened
      /\ g \in DOMAIN files /\ files[g].inode = opened /\ seen <= g
  BY <1>1, OpenedIs DEF IInv
<1>3. /\ seen \in Nat /\ seen \in DOMAIN files /\ offset \in Nat /\ skip \in Nat
      /\ skip <= offset
  BY <1>2, SeenIs DEF IInv, CursorSound
<1>4. /\ b \in Seq(Bytes) /\ Len(b) \in Nat /\ Len(b) <= MaxBytes /\ Size(g) = Len(b)
      /\ g \in Nat /\ g <= Len(files) /\ Marked(b, g) /\ files[g].inode \in Inodes
  BY <1>2, FileIs, FollowerAssumption DEF IInv
<1>5. /\ to = IF Len(b) <= offset THEN offset
              ELSE IF Len(b) <= offset + ReadLimit THEN Len(b) ELSE offset + ReadLimit
      /\ ReadLimit \in Nat /\ ReadLimit > 0 /\ MaxBytes \in Nat
  BY <1>4, FollowerAssumption DEF After
<1>6. /\ Cursor \in Splits /\ Cursor.pending = pending /\ Cursor.discard = discard
      /\ Cursor.lines = lines /\ Cursor.errors = errors
  BY CursorIs DEF IInv
<1>7. Upto(lines, g)
  <2>1. ASSUME NEW n \in DOMAIN lines
        PROVE  lines[n] # <<>> /\ Last(lines[n]).gen <= g
    <3>1. lines[n] # <<>> /\ Last(lines[n]).gen <= seen
      BY DEF IInv, CursorSound, Upto
    <3>2. Last(lines[n]).gen \in Nat
      <4>1. lines[n] \in Seq(Bytes)
        BY ElementOfSeq, LenProperties DEF IInv, TypeOK
      <4>2. Len(lines[n]) \in 1..Len(lines[n])
        <5>1. Len(lines[n]) \in Nat /\ Len(lines[n]) # 0
          BY <3>1, <4>1, EmptySeq, LenProperties
        <5> QED
          BY <5>1
      <4>3. Last(lines[n]) \in Bytes
        BY <4>1, <4>2, ElementOfSeq DEF Last
      <4> QED
        BY <4>3, FollowerAssumption DEF Bytes
    <3> QED
      BY <3>1, <3>2, <1>2, <1>3, <1>4
  <2> QED
    BY <2>1 DEF Upto
<1>8. FilesSound'
  BY <1>1 DEF IInv, FilesSound
<1>9. path = g \/ path = 0 \/ identity # files[path].inode
  BY <1>2, PathIs DEF IInv
<1> HIDE DEF r, s
<1>10. ASSUME offset = 0 \/ seen = g
       PROVE  IInv'
  <2>1. seen' = g
    BY <1>1, <1>10
  <2>2. offset <= Len(b)
    BY <1>3, <1>4, <1>10 DEF IInv, CursorSound
  <2>3. to \in Nat /\ offset <= to /\ to <= Len(b) /\ skip <= to /\ (to = 0 => offset = 0 /\ Len(b) = 0)
    BY <2>2, <1>3, <1>4, <1>5
  <2>4. Mid(Cursor, b, g, skip, offset)
    <3>1. CASE offset = 0
      <4>1. /\ pending = <<>> /\ ~discard /\ errors = 0 /\ skip = 0 /\ discard \in BOOLEAN
        BY <3>1, <1>3 DEF IInv, CursorSound, TypeOK
      <4>2. Cursor = [pending |-> <<>>, discard |-> FALSE, lines |-> lines, errors |-> 0]
        BY <4>1 DEF Cursor
      <4>3. lines \in Seq(Seq(Bytes))
        BY DEF IInv, TypeOK
      <4>4. \A n \in DOMAIN lines : Last(lines[n]).gen # g
        <5>1. CASE seen = g
          BY <3>1, <5>1 DEF IInv, CursorSound
        <5>2. CASE seen # g
          <6>1. ASSUME NEW n \in DOMAIN lines
                PROVE  Last(lines[n]).gen # g
            <7>1. Last(lines[n]).gen <= seen /\ seen < g
              BY <5>2, <1>2, <1>3, <1>4 DEF IInv, CursorSound, Upto
            <7> QED
              BY <7>1, <1>3, <1>4
          <6> QED
            BY <6>1
        <5> QED
          BY <5>1, <5>2
      <4> QED
        BY <4>1, <4>2, <4>3, <4>4, <3>1, <1>4, FreshStart
    <3>2. CASE seen = g
      <4>1. Following /\ Live
        BY <1>1, <1>2, <3>2 DEF Following, Live
      <4> QED
        BY <3>2, <4>1 DEF IInv, Followed
    <3> QED
      BY <1>10, <3>1, <3>2
  <2>5. r \in Splits /\ Mid(r, b, g, skip, to) /\ Upto(r.lines, g)
    BY <2>2, <2>3, <2>4, <1>3, <1>4, <1>6, <1>7, ChunkKeeps DEF r
  <2>6. /\ s \in Splits /\ s.lines = r.lines /\ (s.discard => s.pending = <<>>)
        /\ Len(s.pending) <= LineLimit
    BY <2>5, LimitIs DEF s
  <2>7. Mid(s, b, g, skip, to)
    BY <2>3, <2>5, <1>3, <1>4, LimitKeeps DEF s
  <2>8. Returned(s.lines, b, g, skip, to) /\ Counted(s.errors, b, skip, to)
    BY <2>3, <2>6, <2>7, <1>3, <1>4, MidCounts
  <2>9. /\ s.pending \in Seq(Bytes) /\ s.discard \in BOOLEAN
        /\ s.lines \in Seq(Seq(Bytes)) /\ s.errors \in 0..to
    BY <2>3, <2>6, <2>8, <1>3, CountedBound DEF Splits
  <2>10. TypeOK'
    <3>1. offset' \in 0..MaxBytes /\ errors' \in 0..MaxBytes /\ seen' \in 0..Len(files)
      BY <2>1, <2>3, <2>9, <1>1, <1>4, <1>5
    <3> QED
      BY <3>1, <2>9, <1>1 DEF IInv, TypeOK
  <2>11. CursorSound'
    <3>1. to = 0 => s.pending = <<>> /\ ~s.discard /\ s.errors = 0
                      /\ \A n \in DOMAIN s.lines : Last(s.lines[n]).gen # g
      <4> SUFFICES ASSUME to = 0
                   PROVE  s.pending = <<>> /\ ~s.discard /\ s.errors = 0
                            /\ \A n \in DOMAIN s.lines : Last(s.lines[n]).gen # g
        OBVIOUS
      <4>1. offset = 0 /\ skip = 0
        BY <2>3, <1>3
      <4>2. Begin(b, 0 + 1) = 1
        BY BeginFirst
      <4>3. s.errors = 0
        BY <2>9
      <4>4. ~s.discard
        <5>1. SUFFICES ASSUME s.discard PROVE FALSE
          OBVIOUS
        <5>2. Cardinality(Over(b, 0, 0)) = 0
          BY NoLines, FS_EmptySet
        <5> QED
          BY <5>1, <5>2, <4>1, <4>2, <4>3, <2>7 DEF Mid
      <4>5. s.pending = SubSeq(b, 1, 0)
        BY <4>1, <4>2, <4>4, <2>7 DEF Mid
      <4>6. SubSeq(b, 1, 0) = <<>>
        <5>1. 1 \in Int /\ 0 \in Int /\ 1 > 0
          OBVIOUS
        <5> QED
          BY <5>1, SubSeqEmpty
      <4>7. \A n \in DOMAIN s.lines : Last(s.lines[n]).gen # g
        <5>1. Whole(b, 0, 0) = {}
          BY NoLines
        <5>2. {Last(s.lines[n]).pos : n \in Of(s.lines, g)} = {}
          BY <5>1, <4>1, <2>8 DEF Returned
        <5>3. Of(s.lines, g) = {}
          BY <5>2
        <5> QED
          BY <5>3 DEF Of
      <4> QED
        BY <4>3, <4>4, <4>5, <4>6, <4>7
    <3> QED
      BY <3>1, <2>1, <2>3, <2>5, <2>6, <1>1, <1>2, <1>4 DEF CursorSound
  <2>12. Shorter'
    BY <2>1, <1>1, <1>9 DEF Shorter
  <2>13. Followed'
    <3>1. Cursor' = s
      <4>1. s = [pending |-> s.pending, discard |-> s.discard, lines |-> s.lines,
                 errors |-> s.errors]
        BY <2>6 DEF Splits
      <4> QED
        BY <4>1, <1>1 DEF Cursor
    <3> QED
      BY <3>1, <2>1, <2>7, <2>8, <1>1 DEF Followed
  <2> QED
    BY <2>10, <2>11, <2>12, <2>13, <1>8 DEF IInv
<1>11. ASSUME offset # 0, seen # g
       PROVE  IInv'
  <2>1. Len(b) < offset
    BY <1>1, <1>3, <1>11 DEF IInv, Shorter
  <2>2. to = offset
    BY <2>1, <1>3, <1>4, <1>5
  <2>3. SubSeq(b, offset + 1, to) = <<>>
    <3>1. offset + 1 \in Int /\ offset \in Int /\ offset + 1 > offset
      BY <1>3
    <3> QED
      BY <2>2, <3>1, SubSeqEmpty
  <2>4. r = Cursor
    <3>1. DOMAIN <<>> = 1..0 /\ 0 \in Nat
      BY EmptySeq
    <3>2. PICK f : Folded(Cursor, <<>>, 0, f) /\ Pieces(Cursor, <<>>) = f[1..0]
      BY <3>1, FoldLeftIs
    <3>3. 1..0 = {} /\ {} \in SUBSET (1..0)
      OBVIOUS
    <3> QED
      BY <2>3, <3>2, <3>3 DEF Folded, r
  <2>5. /\ (discard => pending = <<>>) /\ Len(pending) <= LineLimit /\ discard \in BOOLEAN
    BY DEF IInv, CursorSound, TypeOK
  <2>6. s = Cursor
    BY <2>4, <2>5, <1>6, LimitIs DEF s
  <2>7. UNCHANGED <<files, path, first, identity, offset, pending, discard,
                    seen, skip, lines, errors, faults>>
    BY <2>2, <2>6, <1>1, <1>6, <1>11
  <2>8. TypeOK'
    BY <2>7, <1>1 DEF IInv, TypeOK
  <2>9. CursorSound'
    BY <2>7, <1>1 DEF IInv, CursorSound
  <2>10. Shorter'
    BY <2>7, <1>1 DEF IInv, Shorter
  <2>11. Followed'
    BY <2>7, <1>1 DEF IInv, Followed, Following, Live, Cursor
  <2> QED
    BY <2>8, <2>9, <2>10, <2>11, <1>8 DEF IInv
<1> QED
  BY <1>10, <1>11

-----------------------------------------------------------------------------
(* All steps together.                                                     *)

LEMMA StepKeeps == IInv /\ [Next]_vars => IInv'
<1> SUFFICES ASSUME IInv, [Next]_vars PROVE IInv'
  OBVIOUS
<1>1. CASE AppendByte
  BY <1>1, AppendKeeps
<1>2. CASE Truncate
  <2>1. path # 0 /\ NewGeneration(files[path].inode)
    BY <1>2 DEF Truncate
  <2>2. files[path].inode \in Inodes
    BY <2>1, PathIs, FileIs DEF IInv
  <2> QED
    BY <2>1, <2>2, NewGenerationKeeps
<1>3. CASE Replace
  BY <1>3, NewGenerationKeeps DEF Replace
<1>4. CASE Unlink
  BY <1>4, UnlinkKeeps
<1>5. CASE Open
  BY <1>5, OpenFirstKeeps, OpenReplacedKeeps, OpenSameKeeps DEF Open
<1>6. CASE Missing
  BY <1>6, MissingKeeps
<1>7. CASE ReadLastByte
  BY <1>7, ReadLastByteKeeps
<1>8. CASE Read
  BY <1>8, ReadKeeps
<1>9. CASE Unreadable
  BY <1>9, UnreadableKeeps
<1>10. CASE UNCHANGED vars
  <2>1. UNCHANGED <<files, path, first, identity, offset, pending, discard, opened,
                    seen, skip, lines, errors, faults>>
    BY <1>10 DEF vars, cursor, history
  <2>2. TypeOK' /\ FilesSound'
    BY <2>1 DEF IInv, TypeOK, FilesSound
  <2>3. CursorSound' /\ Shorter'
    BY <2>1 DEF IInv, CursorSound, Shorter
  <2>4. Followed'
    BY <2>1 DEF IInv, Followed, Following, Live, Cursor
  <2> QED
    BY <2>2, <2>3, <2>4 DEF IInv
<1> QED
  BY <1>1, <1>2, <1>3, <1>4, <1>5, <1>6, <1>7, <1>8, <1>9, <1>10 DEF Next, Poll

LEMMA InvariantHolds == Spec => []IInv
<1> QED
  BY InitInvariant, StepKeeps, PTL DEF Spec

(* The cursor stays inside what a generation can hold, and what it keeps   *)
(* are bytes of files: the fields of the class and of one poll.            *)
THEOREM FollowerTyped == Spec => []TypeOK
<1>1. IInv => TypeOK
  BY DEF IInv
<1> QED
  BY <1>1, InvariantHolds, PTL

(* Whatever the writer does to the file that the class says it can bear,   *)
(* however large the chunks are and whichever polls fail: each complete    *)
(* line of the file that is followed is returned whole, once and in order, *)
(* or counted as too long, and nothing else is.                            *)
THEOREM LinesOnce == Spec => []EachLineOnce
<1>1. IInv => EachLineOnce
  <2> SUFFICES ASSUME IInv, Following PROVE EachLineOnce
    BY DEF EachLineOnce, LinesReturned, RejectedOnce
  <2> DEFINE b == files[seen].bytes
  <2>1. /\ seen \in DOMAIN files /\ offset \in Nat /\ skip \in Nat /\ offset <= Len(b)
        /\ b \in Seq(Bytes) /\ Len(b) \in Nat
    BY SeenIs, FileIs, LenProperties DEF IInv, CursorSound, Following
  <2>2. Returned(lines, b, seen, skip, offset) /\ Counted(errors, b, skip, offset)
    BY DEF IInv, Followed
  <2>3. \A i : BeginsAt(seen, i) = Begin(b, i)
    BY DEF BeginsAt, Begin
  <2>4. \A i : LineAt(seen, i) = SubSeq(b, Begin(b, i), i)
    BY <2>3 DEF LineAt
  <2>5. ASSUME NEW i \in 1..offset
        PROVE  Fits(Front(LineAt(seen, i))) <=> i - Begin(b, i) <= LineLimit
    <3> DEFINE p == Begin(b, i)
               line == SubSeq(b, p, i)
    <3>1. p \in 1..i
      <4>1. i \in Nat \ {0}
        BY <2>1
      <4> QED
        BY <4>1, BeginIs
    <3>2. line \in Seq(Bytes) /\ Len(line) = (i + 1) - p
      <4>1. p \in Nat \ {0} /\ i \in Nat /\ p <= i + 1 /\ i <= Len(b)
        BY <3>1, <2>1
      <4> QED
        BY <4>1, <2>1, SubSeqIs
    <3> HIDE DEF p, line
    <3>3. Len(SubSeq(line, 1, Len(line) - 1)) = i - p
      <4>1. /\ 1 \in Nat \ {0} /\ Len(line) - 1 \in Nat /\ 1 <= (Len(line) - 1) + 1
            /\ Len(line) - 1 <= Len(line) /\ ((Len(line) - 1) + 1) - 1 = i - p
        BY <3>1, <3>2, <2>1
      <4> QED
        BY <4>1, <3>2, SubSeqIs
    <3>4. LineAt(seen, i) = line
      BY <2>4 DEF line, p
    <3> QED
      BY <3>3, <3>4 DEF Fits, Front, p
  <2>6. LineLimit \in Nat /\ \A i \in 1..offset : Begin(b, i) \in 1..i
    <3>1. \A i \in 1..offset : i \in Nat \ {0}
      BY <2>1
    <3> QED
      BY <3>1, BeginIs, FollowerAssumption
  <2>7. \A i \in (skip + 1)..offset : i \in 1..offset
    BY <2>1
  <2>8. Ends(seen, TRUE) = Whole(b, skip, offset)
    BY <2>3, <2>5, <2>7 DEF Ends, Newlines, Whole
  <2>9. Ends(seen, FALSE) = Over(b, skip, offset)
    <3>1. \A i \in 1..offset : ~(i - Begin(b, i) <= LineLimit) <=> i - Begin(b, i) > LineLimit
      BY <2>6
    <3> QED
      BY <3>1, <2>3, <2>5, <2>7 DEF Ends, Newlines, Over
  <2>10. LinesReturned
    BY <2>2, <2>4, <2>8 DEF LinesReturned, Returned, Of
  <2>11. RejectedOnce
    <3>1. Len(pending) <= LineLimit
      BY DEF IInv, CursorSound
    <3>2. Cardinality(Ends(seen, FALSE)) = Cardinality(Over(b, skip, offset))
      BY <2>9
    <3>3. TooLong(seen) <=>
             Begin(b, offset + 1) > skip /\ (offset + 1) - Begin(b, offset + 1) > LineLimit
      BY <2>3 DEF TooLong
    <3>4. errors = Cardinality(Over(b, skip, offset))
                     + (IF Begin(b, offset + 1) > skip
                           /\ (offset + 1) - Begin(b, offset + 1) > LineLimit THEN 1 ELSE 0)
      BY <2>2 DEF Counted
    <3>5. errors = Cardinality(Ends(seen, FALSE)) + (IF TooLong(seen) THEN 1 ELSE 0)
      BY <3>2, <3>3, <3>4
    <3> QED
      BY <3>1, <3>5 DEF RejectedOnce
  <2> QED
    BY <2>10, <2>11 DEF EachLineOnce
<1> QED
  BY <1>1, InvariantHolds, PTL
=============================================================================
