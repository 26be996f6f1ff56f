------------------------ MODULE SecurityDetectorProofs ------------------------
(***************************************************************************)
(* Proofs about the detector as Monitor runs it: what it observes and the  *)
(* baselines it keeps follow from the log, whatever the bounded tables had *)
(* to give up; and Monitor's types and bounds.                             *)
(*                                                                         *)
(* The invariants are about the log as history.  The table of sources      *)
(* holds the addresses used last, in the order of their last use           *)
(* (ByLastUse), and whoever is not in it was used too long ago or before   *)
(* as many others as it holds (ForgottenRightly).  What an entry remembers *)
(* are the latest of the failures that count (Remembers), with times and   *)
(* users as logged.  A series averages its latest samples (Averaged): one  *)
(* sample more changes the weights of all, and SampleAdds says that the    *)
(* sums change as the code changes mean and variance.                      *)
(***************************************************************************)
EXTENDS MonitorProofs

-----------------------------------------------------------------------------
(* The history, for any log lg.                                            *)

Known(e) == IsEvent(e.line) /\ NormalizedEvent(e.line).ip # None
Who(e) == NormalizedEvent(e.line).ip
Fails(e) == IsFailure(NormalizedEvent(e.line))
UsersOf(lg, S) == {NormalizedEvent(lg[i].line).user : i \in S} \ {None}
Fact(e) == [at |-> e.at, user |-> NormalizedEvent(e.line).user]

Uses(lg) == {i \in DOMAIN lg : Known(lg[i])}
Mine(lg, ip) == {i \in Uses(lg) : Who(lg[i]) = ip}
LastUse(lg, ip, i) == i \in Mine(lg, ip) /\ \A j \in Mine(lg, ip) : j <= i

(* Who was seen at the places of M.                                        *)
Seers(lg, M) == {Who(lg[m]) : m \in M}

(* What came between place k and the use of the address before it.         *)
Gap(lg, ip, k) == {m \in Uses(lg) : m < k /\ \A j \in Mine(lg, ip) : j < k => j < m}
Losses(lg, ip) ==
    {k \in Mine(lg, ip) : Cardinality(Seers(lg, Gap(lg, ip, k))) >= max_sources}

(* The failures of an address that count at time t: FailuresFor, of the    *)
(* whole of a log.                                                         *)
Counting(lg, ip, t) ==
    {i \in Mine(lg, ip) : /\ t - lg[i].at < Window /\ Fails(lg[i])
                          /\ \A k \in Losses(lg, ip) : k <= i}

(* FailuresFor of place n of a log: what counted when that line came.      *)
FailuresAt(lg, n) == Counting(SubSeq(lg, 1, n), Who(lg[n]), lg[n].at)

LogSound(lg, now) ==
    /\ IsSeq(lg)
    /\ \A i \in DOMAIN lg : lg[i].at \in Nat /\ lg[i].at <= now
    /\ \A i, j \in DOMAIN lg : i <= j => lg[i].at <= lg[j].at

-----------------------------------------------------------------------------
(* The table of sources, against the history.                              *)

(* f lists the places of S, in order; fs is what is remembered of them.    *)
ListedBy(f, fs, S, lg) ==
    /\ f \in [1..Len(fs) -> S]
    /\ \A k, m \in 1..Len(fs) : k < m => f[k] < f[m]
    /\ \A i \in S : \E k \in 1..Len(fs) : f[k] = i
    /\ \A k \in 1..Len(fs) : fs[k] = Fact(lg[f[k]])

(* S are the latest of F.                                                  *)
LatestOf(S, F) == S \subseteq F /\ \A i \in S, j \in F : i <= j => j \in S

(* fs remembers the latest failures of F, all of them or as many as fit.   *)
Remembers(fs, F, lg) ==
    /\ IsSeq(fs) /\ Len(fs) <= max_failures
    /\ \E S \in SUBSET F :
          /\ LatestOf(S, F)
          /\ S # F => Len(fs) = max_failures
          /\ \E f \in [1..Len(fs) -> S] : ListedBy(f, fs, S, lg)

(* A failure of the address was given up, or none was.                     *)
Truncated(until, lg, ip) ==
    until = 0 \/ \E i \in Mine(lg, ip) :
        /\ Fails(lg[i]) /\ until = lg[i].at + Window
        /\ Cardinality(FailuresAt(lg, i)) > max_failures

(* What the entry does not remember of F is told for a window.             *)
GivenUp(until, lg, F) == \A j \in F \ Latest(F) : lg[j].at + Window <= until

SourceSound(st, lg, t) ==
    /\ st = [key |-> st.key, last_seen |-> st.last_seen, failures |-> st.failures,
             truncated_until |-> st.truncated_until]
    /\ \E i \in Mine(lg, st.key) : LastUse(lg, st.key, i) /\ st.last_seen = lg[i].at
    /\ Remembers(st.failures, Counting(lg, st.key, t), lg)
    /\ Truncated(st.truncated_until, lg, st.key)
    /\ GivenUp(st.truncated_until, lg, Counting(lg, st.key, t))

(* In the order of their last use, and whoever was used after one that is  *)
(* in the table is in it.                                                  *)
ByLastUse(d, lg) ==
    \A p \in DOMAIN d : \A i \in Mine(lg, d[p].key), j \in Uses(lg) :
        LastUse(lg, d[p].key, i) /\ LastUse(lg, Who(lg[j]), j) /\ i < j =>
            \E q \in DOMAIN d : d[q].key = Who(lg[j]) /\ p < q

(* Whoever is not in the table was last used too long ago, or before as    *)
(* many others as the table holds.                                         *)
ForgottenRightly(d, lg, t) ==
    \A i \in Uses(lg) :
        LastUse(lg, Who(lg[i]), i) =>
            \/ HasKey(d, Who(lg[i]))
            \/ t - lg[i].at >= Window
            \/ Cardinality(Seers(lg, {m \in Uses(lg) : m > i})) >= max_sources

SourcesSound(d, lg, t) ==
    /\ IsSeq(d) /\ Distinct(d) /\ Len(d) <= max_sources
    /\ \A p \in DOMAIN d : SourceSound(d[p], lg, t)
    /\ ByLastUse(d, lg) /\ ForgottenRightly(d, lg, t)

DetectorSound ==
    /\ LogSound(log, clock)
    /\ \E t \in 0..clock : SourcesSound(sources, log, t)

-----------------------------------------------------------------------------
(* What Kept leaves of a sequence when it keeps all from some place on.    *)

From(d, m, n, r) ==
    /\ IsSeq(r) /\ Len(r) = IF n <= m THEN 0 ELSE n - m
    /\ \A i \in 1..Len(r) : r[i] = d[m + i]

LEMMA KeptFrom ==
    ASSUME NEW d, IsSeq(d), NEW S, NEW m \in Nat, m <= Len(d),
           \A k \in 1..Len(d) : k \in S <=> m < k
    PROVE  /\ IsSeq(Kept(d, S)) /\ Len(Kept(d, S)) = Len(d) - m
           /\ \A i \in 1..(Len(d) - m) : Kept(d, S)[i] = d[m + i]
<1>1. Len(d) \in Nat
  BY SeqIs
<1> DEFINE f == CHOOSE f : KeptBy(d, S, Len(d), f)
<1>2. KeptBy(d, S, Len(d), f)
  BY <1>1, KeptExists
<1>3. Kept(d, S) = f[Len(d)]
  BY DEF Kept, KeptBy
<1> HIDE DEF f
<1> DEFINE N == {n \in Nat : n <= Len(d) => From(d, m, n, f[n])}
<1>4. 0 \in N
  <2>1. 0 \in 0..Len(d) /\ 1..0 = {} /\ 0 <= m
    BY <1>1
  <2>2. f[0] = <<>>
    BY <1>2, <2>1 DEF KeptBy
  <2>3. From(d, m, 0, <<>>)
    BY <2>1, EmptyIs DEF From
  <2> QED
    BY <2>2, <2>3
<1>5. ASSUME NEW n \in N
      PROVE  n + 1 \in N
  <2> SUFFICES ASSUME n + 1 <= Len(d) PROVE From(d, m, n + 1, f[n + 1])
    OBVIOUS
  <2>1. n \in Nat /\ n <= Len(d) /\ n + 1 \in 0..Len(d) /\ n + 1 \in 1..Len(d)
        /\ n + 1 # 0 /\ (n + 1) - 1 = n
    BY <1>1
  <2>2. From(d, m, n, f[n])
    BY <2>1
  <2>3. f[n + 1] = IF n + 1 \in S THEN Append(f[n], d[n + 1]) ELSE f[n]
    BY <1>2, <2>1 DEF KeptBy
  <2> HIDE DEF N
  <2>4. CASE n + 1 <= m
    <3>1. f[n + 1] = f[n] /\ n <= m
      BY <2>1, <2>3, <2>4
    <3> QED
      BY <3>1, <2>2, <2>4 DEF From
  <2>5. CASE ~(n + 1 <= m)
    <3>1. f[n + 1] = Append(f[n], d[n + 1])
      BY <2>1, <2>3, <2>5
    <3>2. IsSeq(f[n]) /\ Len(f[n]) = n - m /\ \A i \in 1..(n - m) : f[n][i] = d[m + i]
      BY <2>1, <2>2, <2>5 DEF From
    <3> DEFINE r == f[n]
               g == Append(r, d[n + 1])
    <3>3. IsSeq(g) /\ Len(g) = (n - m) + 1 /\ g[(n - m) + 1] = d[n + 1]
          /\ \A i \in 1..(n - m) : g[i] = d[m + i]
      BY <3>2, AppendIs
    <3> HIDE DEF g
    <3>4. (n - m) + 1 = (n + 1) - m /\ m + ((n - m) + 1) = n + 1
          /\ \A i \in 1..((n + 1) - m) : i \in 1..(n - m) \/ i = (n - m) + 1
      BY <2>1, <2>5
    <3>5. From(d, m, n + 1, g)
      BY <3>3, <3>4, <2>5 DEF From
    <3> QED
      BY <3>1, <3>5 DEF g
  <2> QED
    BY <2>4, <2>5
<1>6. N = Nat
  BY <1>4, <1>5, Induction
<1>7. From(d, m, Len(d), f[Len(d)])
  BY <1>1, <1>6
<1>8. (IF Len(d) <= m THEN 0 ELSE Len(d) - m) = Len(d) - m
  BY <1>1
<1> QED
  BY <1>3, <1>7, <1>8 DEF From

-----------------------------------------------------------------------------
(* One line more in the log.                                               *)

LEMMA LogGrows ==
    ASSUME NEW lg, IsSeq(lg), NEW e
    PROVE  LET more == Append(lg, e)
               n == Len(lg) + 1
           IN  /\ n \in Nat \ {0} /\ DOMAIN lg \subseteq Nat
               /\ IsSeq(more) /\ Len(more) = n /\ more[n] = e
               /\ DOMAIN more = DOMAIN lg \union {n}
               /\ \A i \in DOMAIN lg : i < n /\ more[i] = lg[i]
               /\ n \notin DOMAIN lg
<1>1. Len(lg) \in Nat /\ DOMAIN lg = 1..Len(lg)
  BY SeqIs
<1>2. 1..(Len(lg) + 1) = (1..Len(lg)) \union {Len(lg) + 1}
      /\ \A i \in 1..Len(lg) : i < Len(lg) + 1
      /\ Len(lg) + 1 \notin 1..Len(lg)
  BY <1>1
<1> QED
  BY <1>1, <1>2, AppendIs

LEMMA UsesGrow ==
    ASSUME NEW lg, IsSeq(lg), NEW e
    PROVE  LET more == Append(lg, e)
               n == Len(lg) + 1
           IN  /\ Uses(lg) \subseteq Nat /\ \A i \in Uses(lg) : i < n
               /\ Known(e) => Uses(more) = Uses(lg) \union {n}
               /\ ~Known(e) => Uses(more) = Uses(lg)
<1> DEFINE more == Append(lg, e)
           n == Len(lg) + 1
<1>1. /\ DOMAIN lg \subseteq Nat /\ more[n] = e
      /\ DOMAIN more = DOMAIN lg \union {n}
      /\ \A i \in DOMAIN lg : i < n /\ more[i] = lg[i]
  BY LogGrows
<1> HIDE DEF more, n
<1> QED
  BY <1>1 DEF Uses, more, n

LEMMA MineGrows ==
    ASSUME NEW lg, IsSeq(lg), NEW e, NEW ip
    PROVE  LET more == Append(lg, e)
               n == Len(lg) + 1
           IN  /\ Mine(lg, ip) \subseteq Uses(lg) /\ Uses(lg) \subseteq DOMAIN lg
               /\ Known(e) /\ Who(e) = ip => Mine(more, ip) = Mine(lg, ip) \union {n}
               /\ ~Known(e) \/ Who(e) # ip => Mine(more, ip) = Mine(lg, ip)
<1> DEFINE more == Append(lg, e)
           n == Len(lg) + 1
<1>1. /\ DOMAIN lg \subseteq Nat /\ more[n] = e
      /\ \A i \in DOMAIN lg : i < n /\ more[i] = lg[i]
  BY LogGrows
<1>2. /\ Known(e) => Uses(more) = Uses(lg) \union {n}
      /\ ~Known(e) => Uses(more) = Uses(lg)
  BY UsesGrow
<1> HIDE DEF more, n
<1>3. Uses(lg) \subseteq DOMAIN lg
  BY DEF Uses
<1> QED
  BY <1>1, <1>2, <1>3 DEF Mine, more, n

LEMMA SeersGrow ==
    ASSUME NEW lg, IsSeq(lg), NEW e, NEW M \in SUBSET DOMAIN lg
    PROVE  Seers(Append(lg, e), M) = Seers(lg, M)
<1>1. \A i \in DOMAIN lg : Append(lg, e)[i] = lg[i]
  BY LogGrows
<1> QED
  BY <1>1 DEF Seers

LEMMA LossesGrow ==
    ASSUME NEW lg, IsSeq(lg), NEW e, NEW ip, NEW k \in Mine(lg, ip)
    PROVE  k \in Losses(Append(lg, e), ip) <=> k \in Losses(lg, ip)
<1> DEFINE more == Append(lg, e)
           n == Len(lg) + 1
<1>1. /\ Uses(lg) \subseteq Nat /\ \A i \in Uses(lg) : i < n
      /\ Uses(more) = Uses(lg) \union {n} \/ Uses(more) = Uses(lg)
  BY UsesGrow
<1>2. /\ Mine(lg, ip) \subseteq Uses(lg) /\ Uses(lg) \subseteq DOMAIN lg
      /\ Mine(more, ip) = Mine(lg, ip) \union {n} \/ Mine(more, ip) = Mine(lg, ip)
  BY MineGrows
<1>3. n \in Nat
  BY LogGrows
<1>4. Gap(more, ip, k) = Gap(lg, ip, k)
  <2>1. k \in Nat /\ k < n /\ ~(n < k)
    BY <1>1, <1>2, <1>3
  <2> HIDE DEF more, n
  <2> QED
    BY <2>1, <1>1, <1>2 DEF Gap
<1>5. Gap(lg, ip, k) \in SUBSET DOMAIN lg
  BY <1>2 DEF Gap
<1>6. Seers(more, Gap(lg, ip, k)) = Seers(lg, Gap(lg, ip, k))
  BY <1>5, SeersGrow
<1>7. k \in Mine(more, ip)
  BY <1>2
<1> HIDE DEF more, n
<1> QED
  BY <1>4, <1>6, <1>7 DEF Losses, more

(* What counts for an address does not change with a line of another.      *)
LEMMA CountingStays ==
    ASSUME NEW lg, IsSeq(lg), NEW e, NEW ip, NEW t, ~Known(e) \/ Who(e) # ip
    PROVE  Counting(Append(lg, e), ip, t) = Counting(lg, ip, t)
<1> DEFINE more == Append(lg, e)
<1>1. /\ Mine(lg, ip) \subseteq DOMAIN lg /\ Mine(more, ip) = Mine(lg, ip)
  BY MineGrows
<1>2. \A i \in DOMAIN lg : more[i] = lg[i]
  BY LogGrows
<1>3. \A k \in Mine(lg, ip) : k \in Losses(more, ip) <=> k \in Losses(lg, ip)
  BY LossesGrow
<1>4. Losses(more, ip) = Losses(lg, ip)
  BY <1>1, <1>3 DEF Losses
<1> HIDE DEF more
<1> QED
  BY <1>1, <1>2, <1>4 DEF Counting, more

(* With one of its own it is what counted and, if it failed, the new one,  *)
(* or that alone.                                                          *)
LEMMA CountingGrows ==
    ASSUME NEW lg, IsSeq(lg), NEW e, NEW t \in Nat, Known(e), e.at = t
    PROVE  LET more == Append(lg, e)
               n == Len(lg) + 1
               own == {i \in {n} : Fails(e)}
           IN  /\ n \notin Losses(more, Who(e)) =>
                     Counting(more, Who(e), t) = Counting(lg, Who(e), t) \union own
               /\ n \in Losses(more, Who(e)) => Counting(more, Who(e), t) = own
<1> DEFINE more == Append(lg, e)
           n == Len(lg) + 1
           ip == Who(e)
<1>1. /\ Mine(lg, ip) \subseteq DOMAIN lg /\ Mine(more, ip) = Mine(lg, ip) \union {n}
  BY MineGrows
<1>2. /\ n \in Nat /\ DOMAIN lg \subseteq Nat /\ more[n] = e
      /\ \A i \in DOMAIN lg : i < n /\ more[i] = lg[i]
      /\ n \notin DOMAIN lg
  BY LogGrows
<1>3. \A k \in Mine(lg, ip) : k \in Losses(more, ip) <=> k \in Losses(lg, ip)
  BY LossesGrow
<1>4. Losses(lg, ip) \subseteq Mine(lg, ip) /\ Losses(more, ip) \subseteq Mine(more, ip)
  BY DEF Losses
<1>5. t - more[n].at < Window
  BY <1>2, DetectorAssumption
<1> HIDE DEF more, n, ip
<1>6. \A k \in Losses(more, ip) : k <= n
  BY <1>1, <1>2, <1>4
<1>7. ASSUME n \notin Losses(more, ip)
      PROVE  Counting(more, ip, t) = Counting(lg, ip, t) \union {i \in {n} : Fails(e)}
  <2>1. Losses(more, ip) = Losses(lg, ip)
    BY <1>1, <1>3, <1>4, <1>7
  <2> QED
    BY <2>1, <1>1, <1>2, <1>5, <1>6 DEF Counting
<1>8. ASSUME n \in Losses(more, ip)
      PROVE  Counting(more, ip, t) = {i \in {n} : Fails(e)}
  <2>1. \A i \in Mine(lg, ip) : ~(n <= i)
    BY <1>1, <1>2
  <2> QED
    BY <2>1, <1>1, <1>2, <1>5, <1>6, <1>8 DEF Counting
<1> QED
  BY <1>7, <1>8 DEF more, n, ip

-----------------------------------------------------------------------------
(* What counted when a line came.                                          *)

LEMMA UpToIs ==
    ASSUME NEW lg, IsSeq(lg), NEW n \in DOMAIN lg
    PROVE  LET sub == SubSeq(lg, 1, n)
           IN  /\ IsSeq(sub) /\ Len(sub) = n /\ n \in Nat
               /\ DOMAIN sub = {i \in DOMAIN lg : i <= n}
               /\ \A i \in DOMAIN sub : sub[i] = lg[i]
<1> DEFINE sub == SubSeq(lg, 1, n)
<1>1. Len(lg) \in Nat /\ DOMAIN lg = 1..Len(lg)
  BY SeqIs
<1>2. n \in Nat \ {0} /\ n <= Len(lg) /\ 1 <= n + 1 /\ (n + 1) - 1 = n
      /\ \A i \in Int : (1 - 1) + i = i
  BY <1>1
<1>3. IsSeq(sub) /\ Len(sub) = (n + 1) - 1
      /\ \A i \in 1..((n + 1) - 1) : sub[i] = lg[(1 - 1) + i]
  BY <1>2, SubSeqIs
<1> HIDE DEF sub
<1>4. DOMAIN sub = 1..n
  BY <1>2, <1>3, SeqIs
<1>5. 1..n = {i \in 1..Len(lg) : i <= n}
  BY <1>1, <1>2
<1>6. \A i \in 1..n : sub[i] = lg[i]
  BY <1>2, <1>3
<1> QED
  BY <1>1, <1>2, <1>3, <1>4, <1>5, <1>6 DEF sub

LEMMA FailuresStay ==
    ASSUME NEW lg, IsSeq(lg), NEW e, NEW n \in DOMAIN lg
    PROVE  FailuresAt(Append(lg, e), n) = FailuresAt(lg, n)
<1> DEFINE more == Append(lg, e)
           s == SubSeq(more, 1, n)
           r == SubSeq(lg, 1, n)
<1>1. /\ IsSeq(more) /\ n \in DOMAIN more /\ DOMAIN lg \subseteq DOMAIN more
      /\ \A i \in DOMAIN lg : more[i] = lg[i]
  BY LogGrows
<1> HIDE DEF more
<1>2. /\ IsSeq(r) /\ Len(r) = n /\ n \in Nat
      /\ \A i \in DOMAIN r : i \in DOMAIN lg /\ r[i] = lg[i]
  BY UpToIs
<1>3. /\ IsSeq(s) /\ Len(s) = n
      /\ \A i \in DOMAIN s : s[i] = more[i]
  BY <1>1, UpToIs
<1> HIDE DEF r, s
<1>4. DOMAIN r = 1..n /\ DOMAIN s = 1..n
  BY <1>2, <1>3, SeqIs
<1>5. \A i \in 1..n : s[i] = r[i]
  BY <1>1, <1>2, <1>3, <1>4
<1>6. r = [i \in 1..n |-> r[i]] /\ s = [i \in 1..n |-> s[i]]
  <2>1. r \in [1..Len(r) -> ToSet(r)] /\ s \in [1..Len(s) -> ToSet(s)]
    BY <1>2, <1>3, LenProperties DEF IsSeq
  <2> QED
    BY <2>1, <1>2, <1>3
<1>7. s = r
  BY <1>5, <1>6
<1>8. more[n] = lg[n]
  BY <1>1
<1> QED
  BY <1>7, <1>8 DEF FailuresAt, more, r, s

LEMMA FailuresNow ==
    ASSUME NEW lg, IsSeq(lg), lg # <<>>
    PROVE  LET n == Len(lg)
           IN  /\ n \in DOMAIN lg
               /\ FailuresAt(lg, n) = Counting(lg, Who(lg[n]), lg[n].at)
<1> DEFINE n == Len(lg)
           s == SubSeq(lg, 1, n)
<1>1. Len(lg) \in Nat \ {0} /\ DOMAIN lg = 1..Len(lg)
  BY SeqIs
<1>2. n \in DOMAIN lg
  BY <1>1
<1>3. /\ IsSeq(s) /\ Len(s) = n
      /\ \A i \in DOMAIN s : s[i] = lg[i]
  BY <1>2, UpToIs
<1> HIDE DEF s
<1>4. s \in [1..n -> ToSet(s)] /\ lg \in [1..n -> ToSet(lg)]
  BY <1>3, LenProperties DEF IsSeq
<1>5. s = lg
  BY <1>3, <1>4
<1> QED
  BY <1>2, <1>5 DEF FailuresAt, s

(* FailuresFor is FailuresAt of the log.                                   *)
LEMMA FailuresForIs ==
    ASSUME IsSeq(log), NEW n \in Uses(log)
    PROVE  FailuresFor(n) = FailuresAt(log, n)
<1> DEFINE s == SubSeq(log, 1, n)
           U == EventsUpTo(n)
           f == [i \in U |-> EventAt(i).ip]
           mine == {i \in DOMAIN f : f[i] = f[n]}
           Between(k) == {m \in DOMAIN f : m < k /\ \A j \in mine : j < k => j < m}
           losses == {k \in mine : Cardinality({f[m] : m \in Between(k)}) >= max_sources}
           ip == Who(log[n])
<1>1. n \in DOMAIN log
  BY DEF Uses
<1>2. /\ IsSeq(s) /\ n \in Nat
      /\ DOMAIN s = {i \in DOMAIN log : i <= n}
      /\ \A i \in DOMAIN s : s[i] = log[i]
  BY <1>1, UpToIs
<1> HIDE DEF s
<1>3. U = Uses(s) /\ n \in U
  BY <1>2 DEF EventsUpTo, Events, Uses, Known
<1>4. \A i \in U : f[i] = Who(s[i]) /\ s[i] = log[i]
  BY <1>2, <1>3 DEF EventAt, Who, Uses
<1>5. DOMAIN f = U
  OBVIOUS
<1>6. FailuresFor(n) = {i \in mine : /\ log[n].at - log[i].at < Window
                                     /\ IsFailure(EventAt(i))
                                     /\ \A k \in losses : k <= i}
  BY DEF FailuresFor
<1> HIDE DEF f, U
<1>7. mine = Mine(s, ip)
  BY <1>3, <1>4, <1>5 DEF Mine
<1>8. ASSUME NEW k
      PROVE  Between(k) = Gap(s, ip, k) /\ {f[m] : m \in Between(k)} = Seers(s, Gap(s, ip, k))
  <2>1. Between(k) = Gap(s, ip, k)
    BY <1>3, <1>5, <1>7 DEF Gap
  <2>2. \A m \in Gap(s, ip, k) : f[m] = Who(s[m])
    BY <1>3, <1>4 DEF Gap
  <2> QED
    BY <2>1, <2>2 DEF Seers
<1> HIDE DEF Between
<1>9. losses = Losses(s, ip)
  BY <1>7, <1>8 DEF Losses
<1>10. \A i \in mine : Fails(s[i]) = IsFailure(EventAt(i)) /\ s[i] = log[i]
  BY <1>3, <1>4, <1>7 DEF Mine, Fails, EventAt
<1> HIDE DEF mine, losses
<1> QED
  BY <1>6, <1>7, <1>9, <1>10 DEF FailuresAt, Counting, s, ip

-----------------------------------------------------------------------------
(* What an entry remembers.                                                *)

(* The part of what counts that is remembered is the latest of it, as much *)
(* as the limit allows.                                                    *)
LEMMA RememberedIs ==
    ASSUME NEW fs, NEW F, NEW L \in Nat, F \subseteq 1..L, NEW lg, Remembers(fs, F, lg)
    PROVE  /\ Len(fs) \in Nat /\ IsFiniteSet(F) /\ Cardinality(F) \in Nat
           /\ Len(fs) = Cardinality(Latest(F)) /\ Len(fs) <= Cardinality(F)
           /\ KnownUsers(fs) = UsersOf(lg, Latest(F))
           /\ Cardinality(F) > Len(fs) => Len(fs) = max_failures
           /\ Cardinality(F) < max_failures => Len(fs) = Cardinality(F)
<1>1. Len(fs) \in Nat /\ DOMAIN fs = 1..Len(fs) /\ Len(fs) <= max_failures
  BY SeqIs DEF Remembers
<1>2. PICK S \in SUBSET F : /\ LatestOf(S, F)
                            /\ S # F => Len(fs) = max_failures
                            /\ \E f \in [1..Len(fs) -> S] : ListedBy(f, fs, S, lg)
  BY DEF Remembers
<1>3. PICK f \in [1..Len(fs) -> S] : ListedBy(f, fs, S, lg)
  BY <1>2
<1>4. \A T \in SUBSET F : IsFiniteSet(T) /\ Cardinality(T) \in Nat
  <2>1. \A T \in SUBSET F : T \in SUBSET (1..L)
    OBVIOUS
  <2> QED
    BY <2>1, PositionsAre
<1>5. Cardinality(S) = Len(fs)
  <2>1. \A k, m \in 1..Len(fs) : f[k] = f[m] => k = m
    <3> SUFFICES ASSUME NEW k \in 1..Len(fs), NEW m \in 1..Len(fs), f[k] = f[m], k # m
                 PROVE  FALSE
      OBVIOUS
    <3>1. k < m \/ m < k
      BY <1>1
    <3>2. f[k] < f[m] \/ f[m] < f[k]
      BY <3>1, <1>3 DEF ListedBy
    <3>3. f[k] \in 1..L /\ f[m] \in 1..L
      BY <1>3
    <3> QED
      BY <3>2, <3>3
  <2>2. \A i \in S : \E k \in 1..Len(fs) : f[k] = i
    BY <1>3 DEF ListedBy
  <2>3. f \in Bijection(1..Len(fs), S)
    BY <1>3, <2>1, <2>2 DEF Bijection, Injection, IsInjective, Surjection
  <2>4. IsFiniteSet(1..Len(fs)) /\ Cardinality(1..Len(fs)) = Len(fs)
    BY <1>1, FS_Interval
  <2> QED
    BY <2>3, <2>4, FS_Bijection DEF ExistsBijection
<1>6. S = Latest(F)
  <2>1. ASSUME NEW i \in S
        PROVE  Cardinality({j \in F : j > i}) < max_failures
    <3> DEFINE A == {j \in F : j > i}
    <3>1. A \subseteq S /\ i \notin A /\ A \subseteq S \ {i}
      <4>1. \A j \in F : i \in Int /\ j \in Int
        BY <2>1
      <4>2. \A j \in A : i <= j /\ i # j
        BY <4>1
      <4> QED
        BY <4>2, <1>2, <2>1 DEF LatestOf
    <3>2. Cardinality(S \ {i}) = Cardinality(S) - 1 /\ IsFiniteSet(S \ {i})
      BY <1>4, <2>1, FS_RemoveElement
    <3>3. Cardinality(A) <= Cardinality(S \ {i})
      BY <3>1, <3>2, FS_Subset
    <3>4. Cardinality(A) \in Nat /\ max_failures \in Nat
      BY <1>4, DetectorAssumption
    <3> HIDE DEF A
    <3>5. Cardinality(A) < max_failures
      BY <3>2, <3>3, <3>4, <1>1, <1>5
    <3> QED
      BY <3>5 DEF A
  <2>2. ASSUME NEW i \in F, i \notin S
        PROVE  ~(Cardinality({j \in F : j > i}) < max_failures)
    <3> DEFINE A == {j \in F : j > i}
    <3>1. \A j \in S : ~(j <= i)
      BY <1>2, <2>2 DEF LatestOf
    <3>2. \A j \in F : j \in Int /\ i \in Int
      BY <2>2
    <3>3. S \subseteq A /\ A \in SUBSET F
      BY <3>1, <3>2
    <3>4. Cardinality(S) <= Cardinality(A)
      BY <3>3, <1>4, FS_Subset
    <3>5. Len(fs) = max_failures
      BY <1>2, <2>2
    <3>6. Cardinality(A) \in Nat
      BY <3>3, <1>4
    <3> HIDE DEF A
    <3> QED
      BY <3>4, <3>5, <3>6, <1>1, <1>5 DEF A
  <2> QED
    BY <2>1, <2>2, <1>2 DEF Latest
<1>7. KnownUsers(fs) = UsersOf(lg, S)
  <2>1. \A k \in 1..Len(fs) : fs[k] = Fact(lg[f[k]])
    BY <1>3 DEF ListedBy
  <2>2. \A e : Fact(e).user = NormalizedEvent(e.line).user
    BY DEF Fact
  <2>3. \A k \in 1..Len(fs) : f[k] \in S
    BY <1>3
  <2>4. \A i \in S : \E k \in 1..Len(fs) : f[k] = i
    BY <1>3 DEF ListedBy
  <2> DEFINE U(i) == NormalizedEvent(lg[i].line).user
             A == {fs[k].user : k \in DOMAIN fs}
             B == {U(i) : i \in S}
  <2>5. \A k \in 1..Len(fs) : fs[k].user = U(f[k])
    BY <2>1, <2>2
  <2> HIDE DEF U
  <2>6. \A x \in A : x \in B
    BY <2>3, <2>5, <1>1
  <2>7. \A x \in B : x \in A
    BY <2>4, <2>5, <1>1
  <2>8. A = B
    BY <2>6, <2>7
  <2> QED
    BY <2>8 DEF U, KnownUsers, UsersOf
<1>8. IsFiniteSet(F) /\ Cardinality(F) \in Nat /\ Cardinality(S) <= Cardinality(F)
  BY <1>2, <1>4, FS_Subset
<1>9. Cardinality(F) > Len(fs) => Len(fs) = max_failures
  <2>1. S = F => Cardinality(F) = Len(fs)
    BY <1>5
  <2> QED
    BY <2>1, <1>1, <1>2, <1>8
<1>10. Cardinality(F) < max_failures => Len(fs) = Cardinality(F)
  <2>1. max_failures \in Nat
    BY DetectorAssumption
  <2> DEFINE c == Cardinality(F)
             r == Cardinality(S)
  <2>2. c \in Nat /\ r <= c /\ r = Len(fs) /\ (c > Len(fs) => Len(fs) = max_failures)
    BY <1>5, <1>8, <1>9
  <2> HIDE DEF c, r
  <2>3. c < max_failures => Len(fs) = c
    BY <2>1, <2>2, <1>1
  <2> QED
    BY <2>3 DEF c
<1> QED
  BY <1>1, <1>5, <1>6, <1>7, <1>8, <1>9, <1>10

(* What is too old is forgotten, and does not count any more.              *)
LEMMA PrunedRemembers ==
    ASSUME NEW lg, NEW now \in Nat, LogSound(lg, now), NEW t \in Nat, t <= now, NEW ip,
           NEW fs, Remembers(fs, Counting(lg, ip, t), lg)
    PROVE  Remembers(Kept(fs, {k \in DOMAIN fs : now - fs[k].at < Window}),
                     Counting(lg, ip, now), lg)
<1> DEFINE F == Counting(lg, ip, t)
           G == Counting(lg, ip, now)
           R == {k \in DOMAIN fs : now - fs[k].at < Window}
           r == Kept(fs, R)
<1>1. Len(fs) \in Nat /\ DOMAIN fs = 1..Len(fs) /\ IsSeq(fs) /\ Len(fs) <= max_failures
  BY SeqIs DEF Remembers
<1>2. PICK S \in SUBSET F : /\ LatestOf(S, F)
                            /\ S # F => Len(fs) = max_failures
                            /\ \E f \in [1..Len(fs) -> S] : ListedBy(f, fs, S, lg)
  BY DEF Remembers
<1>3. PICK f \in [1..Len(fs) -> S] : ListedBy(f, fs, S, lg)
  BY <1>2
<1>4. /\ \A k, m \in 1..Len(fs) : k < m => f[k] < f[m]
      /\ \A i \in S : \E k \in 1..Len(fs) : f[k] = i
      /\ \A k \in 1..Len(fs) : fs[k] = Fact(lg[f[k]])
  BY <1>3 DEF ListedBy
<1>5. /\ F \subseteq DOMAIN lg /\ DOMAIN lg \subseteq Nat
      /\ \A i \in DOMAIN lg : lg[i].at \in Nat /\ lg[i].at <= now
      /\ \A i, j \in DOMAIN lg : i <= j => lg[i].at <= lg[j].at
  BY SeqIs DEF Counting, Mine, Uses, LogSound
<1>6. G = {i \in F : now - lg[i].at < Window}
  <2>1. \A i \in DOMAIN lg : now - lg[i].at < Window => t - lg[i].at < Window
    BY <1>5, DetectorAssumption
  <2>2. Mine(lg, ip) \subseteq DOMAIN lg
    BY DEF Mine, Uses
  <2> QED
    BY <2>1, <2>2 DEF Counting
<1> HIDE DEF F, G
<1>7. \A k \in 1..Len(fs) : /\ f[k] \in S /\ f[k] \in F /\ f[k] \in DOMAIN lg
                            /\ fs[k].at = lg[f[k]].at
                            /\ k \in R <=> now - lg[f[k]].at < Window
  <2>1. \A e : Fact(e).at = e.at
    BY DEF Fact
  <2>2. \A k \in 1..Len(fs) : fs[k].at = lg[f[k]].at
    BY <1>4, <2>1
  <2>3. \A k \in 1..Len(fs) : f[k] \in S /\ f[k] \in F /\ f[k] \in DOMAIN lg
    BY <1>3, <1>5
  <2> QED
    BY <2>2, <2>3, <1>1
<1>8. \A k, m \in 1..Len(fs) : k < m /\ k \in R => m \in R
  <2> SUFFICES ASSUME NEW k \in 1..Len(fs), NEW m \in 1..Len(fs), k < m, k \in R
               PROVE  m \in R
    OBVIOUS
  <2>1. f[k] < f[m] /\ f[k] \in DOMAIN lg /\ f[m] \in DOMAIN lg
    BY <1>4, <1>7
  <2>2. lg[f[k]].at <= lg[f[m]].at /\ lg[f[k]].at \in Nat /\ lg[f[m]].at \in Nat
    BY <2>1, <1>5
  <2>3. now - lg[f[k]].at < Window
    BY <1>7
  <2>4. now - lg[f[m]].at < Window
    BY <2>2, <2>3, DetectorAssumption
  <2> QED
    BY <2>4, <1>7
<1> HIDE DEF R
<1>9. \E m \in Nat : m <= Len(fs) /\ \A k \in 1..Len(fs) : k \in R <=> m < k
  <2> DEFINE T == {k \in 1..Len(fs) : k \in R}
  <2>1. CASE T = {}
    <3>1. \A k \in 1..Len(fs) : k \in R <=> Len(fs) < k
      BY <2>1
    <3> QED
      BY <3>1, <1>1
  <2>2. CASE T # {}
    <3>1. T \in SUBSET Nat /\ \A k \in T : k \in 1..Len(fs) /\ k \in R
      BY <1>1
    <3>2. \A k \in 1..Len(fs) : k \in R => k \in T
      OBVIOUS
    <3> HIDE DEF T
    <3>3. PICK p \in T : \A k \in T : p <= k
      BY <2>2, <3>1, Least
    <3>4. p \in 1..Len(fs) /\ p \in R /\ p - 1 \in Nat /\ p - 1 <= Len(fs)
      BY <3>1, <3>3, <1>1
    <3>5. \A k \in 1..Len(fs) : k \in R <=> p - 1 < k
      <4>1. \A k \in 1..Len(fs) : k \in R => p <= k
        BY <3>2, <3>3
      <4>2. \A k \in 1..Len(fs) : p < k => k \in R
        BY <3>4, <1>8
      <4> QED
        BY <4>1, <4>2, <3>4, <1>1
    <3> QED
      BY <3>4, <3>5
  <2> QED
    BY <2>1, <2>2
<1>10. PICK m \in Nat : m <= Len(fs) /\ \A k \in 1..Len(fs) : k \in R <=> m < k
  BY <1>9
<1>11. IsSeq(r) /\ Len(r) = Len(fs) - m /\ \A i \in 1..(Len(fs) - m) : r[i] = fs[m + i]
  BY <1>1, <1>10, KeptFrom
<1> DEFINE T == S \intersect G
           l == Len(fs) - m
           g == [i \in 1..l |-> f[m + i]]
<1>12. \A i \in 1..l : m + i \in 1..Len(fs) /\ m < m + i
  BY <1>1, <1>10
<1>13. \A k \in 1..Len(fs) : m < k => k - m \in 1..l /\ m + (k - m) = k
  BY <1>1, <1>10
<1> HIDE DEF r
<1>14. g \in [1..l -> T]
  <2>1. \A i \in 1..l : f[m + i] \in S /\ f[m + i] \in G
    BY <1>6, <1>7, <1>10, <1>12
  <2> QED
    BY <2>1
<1>15. LatestOf(T, G)
  BY <1>2, <1>6 DEF LatestOf
<1>16. ListedBy(g, r, T, lg)
  <2>1. \A i, j \in 1..l : i < j => g[i] < g[j]
    <3>1. \A i, j \in 1..l : i < j => m + i < m + j
      BY <1>10
    <3> QED
      BY <3>1, <1>4, <1>12
  <2>2. ASSUME NEW x \in T
        PROVE  \E i \in 1..l : g[i] = x
    <3>1. PICK k \in 1..Len(fs) : f[k] = x
      BY <1>4
    <3>2. k \in R
      BY <3>1, <1>6, <1>7
    <3>3. k - m \in 1..l /\ m + (k - m) = k
      BY <3>2, <1>10, <1>13
    <3>4. g[k - m] = x
      BY <3>1, <3>3
    <3> QED
      BY <3>3, <3>4
  <2>3. \A i \in 1..l : r[i] = Fact(lg[g[i]])
    BY <1>4, <1>11, <1>12
  <2> HIDE DEF g, T
  <2> QED
    BY <2>1, <2>2, <2>3, <1>11, <1>14 DEF ListedBy
<1>17. ASSUME T # G
       PROVE  Len(r) = max_failures
  <2>1. PICK j \in G : j \notin S
    BY <1>17
  <2>2. j \in F /\ j \in DOMAIN lg /\ Len(fs) = max_failures /\ now - lg[j].at < Window
    BY <2>1, <1>2, <1>5, <1>6
  <2>3. \A i \in S : ~(i <= j) /\ i \in DOMAIN lg
    BY <2>1, <2>2, <1>2, <1>5 DEF LatestOf
  <2>4. \A i \in S : lg[j].at <= lg[i].at /\ lg[i].at \in Nat /\ lg[j].at \in Nat
    BY <2>2, <2>3, <1>5
  <2>5. \A i \in S : now - lg[i].at < Window
    BY <2>2, <2>4, DetectorAssumption
  <2>6. 1 \in 1..Len(fs)
    BY <2>2, <1>1, DetectorAssumption
  <2>7. 1 \in R
    BY <2>5, <2>6, <1>7
  <2>8. m = 0
    BY <2>6, <2>7, <1>10
  <2> QED
    BY <2>2, <2>8, <1>1, <1>11
<1>18. Len(r) <= max_failures /\ Len(r) = l
  BY <1>1, <1>10, <1>11, DetectorAssumption
<1>19. T \in SUBSET G /\ g \in [1..Len(r) -> T]
  BY <1>14, <1>18
<1> HIDE DEF g, T, l
<1>20. Remembers(r, G, lg)
  BY <1>11, <1>15, <1>16, <1>17, <1>18, <1>19 DEF Remembers
<1> QED
  BY <1>20 DEF r, G, R

(* Nothing to remember.                                                    *)
LEMMA NothingRemembered ==
    ASSUME NEW lg
    PROVE  Remembers(<<>>, {}, lg)
<1>1. IsSeq(<<>>) /\ Len(<<>>) = 0 /\ 1..0 = {}
  BY EmptyIs
<1>2. 0 <= max_failures
  BY DetectorAssumption
<1> DEFINE f == [k \in 1..0 |-> 0]
<1>3. f \in [1..0 -> {}]
  BY <1>1
<1>4. ListedBy(f, <<>>, {}, lg)
  BY <1>1, <1>3 DEF ListedBy
<1>5. LatestOf({}, {})
  BY DEF LatestOf
<1> HIDE DEF f
<1> QED
  BY <1>1, <1>2, <1>3, <1>4, <1>5 DEF Remembers

(* A line more does not change what is remembered.                         *)
LEMMA RememberedStays ==
    ASSUME NEW lg, IsSeq(lg), NEW e, NEW F \in SUBSET DOMAIN lg, NEW fs, Remembers(fs, F, lg)
    PROVE  Remembers(fs, F, Append(lg, e))
<1>1. PICK S \in SUBSET F : /\ LatestOf(S, F)
                            /\ S # F => Len(fs) = max_failures
                            /\ \E f \in [1..Len(fs) -> S] : ListedBy(f, fs, S, lg)
  BY DEF Remembers
<1>2. PICK f \in [1..Len(fs) -> S] : ListedBy(f, fs, S, lg)
  BY <1>1
<1>3. \A i \in DOMAIN lg : Append(lg, e)[i] = lg[i]
  BY LogGrows
<1>4. \A k \in 1..Len(fs) : Append(lg, e)[f[k]] = lg[f[k]]
  BY <1>2, <1>3
<1>5. ListedBy(f, fs, S, Append(lg, e))
  BY <1>2, <1>4 DEF ListedBy
<1> QED
  BY <1>1, <1>2, <1>5 DEF Remembers

(* A failure more is remembered; at the limit the oldest is given up.      *)
LEMMA OneMoreRemembered ==
    ASSUME NEW lg, IsSeq(lg), NEW e, NEW F \in SUBSET DOMAIN lg, NEW fs, Remembers(fs, F, lg)
    PROVE  LET more == Append(lg, e)
               all == F \union {Len(lg) + 1}
           IN  /\ ~(Len(fs) >= max_failures) => Remembers(Append(fs, Fact(e)), all, more)
               /\ Len(fs) >= max_failures => Remembers(Append(Tail(fs), Fact(e)), all, more)
<1> DEFINE more == Append(lg, e)
           n == Len(lg) + 1
           all == F \union {n}
<1>1. Len(fs) \in Nat /\ DOMAIN fs = 1..Len(fs) /\ IsSeq(fs) /\ Len(fs) <= max_failures
  BY SeqIs DEF Remembers
<1>2. PICK S \in SUBSET F : /\ LatestOf(S, F)
                            /\ S # F => Len(fs) = max_failures
                            /\ \E f \in [1..Len(fs) -> S] : ListedBy(f, fs, S, lg)
  BY DEF Remembers
<1>3. PICK f \in [1..Len(fs) -> S] : ListedBy(f, fs, S, lg)
  BY <1>2
<1>4. /\ \A k, m \in 1..Len(fs) : k < m => f[k] < f[m]
      /\ \A i \in S : \E k \in 1..Len(fs) : f[k] = i
      /\ \A k \in 1..Len(fs) : fs[k] = Fact(lg[f[k]])
  BY <1>3 DEF ListedBy
<1>5. /\ n \in Nat /\ DOMAIN lg \subseteq Nat /\ more[n] = e
      /\ \A i \in DOMAIN lg : i < n /\ more[i] = lg[i]
      /\ n \notin DOMAIN lg
  BY LogGrows
<1>6. max_failures \in Nat /\ max_failures >= 4
  BY DetectorAssumption
<1> HIDE DEF more, n
<1>7. \A k \in 1..Len(fs) : f[k] \in S /\ f[k] \in DOMAIN lg /\ f[k] < n /\ f[k] \in Nat
  BY <1>3, <1>5
<1>8. \A i \in F : i < n /\ i \in Nat /\ i # n
  BY <1>5
<1>9. ASSUME ~(Len(fs) >= max_failures)
      PROVE  Remembers(Append(fs, Fact(e)), all, more)
  <2> DEFINE l == Len(fs) + 1
             r == Append(fs, Fact(e))
             g == [k \in 1..l |-> IF k = l THEN n ELSE f[k]]
  <2>1. S = F
    BY <1>1, <1>2, <1>6, <1>9
  <2>2. IsSeq(r) /\ Len(r) = l /\ r[l] = Fact(e) /\ \A k \in 1..Len(fs) : r[k] = fs[k]
    BY <1>1, AppendIs
  <2>3. \A k \in 1..l : k = l \/ (k \in 1..Len(fs) /\ k # l)
    BY <1>1
  <2>4. l \in 1..l /\ \A k \in 1..Len(fs) : k \in 1..l /\ k # l /\ k < l
    BY <1>1
  <2> HIDE DEF r, l
  <2>5. g \in [1..l -> all]
    <3>1. \A k \in 1..l : (IF k = l THEN n ELSE f[k]) \in all
      BY <2>1, <2>3, <1>7
    <3> QED
      BY <3>1
  <2>6. \A k, m \in 1..l : k < m => g[k] < g[m]
    <3> SUFFICES ASSUME NEW k \in 1..l, NEW m \in 1..l, k < m PROVE g[k] < g[m]
      OBVIOUS
    <3>1. k \in 1..Len(fs) /\ k # l
      BY <2>3, <1>1 DEF l
    <3>2. g[k] = f[k]
      BY <3>1
    <3>3. CASE m = l
      BY <3>1, <3>2, <3>3, <1>7
    <3>4. CASE m \in 1..Len(fs) /\ m # l
      BY <3>1, <3>2, <3>4, <1>4
    <3> QED
      BY <3>3, <3>4, <2>3
  <2>7. \A i \in all : \E k \in 1..l : g[k] = i
    <3>1. g[l] = n
      BY <2>4
    <3>2. ASSUME NEW i \in F
          PROVE  \E k \in 1..l : g[k] = i
      <4>1. PICK k \in 1..Len(fs) : f[k] = i
        BY <2>1, <1>4
      <4>2. g[k] = i
        BY <4>1, <2>4
      <4> QED
        BY <4>2, <2>4
    <3> QED
      BY <3>1, <3>2, <2>4
  <2>8. \A k \in 1..l : r[k] = Fact(more[g[k]])
    <3>1. r[l] = Fact(more[g[l]])
      BY <2>2, <2>4, <1>5
    <3>2. ASSUME NEW k \in 1..Len(fs), k # l, k \in 1..l
          PROVE  r[k] = Fact(more[g[k]])
      <4>1. g[k] = f[k] /\ r[k] = fs[k] /\ more[f[k]] = lg[f[k]]
        BY <3>2, <2>2, <1>5, <1>7
      <4> QED
        BY <4>1, <1>4
    <3> QED
      BY <3>1, <3>2, <2>3
  <2> HIDE DEF g
  <2>9. ListedBy(g, r, all, more)
    BY <2>2, <2>5, <2>6, <2>7, <2>8 DEF ListedBy
  <2>10. LatestOf(all, all)
    BY DEF LatestOf
  <2>11. Len(r) <= max_failures
    BY <2>2, <1>1, <1>6, <1>9 DEF l
  <2>12. Remembers(r, all, more)
    BY <2>2, <2>5, <2>9, <2>10, <2>11 DEF Remembers
  <2> QED
    BY <2>12 DEF r
<1>10. ASSUME Len(fs) >= max_failures
       PROVE  Remembers(Append(Tail(fs), Fact(e)), all, more)
  <2> DEFINE l == Len(fs)
             r == Append(Tail(fs), Fact(e))
             T == (S \ {f[1]}) \union {n}
             g == [k \in 1..l |-> IF k = l THEN n ELSE f[k + 1]]
  <2>1. l = max_failures /\ l \in Nat /\ l >= 4 /\ fs # <<>>
    <3>1. Len(fs) >= max_failures /\ Len(fs) <= max_failures /\ Len(fs) \in Nat
      BY <1>1, <1>10
    <3>2. Len(fs) = max_failures /\ Len(fs) # 0
      BY ONLY <3>1, <1>6
    <3>3. fs # <<>>
      BY <3>2, <1>1, SeqIs
    <3> QED
      BY <3>1, <3>2, <3>3, <1>6
  <2>2. IsSeq(Tail(fs)) /\ Len(Tail(fs)) = l - 1 /\ \A k \in 1..(l - 1) : Tail(fs)[k] = fs[k + 1]
    BY <2>1, <1>1, TailIs
  <2>3. (l - 1) + 1 = l
    BY <2>1
  <2>4. IsSeq(r) /\ Len(r) = l /\ r[l] = Fact(e) /\ \A k \in 1..(l - 1) : r[k] = fs[k + 1]
    <3> DEFINE s == Tail(fs)
               a == Append(s, Fact(e))
    <3>1. IsSeq(s) /\ Len(s) = l - 1 /\ \A k \in 1..(l - 1) : s[k] = fs[k + 1]
      BY <2>2
    <3>2. r = a
      OBVIOUS
    <3> HIDE DEF s, r
    <3>3. IsSeq(a) /\ Len(a) = Len(s) + 1 /\ a[Len(s) + 1] = Fact(e)
          /\ \A k \in 1..Len(s) : a[k] = s[k]
      BY <3>1, AppendIs
    <3> HIDE DEF a, l
    <3> QED
      BY <2>3, <3>1, <3>2, <3>3
  <2>5. \A k \in 1..l : k = l \/ (k \in 1..(l - 1) /\ k # l)
    BY <2>1
  <2>6. /\ l \in 1..l /\ 1 \in 1..l
        /\ \A k \in 1..(l - 1) : k \in 1..l /\ k # l /\ k < l /\ k + 1 \in 1..l /\ 1 < k + 1
    BY <2>1
  <2> HIDE DEF r, l
  <2>7. \A k \in 1..l : 1 < k => f[1] < f[k] /\ f[1] # f[k]
    BY <2>6, <1>4, <1>7 DEF l
  <2>8. \A k \in 1..(l - 1) : f[k + 1] \in S \ {f[1]} /\ f[k + 1] < n
    BY <2>6, <2>7, <1>7 DEF l
  <2>9. g \in [1..l -> T]
    <3>1. \A k \in 1..l : (IF k = l THEN n ELSE f[k + 1]) \in T
      BY <2>5, <2>8
    <3> QED
      BY <3>1
  <2>10. \A k, m \in 1..l : k < m => g[k] < g[m]
    <3> SUFFICES ASSUME NEW k \in 1..l, NEW m \in 1..l, k < m PROVE g[k] < g[m]
      OBVIOUS
    <3>1. k \in 1..(l - 1) /\ k # l
      BY <2>1, <2>5 DEF l
    <3>2. g[k] = f[k + 1]
      BY <3>1
    <3>3. CASE m = l
      BY <3>1, <3>2, <3>3, <2>8
    <3>4. CASE m \in 1..(l - 1) /\ m # l
      <4>1. k + 1 < m + 1 /\ k + 1 \in 1..Len(fs) /\ m + 1 \in 1..Len(fs)
        BY <3>1, <3>4, <2>6 DEF l
      <4>2. f[k + 1] < f[m + 1]
        BY <4>1, <1>4
      <4> QED
        BY <4>2, <3>2, <3>4
    <3> QED
      BY <3>3, <3>4, <2>5
  <2>11. \A i \in T : \E k \in 1..l : g[k] = i
    <3>1. g[l] = n
      BY <2>6
    <3>2. ASSUME NEW i \in S, i # f[1]
          PROVE  \E k \in 1..l : g[k] = i
      <4>1. PICK k \in 1..Len(fs) : f[k] = i
        BY <1>4
      <4>2. k # 1
        BY <4>1, <3>2
      <4>3. k - 1 \in 1..(l - 1) /\ k - 1 \in 1..l /\ k - 1 # l /\ (k - 1) + 1 = k
        BY <4>2, <2>1 DEF l
      <4>4. g[k - 1] = i
        BY <4>1, <4>3
      <4> QED
        BY <4>3, <4>4
    <3> QED
      BY <3>1, <3>2, <2>6
  <2>12. \A k \in 1..l : r[k] = Fact(more[g[k]])
    <3>1. r[l] = Fact(more[g[l]])
      BY <2>4, <2>6, <1>5
    <3>2. ASSUME NEW k \in 1..(l - 1), k # l, k \in 1..l
          PROVE  r[k] = Fact(more[g[k]])
      <4>1. k + 1 \in 1..Len(fs)
        BY <2>6 DEF l
      <4>2. g[k] = f[k + 1] /\ r[k] = fs[k + 1] /\ more[f[k + 1]] = lg[f[k + 1]]
        BY <4>1, <3>2, <2>4, <1>5, <1>7
      <4> QED
        BY <4>1, <4>2, <1>4
    <3> QED
      BY <3>1, <3>2, <2>5
  <2>13. LatestOf(T, all)
    <3>1. T \subseteq all
      OBVIOUS
    <3>2. ASSUME NEW i \in T, NEW j \in all, i <= j
          PROVE  j \in T
      <4>1. CASE j = n
        BY <4>1
      <4>2. CASE j \in F
        <5>1. i # n /\ i \in S /\ i # f[1]
          BY <3>2, <4>2, <1>5, <1>8
        <5>2. j \in S
          BY <5>1, <4>2, <3>2, <1>2 DEF LatestOf
        <5>3. PICK k \in 1..l : f[k] = i
          BY <5>1, <1>4 DEF l
        <5>4. f[1] < i /\ f[1] \in Nat /\ i \in Nat /\ j \in Nat
          BY <5>1, <5>3, <4>2, <2>6, <2>7, <2>1, <1>7, <1>8 DEF l
        <5>5. j # f[1]
          BY <5>4, <3>2
        <5> QED
          BY <5>2, <5>5
      <4> QED
        BY <4>1, <4>2
    <3> QED
      BY <3>1, <3>2 DEF LatestOf
  <2>14. T \in SUBSET all
    OBVIOUS
  <2> HIDE DEF g, T
  <2>15. ListedBy(g, r, T, more)
    BY <2>4, <2>9, <2>10, <2>11, <2>12 DEF ListedBy
  <2>16. Remembers(r, all, more)
    <3> HIDE DEF all
    <3>1. Len(r) = max_failures /\ Len(r) <= max_failures
      BY <2>1, <2>4
    <3> QED
      BY <3>1, <2>4, <2>9, <2>13, <2>14, <2>15 DEF Remembers
  <2> QED
    BY <2>16 DEF r
<1> QED
  BY <1>9, <1>10 DEF more, n

-----------------------------------------------------------------------------
(* Counting addresses.                                                     *)

(* No more values than arguments.                                          *)
LEMMA NoMoreValues ==
    ASSUME NEW S, IsFiniteSet(S), NEW f, DOMAIN f = S, NEW T, T \subseteq {f[x] : x \in S}
    PROVE  /\ IsFiniteSet(T) /\ Cardinality(T) \in Nat
           /\ Cardinality(S) \in Nat /\ Cardinality(T) <= Cardinality(S)
<1> DEFINE V == {f[x] : x \in S}
           g == [x \in S |-> f[x]]
<1>1. g \in Surjection(S, V)
  BY DEF Surjection
<1>2. IsFiniteSet(V) /\ Cardinality(V) <= Cardinality(S)
  BY <1>1, FS_Surjection
<1> HIDE DEF V
<1>3. IsFiniteSet(T) /\ Cardinality(T) <= Cardinality(V)
  BY <1>2, FS_Subset DEF V
<1>4. Cardinality(T) \in Nat /\ Cardinality(V) \in Nat /\ Cardinality(S) \in Nat
  BY <1>2, <1>3, FS_CardinalityType
<1> QED
  BY <1>2, <1>3, <1>4

(* Different arguments, different values.                                  *)
LEMMA AsManyValues ==
    ASSUME NEW n \in Nat, NEW f, NEW T, IsFiniteSet(T), f \in [1..n -> T],
           \A i, j \in 1..n : f[i] = f[j] => i = j
    PROVE  n <= Cardinality(T) /\ Cardinality(T) \in Nat
<1>1. f \in Injection(1..n, T)
  BY DEF Injection, IsInjective
<1>2. Cardinality(1..n) <= Cardinality(T)
  BY <1>1, FS_Injection
<1>3. Cardinality(1..n) = n
  BY FS_Interval
<1> QED
  BY <1>2, <1>3, FS_CardinalityType

LEMMA SeersFinite ==
    ASSUME NEW lg, IsSeq(lg), NEW M \in SUBSET DOMAIN lg
    PROVE  IsFiniteSet(Seers(lg, M)) /\ Cardinality(Seers(lg, M)) \in Nat
<1>1. Len(lg) \in Nat /\ DOMAIN lg = 1..Len(lg)
  BY SeqIs
<1>2. IsFiniteSet(M)
  BY <1>1, PositionsAre
<1> DEFINE f == [m \in M |-> Who(lg[m])]
<1>3. Seers(lg, M) \subseteq {f[x] : x \in M} /\ DOMAIN f = M
  BY DEF Seers
<1> HIDE DEF f
<1> QED
  BY <1>2, <1>3, NoMoreValues

(* An address that was used was used last at some place.                   *)
LEMMA LastExists ==
    ASSUME NEW lg, IsSeq(lg), NEW ip, NEW i \in Mine(lg, ip)
    PROVE  \E j \in Mine(lg, ip) : LastUse(lg, ip, j) /\ i <= j
<1>1. Len(lg) \in Nat /\ DOMAIN lg = 1..Len(lg)
  BY SeqIs
<1>2. Mine(lg, ip) \subseteq 1..Len(lg)
  BY <1>1 DEF Mine, Uses
<1> DEFINE T == {Len(lg) - j : j \in Mine(lg, ip)}
<1>3. T \in SUBSET Nat /\ T # {}
  BY <1>1, <1>2
<1>4. \A j \in Mine(lg, ip) : Len(lg) - j \in T
  OBVIOUS
<1>5. \A n \in T : \E j \in Mine(lg, ip) : n = Len(lg) - j
  OBVIOUS
<1> HIDE DEF T
<1>6. PICK n \in T : \A m \in T : n <= m
  BY <1>3, Least
<1>7. PICK j \in Mine(lg, ip) : n = Len(lg) - j
  BY <1>5
<1>8. \A k \in Mine(lg, ip) : k <= j
  <2>1. \A k \in Mine(lg, ip) : Len(lg) - j <= Len(lg) - k
    BY <1>4, <1>6, <1>7
  <2> QED
    BY <2>1, <1>1, <1>2
<1> QED
  BY <1>8 DEF LastUse

LEMMA LastUnique ==
    ASSUME NEW lg, IsSeq(lg), NEW ip, NEW i, NEW j, LastUse(lg, ip, i), LastUse(lg, ip, j)
    PROVE  i = j
<1>1. Len(lg) \in Nat /\ DOMAIN lg = 1..Len(lg)
  BY SeqIs
<1>2. Mine(lg, ip) \subseteq 1..Len(lg)
  BY <1>1 DEF Mine, Uses
<1>3. i \in Int /\ j \in Int /\ i <= j /\ j <= i
  BY <1>2 DEF LastUse
<1> QED
  BY <1>3

(* The last use of an address is the last of the log or what it was.       *)
LEMMA LastUseGrows ==
    ASSUME NEW lg, IsSeq(lg), NEW e, NEW ip, NEW i
    PROVE  LET more == Append(lg, e)
               n == Len(lg) + 1
           IN  /\ ~Known(e) \/ Who(e) # ip =>
                     (LastUse(more, ip, i) <=> LastUse(lg, ip, i))
               /\ Known(e) /\ Who(e) = ip => (LastUse(more, ip, i) <=> i = n)
<1> DEFINE more == Append(lg, e)
           n == Len(lg) + 1
<1>1. /\ Mine(lg, ip) \subseteq DOMAIN lg
      /\ Known(e) /\ Who(e) = ip => Mine(more, ip) = Mine(lg, ip) \union {n}
      /\ ~Known(e) \/ Who(e) # ip => Mine(more, ip) = Mine(lg, ip)
  BY MineGrows
<1>2. n \in Nat /\ DOMAIN lg \subseteq Nat /\ \A k \in DOMAIN lg : k < n
  BY LogGrows
<1> HIDE DEF more, n
<1>3. ~Known(e) \/ Who(e) # ip => (LastUse(more, ip, i) <=> LastUse(lg, ip, i))
  BY <1>1 DEF LastUse
<1>4. ASSUME Known(e), Who(e) = ip
      PROVE  LastUse(more, ip, i) <=> i = n
  <2>1. Mine(more, ip) = Mine(lg, ip) \union {n} /\ \A k \in Mine(lg, ip) : k \in Nat /\ k < n
    BY <1>1, <1>2, <1>4
  <2>2. \A k \in Mine(more, ip) : k <= n
    BY <2>1, <1>2
  <2>3. LastUse(more, ip, i) => i = n
    BY <2>1, <1>2 DEF LastUse
  <2>4. LastUse(more, ip, n)
    BY <2>1, <2>2 DEF LastUse
  <2> QED
    BY <2>3, <2>4
<1> QED
  BY <1>3, <1>4 DEF more, n

-----------------------------------------------------------------------------
(* Entries of the table of sources.                                        *)

LEMMA TruncatedStays ==
    ASSUME NEW lg, IsSeq(lg), NEW e, NEW until, NEW ip, Truncated(until, lg, ip)
    PROVE  Truncated(until, Append(lg, e), ip)
<1> DEFINE more == Append(lg, e)
<1>1. Mine(lg, ip) \subseteq DOMAIN lg /\ Mine(lg, ip) \subseteq Mine(more, ip)
  BY MineGrows
<1>2. \A i \in DOMAIN lg : more[i] = lg[i]
  BY LogGrows
<1>3. \A i \in DOMAIN lg : FailuresAt(more, i) = FailuresAt(lg, i)
  BY FailuresStay
<1> HIDE DEF more
<1> QED
  BY <1>1, <1>2, <1>3 DEF Truncated, more

LEMMA CountingIn ==
    ASSUME NEW lg, NEW ip, NEW t
    PROVE  Counting(lg, ip, t) \in SUBSET DOMAIN lg
BY DEF Counting, Mine, Uses

LEMMA GivenUpPruned ==
    ASSUME NEW lg, NEW now \in Nat, LogSound(lg, now), NEW t \in Nat, t <= now, NEW ip,
           NEW until, GivenUp(until, lg, Counting(lg, ip, t))
    PROVE  GivenUp(until, lg, Counting(lg, ip, now))
<1> DEFINE F == Counting(lg, ip, t)
           S == Counting(lg, ip, now)
<1>1. Len(lg) \in Nat /\ DOMAIN lg = 1..Len(lg)
  BY SeqIs DEF LogSound
<1>2. F \in SUBSET (1..Len(lg)) /\ S \in SUBSET (1..Len(lg))
  BY <1>1, CountingIn
<1>3. S \subseteq F
  <2> SUFFICES ASSUME NEW i \in S PROVE i \in F
    OBVIOUS
  <2>1. lg[i].at \in Nat
    BY <1>1, <1>2 DEF LogSound
  <2>2. now - lg[i].at < Window
    BY DEF Counting
  <2>3. t - lg[i].at < Window
    BY <2>1, <2>2, DetectorAssumption
  <2> QED
    BY <2>3 DEF Counting
<1> HIDE DEF F, S
<1> SUFFICES ASSUME NEW j \in S \ Latest(S)
             PROVE  lg[j].at + Window <= until
  BY DEF GivenUp, S
<1> DEFINE A == {k \in S : k > j}
           B == {k \in F : k > j}
<1>4. B \in SUBSET (1..Len(lg)) /\ A \subseteq B /\ A \in SUBSET (1..Len(lg))
  BY <1>2, <1>3
<1>5. ~(Cardinality(A) < max_failures)
  BY DEF Latest
<1> HIDE DEF A, B
<1>6. /\ IsFiniteSet(B) /\ Cardinality(B) \in Nat /\ Cardinality(A) \in Nat
  BY <1>1, <1>4, PositionsAre
<1>7. Cardinality(A) <= Cardinality(B)
  BY <1>4, <1>6, FS_Subset
<1>8. ~(Cardinality(B) < max_failures)
  BY ONLY <1>5, <1>6, <1>7, DetectorAssumption
<1>9. j \in F \ Latest(F)
  BY <1>3, <1>8 DEF Latest, B
<1> QED
  BY <1>9 DEF GivenUp, F

LEMMA GivenUpStays ==
    ASSUME NEW lg, IsSeq(lg), NEW e, NEW until, NEW F \in SUBSET DOMAIN lg,
           GivenUp(until, lg, F)
    PROVE  GivenUp(until, Append(lg, e), F)
<1>1. \A i \in DOMAIN lg : Append(lg, e)[i] = lg[i]
  BY LogGrows
<1> QED
  BY <1>1 DEF GivenUp

LEMMA SourceStays ==
    ASSUME NEW lg, IsSeq(lg), NEW e, NEW t, NEW st, SourceSound(st, lg, t),
           ~Known(e) \/ Who(e) # st.key
    PROVE  SourceSound(st, Append(lg, e), t)
<1> DEFINE more == Append(lg, e)
           ip == st.key
<1>1. Counting(more, ip, t) = Counting(lg, ip, t)
  BY CountingStays
<1>2. Remembers(st.failures, Counting(lg, ip, t), more)
  BY RememberedStays, CountingIn DEF SourceSound
<1>3. Truncated(st.truncated_until, more, ip)
  BY TruncatedStays DEF SourceSound
<1>4. PICK i \in Mine(lg, ip) : LastUse(lg, ip, i) /\ st.last_seen = lg[i].at
  BY DEF SourceSound
<1>5. i \in Mine(more, ip) /\ more[i] = lg[i]
  BY MineGrows, LogGrows
<1>6. LastUse(more, ip, i)
  BY <1>4, LastUseGrows
<1>7. GivenUp(st.truncated_until, more, Counting(lg, ip, t))
  BY GivenUpStays, CountingIn DEF SourceSound
<1> HIDE DEF more
<1> QED
  BY <1>1, <1>2, <1>3, <1>4, <1>5, <1>6, <1>7 DEF SourceSound, more

Prune(st, now) ==
    [st EXCEPT !.failures = Kept(@, {k \in DOMAIN @ : now - @[k].at < Window})]

LEMMA PrunedSource ==
    ASSUME NEW lg, NEW now \in Nat, LogSound(lg, now), NEW t \in Nat, t <= now,
           NEW st, SourceSound(st, lg, t)
    PROVE  SourceSound(Prune(st, now), lg, now) /\ Prune(st, now).key = st.key
<1> DEFINE fs == Kept(st.failures, {k \in DOMAIN st.failures : now - st.failures[k].at < Window})
           r == Prune(st, now)
<1>1. r = [st EXCEPT !.failures = fs]
  BY DEF Prune
<1>2. st = [key |-> st.key, last_seen |-> st.last_seen, failures |-> st.failures,
            truncated_until |-> st.truncated_until]
  BY DEF SourceSound
<1>3. Remembers(fs, Counting(lg, st.key, now), lg)
  BY PrunedRemembers DEF SourceSound
<1>6. GivenUp(st.truncated_until, lg, Counting(lg, st.key, now))
  BY GivenUpPruned DEF SourceSound
<1> HIDE DEF fs, r
<1>4. /\ r = [key |-> st.key, last_seen |-> st.last_seen, failures |-> fs,
              truncated_until |-> st.truncated_until]
      /\ r.key = st.key /\ r.last_seen = st.last_seen /\ r.failures = fs
      /\ r.truncated_until = st.truncated_until
  BY <1>1, <1>2
<1>5. SourceSound(r, lg, now)
  BY <1>3, <1>4, <1>6 DEF SourceSound
<1> QED
  BY <1>4, <1>5 DEF r

LEMMA SourceKnown ==
    ASSUME NEW lg, NEW now, LogSound(lg, now), NEW t, NEW st, SourceSound(st, lg, t), NEW i,
           LastUse(lg, st.key, i)
    PROVE  st.last_seen = lg[i].at /\ lg[i].at \in Nat /\ lg[i].at <= now /\ i \in DOMAIN lg
<1>1. PICK j \in Mine(lg, st.key) : LastUse(lg, st.key, j) /\ st.last_seen = lg[j].at
  BY DEF SourceSound
<1>2. i = j
  BY <1>1, LastUnique DEF LogSound
<1> QED
  BY <1>1, <1>2 DEF LogSound, Mine, Uses

-----------------------------------------------------------------------------
(* The table of sources.                                                   *)

(* What is too old leaves the table.                                       *)
LEMMA PrunedSound ==
    ASSUME clock \in Nat, NEW lg, LogSound(lg, clock), NEW t \in Nat, t <= clock,
           NEW d, SourcesSound(d, lg, t)
    PROVE  SourcesSound(Pruned(d), lg, clock)
<1> DEFINE K == {i \in DOMAIN d : clock - d[i].last_seen < Ttl}
           A == Kept(d, K)
           r == [i \in DOMAIN A |-> Prune(A[i], clock)]
<1>1. Pruned(d) = r
  BY DEF Pruned, Alive, Prune
<1>2. /\ IsSeq(d) /\ Distinct(d) /\ Len(d) <= max_sources /\ Len(d) \in Nat
      /\ DOMAIN d = 1..Len(d)
  BY SeqIs DEF SourcesSound
<1>3. Remains(d, K, Len(d), A)
  BY <1>2, KeptIs
<1> HIDE DEF A
<1>4. /\ IsSeq(A) /\ Len(A) <= Len(d) /\ Len(A) \in Nat /\ DOMAIN A = 1..Len(A)
      /\ \A i \in DOMAIN A : \E p \in DOMAIN d : p \in K /\ A[i] = d[p]
      /\ \A p \in DOMAIN d : p \in K => \E i \in DOMAIN A : A[i] = d[p]
  BY <1>2, <1>3, SeqIs DEF Remains
<1>5. Distinct(A)
  BY <1>2, <1>3, RemainsDistinct
<1>6. IsSeq(r) /\ Len(r) = Len(A) /\ DOMAIN r = DOMAIN A
  BY <1>4, FunctionIs
<1>7. \A i \in DOMAIN A : SourceSound(A[i], lg, t)
  BY <1>4 DEF SourcesSound
<1>8. \A i \in DOMAIN A : SourceSound(r[i], lg, clock) /\ r[i].key = A[i].key
  BY <1>7, PrunedSource
<1> HIDE DEF r
<1>9. Distinct(r)
  BY <1>5, <1>6, <1>8 DEF Distinct
<1>10. Len(r) <= max_sources
  BY <1>2, <1>4, <1>6, DetectorAssumption
<1> HIDE DEF K
<1>11. ByLastUse(r, lg)
  <2> SUFFICES ASSUME NEW p \in DOMAIN r, NEW i \in Mine(lg, r[p].key), NEW j \in Uses(lg),
                      LastUse(lg, r[p].key, i), LastUse(lg, Who(lg[j]), j), i < j
               PROVE  \E q \in DOMAIN r : r[q].key = Who(lg[j]) /\ p < q
    BY DEF ByLastUse
  <2>1. PICK p0 \in DOMAIN d : p0 \in K /\ A[p] = d[p0]
    BY <1>4, <1>6
  <2>2. d[p0].key = r[p].key /\ p \in DOMAIN A
    BY <2>1, <1>6, <1>8
  <2>3. PICK q0 \in DOMAIN d : d[q0].key = Who(lg[j]) /\ p0 < q0
    BY <2>2, <1>2 DEF SourcesSound, ByLastUse
  <2>4. /\ d[p0].last_seen = lg[i].at /\ lg[i].at \in Nat
        /\ d[q0].last_seen = lg[j].at /\ lg[j].at \in Nat /\ lg[i].at <= lg[j].at
    <3>1. SourceSound(d[p0], lg, t) /\ SourceSound(d[q0], lg, t)
      BY DEF SourcesSound
    <3>2. d[p0].last_seen = lg[i].at /\ lg[i].at \in Nat /\ i \in DOMAIN lg
      BY <3>1, <2>2, SourceKnown
    <3>3. d[q0].last_seen = lg[j].at /\ lg[j].at \in Nat /\ j \in DOMAIN lg
      BY <3>1, <2>3, SourceKnown
    <3>4. IsSeq(lg) /\ Len(lg) \in Nat /\ DOMAIN lg = 1..Len(lg)
      BY SeqIs DEF LogSound
    <3>5. i <= j
      BY <3>2, <3>3, <3>4
    <3> QED
      BY <3>2, <3>3, <3>5 DEF LogSound
  <2>5. q0 \in K
    <3>1. clock - d[p0].last_seen < Ttl
      BY <2>1 DEF K
    <3>2. clock - d[q0].last_seen < Ttl
      BY <3>1, <2>4, DetectorAssumption
    <3> QED
      BY <3>2 DEF K
  <2>6. PICK q \in DOMAIN A : A[q] = d[q0]
    BY <2>5, <1>4
  <2>7. p # q
    BY <2>1, <2>3, <2>6, <1>2 DEF Distinct
  <2>8. ~(q < p)
    <3> SUFFICES ASSUME q < p PROVE FALSE
      OBVIOUS
    <3>1. InOrder(d, K, Len(d), A[q], A[p])
      BY <2>2, <1>3 DEF Remains
    <3>2. PICK a \in K, b \in K : a \in 1..Len(d) /\ b \in 1..Len(d) /\ a < b
                                  /\ A[q] = d[a] /\ A[p] = d[b]
      BY <3>1 DEF InOrder
    <3>3. a = q0 /\ b = p0
      BY <3>2, <2>1, <2>6, <1>2 DEF Distinct
    <3> QED
      BY <3>2, <3>3, <2>3, <1>2
  <2>9. p < q
    BY <2>2, <2>7, <2>8, <1>4
  <2>10. r[q].key = Who(lg[j])
    BY <2>3, <2>6, <1>8
  <2> QED
    BY <2>9, <2>10, <1>6
<1>12. ForgottenRightly(r, lg, clock)
  <2> SUFFICES ASSUME NEW i \in Uses(lg), LastUse(lg, Who(lg[i]), i), ~HasKey(r, Who(lg[i]))
               PROVE  \/ clock - lg[i].at >= Window
                      \/ Cardinality(Seers(lg, {m \in Uses(lg) : m > i})) >= max_sources
    BY DEF ForgottenRightly
  <2>1. lg[i].at \in Nat
    BY DEF LogSound, Uses
  <2>2. CASE HasKey(d, Who(lg[i]))
    <3>1. PICK p0 \in DOMAIN d : d[p0].key = Who(lg[i])
      BY <2>2 DEF HasKey
    <3>2. d[p0].last_seen = lg[i].at
      BY <3>1, SourceKnown DEF SourcesSound
    <3>3. p0 \notin K
      <4> SUFFICES ASSUME p0 \in K PROVE FALSE
        OBVIOUS
      <4>1. PICK q \in DOMAIN A : A[q] = d[p0]
        BY <1>4
      <4>2. r[q].key = Who(lg[i]) /\ q \in DOMAIN r
        BY <4>1, <3>1, <1>6, <1>8
      <4> QED
        BY <4>2 DEF HasKey
    <3>4. ~(clock - d[p0].last_seen < Ttl)
      BY <3>3 DEF K
    <3> QED
      BY <3>2, <3>4, <2>1, DetectorAssumption
  <2>3. CASE t - lg[i].at >= Window
    BY <2>1, <2>3, DetectorAssumption
  <2> QED
    BY <2>2, <2>3 DEF SourcesSound, ForgottenRightly
<1>13. SourcesSound(r, lg, clock)
  BY <1>6, <1>8, <1>9, <1>10, <1>11, <1>12 DEF SourcesSound
<1> QED
  BY <1>1, <1>13

(* A line that is no event of a known address changes nothing.             *)
LEMMA SourcesStay ==
    ASSUME NEW lg, IsSeq(lg), NEW e, ~Known(e), NEW t, NEW d, SourcesSound(d, lg, t)
    PROVE  SourcesSound(d, Append(lg, e), t)
<1> DEFINE more == Append(lg, e)
<1>1. Uses(more) = Uses(lg) /\ \A ip : Mine(more, ip) = Mine(lg, ip)
  BY UsesGrow, MineGrows
<1>2. Uses(lg) \subseteq DOMAIN lg /\ \A i \in DOMAIN lg : more[i] = lg[i]
  BY LogGrows DEF Uses
<1>3. \A ip, i : LastUse(more, ip, i) <=> LastUse(lg, ip, i)
  BY LastUseGrows
<1>4. \A i : Seers(more, {m \in Uses(lg) : m > i}) = Seers(lg, {m \in Uses(lg) : m > i})
  <2>1. \A i : {m \in Uses(lg) : m > i} \in SUBSET DOMAIN lg
    BY <1>2
  <2> QED
    BY <2>1, SeersGrow
<1>5. \A p \in DOMAIN d : SourceSound(d[p], more, t)
  BY SourceStays DEF SourcesSound
<1> HIDE DEF more
<1>6. ByLastUse(d, more)
  <2> SUFFICES ASSUME NEW p \in DOMAIN d, NEW i \in Mine(lg, d[p].key), NEW j \in Uses(lg),
                      LastUse(more, d[p].key, i), LastUse(more, Who(more[j]), j), i < j
               PROVE  \E q \in DOMAIN d : d[q].key = Who(more[j]) /\ p < q
    BY <1>1 DEF ByLastUse
  <2>1. more[j] = lg[j] /\ LastUse(lg, d[p].key, i) /\ LastUse(lg, Who(lg[j]), j)
    BY <1>2, <1>3
  <2> QED
    BY <2>1 DEF SourcesSound, ByLastUse
<1>7. ForgottenRightly(d, more, t)
  <2> SUFFICES ASSUME NEW i \in Uses(lg), LastUse(more, Who(more[i]), i)
               PROVE  \/ HasKey(d, Who(more[i]))
                      \/ t - more[i].at >= Window
                      \/ Cardinality(Seers(more, {m \in Uses(more) : m > i})) >= max_sources
    BY <1>1 DEF ForgottenRightly
  <2>1. more[i] = lg[i] /\ LastUse(lg, Who(lg[i]), i)
    BY <1>2, <1>3
  <2>2. \/ HasKey(d, Who(lg[i]))
        \/ t - lg[i].at >= Window
        \/ Cardinality(Seers(lg, {m \in Uses(lg) : m > i})) >= max_sources
    BY <2>1 DEF SourcesSound, ForgottenRightly
  <2> QED
    BY <2>1, <2>2, <1>1, <1>4
<1> QED
  BY <1>5, <1>6, <1>7 DEF SourcesSound, more

(* r has an entry for an address at its end, and in front of it the other  *)
(* entries of d in their order, but the first if there was no room.        *)
Refreshed(d, ip, r) ==
    /\ IsSeq(r) /\ Distinct(r) /\ Len(r) <= max_sources
    /\ Len(r) # 0 /\ r[Len(r)].key = ip
    /\ \A k \in 1..(Len(r) - 1) : \E p \in DOMAIN d : r[k] = d[p] /\ d[p].key # ip
    /\ \A k, m \in 1..(Len(r) - 1) : k < m =>
          \E p, q \in DOMAIN d : p < q /\ r[k] = d[p] /\ r[m] = d[q]
    /\ \A p \in DOMAIN d : d[p].key # ip =>
          \/ \E k \in 1..(Len(r) - 1) : r[k] = d[p]
          \/ p = 1 /\ ~HasKey(d, ip) /\ Len(d) = max_sources

(* The first entry gives way only to as many others, used after it.        *)
LEMMA FirstGivesWay ==
    ASSUME NEW lg, NEW now, LogSound(lg, now), NEW e, Known(e),
           NEW t, NEW d, SourcesSound(d, lg, t),
           ~HasKey(d, Who(e)), Len(d) = max_sources,
           NEW i, LastUse(lg, d[1].key, i)
    PROVE  LET more == Append(lg, e)
           IN  Cardinality(Seers(more, {m \in Uses(more) : m > i})) >= max_sources
<1> DEFINE more == Append(lg, e)
           n == Len(lg) + 1
           M == {m \in Uses(more) : m > i}
           f == [q \in 1..max_sources |-> IF q = 1 THEN Who(e) ELSE d[q].key]
<1>1. IsSeq(lg) /\ IsSeq(d) /\ Distinct(d) /\ DOMAIN d = 1..max_sources
  BY SeqIs DEF LogSound, SourcesSound
<1>2. Mine(lg, d[1].key) \subseteq DOMAIN lg /\ i \in DOMAIN lg /\ i \in Nat /\ i < n
      /\ Uses(lg) \subseteq DOMAIN lg
  BY <1>1, LogGrows DEF LastUse, Mine, Uses
<1>3. /\ n \in Nat /\ DOMAIN lg \subseteq Nat /\ IsSeq(more) /\ more[n] = e
      /\ \A k \in DOMAIN lg : more[k] = lg[k]
      /\ Uses(more) = Uses(lg) \union {n}
  BY <1>1, LogGrows, UsesGrow
<1>4. max_sources \in Nat \ {0}
  BY DetectorAssumption
<1> HIDE DEF more, n
<1>5. n \in M /\ Who(more[n]) = Who(e)
  BY <1>2, <1>3
<1>6. ASSUME NEW q \in 1..max_sources, q # 1
      PROVE  d[q].key \in Seers(more, M)
  <2>1. PICK j \in Mine(lg, d[q].key) : LastUse(lg, d[q].key, j)
    BY <1>1 DEF SourcesSound, SourceSound
  <2>2. j \in Uses(lg) /\ j \in DOMAIN lg /\ Who(lg[j]) = d[q].key /\ more[j] = lg[j] /\ j \in Nat
    BY <1>2, <1>3 DEF Mine
  <2>3. i \in Uses(lg) /\ Who(lg[i]) = d[1].key
    BY DEF LastUse, Mine
  <2>4. d[1].key # d[q].key
    BY <1>1, <1>4, <1>6 DEF Distinct
  <2>5. ~(j < i)
    <3> SUFFICES ASSUME j < i PROVE FALSE
      OBVIOUS
    <3>1. ByLastUse(d, lg)
      BY DEF SourcesSound
    <3>2. LastUse(lg, Who(lg[i]), i)
      BY <2>3
    <3>3. PICK p \in DOMAIN d : d[p].key = Who(lg[i]) /\ q < p
      BY <3>1, <3>2, <2>1, <2>3, <1>1 DEF ByLastUse
    <3>4. p = 1
      BY <3>3, <2>3, <1>1, <1>4 DEF Distinct
    <3> QED
      BY <3>3, <3>4
  <2>6. j > i
    BY <2>2, <2>3, <2>4, <2>5, <1>2
  <2>7. j \in M
    BY <2>2, <2>6, <1>3
  <2> QED
    BY <2>2, <2>7 DEF Seers
<1>7. Who(e) \in Seers(more, M)
  BY <1>5 DEF Seers
<1>8. M \in SUBSET DOMAIN more
  BY DEF Uses
<1>9. IsFiniteSet(Seers(more, M))
  BY <1>3, <1>8, SeersFinite
<1>10. f \in [1..max_sources -> Seers(more, M)]
  BY <1>6, <1>7
<1>11. ASSUME NEW p \in 1..max_sources, NEW q \in 1..max_sources, f[p] = f[q]
       PROVE  p = q
  <2>1. \A k \in 1..max_sources : d[k].key # Who(e)
    BY <1>1 DEF HasKey
  <2> QED
    BY <2>1, <1>1, <1>11 DEF Distinct
<1> HIDE DEF M, f
<1>12. max_sources <= Cardinality(Seers(more, M)) /\ Cardinality(Seers(more, M)) \in Nat
  BY <1>4, <1>9, <1>10, <1>11, AsManyValues
<1>13. Cardinality(Seers(more, M)) >= max_sources
  BY <1>4, <1>12
<1> QED
  BY <1>13 DEF M, more

LEMMA RefreshedSound ==
    ASSUME NEW lg, NEW now \in Nat, LogSound(lg, now), NEW e, Known(e),
           NEW d, SourcesSound(d, lg, now),
           NEW r, Refreshed(d, Who(e), r), SourceSound(r[Len(r)], Append(lg, e), now)
    PROVE  SourcesSound(r, Append(lg, e), now)
<1> DEFINE more == Append(lg, e)
           n == Len(lg) + 1
           ip == Who(e)
           l == Len(r)
<1>1. /\ IsSeq(lg) /\ IsSeq(d) /\ Distinct(d) /\ IsSeq(r) /\ Distinct(r) /\ l <= max_sources
      /\ l \in Nat \ {0} /\ DOMAIN r = 1..l /\ r[l].key = ip
      /\ DOMAIN d = 1..Len(d) /\ Len(d) \in Nat
  BY SeqIs DEF LogSound, SourcesSound, Refreshed
<1>2. \A p \in DOMAIN r : p = l \/ (p \in 1..(l - 1) /\ p < l)
  BY <1>1
<1>3. /\ n \in Nat /\ DOMAIN lg \subseteq Nat /\ IsSeq(more) /\ more[n] = e
      /\ \A k \in DOMAIN lg : more[k] = lg[k] /\ k < n
      /\ Uses(more) = Uses(lg) \union {n} /\ Uses(lg) \subseteq DOMAIN lg
  BY <1>1, LogGrows, UsesGrow DEF Uses
<1>4. /\ \A key : key # ip => Mine(more, key) = Mine(lg, key)
      /\ \A key, i : key # ip => (LastUse(more, key, i) <=> LastUse(lg, key, i))
      /\ \A i : LastUse(more, ip, i) <=> i = n
  <2>1. \A key : Who(e) # key => Mine(more, key) = Mine(lg, key)
    BY <1>1, MineGrows
  <2>2. \A key, i : /\ Who(e) # key => (LastUse(more, key, i) <=> LastUse(lg, key, i))
                    /\ Who(e) = key => (LastUse(more, key, i) <=> i = n)
    BY <1>1, LastUseGrows
  <2> QED
    BY <2>1, <2>2
<1> HIDE DEF more, n
<1>5. ASSUME NEW p \in DOMAIN r
      PROVE  SourceSound(r[p], more, now)
  <2>1. CASE p = l
    BY <2>1 DEF more
  <2>2. CASE p \in 1..(l - 1)
    <3>1. PICK p0 \in DOMAIN d : r[p] = d[p0] /\ d[p0].key # ip
      BY <2>2 DEF Refreshed
    <3>2. SourceSound(d[p0], lg, now)
      BY DEF SourcesSound
    <3> QED
      BY <3>1, <3>2, <1>1, SourceStays DEF more
  <2> QED
    BY <2>1, <2>2, <1>2
<1>6. ByLastUse(r, more)
  <2> SUFFICES ASSUME NEW p \in DOMAIN r, NEW i \in Mine(more, r[p].key), NEW j \in Uses(more),
                      LastUse(more, r[p].key, i), LastUse(more, Who(more[j]), j), i < j
               PROVE  \E q \in DOMAIN r : r[q].key = Who(more[j]) /\ p < q
    BY DEF ByLastUse
  <2>1. i \in Uses(more) /\ i \in Nat /\ i <= n
    BY <1>3 DEF Mine
  <2>2. j \in Nat /\ j <= n
    BY <1>3
  <2>3. r[p].key # ip
    <3> SUFFICES ASSUME r[p].key = ip PROVE FALSE
      OBVIOUS
    <3>1. i = n
      BY <1>4
    <3> QED
      BY <3>1, <2>2, <1>3
  <2>4. p # l /\ p \in 1..(l - 1) /\ p < l
    BY <2>3, <1>1, <1>2
  <2>5. CASE j = n
    <3>1. r[l].key = Who(more[j]) /\ l \in DOMAIN r
      BY <2>5, <1>1, <1>3
    <3> QED
      BY <3>1, <2>4
  <2>6. CASE j # n
    <3>1. j \in Uses(lg) /\ more[j] = lg[j]
      BY <2>6, <1>3
    <3>2. Who(lg[j]) # ip
      <4> SUFFICES ASSUME Who(lg[j]) = ip PROVE FALSE
        OBVIOUS
      <4>1. j = n
        BY <3>1, <1>4
      <4> QED
        BY <4>1, <2>6
    <3>3. LastUse(lg, Who(lg[j]), j) /\ LastUse(lg, r[p].key, i) /\ i \in Mine(lg, r[p].key)
      BY <3>1, <3>2, <2>3, <1>4
    <3>4. PICK p0 \in DOMAIN d : r[p] = d[p0] /\ d[p0].key # ip
      BY <2>4 DEF Refreshed
    <3>5. PICK q0 \in DOMAIN d : d[q0].key = Who(lg[j]) /\ p0 < q0
      BY <3>1, <3>3, <3>4 DEF SourcesSound, ByLastUse
    <3>6. q0 # 1
      BY <3>5, <1>1
    <3>7. PICK q \in 1..(l - 1) : r[q] = d[q0]
      BY <3>2, <3>5, <3>6 DEF Refreshed
    <3>8. p # q
      BY <3>4, <3>5, <3>7, <1>1 DEF Distinct
    <3>9. ~(q < p)
      <4> SUFFICES ASSUME q < p PROVE FALSE
        OBVIOUS
      <4>1. PICK a \in DOMAIN d, b \in DOMAIN d : a < b /\ r[q] = d[a] /\ r[p] = d[b]
        BY <2>4 DEF Refreshed
      <4>2. a = q0 /\ b = p0
        BY <4>1, <3>4, <3>7, <1>1 DEF Distinct
      <4> QED
        BY <4>1, <4>2, <3>5, <1>1
    <3>10. p < q /\ q \in DOMAIN r
      BY <3>8, <3>9, <2>4, <1>1
    <3> QED
      BY <3>1, <3>5, <3>7, <3>10
  <2> QED
    BY <2>5, <2>6
<1>7. ForgottenRightly(r, more, now)
  <2> SUFFICES ASSUME NEW i \in Uses(more), LastUse(more, Who(more[i]), i),
                      ~HasKey(r, Who(more[i]))
               PROVE  \/ now - more[i].at >= Window
                      \/ Cardinality(Seers(more, {m \in Uses(more) : m > i})) >= max_sources
    BY DEF ForgottenRightly
  <2>1. Who(more[i]) # ip
    BY <1>1 DEF HasKey
  <2>2. i # n
    BY <2>1, <1>3
  <2>3. i \in Uses(lg) /\ more[i] = lg[i] /\ LastUse(lg, Who(lg[i]), i)
    BY <2>1, <2>2, <1>3, <1>4
  <2>4. CASE HasKey(d, Who(lg[i]))
    <3>1. PICK p \in DOMAIN d : d[p].key = Who(lg[i])
      BY <2>4 DEF HasKey
    <3>2. ~ \E k \in 1..(l - 1) : r[k] = d[p]
      <4> SUFFICES ASSUME NEW k \in 1..(l - 1), r[k] = d[p] PROVE FALSE
        OBVIOUS
      <4>1. k \in DOMAIN r /\ r[k].key = Who(more[i])
        BY <3>1, <2>3, <1>1
      <4> QED
        BY <4>1 DEF HasKey
    <3>3. p = 1 /\ ~HasKey(d, ip) /\ Len(d) = max_sources
      BY <3>1, <3>2, <2>1, <2>3 DEF Refreshed
    <3>4. Cardinality(Seers(more, {m \in Uses(more) : m > i})) >= max_sources
      BY <3>1, <3>3, <2>3, FirstGivesWay DEF more
    <3> QED
      BY <3>4
  <2>5. CASE now - lg[i].at >= Window
    BY <2>3, <2>5
  <2>6. CASE Cardinality(Seers(lg, {m \in Uses(lg) : m > i})) >= max_sources
    <3> DEFINE M == {m \in Uses(lg) : m > i}
               N == {m \in Uses(more) : m > i}
    <3>1. M \in SUBSET DOMAIN lg /\ N \in SUBSET DOMAIN more /\ M \subseteq N
      BY <1>3 DEF Uses
    <3>2. Seers(lg, M) = Seers(more, M)
      BY <3>1, <1>1, SeersGrow DEF more
    <3>3. IsFiniteSet(Seers(more, N)) /\ Cardinality(Seers(more, N)) \in Nat
      BY <3>1, <1>3, SeersFinite
    <3>4. Seers(more, M) \subseteq Seers(more, N)
      BY <3>1 DEF Seers
    <3>5. Cardinality(Seers(more, M)) <= Cardinality(Seers(more, N))
          /\ IsFiniteSet(Seers(more, M))
      BY <3>3, <3>4, FS_Subset
    <3>6. Cardinality(Seers(more, M)) \in Nat
      BY <3>5, FS_CardinalityType
    <3>7. Cardinality(Seers(more, M)) >= max_sources
      BY <2>6, <3>2
    <3> HIDE DEF M, N
    <3>8. Cardinality(Seers(more, N)) >= max_sources
      BY <3>3, <3>5, <3>6, <3>7, DetectorAssumption
    <3> QED
      BY <3>8 DEF N
  <2> QED
    BY <2>3, <2>4, <2>5, <2>6 DEF SourcesSound, ForgottenRightly
<1>8. SourcesSound(r, more, now)
  BY <1>1, <1>5, <1>6, <1>7 DEF SourcesSound
<1> QED
  BY <1>8 DEF more

Entries(d) ==
    \A p \in DOMAIN d :
        d[p] = [key |-> d[p].key, last_seen |-> d[p].last_seen, failures |-> d[p].failures,
                truncated_until |-> d[p].truncated_until]

EntryOf(d, ip, last) ==
    /\ HasKey(d, ip) => last = [Lookup(d, ip) EXCEPT !.last_seen = clock]
    /\ ~HasKey(d, ip) => last = Fresh(ip)

Renewed(d, ip, st) ==
    /\ Refreshed(d, ip, Assign(Seen(d, ip), st))
    /\ Last(Assign(Seen(d, ip), st)) = st
    /\ EntryOf(d, ip, Last(Seen(d, ip)))

(* The entry of the address is the last of the table, whether it is made   *)
(* or found.                                                               *)
LEMMA SeenIs ==
    ASSUME NEW d, IsSeq(d), Distinct(d), Len(d) <= max_sources, NEW ip, NEW st, st.key = ip,
           Entries(d)
    PROVE  Renewed(d, ip, st)
<1> DEFINE s == Seen(d, ip)
           r == Assign(s, st)
           l == Len(s)
<1>1. Len(d) \in Nat /\ DOMAIN d = 1..Len(d) /\ max_sources \in Nat \ {0}
  BY SeqIs, DetectorAssumption
<1>0. Len(d) \in Nat /\ max_sources \in Nat \ {0}
  BY SeqIs, DetectorAssumption
<1>2. /\ Refreshed(d, ip, s)
      /\ HasKey(d, ip) => Last(s) = [Lookup(d, ip) EXCEPT !.last_seen = clock]
      /\ ~HasKey(d, ip) => Last(s) = Fresh(ip)
  <2>1. CASE HasKey(d, ip)
    <3> DEFINE ent == [Lookup(d, ip) EXCEPT !.last_seen = clock]
    <3>1. PICK p0 \in DOMAIN d : Lookup(d, ip) = d[p0] /\ d[p0].key = ip
      BY <2>1, FoundIs
    <3>2. ent.key = ip
      <4>1. d[p0] = [key |-> d[p0].key, last_seen |-> d[p0].last_seen,
                     failures |-> d[p0].failures, truncated_until |-> d[p0].truncated_until]
        BY DEF Entries
      <4> QED
        BY <3>1, <4>1
    <3>3. s = MoveToEnd(Assign(d, ent), ip)
      BY <2>1 DEF Seen
    <3> HIDE DEF ent, s
    <3>4. PICK p : RenewedAt(d, ent, p, s)
      BY <3>2, <3>3, RenewIs
    <3>5. /\ p \in 1..(Len(d) + 1) /\ IsSeq(s)
          /\ Len(s) = IF p = Len(d) + 1 THEN Len(d) + 1 ELSE Len(d)
          /\ s[Len(s)] = ent
          /\ \A i \in 1..(Len(s) - 1) : s[i] = d[IF i < p THEN i ELSE i + 1]
          /\ \A i \in 1..Len(d) : i # p => d[i].key # ip
      BY <3>2, <3>4 DEF RenewedAt
    <3>6. p = p0 /\ p \in 1..Len(d) /\ Len(s) = Len(d) /\ Len(d) # 0
      <4>1. p0 \in 1..Len(d)
        BY ONLY <1>1, <3>1
      <4>2. p = p0
        BY ONLY <4>1, <3>1, <3>5
      <4>3. p # Len(d) + 1 /\ Len(d) # 0
        BY ONLY <4>1, <4>2, <1>1
      <4>4. Len(s) = Len(d)
        BY ONLY <4>3, <3>5
      <4> QED
        BY ONLY <4>1, <4>2, <4>3, <4>4
    <3>7. Distinct(s)
      BY <3>4, RenewKeeps
    <3> DEFINE K(i) == IF i < p THEN i ELSE i + 1
    <3>8. /\ \A i \in 1..(Len(s) - 1) : K(i) \in 1..Len(d) /\ K(i) # p
          /\ \A i, j \in 1..(Len(s) - 1) : i < j => K(i) < K(j)
      BY <3>6, <1>1
    <3>9. ASSUME NEW k \in 1..Len(d), k # p
          PROVE  \E i \in 1..(Len(s) - 1) : K(i) = k
      <4>1. CASE k < p
        <5>1. k \in 1..(Len(s) - 1) /\ K(k) = k
          BY <4>1, <3>6, <1>1
        <5> QED
          BY <5>1
      <4>2. CASE ~(k < p)
        <5>1. k - 1 \in 1..(Len(s) - 1) /\ K(k - 1) = k
          BY <4>2, <3>6, <3>9, <1>1
        <5> QED
          BY <5>1
      <4> QED
        BY <4>1, <4>2
    <3>10. \A i \in 1..(Len(s) - 1) : s[i] = d[K(i)]
      BY <3>5
    <3> HIDE DEF K
    <3>11. \A i \in 1..(Len(s) - 1) : \E q \in DOMAIN d : s[i] = d[q] /\ d[q].key # ip
      BY <3>5, <3>8, <3>10, <1>1
    <3>12. \A i, j \in 1..(Len(s) - 1) : i < j =>
              \E a, b \in DOMAIN d : a < b /\ s[i] = d[a] /\ s[j] = d[b]
      BY <3>8, <3>10, <1>1
    <3>13. \A q \in DOMAIN d : d[q].key # ip => \E i \in 1..(Len(s) - 1) : s[i] = d[q]
      BY <3>1, <3>6, <3>9, <3>10, <1>1
    <3>14. Refreshed(d, ip, s)
      BY <3>2, <3>5, <3>6, <3>7, <3>11, <3>12, <3>13 DEF Refreshed
    <3> QED
      BY <3>5, <3>14, <2>1 DEF Last, ent
  <2>2. CASE ~HasKey(d, ip)
    <3> DEFINE u == RoomFor(d, ip, max_sources)
               new == Fresh(ip)
    <3>1. s = Append(u, new) /\ new.key = ip
      BY <2>2 DEF Seen, Fresh
    <3>2. \A q \in DOMAIN d : d[q].key # ip
      BY <2>2 DEF HasKey
    <3>3. CASE Len(d) < max_sources
      <4>1. u = d
        BY <2>2, <3>3 DEF RoomFor
      <4> HIDE DEF u, s, new
      <4>2. /\ IsSeq(s) /\ Len(s) = Len(d) + 1 /\ s[Len(d) + 1] = new
            /\ \A i \in 1..Len(d) : s[i] = d[i]
        BY <3>1, <4>1, AppendIs
      <4>3. DOMAIN s = 1..(Len(d) + 1) /\ Len(s) - 1 = Len(d) /\ Len(s) # 0 /\ Len(s) <= max_sources
        BY <4>2, <3>3, <1>1, SeqIs
      <4>4. \A i \in 1..(Len(d) + 1) : i \in 1..Len(d) \/ i = Len(d) + 1
        BY <1>1
      <4>5. Distinct(s)
        BY <4>2, <4>3, <4>4, <3>1, <3>2, <1>1 DEF Distinct
      <4>6. Refreshed(d, ip, s)
        BY <4>2, <4>3, <4>5, <3>1, <3>2, <1>1 DEF Refreshed
      <4> QED
        BY <4>2, <4>6, <2>2 DEF Last, new
    <3>4. CASE ~(Len(d) < max_sources)
      <4>1. u = Tail(d) /\ Len(d) = max_sources /\ d # <<>>
        <5>1. Len(d) = max_sources
          BY ONLY <3>4, <1>0, Len(d) <= max_sources
        <5>2. d # <<>>
          <6> SUFFICES ASSUME d = <<>> PROVE FALSE
            OBVIOUS
          <6>1. Len(d) = 0
            BY ONLY d = <<>>
          <6> QED
            BY ONLY <6>1, <5>1, <1>0
        <5>3. u = PopFirst(d)
          BY ONLY <2>2, <3>4 DEF RoomFor
        <5> QED
          BY ONLY <5>1, <5>2, <5>3 DEF PopFirst
      <4>2. IsSeq(u) /\ Len(u) = Len(d) - 1 /\ \A i \in 1..(Len(d) - 1) : u[i] = d[i + 1]
        BY <4>1, TailIs
      <4> HIDE DEF u, s, new
      <4>3. /\ IsSeq(s) /\ Len(s) = (Len(d) - 1) + 1 /\ s[(Len(d) - 1) + 1] = new
            /\ \A i \in 1..(Len(d) - 1) : s[i] = d[i + 1]
        BY <3>1, <4>2, AppendIs
      <4>4. Len(s) = Len(d) /\ s[Len(d)] = new /\ DOMAIN s = 1..Len(d)
            /\ Len(s) # 0 /\ Len(s) <= max_sources
        <5>1. (Len(d) - 1) + 1 = Len(d)
          BY ONLY <1>0
        <5>2. Len(s) = Len(d) /\ s[Len(d)] = new
          BY ONLY <5>1, <4>3
        <5>3. DOMAIN s = 1..Len(s)
          BY ONLY <4>3, SeqIs
        <5> QED
          BY ONLY <5>2, <5>3, <4>1, <1>1
      <4>5. \A i \in 1..Len(d) : (i \in 1..(Len(d) - 1) /\ i + 1 \in 1..Len(d)) \/ i = Len(d)
        BY ONLY <1>0
      <4>6. Distinct(s)
        <5>0. SUFFICES \A i, j \in 1..Len(d) : s[i].key = s[j].key => i = j
          BY ONLY <5>0, <4>4 DEF Distinct
        <5> SUFFICES ASSUME NEW i \in 1..Len(d), NEW j \in 1..Len(d), s[i].key = s[j].key
                     PROVE  i = j
          OBVIOUS
        <5>1. CASE i = Len(d)
          <6> SUFFICES ASSUME j # Len(d) PROVE FALSE
            BY <5>1
          <6>1. j \in 1..(Len(d) - 1) /\ j + 1 \in DOMAIN d
            BY ONLY <4>5, <1>1, j \in 1..Len(d), j # Len(d)
          <6>2. s[j].key # ip
            BY ONLY <6>1, <4>3, <3>2
          <6>3. s[i].key = ip
            BY ONLY <5>1, <4>4, <3>1
          <6> QED
            BY <6>2, <6>3
        <5>2. CASE j = Len(d)
          <6> SUFFICES ASSUME i # Len(d) PROVE FALSE
            BY <5>2
          <6>1. i \in 1..(Len(d) - 1) /\ i + 1 \in DOMAIN d
            BY ONLY <4>5, <1>1, i \in 1..Len(d), i # Len(d)
          <6>2. s[i].key # ip
            BY ONLY <6>1, <4>3, <3>2
          <6>3. s[j].key = ip
            BY ONLY <5>2, <4>4, <3>1
          <6> QED
            BY <6>2, <6>3
        <5>3. CASE i # Len(d) /\ j # Len(d)
          <6>1. s[i] = d[i + 1] /\ s[j] = d[j + 1] /\ i + 1 \in DOMAIN d /\ j + 1 \in DOMAIN d
            BY <5>3, <4>3, <4>5, <1>1
          <6>2. i + 1 = j + 1
            BY <6>1 DEF Distinct
          <6> QED
            BY <6>2
        <5> QED
          BY <5>1, <5>2, <5>3
      <4>7. \A i \in 1..(Len(s) - 1) : i + 1 \in DOMAIN d /\ s[i] = d[i + 1]
        <5> SUFFICES ASSUME NEW i \in 1..(Len(s) - 1)
                     PROVE  i + 1 \in DOMAIN d /\ s[i] = d[i + 1]
          OBVIOUS
        <5>1. i \in 1..(Len(d) - 1)
          BY ONLY <4>4, i \in 1..(Len(s) - 1)
        <5>2. i + 1 \in DOMAIN d
          BY ONLY <5>1, <1>1
        <5> QED
          BY ONLY <5>1, <5>2, <4>3
      <4>8. \A i, j \in 1..(Len(s) - 1) : i < j =>
                \E a, b \in DOMAIN d : a < b /\ s[i] = d[a] /\ s[j] = d[b]
        <5>1. \A i, j \in 1..(Len(s) - 1) : i < j => i + 1 < j + 1
          BY <4>4
        <5> QED
          BY <5>1, <4>7
      <4>9. ASSUME NEW q \in DOMAIN d
            PROVE  q = 1 \/ \E k \in 1..(Len(s) - 1) : s[k] = d[q]
        <5>1. q # 1 => q - 1 \in 1..(Len(s) - 1) /\ (q - 1) + 1 = q
          BY <4>4, <1>1
        <5> QED
          BY <5>1, <4>7
      <4>10. Refreshed(d, ip, s)
        BY <4>1, <4>3, <4>4, <4>6, <4>7, <4>8, <4>9, <3>1, <3>2, <2>2 DEF Refreshed
      <4> QED
        BY <4>4, <4>10, <2>2 DEF Last, new
    <3> QED
      BY <3>3, <3>4
  <2> QED
    BY <2>1, <2>2
<1> HIDE DEF s
<1>3. /\ IsSeq(s) /\ Distinct(s) /\ l <= max_sources /\ l \in Nat \ {0} /\ DOMAIN s = 1..l
      /\ s[l].key = ip
  BY <1>2, SeqIs DEF Refreshed
<1>4a. l \in Nat \ {0}
  BY <1>3
<1>4. PICK p : AssignedAt(s, st, p, r)
  BY <1>3, AssignIs
<1> HIDE DEF r
<1>5. p = l /\ IsSeq(r) /\ Len(r) = l /\ r[l] = st /\ \A i \in 1..l : i # l => r[i] = s[i]
  <2>1. l \in 1..l /\ l # l + 1
    BY ONLY <1>4a
  <2>2. p = l
    BY <2>1, <1>3, <1>4 DEF AssignedAt
  <2> QED
    BY <2>1, <2>2, <1>4 DEF AssignedAt
<1>6. \A i \in 1..(l - 1) : i \in 1..l /\ i # l /\ r[i] = s[i]
  <2>1. \A i \in 1..(l - 1) : i \in 1..l /\ i # l
    BY ONLY <1>4a
  <2> QED
    BY <2>1, <1>5
<1>7. DOMAIN r = 1..l /\ \A i \in 1..l : r[i].key = s[i].key
  BY <1>3, <1>5, SeqIs
<1>8. Distinct(r)
  BY <1>3, <1>7 DEF Distinct
<1>9. Refreshed(d, ip, r)
  <2>1. \A i \in 1..(Len(r) - 1) : \E q \in DOMAIN d : r[i] = d[q] /\ d[q].key # ip
    BY ONLY <1>2, <1>5, <1>6 DEF Refreshed
  <2>2. \A i, j \in 1..(Len(r) - 1) : i < j =>
            \E a, b \in DOMAIN d : a < b /\ r[i] = d[a] /\ r[j] = d[b]
    BY ONLY <1>2, <1>5, <1>6 DEF Refreshed
  <2> QED
    BY ONLY <2>1, <2>2, <1>2, <1>3, <1>5, <1>6, <1>8, st.key = ip DEF Refreshed
<1> QED
  <2>1. EntryOf(d, ip, Last(s))
    BY <1>2 DEF EntryOf
  <2>2. Last(r) = st
    BY <1>5 DEF Last
  <2> QED
    BY <2>1, <2>2, <1>9 DEF Renewed, r, s


(* The history of an address in the table is not cut: fewer others than    *)
(* the table holds were used since.                                        *)
LEMMA FoundKnowsAll ==
    ASSUME NEW lg, NEW now, LogSound(lg, now), NEW e, Known(e),
           NEW d, SourcesSound(d, lg, now), HasKey(d, Who(e))
    PROVE  (Len(lg) + 1) \notin Losses(Append(lg, e), Who(e))
<1> DEFINE more == Append(lg, e)
           n == Len(lg) + 1
           ip == Who(e)
           gap == Gap(more, ip, n)
<1>1. IsSeq(lg) /\ IsSeq(d) /\ Len(d) <= max_sources /\ ByLastUse(d, lg)
  BY DEF LogSound, SourcesSound
<1>2. Len(d) \in Nat /\ max_sources \in Nat \ {0}
  BY <1>1, SeqIs, DetectorAssumption
<1>3. DOMAIN d = 1..Len(d)
  BY <1>1, SeqIs
<1>4. PICK p \in DOMAIN d : d[p].key = ip
  BY DEF HasKey
<1>5. PICK i \in Mine(lg, ip) : LastUse(lg, ip, i)
  BY <1>4 DEF SourcesSound, SourceSound
<1>6. /\ Uses(more) = Uses(lg) \union {n} /\ Uses(lg) \subseteq Nat /\ n \in Nat
      /\ \A m \in Uses(lg) : m \in DOMAIN lg /\ more[m] = lg[m] /\ m < n
  BY <1>1, UsesGrow, LogGrows DEF Uses
<1>7. Mine(more, ip) = Mine(lg, ip) \union {n}
  BY <1>1, MineGrows
<1>8. i \in Uses(lg) /\ i \in Nat /\ i < n
  BY <1>6 DEF Mine
<1>9. \A m \in gap : /\ m \in Uses(lg) /\ m \in Nat /\ i < m /\ more[m] = lg[m]
                     /\ Who(lg[m]) # ip
  <2> SUFFICES ASSUME NEW m \in gap
               PROVE  /\ m \in Uses(lg) /\ m \in Nat /\ i < m /\ more[m] = lg[m]
                      /\ Who(lg[m]) # ip
    OBVIOUS
  <2>1. m \in Uses(more) /\ m < n /\ \A j \in Mine(more, ip) : j < n => j < m
    BY DEF Gap
  <2>2. m \in Uses(lg) /\ m \in Nat /\ more[m] = lg[m]
    BY <2>1, <1>6
  <2>3. i < m
    BY <2>1, <1>7, <1>8
  <2>4. ASSUME Who(lg[m]) = ip
        PROVE  FALSE
    <3>1. m \in Mine(more, ip)
      BY <2>1, <2>2, <2>4 DEF Mine
    <3>2. m < m
      BY <3>1, <2>1
    <3> QED
      BY <3>2, <2>2
  <2> QED
    BY <2>2, <2>3, <2>4
<1>10. gap \in SUBSET DOMAIN more
  BY DEF Gap, Uses
<1> HIDE DEF gap, more, n
<1>11. ASSUME NEW m \in gap
       PROVE  \E q \in 1..Len(d) : q # p /\ d[q].key = Who(more[m])
  <2>1. m \in Mine(lg, Who(lg[m]))
    BY <1>9 DEF Mine
  <2>2. PICK j \in Mine(lg, Who(lg[m])) : LastUse(lg, Who(lg[m]), j) /\ m <= j
    BY <2>1, <1>1, LastExists
  <2>3. j \in Uses(lg) /\ Who(lg[j]) = Who(lg[m]) /\ j \in Nat
    BY <1>6 DEF Mine
  <2>4. i < j
    BY <2>2, <2>3, <1>8, <1>9
  <2>5. PICK q \in DOMAIN d : d[q].key = Who(lg[j]) /\ p < q
    BY <2>2, <2>3, <2>4, <1>1, <1>4, <1>5 DEF ByLastUse
  <2>6. d[q].key = Who(more[m]) /\ d[q].key # ip
    BY <2>3, <2>5, <1>9
  <2> QED
    BY <2>6, <1>3, <1>4
<1>12. Cardinality(Seers(more, gap)) < max_sources
  <2> DEFINE S == (1..Len(d)) \ {p}
             f == [q \in S |-> d[q].key]
  <2>1. IsFiniteSet(1..Len(d)) /\ Cardinality(1..Len(d)) = Len(d) /\ p \in 1..Len(d)
    <3>1. p \in 1..Len(d)
      BY <1>3
    <3>2. IsFiniteSet(1..Len(d)) /\ Cardinality(1..Len(d)) = IF 1 > Len(d) THEN 0 ELSE Len(d) - 1 + 1
      BY ONLY <1>2, FS_Interval
    <3>3. Cardinality(1..Len(d)) = Len(d)
      BY ONLY <3>2, <1>2
    <3> QED
      BY ONLY <3>1, <3>2, <3>3
  <2>2. IsFiniteSet(S) /\ Cardinality(S) = Len(d) - 1
    BY <2>1, FS_RemoveElement
  <2>3. Seers(more, gap) \subseteq {f[q] : q \in S} /\ DOMAIN f = S
    BY <1>11 DEF Seers
  <2> HIDE DEF S, f
  <2>4. Cardinality(Seers(more, gap)) \in Nat /\ Cardinality(Seers(more, gap)) <= Cardinality(S)
    BY <2>2, <2>3, NoMoreValues
  <2>5. Len(d) <= max_sources
    BY <1>1
  <2> QED
    BY ONLY <2>2, <2>4, <2>5, <1>2
<1>13. ~(Cardinality(Seers(more, gap)) >= max_sources)
  <2>1. Cardinality(Seers(more, gap)) \in Nat
    BY <1>1, <1>10, LogGrows, SeersFinite DEF more
  <2> QED
    BY ONLY <2>1, <1>2, <1>12
<1> QED
  BY <1>13 DEF Losses, gap, more, n

(* The history of an address that is not in the table is what it does now. *)
LEMMA ForgottenKnowsNothing ==
    ASSUME NEW lg, NEW now \in Nat, LogSound(lg, now), NEW e, Known(e), e.at = now,
           NEW d, SourcesSound(d, lg, now), ~HasKey(d, Who(e))
    PROVE  Counting(Append(lg, e), Who(e), now) = {i \in {Len(lg) + 1} : Fails(e)}
<1> DEFINE more == Append(lg, e)
           n == Len(lg) + 1
           ip == Who(e)
           gap == Gap(more, ip, n)
<1>1. IsSeq(lg) /\ ForgottenRightly(d, lg, now)
  BY DEF LogSound, SourcesSound
<1>2. SUFFICES n \in Losses(more, ip) \/ Counting(lg, ip, now) = {}
  BY <1>1, CountingGrows
<1>3. CASE Mine(lg, ip) = {}
  BY <1>3 DEF Counting
<1>4. CASE Mine(lg, ip) # {}
  <2>1. PICK i \in Mine(lg, ip) : LastUse(lg, ip, i)
    BY <1>4, <1>1, LastExists
  <2>2. /\ Uses(more) = Uses(lg) \union {n} /\ Uses(lg) \subseteq Nat /\ n \in Nat
        /\ \A m \in Uses(lg) : m \in DOMAIN lg /\ more[m] = lg[m] /\ m < n
    BY <1>1, UsesGrow, LogGrows DEF Uses
  <2>3. Mine(more, ip) = Mine(lg, ip) \union {n}
    BY <1>1, MineGrows
  <2>4. i \in Uses(lg) /\ i \in Nat /\ Who(lg[i]) = ip /\ i \in DOMAIN lg
    BY <2>2 DEF Mine
  <2>5. CASE now - lg[i].at >= Window
    <3>1. ASSUME NEW j \in Mine(lg, ip) PROVE ~(now - lg[j].at < Window)
      <4>1. j \in DOMAIN lg /\ j <= i
        BY <2>1, <2>2 DEF LastUse, Mine
      <4>2. lg[j].at \in Nat /\ lg[i].at \in Nat /\ lg[j].at <= lg[i].at
        BY <4>1, <2>4 DEF LogSound
      <4> QED
        BY <4>2, <2>5, DetectorAssumption
    <3> QED
      BY <3>1 DEF Counting
  <2>6. CASE Cardinality(Seers(lg, {m \in Uses(lg) : m > i})) >= max_sources
    <3> DEFINE M == {m \in Uses(lg) : m > i}
    <3>1. M \in SUBSET DOMAIN lg
      BY <2>2
    <3>2. M \subseteq gap
      <4> SUFFICES ASSUME NEW m \in M PROVE m \in gap
        OBVIOUS
      <4>1. m \in Uses(more) /\ m < n /\ m \in Nat /\ m > i
        BY <2>2
      <4>2. ASSUME NEW j \in Mine(more, ip), j < n PROVE j < m
        <5>1. j \in Mine(lg, ip)
          BY <4>2, <2>2, <2>3
        <5>2. j <= i /\ j \in Nat
          BY <5>1, <2>1, <2>2 DEF LastUse, Mine
        <5> QED
          BY <5>2, <4>1, <2>4
      <4> QED
        BY <4>1, <4>2 DEF Gap
    <3>3. Seers(lg, M) = Seers(more, M)
      BY <3>1, <1>1, SeersGrow
    <3>4. gap \in SUBSET DOMAIN more
      BY DEF Gap, Uses
    <3> HIDE DEF M, gap
    <3>5. IsFiniteSet(Seers(more, gap)) /\ Cardinality(Seers(more, gap)) \in Nat
      BY <3>4, <1>1, LogGrows, SeersFinite
    <3>6. Seers(more, M) \subseteq Seers(more, gap)
      BY <3>2 DEF Seers
    <3>7. /\ IsFiniteSet(Seers(more, M))
          /\ Cardinality(Seers(more, M)) <= Cardinality(Seers(more, gap))
      BY <3>5, <3>6, FS_Subset
    <3>8. Cardinality(Seers(more, M)) \in Nat
      BY <3>7, FS_CardinalityType
    <3>9. Cardinality(Seers(more, M)) >= max_sources
      BY <2>6, <3>3 DEF M
    <3>10. Cardinality(Seers(more, gap)) >= max_sources
      BY ONLY <3>5, <3>7, <3>8, <3>9, DetectorAssumption
    <3>11. n \in Mine(more, ip)
      BY <2>3
    <3> QED
      BY <3>10, <3>11 DEF Losses, gap
  <2>7. \/ HasKey(d, ip) \/ now - lg[i].at >= Window
        \/ Cardinality(Seers(lg, {m \in Uses(lg) : m > i})) >= max_sources
    BY <2>1, <2>4, <1>1 DEF ForgottenRightly
  <2> QED
    BY <2>5, <2>6, <2>7
<1> QED
  BY <1>3, <1>4

LEMMA SourceIs ==
    ASSUME NEW lg, NEW t, NEW key, NEW last, NEW fs, NEW until, NEW i, LastUse(lg, key, i),
           lg[i].at = last, Remembers(fs, Counting(lg, key, t), lg), Truncated(until, lg, key),
           GivenUp(until, lg, Counting(lg, key, t))
    PROVE  SourceSound([key |-> key, last_seen |-> last, failures |-> fs,
                        truncated_until |-> until], lg, t)
<1> DEFINE st == [key |-> key, last_seen |-> last, failures |-> fs, truncated_until |-> until]
<1>1. st.key = key /\ st.last_seen = last /\ st.failures = fs /\ st.truncated_until = until
  OBVIOUS
<1>2. st = [key |-> st.key, last_seen |-> st.last_seen, failures |-> st.failures,
            truncated_until |-> st.truncated_until]
  OBVIOUS
<1>3. i \in Mine(lg, key)
  BY DEF LastUse
<1> HIDE DEF st
<1>4. SourceSound(st, lg, t)
  BY <1>1, <1>2, <1>3 DEF SourceSound
<1> QED
  BY <1>4 DEF st

(* The entry of an address after its event.                                *)
LEMMA EntryGrows ==
    ASSUME clock \in Nat, NEW lg, LogSound(lg, clock), NEW e, Known(e), e.at = clock,
           NEW G \in SUBSET DOMAIN lg,
           Counting(Append(lg, e), Who(e), clock) = G \union {i \in {Len(lg) + 1} : Fails(e)},
           NEW fs, Remembers(fs, G, lg), NEW until, Truncated(until, lg, Who(e)),
           GivenUp(until, lg, G), NEW st,
           st = [key |-> Who(e), last_seen |-> clock, failures |-> fs, truncated_until |-> until]
    PROVE  /\ Fails(e) =>
                  /\ SourceSound(Remembered(st, NormalizedEvent(e.line).user),
                                 Append(lg, e), clock)
                  /\ Remembered(st, NormalizedEvent(e.line).user).key = Who(e)
           /\ ~Fails(e) => SourceSound(st, Append(lg, e), clock)
<1> DEFINE more == Append(lg, e)
           n == Len(lg) + 1
           ip == Who(e)
           user == NormalizedEvent(e.line).user
<1>0. IsSeq(lg)
  BY DEF LogSound
<1>1. /\ n \in Nat /\ IsSeq(more) /\ more[n] = e /\ n \in DOMAIN more /\ more # <<>>
      /\ Len(more) = n /\ n \notin DOMAIN lg
  <2>1. /\ n \in Nat /\ IsSeq(more) /\ more[n] = e /\ n \in DOMAIN more
        /\ Len(more) = n /\ n \notin DOMAIN lg
    BY <1>0, LogGrows
  <2> QED
    BY <2>1
<1>2. LastUse(more, ip, n) /\ n \in Mine(more, ip)
  BY <1>0, LastUseGrows DEF LastUse
<1>3. Truncated(until, more, ip)
  BY <1>0, TruncatedStays
<1>4. /\ st.key = ip /\ st.last_seen = clock /\ st.failures = fs /\ st.truncated_until = until
      /\ Fact(e) = [at |-> clock, user |-> user]
  BY DEF Fact
<1>5. /\ Len(fs) \in Nat /\ IsFiniteSet(G) /\ Cardinality(G) \in Nat /\ Len(fs) <= Cardinality(G)
      /\ Cardinality(G) > Len(fs) => Len(fs) = max_failures
  <2>1. Len(lg) \in Nat /\ G \subseteq 1..Len(lg)
    BY <1>0, SeqIs
  <2> QED
    BY <2>1, RememberedIs
<1> HIDE DEF more, n
<1>6. ASSUME Fails(e)
      PROVE  SourceSound(Remembered(st, user), more, clock) /\ Remembered(st, user).key = ip
  <2>1. Counting(more, ip, clock) = G \union {n}
    BY <1>6 DEF more, n
  <2>4. Cardinality(G \union {n}) = Cardinality(G) + 1 /\ IsFiniteSet(G \union {n})
    BY <1>1, <1>5, FS_AddElement
  <2>2. CASE Len(fs) >= max_failures
    <3> DEFINE gs == Append(Tail(fs), Fact(e))
    <3>1. Remembers(gs, G \union {n}, more)
      BY <1>0, <2>2, OneMoreRemembered DEF more, n
    <3>2. Remembered(st, user) =
             [key |-> ip, last_seen |-> clock, failures |-> gs, truncated_until |-> clock + Window]
      BY <2>2, <1>4 DEF Remembered
    <3> HIDE DEF gs
    <3>3. FailuresAt(more, n) = G \union {n}
      BY <2>1, <1>1, FailuresNow
    <3>5. Cardinality(FailuresAt(more, n)) > max_failures
      BY <3>3, <2>4, <2>2, <1>5, DetectorAssumption
    <3>6. Truncated(clock + Window, more, ip)
      BY <3>5, <1>1, <1>2, <1>6 DEF Truncated
    <3>9. GivenUp(clock + Window, more, G \union {n})
      <4> SUFFICES ASSUME NEW j \in G \union {n} PROVE more[j].at + Window <= clock + Window
        BY DEF GivenUp
      <4>1. CASE j = n
        BY <4>1, <1>1, DetectorAssumption
      <4>2. CASE j \in G
        <5>1. more[j] = lg[j]
          BY <4>2, <1>0, LogGrows DEF more
        <5>2. lg[j].at \in Nat /\ lg[j].at <= clock
          BY <4>2 DEF LogSound
        <5> QED
          BY <5>1, <5>2, DetectorAssumption
      <4> QED
        BY <4>1, <4>2
    <3>7. SourceSound([key |-> ip, last_seen |-> clock, failures |-> gs,
                       truncated_until |-> clock + Window], more, clock)
      <4>1. more[n].at = clock
        BY <1>1
      <4>2. Remembers(gs, Counting(more, ip, clock), more)
        BY <3>1, <2>1
      <4> QED
        BY <4>1, <4>2, <3>6, <3>9, <2>1, <1>2, SourceIs
    <3>8. Remembered(st, user).key = ip
      BY <3>2
    <3> QED
      BY <3>2, <3>7, <3>8
  <2>3. CASE ~(Len(fs) >= max_failures)
    <3> DEFINE gs == Append(fs, Fact(e))
    <3>1. Remembers(gs, G \union {n}, more)
      BY <1>0, <2>3, OneMoreRemembered DEF more, n
    <3>2. Remembered(st, user) =
             [key |-> ip, last_seen |-> clock, failures |-> gs, truncated_until |-> until]
      BY <2>3, <1>4 DEF Remembered
    <3> HIDE DEF gs
    <3>9. GivenUp(until, more, G \union {n})
      <4> DEFINE H == G \union {n}
      <4> SUFFICES ASSUME NEW j \in H PROVE j \in Latest(H)
        BY DEF GivenUp
      <4> DEFINE A == {k \in H : k > j}
      <4>1. j \in Int
        <5>1. DOMAIN lg \subseteq Nat
          BY <1>0, LogGrows
        <5> QED
          BY <5>1, <1>1
      <4>2. A \subseteq H \ {j}
        BY <4>1
      <4> HIDE DEF A, H
      <4>3. IsFiniteSet(H \ {j}) /\ Cardinality(H \ {j}) = Cardinality(H) - 1
        BY <2>4, FS_RemoveElement DEF H
      <4>4. IsFiniteSet(A) /\ Cardinality(A) <= Cardinality(H \ {j})
        BY <4>2, <4>3, FS_Subset
      <4>5. Cardinality(A) \in Nat
        BY <4>4, FS_CardinalityType
      <4>6. Cardinality(H) = Cardinality(G) + 1
        BY <2>4 DEF H
      <4>7. Len(fs) < max_failures /\ Cardinality(G) < max_failures
        BY ONLY <2>3, <1>5, DetectorAssumption
      <4>8. Cardinality(A) < max_failures
        BY ONLY <4>3, <4>4, <4>5, <4>6, <4>7, <1>5, DetectorAssumption
      <4> QED
        BY <4>8 DEF Latest, A
    <3>7. SourceSound([key |-> ip, last_seen |-> clock, failures |-> gs,
                       truncated_until |-> until], more, clock)
      <4>1. more[n].at = clock
        BY <1>1
      <4>2. Remembers(gs, Counting(more, ip, clock), more)
        BY <3>1, <2>1
      <4> QED
        BY <4>1, <4>2, <3>9, <2>1, <1>2, <1>3, SourceIs
    <3>8. Remembered(st, user).key = ip
      BY <3>2
    <3> QED
      BY <3>2, <3>7, <3>8
  <2> QED
    BY <2>2, <2>3
<1>7. ASSUME ~Fails(e)
      PROVE  SourceSound(st, more, clock)
  <2>1. Counting(more, ip, clock) = G
    BY <1>7 DEF more
  <2>2. Remembers(fs, G, more)
    BY <1>0, RememberedStays DEF more
  <2>3. GivenUp(until, more, G)
    BY <1>0, GivenUpStays DEF more
  <2> QED
    BY <2>1, <2>2, <2>3, <1>1, <1>2, <1>3, SourceIs
<1> QED
  BY <1>6, <1>7 DEF more

LEMMA LogSoundGrows ==
    ASSUME NEW lg, NEW now \in Nat, LogSound(lg, now), NEW e, e.at = now
    PROVE  LogSound(Append(lg, e), now)
<1> DEFINE more == Append(lg, e)
           n == Len(lg) + 1
<1>1. /\ n \in Nat /\ DOMAIN lg \subseteq Nat /\ IsSeq(more) /\ more[n] = e
      /\ DOMAIN more = DOMAIN lg \union {n}
      /\ \A i \in DOMAIN lg : i < n /\ more[i] = lg[i]
  BY LogGrows DEF LogSound
<1>2. /\ \A i \in DOMAIN lg : lg[i].at \in Nat /\ lg[i].at <= now
      /\ \A i, j \in DOMAIN lg : i <= j => lg[i].at <= lg[j].at
  BY DEF LogSound
<1> HIDE DEF more, n
<1>3. \A i \in DOMAIN more : more[i].at \in Nat /\ more[i].at <= now
  BY <1>1, <1>2
<1>4. ASSUME NEW i \in DOMAIN more, NEW j \in DOMAIN more, i <= j
      PROVE  more[i].at <= more[j].at
  <2>1. CASE j = n
    BY <2>1, <1>1, <1>3
  <2>2. CASE j # n
    <3>1. j \in DOMAIN lg /\ i # n
      BY <2>2, <1>1, <1>4
    <3>2. i \in DOMAIN lg
      BY <3>1, <1>1
    <3> QED
      BY <3>1, <3>2, <1>1, <1>2, <1>4
  <2> QED
    BY <2>1, <2>2
<1> QED
  BY <1>1, <1>3, <1>4 DEF LogSound, more

(* The entry as found or made, before the event changes it.                *)
LEMMA EntryIs ==
    ASSUME clock \in Nat, NEW lg, LogSound(lg, clock), NEW e, Known(e), e.at = clock,
           NEW d, SourcesSound(d, lg, clock), NEW last,
           EntryOf(d, Who(e), last)
    PROVE  \E fs, until, G :
               /\ last = [key |-> Who(e), last_seen |-> clock, failures |-> fs,
                          truncated_until |-> until]
               /\ G \in SUBSET DOMAIN lg
               /\ Counting(Append(lg, e), Who(e), clock)
                     = G \union {i \in {Len(lg) + 1} : Fails(e)}
               /\ Remembers(fs, G, lg) /\ Truncated(until, lg, Who(e)) /\ GivenUp(until, lg, G)
<1> DEFINE ip == Who(e)
           own == {i \in {Len(lg) + 1} : Fails(e)}
<1>1. CASE HasKey(d, ip)
  <2>1. PICK p \in DOMAIN d : Lookup(d, ip) = d[p] /\ d[p].key = ip
    BY <1>1, FoundIs
  <2> DEFINE st == d[p]
             G == Counting(lg, ip, clock)
  <2>2. SourceSound(st, lg, clock)
    BY DEF SourcesSound
  <2> HIDE DEF st
  <2>3. /\ st = [key |-> st.key, last_seen |-> st.last_seen, failures |-> st.failures,
                 truncated_until |-> st.truncated_until]
        /\ st.key = ip
    BY <2>1, <2>2 DEF SourceSound, st
  <2>4. last = [key |-> ip, last_seen |-> clock, failures |-> st.failures,
                truncated_until |-> st.truncated_until]
    <3>1. last = [st EXCEPT !.last_seen = clock]
      BY <1>1, <2>1 DEF st, EntryOf
    <3> QED
      BY ONLY <3>1, <2>3
  <2>5. G \in SUBSET DOMAIN lg
    BY CountingIn
  <2>6. Counting(Append(lg, e), ip, clock) = G \union own
    <3>1. Len(lg) + 1 \notin Losses(Append(lg, e), ip)
      BY <1>1, FoundKnowsAll
    <3> QED
      BY <3>1, CountingGrows DEF LogSound
  <2>7. Remembers(st.failures, G, lg) /\ Truncated(st.truncated_until, lg, ip)
        /\ GivenUp(st.truncated_until, lg, G)
    BY <2>2, <2>3 DEF SourceSound
  <2> HIDE DEF G, own
  <2> QED
    BY <2>4, <2>5, <2>6, <2>7 DEF own
<1>2. CASE ~HasKey(d, ip)
  <2>1. last = [key |-> ip, last_seen |-> clock, failures |-> <<>>, truncated_until |-> 0]
    BY <1>2 DEF Fresh, EntryOf
  <2>2. Counting(Append(lg, e), ip, clock) = {} \union own
    BY <1>2, ForgottenKnowsNothing
  <2>3. Remembers(<<>>, {}, lg) /\ Truncated(0, lg, ip) /\ GivenUp(0, lg, {})
    BY NothingRemembered DEF Truncated, GivenUp
  <2>4. {} \in SUBSET DOMAIN lg
    OBVIOUS
  <2> HIDE DEF own, ip
  <2> QED
    BY <2>1, <2>2, <2>3, <2>4 DEF own, ip
<1> QED
  BY <1>1, <1>2

(* The table after an event.                                               *)
LEMMA EventSources ==
    ASSUME clock \in Nat, NEW lg, LogSound(lg, clock), NEW e, Known(e), e.at = clock,
           NEW d, SourcesSound(d, lg, clock), NEW st,
           Fails(e) => st = Remembered(Last(Seen(d, Who(e))), NormalizedEvent(e.line).user),
           ~Fails(e) => st = Last(Seen(d, Who(e)))
    PROVE  /\ SourcesSound(Assign(Seen(d, Who(e)), st), Append(lg, e), clock)
           /\ SourceSound(st, Append(lg, e), clock) /\ st.key = Who(e)
<1> DEFINE ip == Who(e)
           last == Last(Seen(d, ip))
           r == Assign(Seen(d, ip), st)
           more == Append(lg, e)
<1>1. IsSeq(d) /\ Distinct(d) /\ Len(d) <= max_sources /\ Entries(d)
  BY DEF SourcesSound, SourceSound, Entries
<1>2. EntryOf(d, ip, last)
  <2> DEFINE any == [key |-> ip]
  <2>1. any.key = ip
    OBVIOUS
  <2> HIDE DEF any
  <2> QED
    BY <2>1, <1>1, SeenIs DEF Renewed
<1> HIDE DEF last
<1>3. PICK fs, until, G :
               /\ last = [key |-> Who(e), last_seen |-> clock, failures |-> fs,
                          truncated_until |-> until]
               /\ G \in SUBSET DOMAIN lg
               /\ Counting(Append(lg, e), Who(e), clock)
                     = G \union {i \in {Len(lg) + 1} : Fails(e)}
               /\ Remembers(fs, G, lg) /\ Truncated(until, lg, Who(e)) /\ GivenUp(until, lg, G)
  BY <1>2, EntryIs
<1>4. /\ Fails(e) => /\ SourceSound(Remembered(last, NormalizedEvent(e.line).user), more, clock)
                     /\ Remembered(last, NormalizedEvent(e.line).user).key = ip
      /\ ~Fails(e) => SourceSound(last, more, clock)
  BY <1>3, EntryGrows
<1>5. SourceSound(st, more, clock) /\ st.key = ip
  <2>1. last.key = ip
    BY <1>3
  <2> QED
    BY <2>1, <1>4 DEF last
<1>6. Refreshed(d, ip, r) /\ r[Len(r)] = st
  BY <1>1, <1>5, SeenIs DEF Last, Renewed
<1> HIDE DEF r, more, ip
<1>7. SourcesSound(r, more, clock)
  BY <1>5, <1>6, RefreshedSound DEF more, ip
<1> QED
  BY <1>5, <1>7 DEF r, more, ip

-----------------------------------------------------------------------------
(* What is raised, against the history.                                    *)

RaisedBy(e) == {a \in ToSet(e.alerts) : a.type # "SUSPECTED_METRIC_OUTLIER"}

(* What an observation says, of the line at the end of a log.              *)
Tells(lg, alert, F) ==
    /\ alert.evidence_count = Cardinality(Latest(F))
    /\ alert.targets = UsersOf(lg, Latest(F))
    /\ (alert.type = "SUSPECTED_PASSWORD_SPRAY") <=> (Cardinality(UsersOf(lg, Latest(F))) >= 3)
    /\ Cardinality(F) > alert.evidence_count => alert.evidence_truncated
    /\ alert.evidence_truncated =>
          \E i \in Mine(lg, alert.ip) :
              /\ Fails(lg[i]) /\ lg[Len(lg)].at - lg[i].at < Window
              /\ Cardinality(FailuresAt(lg, i)) > max_failures

ObservedOf(lg, e, F) ==
    /\ (RaisedBy(e) # {}) <=> (Fails(e) /\ Cardinality(F) >= 4)
    /\ \A alert \in RaisedBy(e) : Tells(lg, alert, F)

(* ObservationsFollowTheLog, for any log.                                  *)
Observed(lg) ==
    lg # <<>> /\ Known(lg[Len(lg)]) =>
        ObservedOf(lg, lg[Len(lg)], FailuresAt(lg, Len(lg)))

LEMMA ObservedTells ==
    ASSUME IsSeq(log), Observed(log)
    PROVE  ObservationsFollowTheLog
<1> SUFFICES ASSUME NEW n \in Events \intersect {Len(log)}
             PROVE  /\ (FailureAlerts(n) # {})
                         <=> (IsFailure(EventAt(n)) /\ Cardinality(FailuresFor(n)) >= 4)
                    /\ \A alert \in FailureAlerts(n) :
                          /\ alert.evidence_count = Cardinality(Latest(FailuresFor(n)))
                          /\ alert.targets = {EventAt(i).user : i \in Latest(FailuresFor(n))} \ {None}
                          /\ (alert.type = "SUSPECTED_PASSWORD_SPRAY")
                                <=> (Cardinality({EventAt(i).user : i \in Latest(FailuresFor(n))}
                                                 \ {None}) >= 3)
                          /\ Cardinality(FailuresFor(n)) > alert.evidence_count
                                => alert.evidence_truncated
                          /\ alert.evidence_truncated =>
                                \E i \in EventsUpTo(n) :
                                    /\ EventAt(i).ip = alert.ip /\ IsFailure(EventAt(i))
                                    /\ log[n].at - log[i].at < Window
                                    /\ Cardinality(FailuresFor(i)) > max_failures
  BY DEF ObservationsFollowTheLog, BurstIffFourInWindow, TruncationIsTold
<1>1. Events = Uses(log)
  BY DEF Events, Uses, Known
<1>2. /\ n \in DOMAIN log /\ n = Len(log) /\ Known(log[n]) /\ n \in Uses(log)
      /\ DOMAIN log = 1..Len(log) /\ Len(log) \in Nat
  BY <1>1, SeqIs DEF Uses
<1>3. log # <<>>
  BY <1>2
<1> DEFINE F == FailuresAt(log, n)
<1>4. FailuresFor(n) = F
  BY <1>2, FailuresForIs
<1> HIDE DEF F
<1>5. ObservedOf(log, log[n], F)
  BY <1>2, <1>3 DEF Observed, F
<1>6. FailureAlerts(n) = RaisedBy(log[n])
  BY DEF FailureAlerts, RaisedBy
<1>7. IsFailure(EventAt(n)) <=> Fails(log[n])
  BY DEF EventAt, Fails
<1>8. {EventAt(i).user : i \in Latest(F)} \ {None} = UsersOf(log, Latest(F))
  BY DEF EventAt, UsersOf
<1>9. ASSUME NEW alert \in RaisedBy(log[n]), alert.evidence_truncated
      PROVE  \E i \in EventsUpTo(n) :
                 /\ EventAt(i).ip = alert.ip /\ IsFailure(EventAt(i))
                 /\ log[n].at - log[i].at < Window
                 /\ Cardinality(FailuresFor(i)) > max_failures
  <2>1. PICK i \in Mine(log, alert.ip) :
              /\ Fails(log[i]) /\ log[n].at - log[i].at < Window
              /\ Cardinality(FailuresAt(log, i)) > max_failures
    BY <1>2, <1>5, <1>9 DEF ObservedOf, Tells
  <2>2. i \in Uses(log) /\ i <= n
    BY <1>2 DEF Mine, Uses
  <2>3. i \in EventsUpTo(n)
    BY <2>2, <1>1 DEF EventsUpTo
  <2>4. EventAt(i).ip = alert.ip /\ IsFailure(EventAt(i))
    BY <2>1 DEF Mine, Who, EventAt, Fails
  <2>5. FailuresFor(i) = FailuresAt(log, i)
    BY <2>2, FailuresForIs
  <2> QED
    BY <2>1, <2>3, <2>4, <2>5
<1>10. ASSUME NEW alert \in RaisedBy(log[n])
       PROVE  Tells(log, alert, F)
  BY <1>5 DEF ObservedOf
<1>11. (RaisedBy(log[n]) # {}) <=> (Fails(log[n]) /\ Cardinality(F) >= 4)
  BY <1>5 DEF ObservedOf
<1> HIDE DEF F
<1> QED
  BY <1>4, <1>6, <1>7, <1>8, <1>9, <1>10, <1>11 DEF Tells

(* The entry tells what an observation claims.                             *)
LEMMA ObservedNow ==
    ASSUME clock \in Nat, NEW lg, LogSound(lg, clock), NEW e, Known(e), e.at = clock, NEW st,
           SourceSound(st, Append(lg, e), clock), st.key = Who(e),
           RaisedBy(e) = {a \in {FailureAlert(st, NormalizedEvent(e.line))} :
                              Fails(e) /\ Len(st.failures) >= 4}
    PROVE  Observed(Append(lg, e))
<1> DEFINE more == Append(lg, e)
           n == Len(lg) + 1
           F == FailuresAt(more, n)
           fs == st.failures
           alert == FailureAlert(st, NormalizedEvent(e.line))
<1>1. /\ n \in Nat /\ IsSeq(more) /\ Len(more) = n /\ more[n] = e /\ n \in DOMAIN more
      /\ DOMAIN lg \subseteq Nat
  <2>1. IsSeq(lg)
    BY DEF LogSound
  <2> QED
    BY <2>1, LogGrows
<1>2. more # <<>>
  BY <1>1
<1>3. F = Counting(more, Who(e), clock)
  BY <1>1, <1>2, FailuresNow
<1>4. LogSound(more, clock)
  BY LogSoundGrows
<1> HIDE DEF more, n, F, fs
<1>5. Remembers(fs, F, more)
  BY <1>3 DEF SourceSound, fs, more
<1>6. F \subseteq 1..n
  <2>1. DOMAIN more = 1..n
    BY <1>1, SeqIs
  <2> QED
    BY <2>1, <1>3, CountingIn
<1>7. /\ Len(fs) \in Nat /\ Cardinality(F) \in Nat
      /\ Len(fs) = Cardinality(Latest(F)) /\ Len(fs) <= Cardinality(F)
      /\ Cardinality(F) > Len(fs) => Len(fs) = max_failures
  BY <1>1, <1>5, <1>6, RememberedIs
<1>8. KnownUsers(fs) = UsersOf(more, Latest(F))
  BY <1>1, <1>5, <1>6, RememberedIs
<1>9. Len(fs) >= 4 <=> Cardinality(F) >= 4
  BY <1>7, DetectorAssumption
<1>10. (RaisedBy(e) # {}) <=> (Fails(e) /\ Cardinality(F) >= 4)
  BY <1>9 DEF fs
<1>11. /\ alert.evidence_count = Len(fs) /\ alert.targets = KnownUsers(fs)
       /\ alert.type = IF Cardinality(KnownUsers(fs)) >= 3 THEN "SUSPECTED_PASSWORD_SPRAY"
                       ELSE "SUSPECTED_AUTH_FAILURE_BURST"
       /\ alert.ip = Who(e) /\ alert.evidence_truncated = (clock < st.truncated_until)
  BY DEF FailureAlert, fs, Who
<1> HIDE DEF alert
<1>12. Truncated(st.truncated_until, more, Who(e)) /\ GivenUp(st.truncated_until, more, F)
  BY <1>3 DEF SourceSound, more
<1>13. ASSUME Cardinality(F) > Len(fs)
       PROVE  clock < st.truncated_until
  <2>1. \E j \in F : j \notin Latest(F)
    <3> SUFFICES ASSUME \A j \in F : j \in Latest(F) PROVE FALSE
      OBVIOUS
    <3>1. Latest(F) = F
      BY DEF Latest
    <3> QED
      BY <3>1, <1>7, <1>13
  <2>2. PICK j \in F \ Latest(F) : more[j].at + Window <= st.truncated_until
    BY <2>1, <1>12 DEF GivenUp
  <2>3. clock - more[j].at < Window
    BY <1>3 DEF Counting
  <2>4. more[j].at \in Nat
    BY <1>3, <1>4, CountingIn DEF LogSound
  <2>5. clock < more[j].at + Window
    BY <2>3, <2>4, DetectorAssumption
  <2>6. st.truncated_until \in Int
    <3>1. CASE st.truncated_until = 0
      BY <3>1
    <3>2. CASE st.truncated_until # 0
      <4>1. PICK i \in Mine(more, Who(e)) : st.truncated_until = more[i].at + Window
        BY <3>2, <1>12 DEF Truncated
      <4>2. more[i].at \in Nat
        BY <1>4 DEF LogSound, Mine, Uses
      <4> QED
        BY <4>1, <4>2, DetectorAssumption
    <3> QED
      BY <3>1, <3>2
  <2> QED
    BY <2>2, <2>4, <2>5, <2>6, DetectorAssumption
<1>14. ASSUME clock < st.truncated_until
       PROVE  \E i \in Mine(more, Who(e)) :
                  /\ Fails(more[i]) /\ more[Len(more)].at - more[i].at < Window
                  /\ Cardinality(FailuresAt(more, i)) > max_failures
  <2>1. st.truncated_until # 0
    BY <1>14
  <2>2. PICK i \in Mine(more, Who(e)) :
            /\ Fails(more[i]) /\ st.truncated_until = more[i].at + Window
            /\ Cardinality(FailuresAt(more, i)) > max_failures
    BY <2>1, <1>12 DEF Truncated
  <2>3. more[i].at \in Nat /\ more[Len(more)].at = clock
    BY <1>1, <1>4 DEF LogSound, Mine, Uses
  <2>4. clock - more[i].at < Window
    BY <2>2, <2>3, <1>14, DetectorAssumption
  <2> QED
    BY <2>2, <2>3, <2>4
<1>15. Tells(more, alert, F)
  <2>1. (alert.type = "SUSPECTED_PASSWORD_SPRAY")
           <=> (Cardinality(UsersOf(more, Latest(F))) >= 3)
    BY <1>8, <1>11
  <2>2. alert.evidence_count = Cardinality(Latest(F)) /\ alert.targets = UsersOf(more, Latest(F))
    BY <1>7, <1>8, <1>11
  <2>3. Cardinality(F) > alert.evidence_count => alert.evidence_truncated
    BY <1>11, <1>13
  <2> QED
    BY <2>1, <2>2, <2>3, <1>11, <1>14 DEF Tells
<1>16. \A a \in RaisedBy(e) : a = alert
  BY DEF alert
<1>17. ObservedOf(more, e, F)
  BY <1>10, <1>15, <1>16 DEF ObservedOf
<1>18. Observed(more)
  BY <1>1, <1>17 DEF Observed, F
<1> QED
  BY <1>18 DEF more

-----------------------------------------------------------------------------
(* The steps.                                                              *)

AlertsAre(alerts, c, event, st, os) ==
    alerts = (IF c THEN <<FailureAlert(st, event)>> ELSE <<>>)
                 \o [i \in DOMAIN os |-> OutlierAlert(event, os[i])]
BurstIf(c, event, st) == {a \in {FailureAlert(st, event)} : c}

(* What is raised by a burst and by outliers, among the alerts of a line.  *)
LEMMA RaisedIs ==
    ASSUME NEW e, NEW c, NEW event, NEW st, NEW os, IsSeq(os),
           AlertsAre(e.alerts, c, event, st, os)
    PROVE  RaisedBy(e) = BurstIf(c, event, st)
<1> DEFINE alert == FailureAlert(st, event)
           s == IF c THEN <<alert>> ELSE <<>>
           t == [i \in DOMAIN os |-> OutlierAlert(event, os[i])]
<1>1. alert.type # "SUSPECTED_METRIC_OUTLIER"
  BY DEF FailureAlert
<1>2. \A m : OutlierAlert(event, m).type = "SUSPECTED_METRIC_OUTLIER"
  BY DEF OutlierAlert
<1>3. Len(os) \in Nat /\ DOMAIN os = 1..Len(os)
  BY SeqIs
<1> HIDE DEF alert
<1>4. IsSeq(t) /\ Len(t) = Len(os) /\ \A i \in 1..Len(os) : t[i] = OutlierAlert(event, os[i])
  BY <1>3, FunctionIs
<1>5. IsSeq(s) /\ Len(s) \in Nat
  BY OneIs, EmptyIs, SeqIs
<1>6. c => Len(s) = 1 /\ s[1] = alert
  OBVIOUS
<1>7. ~c => Len(s) = 0
  OBVIOUS
<1> DEFINE u == s \o t
           n == Len(s)
           m == Len(os)
<1> HIDE DEF s, t
<1>8. /\ DOMAIN u = 1..(n + m)
      /\ \A i \in 1..(n + m) : u[i] = IF i <= n THEN s[i] ELSE t[i - n]
  BY <1>4, <1>5, ConcatIs
<1>9. e.alerts = u
  BY DEF s, t, alert, AlertsAre
<1> HIDE DEF u
<1>10. n \in Nat /\ m \in Nat
  BY <1>3, <1>5
<1>11. ASSUME NEW a \in RaisedBy(e)
       PROVE  a = alert /\ c
  <2>1. a \in ToSet(u) /\ a.type # "SUSPECTED_METRIC_OUTLIER"
    BY <1>9 DEF RaisedBy
  <2>2. PICK i \in 1..(n + m) : a = u[i]
    BY <2>1, <1>8 DEF ToSet
  <2>3. i <= n
    <3> SUFFICES ASSUME ~(i <= n) PROVE FALSE
      OBVIOUS
    <3>1. u[i] = t[i - n] /\ i - n \in 1..m
      BY <1>8, <1>10
    <3>2. u[i] = OutlierAlert(event, os[i - n])
      BY <3>1, <1>4
    <3> QED
      BY <3>2, <2>1, <2>2, <1>2
  <2>4. a = s[i]
    BY <2>2, <2>3, <1>8
  <2>5. c
    <3> SUFFICES ASSUME ~c PROVE FALSE
      OBVIOUS
    <3>1. n = 0
      BY <1>7
    <3> QED
      BY <3>1, <2>2, <2>3, <1>10
  <2>6. i = 1
    <3>1. n = 1
      BY <2>5, <1>6
    <3> QED
      BY <3>1, <2>2, <2>3, <1>10
  <2> QED
    BY <2>4, <2>5, <2>6, <1>6
<1>12. ASSUME c
       PROVE  alert \in RaisedBy(e)
  <2>1. n = 1 /\ s[1] = alert
    BY <1>6, <1>12
  <2>2. 1 \in 1..(n + m) /\ 1 <= n
    BY <2>1, <1>10
  <2>3. u[1] = alert /\ 1 \in DOMAIN u
    BY <2>1, <2>2, <1>8
  <2>4. alert \in ToSet(u)
    BY <2>3 DEF ToSet
  <2> QED
    BY <2>4, <1>1, <1>9 DEF RaisedBy
<1> QED
  BY <1>11, <1>12 DEF alert, BurstIf

WatchSound == scenario \in Scenarios /\ DetectorSound /\ Observed(log)

LEMMA EventKeeps ==
    ASSUME NEW line, IngestEvent(line), clock \in Nat, DetectorSound
    PROVE  /\ LogSound(log', clock) /\ Observed(log')
           /\ SourcesSound(sources', log', clock)
<1> DEFINE event == NormalizedEvent(line)
           seen == Seen(Pruned(sources), event.ip)
           scored == Scored(event, Alive(series))
           st == IF IsFailure(event) THEN Remembered(Last(seen), event.user) ELSE Last(seen)
           bursts == IF IsFailure(event) /\ Len(st.failures) >= 4
                     THEN <<FailureAlert(st, event)>> ELSE <<>>
           outliers == [i \in DOMAIN scored.outliers |-> OutlierAlert(event, scored.outliers[i])]
           e == [line |-> line, at |-> clock, alerts |-> bursts \o outliers]
<1>1. /\ IsEvent(line) /\ event.ip # None
      /\ sources' = Assign(seen, st)
      /\ log' = Append(log, e)
  BY DEF IngestEvent, Ingested
<1>2. /\ Known(e) /\ e.at = clock /\ Who(e) = event.ip /\ NormalizedEvent(e.line) = event
      /\ Fails(e) <=> IsFailure(event)
  BY <1>1 DEF Known, Who, Fails
<1>3. LogSound(log, clock)
  BY DEF DetectorSound
<1>4. PICK t \in 0..clock : SourcesSound(sources, log, t)
  BY DEF DetectorSound
<1>5. t \in Nat /\ t <= clock
  BY <1>4
<1>6. SourcesSound(Pruned(sources), log, clock)
  BY <1>3, <1>4, <1>5, PrunedSound
<1>7. IsSeq(scored.outliers)
  BY MetricsAre, OutliersAre
<1>8. RaisedBy(e) = {a \in {FailureAlert(st, event)} : IsFailure(event) /\ Len(st.failures) >= 4}
  <2> DEFINE c == IsFailure(event) /\ Len(st.failures) >= 4
             os == scored.outliers
  <2>1. AlertsAre(e.alerts, c, event, st, os)
    BY DEF AlertsAre
  <2>2. IsSeq(os)
    BY <1>7
  <2> HIDE DEF c, os, e, st, event
  <2>3. RaisedBy(e) = BurstIf(c, event, st)
    BY <2>1, <2>2, RaisedIs
  <2> QED
    BY <2>3 DEF c, BurstIf
<1>9. /\ Fails(e) => st = Remembered(Last(seen), event.user)
      /\ ~Fails(e) => st = Last(seen)
  BY <1>2
<1> HIDE DEF st, e, event
<1>10. /\ Fails(e) => st = Remembered(Last(Seen(Pruned(sources), Who(e))),
                                      NormalizedEvent(e.line).user)
       /\ ~Fails(e) => st = Last(Seen(Pruned(sources), Who(e)))
  BY <1>2, <1>9
<1>11. /\ SourcesSound(Assign(Seen(Pruned(sources), Who(e)), st), Append(log, e), clock)
       /\ SourceSound(st, Append(log, e), clock) /\ st.key = Who(e)
  BY <1>2, <1>3, <1>6, <1>10, EventSources
<1>12. LogSound(Append(log, e), clock)
  BY <1>2, <1>3, LogSoundGrows
<1>13. Observed(Append(log, e))
  <2>1. RaisedBy(e) = {a \in {FailureAlert(st, NormalizedEvent(e.line))} :
                              Fails(e) /\ Len(st.failures) >= 4}
    BY <1>2, <1>8
  <2> QED
    BY <2>1, <1>2, <1>3, <1>11, ObservedNow
<1> QED
  BY <1>1, <1>2, <1>11, <1>12, <1>13

(* A line of no known address, given to the engine or not.                 *)
LEMMA QuietLineKeeps ==
    ASSUME NEW e, ~Known(e), e.at = clock, clock \in Nat,
           LogSound(log, clock), NEW t, NEW d, SourcesSound(d, log, t)
    PROVE  /\ LogSound(Append(log, e), clock) /\ Observed(Append(log, e))
           /\ SourcesSound(d, Append(log, e), t)
<1>1. IsSeq(log)
  BY DEF LogSound
<1>2. LogSound(Append(log, e), clock)
  BY LogSoundGrows
<1>3. SourcesSound(d, Append(log, e), t)
  BY <1>1, SourcesStay
<1>4. Append(log, e)[Len(Append(log, e))] = e
  BY <1>1, LogGrows
<1>5. Observed(Append(log, e))
  BY <1>4 DEF Observed
<1> QED
  BY <1>2, <1>3, <1>5

LEMMA OtherKeeps ==
    ASSUME NEW line, IngestOther(line), clock \in Nat, DetectorSound
    PROVE  /\ LogSound(log', clock) /\ Observed(log')
           /\ SourcesSound(sources', log', clock)
<1> DEFINE e == [line |-> line, at |-> clock, alerts |-> <<>>]
<1>1. ~Known(e) /\ e.at = clock /\ log' = Append(log, e) /\ sources' = Pruned(sources)
  BY DEF IngestOther, Known, Ingested
<1>2. LogSound(log, clock)
  BY DEF DetectorSound
<1>3. PICK t \in 0..clock : SourcesSound(sources, log, t)
  BY DEF DetectorSound
<1>4. t \in Nat /\ t <= clock
  BY <1>3
<1>5. SourcesSound(Pruned(sources), log, clock)
  BY <1>2, <1>3, <1>4, PrunedSound
<1> HIDE DEF e
<1> QED
  BY <1>1, <1>2, <1>5, QuietLineKeeps

LEMMA PlainLineKeeps ==
    ASSUME NEW line, PlainLine(line), line.format = "plain", clock \in Nat, DetectorSound
    PROVE  /\ LogSound(log', clock) /\ Observed(log')
           /\ \E t \in 0..clock : SourcesSound(sources', log', t)
<1> DEFINE e == [line |-> line, at |-> clock, alerts |-> <<>>]
<1>1. ~Known(e) /\ e.at = clock /\ log' = Append(log, e) /\ sources' = sources
  BY DEF PlainLine, Known, Ingested, IsEvent
<1>2. LogSound(log, clock)
  BY DEF DetectorSound
<1>3. PICK t \in 0..clock : SourcesSound(sources, log, t)
  BY DEF DetectorSound
<1> HIDE DEF e
<1>4. /\ LogSound(Append(log, e), clock) /\ Observed(Append(log, e))
      /\ SourcesSound(sources, Append(log, e), t)
  BY <1>1, <1>2, <1>3, QuietLineKeeps
<1> QED
  BY <1>1, <1>3, <1>4

LEMMA IngestKeeps ==
    ASSUME NEW line \in NextLines(scenario.lines, Len(log) + 1), IngestLine(line),
           clock \in Nat, clock' = clock, WatchSound
    PROVE  WatchSound'
<1>1. scenario' = scenario /\ scenario \in Scenarios /\ DetectorSound
  BY DEF IngestLine, WatchSound
<1>2. /\ LogSound(log', clock) /\ Observed(log')
      /\ \E t \in 0..clock : SourcesSound(sources', log', t)
  <2>1. CASE scenario.security
    <3>1. IngestRawLog(line)
      BY <2>1 DEF IngestLine, SecurityLine
    <3>2. LogSound(log', clock) /\ Observed(log') /\ SourcesSound(sources', log', clock)
      BY <3>1, <1>1, EventKeeps, OtherKeeps DEF IngestRawLog
    <3> QED
      BY <3>2
  <2>2. CASE ~scenario.security
    <3>1. PlainLine(line)
      BY <2>2 DEF IngestLine
    <3>2. line.format = "plain"
      BY <2>2, <1>1, ScenarioAssumption DEF NextLines, Plausible
    <3> QED
      BY <3>1, <3>2, <1>1, PlainLineKeeps
  <2> QED
    BY <2>1, <2>2
<1> QED
  BY <1>1, <1>2 DEF WatchSound, DetectorSound

LEMMA WatchBegins == Init => WatchSound
<1> SUFFICES ASSUME Init PROVE WatchSound
  OBVIOUS
<1>1. scenario \in Scenarios /\ sources = <<>> /\ log = <<>> /\ clock = 0
  BY DEF Init, DetectorInit
<1>2. IsSeq(<<>>) /\ Len(<<>>) = 0 /\ DOMAIN <<>> = {}
  BY EmptyIs
<1>3. LogSound(<<>>, 0)
  BY <1>2 DEF LogSound
<1>4. Uses(<<>>) = {}
  BY <1>2 DEF Uses
<1>5. SourcesSound(<<>>, <<>>, 0)
  BY <1>2, <1>4, DetectorAssumption
     DEF SourcesSound, Distinct, ByLastUse, ForgottenRightly
<1>6. Observed(<<>>)
  BY DEF Observed
<1> QED
  BY <1>1, <1>3, <1>5, <1>6 DEF WatchSound, DetectorSound

LEMMA WatchKept == IInv /\ WatchSound /\ [Next]_vars => WatchSound'
<1> SUFFICES ASSUME IInv, WatchSound, [Next]_vars PROVE WatchSound'
  OBVIOUS
<1>1. clock \in Nat
  BY DEF IInv
<1>2. ASSUME NEW reading, AnalyzeDisk(reading), UNCHANGED clock
      PROVE  WatchSound'
  BY <1>2 DEF AnalyzeDisk, WatchSound, DetectorSound
<1>3. ASSUME NEW line \in NextLines(scenario.lines, Len(log) + 1), IngestLine(line),
             UNCHANGED clock
      PROVE  WatchSound'
  BY <1>1, <1>3, IngestKeeps
<1>4. ASSUME NEW spoiled, EndCycle(spoiled), UNCHANGED clock
      PROVE  WatchSound'
  BY <1>4 DEF EndCycle, WatchSound, DetectorSound
<1>5. ASSUME Deliver, UNCHANGED clock
      PROVE  WatchSound'
  <2>1. UNCHANGED <<scenario, sources, log>>
    BY <1>5 DEF Deliver
  <2> QED
    BY <2>1, <1>5 DEF WatchSound, DetectorSound
<1>6. CASE TimePasses
  <2>1. UNCHANGED <<scenario, sources, log>> /\ clock' = clock + 1
    BY <1>6 DEF TimePasses, Tick
  <2>2. LogSound(log, clock + 1)
    <3>1. LogSound(log, clock)
      BY DEF WatchSound, DetectorSound
    <3> QED
      BY <3>1, <1>1 DEF LogSound
  <2>3. \E t \in 0..(clock + 1) : SourcesSound(sources, log, t)
    BY <1>1 DEF WatchSound, DetectorSound
  <2> QED
    BY <2>1, <2>2, <2>3 DEF WatchSound, DetectorSound
<1>7. CASE UNCHANGED vars
  BY <1>7 DEF vars, WatchSound, DetectorSound
<1> QED
  BY <1>2, <1>3, <1>4, <1>5, <1>6, <1>7 DEF Next, Step

LEMMA WatchHolds == Spec => []WatchSound
<1>1. Init => WatchSound
  BY WatchBegins
<1>2. IInv /\ WatchSound /\ [Next]_vars => WatchSound'
  BY WatchKept
<1> QED
  BY <1>1, <1>2, InvariantHolds, PTL DEF Spec

(* A burst or a spray is raised for a source exactly when the history of   *)
(* its failures, cut only where the bounded table had to forget it, says   *)
(* so, with the evidence it says and the truncation told: for any lines,   *)
(* table sizes and times (security_detector.py ingest_raw_log and _prune). *)
THEOREM ObservationsHold == Spec => []ObservationsFollowTheLog
<1>1. WatchSound => ObservationsFollowTheLog
  BY ObservedTells DEF WatchSound, DetectorSound, LogSound
<1> QED
  BY <1>1, WatchHolds, PTL

-----------------------------------------------------------------------------
(* Powers and sums.                                                        *)

PowerBy(b, n, f) == f = [i \in 0..n |-> IF i = 0 THEN 1 ELSE b * f[i - 1]]
TotalBy(s, n, f) == f = [i \in 0..n |-> IF i = 0 THEN 0 ELSE f[i - 1] + s[i]]

LEMMA PowerExists ==
    ASSUME NEW b \in Int
    PROVE  \A n \in Nat : \E f \in [0..n -> Int] : PowerBy(b, n, f)
<1> DEFINE N == {n \in Nat : \E f \in [0..n -> Int] : PowerBy(b, n, f)}
<1>1. 0 \in N
  <2> DEFINE f == [i \in 0..0 |-> 1]
  <2>1. PowerBy(b, 0, f) /\ f \in [0..0 -> Int]
    <3>1. \A i \in 0..0 : i = 0
      OBVIOUS
    <3> QED
      BY <3>1 DEF PowerBy
  <2> QED
    BY <2>1
<1>2. ASSUME NEW n \in N
      PROVE  n + 1 \in N
  <2>1. PICK f \in [0..n -> Int] : PowerBy(b, n, f)
    OBVIOUS
  <2> DEFINE g == [i \in 0..(n + 1) |-> IF i = n + 1 THEN b * f[n] ELSE f[i]]
  <2>2. f[n] \in Int /\ b * f[n] \in Int
    BY <2>1
  <2>3. ASSUME NEW i \in 0..(n + 1)
        PROVE  g[i] = (IF i = 0 THEN 1 ELSE b * g[i - 1]) /\ g[i] \in Int
    <3>1. CASE i = n + 1
      <4>1. i # 0 /\ i - 1 = n /\ n \in 0..(n + 1) /\ n # n + 1
        BY <3>1
      <4>2. g[i - 1] = f[n]
        BY <4>1
      <4> QED
        BY <3>1, <4>1, <4>2, <2>2
    <3>2. CASE i # n + 1
      <4>1. i \in 0..n /\ (i # 0 => i - 1 \in 0..(n + 1) /\ i - 1 # n + 1)
        BY <3>2
      <4>2. g[i] = f[i] /\ (i # 0 => g[i - 1] = f[i - 1])
        BY <3>2, <4>1
      <4>3. f[i] = IF i = 0 THEN 1 ELSE b * f[i - 1]
        BY <2>1, <4>1 DEF PowerBy
      <4>4. f[i] \in Int
        BY <2>1, <4>1
      <4> QED
        BY <4>2, <4>3, <4>4
    <3> QED
      BY <3>1, <3>2
  <2>4. g \in [0..(n + 1) -> Int]
    BY <2>3
  <2>5. PowerBy(b, n + 1, g)
    BY <2>3 DEF PowerBy
  <2> HIDE DEF g
  <2> QED
    BY <2>4, <2>5
<1>3. N \in SUBSET Nat
  OBVIOUS
<1> HIDE DEF N
<1>4. N = Nat
  BY <1>1, <1>2, <1>3, Induction
<1> QED
  BY <1>4 DEF N

LEMMA PowerFrom ==
    ASSUME NEW b \in Int, NEW n \in Nat
    PROVE  \E f \in [0..n -> Int] : PowerBy(b, n, f) /\ Power(b, n) = f[n]
<1> DEFINE f == CHOOSE f : PowerBy(b, n, f)
<1>1. PICK g \in [0..n -> Int] : PowerBy(b, n, g)
  BY PowerExists
<1>2. PowerBy(b, n, f)
  BY <1>1
<1>3. Power(b, n) = f[n]
  BY DEF Power, PowerBy
<1> HIDE DEF f
<1>4. f \in [0..n -> Int]
  <2> DEFINE N == {i \in Nat : i <= n => f[i] \in Int}
  <2>1. 0 \in N
    <3>1. 0 \in 0..n
      OBVIOUS
    <3>2. f[0] = 1
      BY <1>2, <3>1 DEF PowerBy
    <3> QED
      BY <3>2
  <2>2. ASSUME NEW i \in N
        PROVE  i + 1 \in N
    <3> SUFFICES ASSUME i + 1 <= n PROVE f[i + 1] \in Int
      OBVIOUS
    <3>1. i + 1 \in 0..n /\ i + 1 # 0 /\ (i + 1) - 1 = i /\ f[i] \in Int
      OBVIOUS
    <3>2. f[i + 1] = b * f[i]
      BY <1>2, <3>1 DEF PowerBy
    <3> QED
      BY <3>1, <3>2
  <2>3. N \in SUBSET Nat
    OBVIOUS
  <2>4. N = Nat
    <3> HIDE DEF N
    <3> QED
      BY <2>1, <2>2, <2>3, Induction
  <2>5. \A i \in 0..n : f[i] \in Int
    BY <2>4
  <2>6. DOMAIN f = 0..n /\ f = [i \in 0..n |-> f[i]]
    BY <1>2 DEF PowerBy
  <2> QED
    BY <2>5, <2>6
<1> QED
  BY <1>2, <1>3, <1>4

LEMMA SamePower ==
    ASSUME NEW b \in Int, NEW n \in Nat, NEW f, PowerBy(b, n, f), NEW m \in Nat, m >= n,
           NEW g, PowerBy(b, m, g)
    PROVE  f[n] = g[n]
<1> DEFINE N == {i \in Nat : i <= n => f[i] = g[i]}
<1>1. 0 \in N
  <2>1. 0 \in 0..n /\ 0 \in 0..m
    OBVIOUS
  <2>2. f[0] = 1 /\ g[0] = 1
    BY <2>1 DEF PowerBy
  <2> QED
    BY <2>2
<1>2. ASSUME NEW i \in N
      PROVE  i + 1 \in N
  <2> SUFFICES ASSUME i + 1 <= n PROVE f[i + 1] = g[i + 1]
    OBVIOUS
  <2>1. /\ i + 1 \in 0..n /\ i + 1 \in 0..m /\ i + 1 # 0 /\ (i + 1) - 1 = i /\ f[i] = g[i]
    OBVIOUS
  <2>2. f[i + 1] = b * f[i] /\ g[i + 1] = b * g[i]
    BY <2>1 DEF PowerBy
  <2> QED
    BY <2>1, <2>2
<1>3. N \in SUBSET Nat
  OBVIOUS
<1>4. N = Nat
  <2> HIDE DEF N
  <2> QED
    BY <1>1, <1>2, <1>3, Induction
<1> QED
  BY <1>4

(* b to the n, as usual.                                                   *)
LEMMA PowerIs ==
    ASSUME NEW b \in Int
    PROVE  /\ Power(b, 0) = 1
           /\ \A n \in Nat : Power(b, n) \in Int /\ Power(b, n + 1) = b * Power(b, n)
<1>1. Power(b, 0) = 1
  <2>1. PICK f \in [0..0 -> Int] : PowerBy(b, 0, f) /\ Power(b, 0) = f[0]
    BY PowerFrom
  <2>2. f[0] = 1
    BY <2>1 DEF PowerBy
  <2> QED
    BY <2>1, <2>2
<1>2. ASSUME NEW n \in Nat
      PROVE  Power(b, n) \in Int /\ Power(b, n + 1) = b * Power(b, n)
  <2>1. PICK f \in [0..n -> Int] : PowerBy(b, n, f) /\ Power(b, n) = f[n]
    BY PowerFrom
  <2> DEFINE m == n + 1
  <2>6. m \in Nat /\ m >= n
    OBVIOUS
  <2> HIDE DEF m
  <2>2. PICK g \in [0..m -> Int] : PowerBy(b, m, g) /\ Power(b, m) = g[m]
    BY <2>6, PowerFrom
  <2>3. f[n] = g[n]
    BY <2>1, <2>2, <2>6, SamePower
  <2> USE DEF m
  <2>4. n + 1 \in 0..(n + 1) /\ n + 1 # 0 /\ (n + 1) - 1 = n
    OBVIOUS
  <2>5. g[n + 1] = b * g[n]
    BY <2>2, <2>4 DEF PowerBy
  <2> QED
    BY <2>1, <2>2, <2>3, <2>5
<1> QED
  BY <1>1, <1>2

(* And no smaller than one.                                                *)
LEMMA PowerPositive ==
    ASSUME NEW b \in Nat \ {0}, NEW n \in Nat
    PROVE  Power(b, n) \in Nat \ {0}
<1> DEFINE N == {i \in Nat : Power(b, i) \in Nat \ {0}}
<1>0. b \in Int
  OBVIOUS
<1>1. 0 \in N
  <2>1. Power(b, 0) = 1
    BY <1>0, PowerIs
  <2> QED
    BY <2>1
<1>2. ASSUME NEW i \in N
      PROVE  i + 1 \in N
  <2>1. Power(b, i + 1) = b * Power(b, i) /\ Power(b, i) \in Nat \ {0}
    BY <1>0, PowerIs
  <2>2. \A p \in Nat \ {0} : b * p \in Nat \ {0}
    OBVIOUS
  <2> QED
    BY <2>1, <2>2
<1>3. N \in SUBSET Nat
  OBVIOUS
<1>4. N = Nat
  <2> HIDE DEF N
  <2> QED
    BY <1>1, <1>2, <1>3, Induction
<1> QED
  BY <1>4

LEMMA TotalExists ==
    ASSUME NEW s
    PROVE  \A n \in Nat : \E f : TotalBy(s, n, f)
<1> DEFINE N == {n \in Nat : \E f : TotalBy(s, n, f)}
<1>1. 0 \in N
  <2> DEFINE f == [i \in 0..0 |-> 0]
  <2>1. TotalBy(s, 0, f)
    <3>1. \A i \in 0..0 : i = 0
      OBVIOUS
    <3> QED
      BY <3>1 DEF TotalBy
  <2> QED
    BY <2>1
<1>2. ASSUME NEW n \in N
      PROVE  n + 1 \in N
  <2>1. PICK f : TotalBy(s, n, f)
    OBVIOUS
  <2> DEFINE g == [i \in 0..(n + 1) |-> IF i = n + 1 THEN f[n] + s[n + 1] ELSE f[i]]
  <2>2. ASSUME NEW i \in 0..(n + 1)
        PROVE  g[i] = IF i = 0 THEN 0 ELSE g[i - 1] + s[i]
    <3>1. CASE i = n + 1
      <4>1. i # 0 /\ i - 1 = n /\ n \in 0..(n + 1) /\ n # n + 1
        BY <3>1
      <4>2. g[i - 1] = f[n]
        BY <4>1
      <4> QED
        BY <3>1, <4>1, <4>2
    <3>2. CASE i # n + 1
      <4>1. i \in 0..n /\ (i # 0 => i - 1 \in 0..(n + 1) /\ i - 1 # n + 1)
        BY <3>2
      <4>2. g[i] = f[i] /\ (i # 0 => g[i - 1] = f[i - 1])
        BY <3>2, <4>1
      <4>3. f[i] = IF i = 0 THEN 0 ELSE f[i - 1] + s[i]
        BY <2>1, <4>1 DEF TotalBy
      <4> QED
        BY <4>2, <4>3
    <3> QED
      BY <3>1, <3>2
  <2>3. TotalBy(s, n + 1, g)
    BY <2>2 DEF TotalBy
  <2> QED
    BY <2>3
<1>3. N \in SUBSET Nat
  OBVIOUS
<1> HIDE DEF N
<1>4. N = Nat
  BY <1>1, <1>2, <1>3, Induction
<1> QED
  BY <1>4 DEF N

LEMMA TotalFrom ==
    ASSUME NEW s, NEW n \in Nat
    PROVE  \E f : TotalBy(s, n, f) /\ Total(s, n) = f[n]
<1> DEFINE f == CHOOSE f : TotalBy(s, n, f)
<1>1. TotalBy(s, n, f)
  BY TotalExists
<1>2. Total(s, n) = f[n]
  BY DEF Total, TotalBy
<1> HIDE DEF f
<1> QED
  BY <1>1, <1>2

LEMMA SameTotal ==
    ASSUME NEW n \in Nat, NEW s, NEW f, TotalBy(s, n, f), NEW m \in Nat, m >= n,
           NEW t, NEW g, TotalBy(t, m, g), \A i \in 1..n : s[i] = t[i]
    PROVE  f[n] = g[n]
<1> DEFINE N == {i \in Nat : i <= n => f[i] = g[i]}
<1>1. 0 \in N
  <2>1. 0 \in 0..n /\ 0 \in 0..m
    OBVIOUS
  <2>2. f[0] = 0 /\ g[0] = 0
    BY <2>1 DEF TotalBy
  <2> QED
    BY <2>2
<1>2. ASSUME NEW i \in N
      PROVE  i + 1 \in N
  <2> SUFFICES ASSUME i + 1 <= n PROVE f[i + 1] = g[i + 1]
    OBVIOUS
  <2>1. /\ i + 1 \in 0..n /\ i + 1 \in 0..m /\ i + 1 # 0 /\ (i + 1) - 1 = i /\ f[i] = g[i]
        /\ i + 1 \in 1..n
    OBVIOUS
  <2>2. f[i + 1] = f[i] + s[i + 1] /\ g[i + 1] = g[i] + t[i + 1]
    BY <2>1 DEF TotalBy
  <2>3. s[i + 1] = t[i + 1]
    BY <2>1
  <2> QED
    BY <2>1, <2>2, <2>3
<1>3. N \in SUBSET Nat
  OBVIOUS
<1>4. N = Nat
  <2> HIDE DEF N
  <2> QED
    BY <1>1, <1>2, <1>3, Induction
<1> QED
  BY <1>4

(* A sum of one more value.                                                *)
LEMMA OneMoreSummed ==
    ASSUME NEW n \in Nat, NEW s, NEW t, \A i \in 1..n : s[i] = t[i]
    PROVE  Total(t, n + 1) = Total(s, n) + t[n + 1]
<1> DEFINE m == n + 1
<1>1. m \in Nat /\ m >= n
  OBVIOUS
<1> HIDE DEF m
<1>2. PICK f : TotalBy(s, n, f) /\ Total(s, n) = f[n]
  BY TotalFrom
<1>3. PICK g : TotalBy(t, m, g) /\ Total(t, m) = g[m]
  BY <1>1, TotalFrom
<1>4. f[n] = g[n]
  BY <1>1, <1>2, <1>3, SameTotal
<1> USE DEF m
<1>5. n + 1 \in 0..(n + 1) /\ n + 1 # 0 /\ (n + 1) - 1 = n
  OBVIOUS
<1>6. g[n + 1] = g[n] + t[n + 1]
  BY <1>3, <1>5 DEF TotalBy
<1> QED
  BY <1>2, <1>3, <1>4, <1>6

LEMMA TotalNone ==
    ASSUME NEW s
    PROVE  Total(s, 0) = 0
<1>1. PICK f : TotalBy(s, 0, f) /\ Total(s, 0) = f[0]
  BY TotalFrom
<1>2. f[0] = 0
  BY <1>1 DEF TotalBy
<1> QED
  BY <1>1, <1>2

Whole(s, n) == \A i \in 1..n : s[i] \in Int

LEMMA TotalWhole ==
    ASSUME NEW n \in Nat, NEW s, Whole(s, n)
    PROVE  Total(s, n) \in Int
<1> DEFINE N == {i \in Nat : i <= n => Total(s, i) \in Int}
<1>1. 0 \in N
  BY TotalNone
<1>2. ASSUME NEW i \in N
      PROVE  i + 1 \in N
  <2> SUFFICES ASSUME i + 1 <= n PROVE Total(s, i + 1) \in Int
    OBVIOUS
  <2>1. i \in Nat /\ i + 1 \in 1..n /\ Total(s, i) \in Int
    OBVIOUS
  <2>2. Total(s, i + 1) = Total(s, i) + s[i + 1]
    BY <2>1, OneMoreSummed
  <2>3. s[i + 1] \in Int
    BY <2>1 DEF Whole
  <2> QED
    BY <2>1, <2>2, <2>3
<1>3. N \in SUBSET Nat
  OBVIOUS
<1>4. N = Nat
  <2> HIDE DEF N
  <2> QED
    BY <1>1, <1>2, <1>3, Induction
<1> QED
  BY <1>4

Mixed(h, a, f, b, g, c, k, n) == \A i \in 1..n : h[i] = a * f[i] + b * g[i] + c * k[i]

(* A sum of multiples is as many multiples of the sums.                    *)
LEMMA TotalMixed ==
    ASSUME NEW n \in Nat, NEW a \in Int, NEW b \in Int, NEW c \in Int,
           NEW f, NEW g, NEW k, Whole(f, n), Whole(g, n), Whole(k, n),
           NEW h, Mixed(h, a, f, b, g, c, k, n)
    PROVE  Total(h, n) = a * Total(f, n) + b * Total(g, n) + c * Total(k, n)
<1> DEFINE N == {i \in Nat : i <= n =>
                    Total(h, i) = a * Total(f, i) + b * Total(g, i) + c * Total(k, i)}
<1>1. 0 \in N
  <2>1. Total(h, 0) = 0 /\ Total(f, 0) = 0 /\ Total(g, 0) = 0 /\ Total(k, 0) = 0
    BY TotalNone
  <2>2. 0 = a * 0 + b * 0 + c * 0
    OBVIOUS
  <2> QED
    BY <2>1, <2>2
<1>2. ASSUME NEW i \in N
      PROVE  i + 1 \in N
  <2> SUFFICES ASSUME i + 1 <= n
               PROVE  Total(h, i + 1)
                      = a * Total(f, i + 1) + b * Total(g, i + 1) + c * Total(k, i + 1)
    OBVIOUS
  <2>1. /\ i \in Nat /\ i + 1 \in 1..n
        /\ Total(h, i) = a * Total(f, i) + b * Total(g, i) + c * Total(k, i)
    OBVIOUS
  <2>2. /\ Total(f, i + 1) = Total(f, i) + f[i + 1] /\ Total(g, i + 1) = Total(g, i) + g[i + 1]
        /\ Total(k, i + 1) = Total(k, i) + k[i + 1] /\ Total(h, i + 1) = Total(h, i) + h[i + 1]
    BY <2>1, OneMoreSummed
  <2>3. f[i + 1] \in Int /\ g[i + 1] \in Int /\ k[i + 1] \in Int
    BY <2>1 DEF Whole
  <2>4. h[i + 1] = a * f[i + 1] + b * g[i + 1] + c * k[i + 1]
    BY <2>1 DEF Mixed
  <2>5. Whole(f, i) /\ Whole(g, i) /\ Whole(k, i)
    BY <2>1 DEF Whole
  <2>6. Total(f, i) \in Int /\ Total(g, i) \in Int /\ Total(k, i) \in Int
    BY <2>1, <2>5, TotalWhole
  <2> DEFINE F == Total(f, i)
             G == Total(g, i)
             K == Total(k, i)
             x == f[i + 1]
             y == g[i + 1]
             z == k[i + 1]
  <2> HIDE DEF F, G, K, x, y, z
  <2>7. F \in Int /\ G \in Int /\ K \in Int /\ x \in Int /\ y \in Int /\ z \in Int
    BY <2>3, <2>6 DEF F, G, K, x, y, z
  <2>8. (a * F + b * G + c * K) + (a * x + b * y + c * z)
        = a * (F + x) + b * (G + y) + c * (K + z)
    BY ONLY <2>7, a \in Int, b \in Int, c \in Int
  <2> QED
    BY <2>1, <2>2, <2>4, <2>8 DEF F, G, K, x, y, z
<1>3. N \in SUBSET Nat
  OBVIOUS
<1>4. N = Nat
  <2> HIDE DEF N
  <2> QED
    BY <1>1, <1>2, <1>3, Induction
<1> QED
  BY <1>4

-----------------------------------------------------------------------------
(* The exponentially weighted mean and variance.                           *)

Left == alpha_den - alpha_num

LEMMA AlphaIs ==
    /\ alpha_den \in Nat \ {0} /\ alpha_num \in Nat \ {0} /\ Left \in Nat \ {0}
    /\ alpha_den \in Int /\ alpha_num \in Int /\ Left \in Int /\ Left = alpha_den - alpha_num
BY DetectorAssumption DEF Left

LEMMA ScaleIs ==
    /\ Scale(1) = 1
    /\ \A n \in Nat \ {0} : Scale(n) \in Nat \ {0} /\ Scale(n + 1) = alpha_den * Scale(n)
<1>1. Scale(1) = 1
  <2>1. 1 - 1 = 0
    OBVIOUS
  <2>2. Power(alpha_den, 0) = 1
    BY AlphaIs, PowerIs
  <2> QED
    BY <2>1, <2>2 DEF Scale
<1>2. ASSUME NEW n \in Nat \ {0}
      PROVE  Scale(n) \in Nat \ {0} /\ Scale(n + 1) = alpha_den * Scale(n)
  <2> DEFINE k == n - 1
  <2>1. k \in Nat /\ (n + 1) - 1 = k + 1
    OBVIOUS
  <2> HIDE DEF k
  <2>2. Power(alpha_den, k) \in Nat \ {0}
    BY <2>1, AlphaIs, PowerPositive
  <2>3. Power(alpha_den, k + 1) = alpha_den * Power(alpha_den, k)
    BY <2>1, AlphaIs, PowerIs
  <2>4. Scale(n) = Power(alpha_den, k)
    BY DEF Scale, k
  <2>5. Scale(n + 1) = Power(alpha_den, k + 1)
    BY <2>1 DEF Scale
  <2> QED
    BY <2>2, <2>3, <2>4, <2>5
<1> QED
  BY <1>1, <1>2

(* One sample more, and every old one weighs less.                         *)
LEMMA WeightIs ==
    ASSUME NEW n \in Nat \ {0}
    PROVE  /\ Weight(1, 1) = 1
           /\ \A i \in 1..n : Weight(i, n) \in Int /\ Weight(i, n + 1) = Left * Weight(i, n)
           /\ Weight(n + 1, n + 1) = alpha_num * Scale(n)
<1>1. Weight(1, 1) = 1
  <2>1. 1 - 1 = 0
    OBVIOUS
  <2>2. Power(Left, 0) = 1
    BY AlphaIs, PowerIs
  <2> QED
    BY <2>1, <2>2 DEF Weight, Left
<1>2. ASSUME NEW i \in 1..n
      PROVE  Weight(i, n) \in Int /\ Weight(i, n + 1) = Left * Weight(i, n)
  <2>1. CASE i = 1
    <3> DEFINE k == n - 1
    <3>1. k \in Nat /\ (n + 1) - 1 = k + 1
      OBVIOUS
    <3> HIDE DEF k
    <3>2. Power(Left, k) \in Int /\ Power(Left, k + 1) = Left * Power(Left, k)
      BY <3>1, AlphaIs, PowerIs
    <3>3. Weight(i, n) = Power(Left, k)
      BY <2>1 DEF Weight, k, Left
    <3>4. Weight(i, n + 1) = Power(Left, k + 1)
      BY <2>1, <3>1 DEF Weight, Left
    <3> QED
      BY <3>2, <3>3, <3>4
  <2>2. CASE i # 1
    <3> DEFINE k == n - i
               j == i - 2
    <3>1. k \in Nat /\ j \in Nat /\ (n + 1) - i = k + 1
      BY <2>2
    <3> HIDE DEF k, j
    <3> DEFINE p == Power(Left, k)
               q == Power(alpha_den, j)
    <3>2. p \in Int /\ Power(Left, k + 1) = Left * p /\ q \in Int
      BY <3>1, AlphaIs, PowerIs
    <3> HIDE DEF p, q
    <3>3. Weight(i, n) = alpha_num * p * q
      BY <2>2 DEF Weight, k, j, p, q, Left
    <3>4. Weight(i, n + 1) = alpha_num * (Left * p) * q
      BY <2>2, <3>1, <3>2 DEF Weight, j, q, Left
    <3>5. alpha_num * p * q \in Int /\ alpha_num * (Left * p) * q = Left * (alpha_num * p * q)
      BY ONLY <3>2, AlphaIs
    <3> QED
      BY <3>3, <3>4, <3>5
  <2> QED
    BY <2>1, <2>2
<1>3. Weight(n + 1, n + 1) = alpha_num * Scale(n)
  <2>1. n + 1 # 1 /\ (n + 1) - (n + 1) = 0 /\ (n + 1) - 2 = n - 1
    OBVIOUS
  <2>2. Power(Left, 0) = 1
    BY AlphaIs, PowerIs
  <2>3. Weight(n + 1, n + 1) = alpha_num * 1 * Scale(n)
    BY <2>1, <2>2 DEF Weight, Scale, Left
  <2>4. alpha_num * 1 = alpha_num
    BY AlphaIs
  <2> QED
    BY <2>3, <2>4
<1> QED
  BY <1>1, <1>2, <1>3

Weights(n) == [i \in 1..n |-> Weight(i, n)]

LEMMA WeightsAre ==
    ASSUME NEW n \in Nat \ {0}
    PROVE  Total(Weights(n), n) = Scale(n)
<1> DEFINE N == {i \in Nat : i # 0 => Total(Weights(i), i) = Scale(i)}
<1>1. 0 \in N
  OBVIOUS
<1>2. ASSUME NEW i \in N
      PROVE  i + 1 \in N
  <2>1. CASE i = 0
    <3>1. Total(Weights(1), 0 + 1) = Total(Weights(1), 0) + Weights(1)[0 + 1]
      BY OneMoreSummed
    <3>2. 0 + 1 = 1 /\ 1 \in 1..1 /\ 1 \in Nat \ {0}
      OBVIOUS
    <3>3. Weights(1)[1] = 1
      BY <3>2, WeightIs DEF Weights
    <3>4. Total(Weights(1), 1) = 0 + 1
      BY <3>1, <3>2, <3>3, TotalNone
    <3> QED
      BY <2>1, <3>2, <3>4, ScaleIs
  <2>2. CASE i # 0
    <3>1. i \in Nat \ {0} /\ i \in Nat /\ i + 1 \in Nat
      BY <2>2
    <3>2. Total(Weights(i), i) = Scale(i)
      BY <2>2
    <3> DEFINE u == Weights(i)
               w == Weights(i + 1)
               S == Scale(i)
    <3>3. Whole(u, i)
      BY <3>1, WeightIs DEF Weights, Whole
    <3>4. \A k \in 1..i : w[k] = Left * u[k]
      <4>1. \A k \in 1..i : k \in 1..(i + 1)
        BY <3>1
      <4> QED
        BY <3>1, <4>1, WeightIs DEF Weights
    <3>5. w[i + 1] = alpha_num * S
      <4>1. i + 1 \in 1..(i + 1)
        BY <3>1
      <4> QED
        BY <3>1, <4>1, WeightIs DEF Weights
    <3> HIDE DEF u, w, S
    <3>6. Mixed(w, Left, u, 0, u, 0, u, i)
      <4> SUFFICES ASSUME NEW k \in 1..i PROVE w[k] = Left * u[k] + 0 * u[k] + 0 * u[k]
        BY DEF Mixed
      <4>1. u[k] \in Int
        BY <3>3 DEF Whole
      <4> QED
        BY <4>1, <3>4, AlphaIs
    <3>7. S \in Int /\ Total(u, i) = S
      BY <3>1, <3>2, ScaleIs DEF S, u
    <3>8. Total(w, i) = Left * S + 0 * S + 0 * S
      BY <3>1, <3>3, <3>6, <3>7, AlphaIs, TotalMixed
    <3>9. Total(w, i + 1) = Total(w, i) + alpha_num * S
      BY <3>1, <3>5, OneMoreSummed
    <3>10. (Left * S + 0 * S + 0 * S) + alpha_num * S = alpha_den * S
      BY ONLY <3>7, AlphaIs
    <3>11. Scale(i + 1) = alpha_den * S
      BY <3>1, ScaleIs DEF S
    <3>12. Total(Weights(i + 1), i + 1) = Scale(i + 1)
      BY <3>8, <3>9, <3>10, <3>11 DEF w
    <3> QED
      BY <3>1, <3>12
  <2> QED
    BY <2>1, <2>2
<1>3. N \in SUBSET Nat
  OBVIOUS
<1>4. N = Nat
  <2> HIDE DEF N
  <2> QED
    BY <1>1, <1>2, <1>3, Induction
<1> QED
  BY <1>4

(* The parts of the mean and of the variance, by sample.                   *)
Shares(x, n) == [i \in 1..n |-> Weight(i, n) * x[i]]
Off(x, n, m) == [i \in 1..n |-> x[i] * Scale(n) - m]
Squares(x, n, m) == [i \in 1..n |-> Weight(i, n) * Off(x, n, m)[i] * Off(x, n, m)[i]]
Leans(x, n, m) == [i \in 1..n |-> Weight(i, n) * Off(x, n, m)[i]]

Weighted(n, x, m, v) ==
    /\ m = Total(Shares(x, n), n)
    /\ v * Scale(n) = Total(Squares(x, n, m), n)

LEMMA OneSample ==
    ASSUME NEW x, x[1] \in Int
    PROVE  Weighted(1, x, x[1], 0)
<1>1. 1 \in 1..1 /\ 0 + 1 = 1 /\ 1 \in Nat \ {0} /\ 0 \in Nat
  OBVIOUS
<1>2. \A f : Total(f, 1) = f[1] \/ f[1] \notin Int
  <2> SUFFICES ASSUME NEW f, f[1] \in Int PROVE Total(f, 1) = f[1]
    OBVIOUS
  <2>1. Total(f, 0 + 1) = Total(f, 0) + f[0 + 1]
    BY OneMoreSummed
  <2>2. Total(f, 0) = 0
    BY TotalNone
  <2> QED
    BY <2>1, <2>2, <1>1
<1>3. Weight(1, 1) = 1 /\ Scale(1) = 1
  BY <1>1, WeightIs, ScaleIs
<1>4. Shares(x, 1)[1] = x[1]
  BY <1>1, <1>3 DEF Shares
<1>5. Off(x, 1, x[1])[1] = 0
  BY <1>1, <1>3 DEF Off
<1>6. Squares(x, 1, x[1])[1] = 0
  BY <1>1, <1>3, <1>5 DEF Squares
<1>7. Total(Shares(x, 1), 1) = x[1]
  BY <1>2, <1>4
<1>8. Total(Squares(x, 1, x[1]), 1) = 0
  BY <1>2, <1>6
<1>9. 0 * Scale(1) = 0
  BY <1>3
<1> QED
  BY <1>7, <1>8, <1>9 DEF Weighted

(* The deviations from the mean even out.                                  *)
LEMMA LeansEvenOut ==
    ASSUME NEW n \in Nat \ {0}, NEW x, Whole(x, n), NEW m \in Int, m = Total(Shares(x, n), n)
    PROVE  Total(Leans(x, n, m), n) = 0
<1> DEFINE w == Weights(n)
           f == Shares(x, n)
           h == Leans(x, n, m)
           S == Scale(n)
<1>1. n \in Nat /\ S \in Int
  BY ScaleIs
<1>2. \A i \in 1..n : w[i] \in Int /\ x[i] \in Int /\ w[i] = Weight(i, n)
  BY WeightIs DEF Weights, Whole
<1>3. \A i \in 1..n : f[i] = w[i] * x[i] /\ h[i] = w[i] * (x[i] * S - m)
  BY <1>2 DEF Shares, Leans, Off
<1>4. Total(w, n) = S /\ Total(f, n) = m
  BY WeightsAre
<1> HIDE DEF w, f, h, S
<1> DEFINE k == 0 - m
<1>5. Whole(f, n) /\ Whole(w, n) /\ k \in Int
  BY <1>2, <1>3 DEF Whole
<1>6. Mixed(h, S, f, k, w, 0, w, n)
  <2> SUFFICES ASSUME NEW i \in 1..n PROVE h[i] = S * f[i] + k * w[i] + 0 * w[i]
    BY DEF Mixed
  <2> DEFINE a == w[i]
             b == x[i]
  <2>1. a \in Int /\ b \in Int /\ f[i] = a * b /\ h[i] = a * (b * S - m) /\ w[i] = a
    BY <1>2, <1>3
  <2> HIDE DEF a, b
  <2>2. a * (b * S - m) = S * (a * b) + (0 - m) * a + 0 * a
    BY ONLY <2>1, <1>1, m \in Int
  <2> QED
    BY <2>1, <2>2
<1> HIDE DEF k
<1>7. Total(h, n) = S * Total(f, n) + k * Total(w, n) + 0 * Total(w, n)
  BY <1>1, <1>5, <1>6, TotalMixed
<1> USE DEF k
<1>8. S * m + (0 - m) * S + 0 * S = 0
  BY ONLY <1>1, m \in Int
<1> QED
  BY <1>4, <1>7, <1>8 DEF h

(* What Trained does to mean and variance is what one sample more does.    *)
LEMMA SampleAdds ==
    ASSUME NEW n \in Nat \ {0}, NEW x, Whole(x, n), NEW m \in Int, NEW v \in Int,
           Weighted(n, x, m, v), NEW y, \A i \in 1..n : y[i] = x[i], y[n + 1] \in Int,
           NEW D, D = y[n + 1] * Scale(n) - m
    PROVE  Weighted(n + 1, y, alpha_den * m + alpha_num * D,
                    Left * (alpha_den * v + alpha_num * D * D))
<1> DEFINE S == Scale(n)
           val == y[n + 1]
           mm == alpha_den * m + alpha_num * D
           vv == Left * (alpha_den * v + alpha_num * D * D)
           w == Weights(n)
           q == Squares(x, n, m)
           f == Shares(x, n)
           e == Leans(x, n, m)
           g == Shares(y, n + 1)
           h == Squares(y, n + 1, mm)
<1>1. n \in Nat /\ S \in Int /\ val \in Int /\ D = val * S - m
  BY ScaleIs
<1>2. D \in Int
  BY <1>1
<1>3. mm \in Int /\ vv \in Int
  BY <1>2, AlphaIs
<1>4. Scale(n + 1) = alpha_den * S
  BY ScaleIs
<1>5. \A i \in 1..n : w[i] \in Int /\ x[i] \in Int /\ w[i] = Weight(i, n)
  BY WeightIs DEF Weights, Whole
<1>6. \A i \in 1..n : /\ f[i] = w[i] * x[i] /\ e[i] = w[i] * (x[i] * S - m)
                      /\ q[i] = w[i] * (x[i] * S - m) * (x[i] * S - m)
  BY <1>5 DEF Shares, Leans, Off, Squares
<1>7. /\ Total(w, n) = S /\ Total(f, n) = m /\ Total(q, n) = v * S /\ Total(e, n) = 0
  BY WeightsAre, LeansEvenOut DEF Weighted
<1>8. \A i \in 1..n : i \in 1..(n + 1) /\ Weight(i, n + 1) = Left * w[i]
  BY <1>5, WeightIs
<1>9. \A i \in 1..n : /\ g[i] = (Left * w[i]) * x[i]
                      /\ h[i] = (Left * w[i]) * (x[i] * (alpha_den * S) - mm)
                                    * (x[i] * (alpha_den * S) - mm)
  BY <1>4, <1>8 DEF Shares, Off, Squares
<1>10. n + 1 \in 1..(n + 1) /\ Weight(n + 1, n + 1) = alpha_num * S
  BY <1>1, WeightIs
<1>11. /\ g[n + 1] = (alpha_num * S) * val
       /\ h[n + 1] = (alpha_num * S) * (val * (alpha_den * S) - mm) * (val * (alpha_den * S) - mm)
  BY <1>4, <1>10 DEF Shares, Off, Squares
<1> HIDE DEF S, val, mm, vv, w, q, f, e, g, h
<1>12. Whole(f, n) /\ Whole(w, n) /\ Whole(e, n) /\ Whole(q, n)
  <2> SUFFICES ASSUME NEW i \in 1..n
               PROVE  f[i] \in Int /\ w[i] \in Int /\ e[i] \in Int /\ q[i] \in Int
    BY DEF Whole
  <2> DEFINE a == w[i]
             b == x[i]
  <2>1. /\ a \in Int /\ b \in Int /\ f[i] = a * b /\ e[i] = a * (b * S - m) /\ w[i] = a
        /\ q[i] = a * (b * S - m) * (b * S - m)
    BY <1>5, <1>6
  <2> HIDE DEF a, b
  <2> QED
    BY <2>1, <1>1
<1>13. Total(g, n + 1) = mm
  <2>1. Mixed(g, Left, f, 0, f, 0, f, n)
    <3> SUFFICES ASSUME NEW i \in 1..n PROVE g[i] = Left * f[i] + 0 * f[i] + 0 * f[i]
      BY DEF Mixed
    <3> DEFINE a == w[i]
               b == x[i]
    <3>1. a \in Int /\ b \in Int /\ f[i] = a * b /\ g[i] = (Left * a) * b
      BY <1>5, <1>6, <1>9
    <3> HIDE DEF a, b
    <3>2. (Left * a) * b = Left * (a * b) + 0 * (a * b) + 0 * (a * b)
      BY ONLY <3>1, AlphaIs
    <3> QED
      BY <3>1, <3>2
  <2> DEFINE z == 0
             T == Left * Total(f, n) + z * Total(f, n) + z * Total(f, n)
  <2>2. Total(g, n) = Left * m + 0 * m + 0 * m
    <3>1. z \in Int /\ Left \in Int /\ Mixed(g, Left, f, z, f, z, f, n)
      BY <2>1, AlphaIs
    <3> HIDE DEF z
    <3>2. Total(g, n) = T
      BY ONLY <3>1, <1>1, <1>12, TotalMixed
    <3> USE DEF z
    <3> QED
      BY <3>2, <1>7
  <2>3. Total(g, n + 1) = Total(g, n) + g[n + 1]
    BY <1>1, OneMoreSummed
  <2>4. (Left * m + 0 * m + 0 * m) + (alpha_num * S) * val
        = alpha_den * m + alpha_num * (val * S - m)
    BY ONLY <1>1, AlphaIs, m \in Int
  <2> QED
    BY <2>2, <2>3, <2>4, <1>1, <1>11 DEF mm
<1>14. Total(h, n + 1) = vv * (alpha_den * S)
  <2> DEFINE A == Left * alpha_den * alpha_den
             B == 0 - 2 * Left * alpha_den * alpha_num * D
             C == Left * alpha_num * alpha_num * D * D
  <2>1. A \in Int /\ B \in Int /\ C \in Int
    BY <1>2, AlphaIs
  <2>2. Mixed(h, A, q, B, e, C, w, n)
    <3> SUFFICES ASSUME NEW i \in 1..n PROVE h[i] = A * q[i] + B * e[i] + C * w[i]
      BY DEF Mixed
    <3> DEFINE a == w[i]
               b == x[i]
               o == b * S - m
    <3>1. /\ a \in Int /\ b \in Int /\ w[i] = a /\ e[i] = a * o /\ q[i] = a * o * o
          /\ h[i] = (Left * a) * (b * (alpha_den * S) - mm) * (b * (alpha_den * S) - mm)
      BY <1>5, <1>6, <1>9
    <3>2. o \in Int /\ b * S = o + m
      BY <3>1, <1>1
    <3> HIDE DEF a, b, o
    <3>3. b * (alpha_den * S) - mm = alpha_den * o - alpha_num * D
      <4>1. b * (alpha_den * S) = alpha_den * (b * S)
        BY ONLY <3>1, <1>1, AlphaIs
      <4>2. alpha_den * (o + m) - (alpha_den * m + alpha_num * D) = alpha_den * o - alpha_num * D
        BY ONLY <3>2, <1>2, m \in Int, AlphaIs
      <4> QED
        BY <3>2, <4>1, <4>2 DEF mm
    <3>4. (Left * a) * (alpha_den * o - alpha_num * D) * (alpha_den * o - alpha_num * D)
          = (Left * alpha_den * alpha_den) * (a * o * o)
            + (0 - 2 * Left * alpha_den * alpha_num * D) * (a * o)
            + (Left * alpha_num * alpha_num * D * D) * a
      BY ONLY <3>1, <3>2, <1>2, AlphaIs
    <3> QED
      BY <3>1, <3>3, <3>4
  <2> HIDE DEF A, B, C
  <2>3. Total(h, n) = A * (v * S) + B * 0 + C * S
    <3>1. Total(h, n) = A * Total(q, n) + B * Total(e, n) + C * Total(w, n)
      BY ONLY <2>1, <2>2, <1>1, <1>12, TotalMixed
    <3> QED
      BY ONLY <3>1, <1>7
  <2>4. Total(h, n + 1) = Total(h, n) + h[n + 1]
    BY <1>1, OneMoreSummed
  <2>5. val * (alpha_den * S) - mm = Left * D
    <3>1. val * (alpha_den * S) = alpha_den * (val * S) /\ val * S = D + m
      BY ONLY <1>1, <1>2, m \in Int, AlphaIs
    <3>2. alpha_den * (D + m) - (alpha_den * m + alpha_num * D) = (alpha_den - alpha_num) * D
      BY ONLY <1>2, m \in Int, AlphaIs
    <3> QED
      BY <3>1, <3>2, AlphaIs DEF mm
  <2>6. h[n + 1] = (alpha_num * S) * (Left * D) * (Left * D)
    BY <2>5, <1>11
  <2> DEFINE d == alpha_num + Left
  <2>7. d = alpha_den /\ d \in Int
    BY AlphaIs
  <2>8. ((Left * d * d) * (v * S) + (0 - 2 * Left * d * alpha_num * D) * 0
             + (Left * alpha_num * alpha_num * D * D) * S)
            + (alpha_num * S) * (Left * D) * (Left * D)
        = (Left * (d * v + alpha_num * D * D)) * (d * S)
    BY ONLY <1>1, <1>2, v \in Int, AlphaIs
  <2> HIDE DEF d
  <2> QED
    BY <2>3, <2>4, <2>6, <2>7, <2>8 DEF A, B, C, vv
<1>15. vv * Scale(n + 1) = Total(h, n + 1)
  BY <1>4, <1>14
<1> QED
  BY <1>13, <1>15 DEF Weighted, mm, vv, g, h

-----------------------------------------------------------------------------
(* The table of series.                                                    *)

(* r has an entry for a key, and besides it only entries of d.             *)
Placed(d, limit, entry, r) ==
    /\ IsSeq(r) /\ Distinct(r) /\ Len(r) <= limit
    /\ \A i \in DOMAIN r :
          r[i] = entry \/ \E k \in DOMAIN d : r[i] = d[k] /\ d[k].key # entry.key

LEMMA RenewPlaces ==
    ASSUME NEW d, IsSeq(d), Distinct(d), NEW limit \in Nat, Len(d) <= limit,
           NEW entry, HasKey(d, entry.key)
    PROVE  Placed(d, limit, entry, MoveToEnd(Assign(d, entry), entry.key))
<1> DEFINE r == MoveToEnd(Assign(d, entry), entry.key)
<1>1. PICK p : RenewedAt(d, entry, p, r)
  BY RenewIs
<1> HIDE DEF r
<1>2. DOMAIN r = 1..Len(r) /\ Distinct(r) /\ OthersAre(d, entry, r)
  BY <1>1, RenewKeeps
<1>3. Len(r) \in Nat \ {0}
  BY <1>1, RenewKeeps
<1>4. /\ IsSeq(r) /\ Len(r) = IF p = Len(d) + 1 THEN Len(d) + 1 ELSE Len(d)
      /\ r[Len(r)] = entry /\ \A i \in 1..Len(d) : i # p => d[i].key # entry.key
  BY <1>1 DEF RenewedAt
<1>5. Len(r) <= limit
  <2>1. PICK q \in DOMAIN d : d[q].key = entry.key
    BY DEF HasKey
  <2>2. q \in 1..Len(d)
    BY <2>1, SeqIs
  <2>3. Len(d) \in Nat
    BY SeqIs
  <2>4. q = p /\ q # Len(d) + 1
    BY ONLY <2>1, <2>2, <2>3, <1>4
  <2> QED
    BY ONLY <2>4, <1>4, Len(d) <= limit
<1>6. \A i \in 1..Len(r) : i \in 1..(Len(r) - 1) \/ i = Len(r)
  BY ONLY <1>3
<1>7. \A i \in 1..(Len(r) - 1) : \E k \in DOMAIN d : r[i] = d[k] /\ d[k].key # entry.key
  BY <1>2 DEF OthersAre
<1> QED
  BY <1>2, <1>4, <1>5, <1>6, <1>7 DEF Placed, r

LEMMA NewPlaces ==
    ASSUME NEW d, IsSeq(d), Distinct(d), NEW limit \in Nat \ {0}, Len(d) <= limit,
           NEW entry, ~HasKey(d, entry.key)
    PROVE  Placed(d, limit, entry, Append(RoomFor(d, entry.key, limit), entry))
<1> DEFINE u == RoomFor(d, entry.key, limit)
           r == Append(u, entry)
<1>1. Len(d) \in Nat
  BY SeqIs
<1>2. \A q \in DOMAIN d : d[q].key # entry.key
  BY DEF HasKey
<1>3. PICK c \in {0, 1} :
          /\ IsSeq(u) /\ Len(u) = Len(d) - c /\ Len(u) + 1 <= limit
          /\ \A i \in 1..Len(u) : u[i] = d[i + c]
  <2>1. CASE Len(d) < limit
    <3>1. u = d
      BY <2>1 DEF RoomFor
    <3>2. Len(d) = Len(d) - 0 /\ Len(d) + 1 <= limit /\ \A i \in 1..Len(d) : i + 0 = i
      BY ONLY <1>1, <2>1, limit \in Nat \ {0}
    <3> QED
      BY <3>1, <3>2
  <2>2. CASE ~(Len(d) < limit)
    <3>1. Len(d) = limit /\ Len(d) # 0 /\ (Len(d) - 1) + 1 <= limit
      BY ONLY <1>1, <2>2, limit \in Nat \ {0}, Len(d) <= limit
    <3>2. d # <<>>
      BY <3>1, EmptyIs
    <3>3. u = Tail(d)
      BY <2>2 DEF RoomFor, PopFirst
    <3>4. /\ IsSeq(Tail(d)) /\ Len(Tail(d)) = Len(d) - 1
          /\ \A i \in 1..(Len(d) - 1) : Tail(d)[i] = d[i + 1]
      BY <3>2, TailIs
    <3> HIDE DEF u
    <3> QED
      BY <3>1, <3>3, <3>4
  <2> QED
    BY <2>1, <2>2
<1> HIDE DEF u
<1>4. /\ IsSeq(r) /\ Len(r) = Len(u) + 1 /\ DOMAIN r = 1..(Len(u) + 1)
      /\ r[Len(u) + 1] = entry /\ \A i \in 1..Len(u) : r[i] = u[i]
  BY <1>3, AppendIs
<1>5. Len(u) \in Nat
  BY <1>3, SeqIs
<1>6. \A i \in 1..(Len(u) + 1) : i \in 1..Len(u) \/ i = Len(u) + 1
  BY ONLY <1>5
<1>7. \A i \in 1..Len(u) : i + c \in 1..Len(d)
  BY ONLY <1>1, <1>3
<1>8. DOMAIN d = 1..Len(d)
  BY SeqIs
<1>9. \A i \in 1..Len(u) : i + c \in DOMAIN d /\ r[i] = d[i + c] /\ r[i].key # entry.key
  BY <1>2, <1>3, <1>4, <1>7, <1>8
<1> HIDE DEF r
<1>10. Distinct(r)
  <2>1. SUFFICES ASSUME NEW i \in 1..(Len(u) + 1), NEW j \in 1..(Len(u) + 1), r[i].key = r[j].key
                 PROVE  i = j
    BY <1>4 DEF Distinct
  <2>2. CASE i \in 1..Len(u) /\ j \in 1..Len(u)
    <3>1. i + c = j + c
      BY <2>1, <2>2, <1>9 DEF Distinct
    <3> QED
      BY ONLY <3>1, <2>2, <1>3
  <2>3. CASE ~(i \in 1..Len(u) /\ j \in 1..Len(u))
    BY ONLY <2>1, <2>3, <1>4, <1>6, <1>9
  <2> QED
    BY <2>2, <2>3
<1>11. Len(r) <= limit
  BY ONLY <1>3, <1>4
<1>12. ASSUME NEW i \in DOMAIN r
       PROVE  r[i] = entry \/ \E k \in DOMAIN d : r[i] = d[k] /\ d[k].key # entry.key
  <2>1. i \in 1..Len(u) \/ i = Len(u) + 1
    BY <1>4, <1>6
  <2>2. i \in 1..Len(u) => d[i + c].key # entry.key
    BY <1>2, <1>9
  <2> QED
    BY <2>1, <2>2, <1>4, <1>9
<1>13. Placed(d, limit, entry, r)
  BY <1>4, <1>10, <1>11, <1>12 DEF Placed
<1> QED
  BY <1>13 DEF r, u

-----------------------------------------------------------------------------
(* The samples of a series, for any log lg: the metrics with its key that  *)
(* were not reported as outliers.                                          *)

MetricsOf(e) == ToSet(NormalizedEvent(e.line).metrics)
KeyOf(e, m) == SeriesKey(NormalizedEvent(e.line), m)
Reported(e, m) == \E a \in ToSet(e.alerts) : a.type = "SUSPECTED_METRIC_OUTLIER" /\ a.metric = m.name
Trains(e, key) == \E m \in MetricsOf(e) : KeyOf(e, m) = key /\ ~Reported(e, m)
ValueOf(e, key) == (CHOOSE m \in MetricsOf(e) : KeyOf(e, m) = key).value

SamplesOf(lg, key) == {i \in Uses(lg) : Trains(lg[i], key)}

(* p lists the last n places of S, in order.                               *)
TrailedBy(p, n, S) == \A i \in 1..n : p[i] \in S /\ Cardinality({j \in S : j > p[i]}) = n - i

Values(lg, key, p, n) == [i \in 1..n |-> ValueOf(lg[p[i]], key)]

(* m and v are the mean and the variance of the last n samples.            *)
Averaged(lg, key, n, m, v) ==
    \E p : /\ TrailedBy(p, n, SamplesOf(lg, key))
           /\ Whole(Values(lg, key, p, n), n)
           /\ Weighted(n, Values(lg, key, p, n), m, v)

LEMMA SamplesGrow ==
    ASSUME NEW lg, IsSeq(lg), NEW e, NEW key
    PROVE  LET more == Append(lg, e)
           IN  /\ SamplesOf(lg, key) \in SUBSET (DOMAIN lg)
               /\ Known(e) /\ Trains(e, key) =>
                     SamplesOf(more, key) = SamplesOf(lg, key) \union {Len(lg) + 1}
               /\ ~(Known(e) /\ Trains(e, key)) => SamplesOf(more, key) = SamplesOf(lg, key)
<1> DEFINE more == Append(lg, e)
           n == Len(lg) + 1
<1>1. /\ more[n] = e /\ n \notin DOMAIN lg /\ \A i \in DOMAIN lg : more[i] = lg[i]
  BY LogGrows
<1>2. /\ Uses(lg) \subseteq DOMAIN lg
      /\ Known(e) => Uses(more) = Uses(lg) \union {n}
      /\ ~Known(e) => Uses(more) = Uses(lg)
  BY UsesGrow DEF Uses
<1> HIDE DEF more, n
<1>3. SamplesOf(lg, key) \in SUBSET (DOMAIN lg)
  BY <1>2 DEF SamplesOf
<1>4. \A i \in Uses(lg) : i \in SamplesOf(more, key) <=> i \in SamplesOf(lg, key)
  BY <1>1, <1>2 DEF SamplesOf
<1>5. n \in SamplesOf(more, key) <=> Known(e) /\ Trains(e, key)
  BY <1>1, <1>2 DEF SamplesOf
<1>6. /\ Known(e) /\ Trains(e, key) => SamplesOf(more, key) = SamplesOf(lg, key) \union {n}
      /\ ~(Known(e) /\ Trains(e, key)) => SamplesOf(more, key) = SamplesOf(lg, key)
  BY <1>2, <1>4, <1>5 DEF SamplesOf
<1> QED
  BY <1>3, <1>6 DEF more, n

(* What does not train a series leaves its average alone.                  *)
LEMMA AveragedStays ==
    ASSUME NEW lg, IsSeq(lg), NEW e, NEW key, ~(Known(e) /\ Trains(e, key)),
           NEW n, NEW m, NEW v, Averaged(lg, key, n, m, v)
    PROVE  Averaged(Append(lg, e), key, n, m, v)
<1> DEFINE more == Append(lg, e)
<1>1. PICK p : /\ TrailedBy(p, n, SamplesOf(lg, key))
               /\ Whole(Values(lg, key, p, n), n)
               /\ Weighted(n, Values(lg, key, p, n), m, v)
  BY DEF Averaged
<1>2. SamplesOf(more, key) = SamplesOf(lg, key) /\ SamplesOf(lg, key) \in SUBSET (DOMAIN lg)
  BY SamplesGrow
<1>3. \A i \in DOMAIN lg : more[i] = lg[i]
  BY LogGrows
<1> HIDE DEF more
<1>4. \A i \in 1..n : more[p[i]] = lg[p[i]]
  BY <1>1, <1>2, <1>3 DEF TrailedBy
<1>5. Values(more, key, p, n) = Values(lg, key, p, n)
  BY <1>4 DEF Values
<1> QED
  BY <1>1, <1>2, <1>5 DEF Averaged, more

LEMMA AveragedBegins ==
    ASSUME NEW lg, IsSeq(lg), NEW e, NEW key, Known(e), Trains(e, key), ValueOf(e, key) \in Int
    PROVE  Averaged(Append(lg, e), key, 1, ValueOf(e, key), 0)
<1> DEFINE more == Append(lg, e)
           N == Len(lg) + 1
           S == SamplesOf(more, key)
           p == [i \in 1..1 |-> N]
           x == Values(more, key, p, 1)
<1>1. /\ S = SamplesOf(lg, key) \union {N} /\ SamplesOf(lg, key) \in SUBSET (DOMAIN lg)
      /\ more[N] = e /\ \A i \in DOMAIN lg : i < N
      /\ N \in Nat /\ DOMAIN lg \subseteq Nat
  BY SamplesGrow, LogGrows
<1> HIDE DEF more, N, S
<1>2. {j \in S : j > N} = {}
  <2> SUFFICES ASSUME NEW j \in S, j > N PROVE FALSE
    OBVIOUS
  <2>1. j \in Nat /\ ~(j > N)
    BY <1>1
  <2> QED
    BY <2>1
<1>3. \A i \in 1..1 : i = 1 /\ p[i] = N
  OBVIOUS
<1>4. TrailedBy(p, 1, S)
  <2>1. Cardinality({}) = 1 - 1
    BY FS_EmptySet
  <2> HIDE DEF p
  <2> QED
    BY <1>1, <1>2, <1>3, <2>1 DEF TrailedBy
<1>5. \A i \in 1..1 : x[i] = ValueOf(e, key)
  BY <1>1, <1>3 DEF Values
<1> HIDE DEF x
<1>6. Whole(x, 1) /\ x[1] = ValueOf(e, key) /\ x[1] \in Int
  BY <1>5 DEF Whole
<1>7. Weighted(1, x, x[1], 0)
  BY <1>6, OneSample
<1> QED
  BY <1>4, <1>6, <1>7 DEF Averaged, x, S, more

LEMMA AveragedGrows ==
    ASSUME NEW lg, IsSeq(lg), NEW e, NEW key, Known(e), Trains(e, key), ValueOf(e, key) \in Int,
           NEW n \in Nat \ {0}, NEW m \in Int, NEW v \in Int, Averaged(lg, key, n, m, v),
           NEW D, D = ValueOf(e, key) * Scale(n) - m
    PROVE  Averaged(Append(lg, e), key, n + 1, alpha_den * m + alpha_num * D,
                    Left * (alpha_den * v + alpha_num * D * D))
<1> DEFINE more == Append(lg, e)
           L == Len(lg)
           N == L + 1
           R == SamplesOf(lg, key)
           S == SamplesOf(more, key)
<1>1. PICK p : /\ TrailedBy(p, n, R)
               /\ Whole(Values(lg, key, p, n), n)
               /\ Weighted(n, Values(lg, key, p, n), m, v)
  BY DEF Averaged
<1> DEFINE q == [i \in 1..(n + 1) |-> IF i = n + 1 THEN N ELSE p[i]]
           x == Values(lg, key, p, n)
           y == Values(more, key, q, n + 1)
<1>2. /\ S = R \union {N} /\ R \in SUBSET (DOMAIN lg)
      /\ more[N] = e /\ \A i \in DOMAIN lg : i < N /\ more[i] = lg[i]
  BY SamplesGrow, LogGrows
<1>3. DOMAIN lg = 1..L
  BY SeqIs
<1>4. L \in Nat /\ N = L + 1
  BY SeqIs
<1> HIDE DEF more, L, N, R, S
<1>5. /\ \A i \in 1..n : i \in 1..(n + 1) /\ i # n + 1 /\ n + 1 - i = (n - i) + 1 /\ n - i \in Int
      /\ n + 1 \in 1..(n + 1) /\ \A i \in 1..(n + 1) : i \in 1..n \/ i = n + 1
  OBVIOUS
<1>6. (\A i \in 1..n : q[i] = p[i]) /\ q[n + 1] = N
  BY <1>5
<1> HIDE DEF q
<1>7. ASSUME NEW k \in R
      PROVE  Cardinality({j \in S : j > k}) = Cardinality({j \in R : j > k}) + 1
  <2> DEFINE A == {j \in R : j > k}
             B == {j \in S : j > k}
  <2>1. k \in 1..L /\ R \subseteq 1..L
    BY <1>2, <1>3
  <2>2. N > k /\ \A i \in 1..L : i # N /\ i \in 1..(L + 1)
    BY <2>1, <1>4
  <2>3. A \in SUBSET (1..L) /\ B \in SUBSET (1..(L + 1)) /\ L + 1 \in B
    <3>1. A \in SUBSET (1..L) /\ N \in B
      BY <2>1, <2>2, <1>2
    <3>2. N \in 1..(L + 1)
      BY <1>4
    <3>3. \A j \in B : j \in 1..(L + 1)
      BY ONLY <2>1, <2>2, <3>2, <1>2
    <3> QED
      BY ONLY <3>1, <3>3, <1>4
  <2>4. \A i \in 1..L : i \in B <=> i \in A
    BY <2>2, <1>2
  <2> HIDE DEF A, B
  <2>5. Cardinality(B) = Cardinality(A) + 1
    BY <2>3, <2>4, <1>4, OneMoreIn
  <2> QED
    BY <2>5 DEF A, B
<1>8. {j \in S : j > N} = {}
  <2>1. \A j \in S : ~(j > N)
    BY <1>2, <1>3, <1>4
  <2> QED
    BY <2>1
<1>9. TrailedBy(q, n + 1, S)
  <2> SUFFICES ASSUME NEW i \in 1..(n + 1)
               PROVE  q[i] \in S /\ Cardinality({j \in S : j > q[i]}) = (n + 1) - i
    BY DEF TrailedBy
  <2>1. CASE i = n + 1
    <3>1. Cardinality({}) = 0 /\ (n + 1) - i = 0
      BY <2>1, FS_EmptySet
    <3> QED
      BY <2>1, <3>1, <1>2, <1>6, <1>8
  <2>2. CASE i \in 1..n
    <3>1. q[i] = p[i] /\ p[i] \in R /\ Cardinality({j \in R : j > p[i]}) = n - i
      BY <2>2, <1>1, <1>6 DEF TrailedBy
    <3>2. Cardinality({j \in S : j > p[i]}) = (n - i) + 1
      BY <3>1, <1>7
    <3> QED
      BY <3>1, <3>2, <2>2, <1>2, <1>5
  <2> QED
    BY <2>1, <2>2, <1>5
<1>10. \A i \in 1..n : y[i] = x[i]
  <2> SUFFICES ASSUME NEW i \in 1..n PROVE y[i] = x[i]
    OBVIOUS
  <2>1. q[i] = p[i] /\ p[i] \in DOMAIN lg
    BY <1>1, <1>2, <1>6 DEF TrailedBy
  <2>2. more[q[i]] = lg[p[i]]
    BY <2>1, <1>2
  <2> QED
    BY <2>2, <1>5 DEF Values
<1>11. y[n + 1] = ValueOf(e, key)
  BY <1>2, <1>5, <1>6 DEF Values
<1> HIDE DEF x, y
<1>12. Whole(x, n) /\ Weighted(n, x, m, v)
  BY <1>1 DEF x
<1>13. y[n + 1] \in Int /\ D = y[n + 1] * Scale(n) - m
  BY <1>11
<1>14. Whole(y, n + 1)
  BY <1>5, <1>10, <1>12, <1>13 DEF Whole
<1>15. Weighted(n + 1, y, alpha_den * m + alpha_num * D,
                Left * (alpha_den * v + alpha_num * D * D))
  BY <1>10, <1>12, <1>13, SampleAdds
<1> QED
  BY <1>9, <1>14, <1>15 DEF Averaged, y, S, more

(* The place with r later ones is the only one.                            *)
LEMMA NthIs ==
    ASSUME NEW L \in Nat, NEW S \in SUBSET (1..L), NEW k \in S
    PROVE  Nth(S, Cardinality({j \in S : j > k})) = k
<1> DEFINE r == Cardinality({j \in S : j > k})
           T == {i \in S : Cardinality({j \in S : j > i}) = r}
<1>1. ASSUME NEW a \in S, NEW b \in S, a < b,
             Cardinality({j \in S : j > a}) = Cardinality({j \in S : j > b})
      PROVE  FALSE
  <2> DEFINE A == {j \in S : j > a}
             B == {j \in S : j > b}
  <2>1. \A j \in S : j \in 1..L
    OBVIOUS
  <2>2. B \in SUBSET A /\ b \in A /\ b \notin B
    <3>1. a \in Int /\ b \in Int /\ a < b
      BY <1>1, <2>1
    <3>2. ASSUME NEW j \in S, j > b
          PROVE  j > a
      BY ONLY <3>1, <3>2, <2>1
    <3>3. b > a /\ ~(b > b)
      BY ONLY <3>1
    <3> QED
      BY <3>2, <3>3
  <2>3. A \in SUBSET (1..L)
    BY <2>1
  <2> HIDE DEF A, B
  <2>4. IsFiniteSet(A)
    BY <2>3, PositionsAre
  <2>5. Cardinality(A) = Cardinality(B)
    BY <1>1 DEF A, B
  <2> QED
    BY <2>2, <2>4, <2>5, FS_Subset
<1>2. \A i \in T : i = k
  <2> SUFFICES ASSUME NEW i \in T PROVE i = k
    OBVIOUS
  <2>1. i \in S /\ Cardinality({j \in S : j > i}) = Cardinality({j \in S : j > k})
    OBVIOUS
  <2>2. i = k \/ i < k \/ k < i
    BY ONLY <2>1, S \in SUBSET (1..L), k \in S, L \in Nat
  <2> QED
    BY <2>1, <2>2, <1>1
<1>3. k \in T
  OBVIOUS
<1>4. Nth(S, r) = CHOOSE i \in T : TRUE
  BY DEF Nth
<1> HIDE DEF T
<1> QED
  BY <1>2, <1>3, <1>4 DEF r

(* The average of the log, in the words of BaselineIsWeighted.             *)
LEMMA AveragedTells ==
    ASSUME IsSeq(log), NEW key, NEW n \in Nat \ {0}, NEW m \in Int, NEW v \in Int,
           Averaged(log, key, n, m, v)
    PROVE  LET x == Recent(key, n)
           IN  /\ n <= Cardinality(Samples(key))
               /\ Weighted(n, x, m, v)
<1> DEFINE S == SamplesOf(log, key)
           L == Len(log)
<1>1. \A i \in DOMAIN log : /\ EventAt(i) = NormalizedEvent(log[i].line)
                            /\ MetricsOf(log[i]) = ToSet(EventAt(i).metrics)
  BY DEF EventAt, MetricsOf
<1>2. Events = Uses(log) /\ Uses(log) \subseteq DOMAIN log
  BY DEF Events, Uses, Known
<1>3. Samples(key) = S
  <2>1. \A i \in DOMAIN log : Trains(log[i], key) <=>
            \E mt \in ToSet(EventAt(i).metrics) :
               /\ SeriesKey(EventAt(i), mt) = key
               /\ \A a \in ToSet(log[i].alerts) :
                     a.type = "SUSPECTED_METRIC_OUTLIER" => a.metric # mt.name
    BY <1>1 DEF Trains, Reported, KeyOf
  <2> QED
    BY <2>1, <1>2 DEF Samples, SamplesOf
<1>4. \A i \in DOMAIN log : SampleAt(i, key) = ValueOf(log[i], key)
  BY <1>1 DEF SampleAt, ValueOf, KeyOf
<1>5. L \in Nat
  BY SeqIs
<1>6. S \in SUBSET (1..L)
  BY <1>2, SeqIs DEF SamplesOf
<1> HIDE DEF S, L
<1>7. PICK p : /\ TrailedBy(p, n, S)
               /\ Whole(Values(log, key, p, n), n)
               /\ Weighted(n, Values(log, key, p, n), m, v)
  BY DEF Averaged, S
<1>8. ASSUME NEW i \in 1..n
      PROVE  p[i] \in S /\ n - i = Cardinality({j \in S : j > p[i]}) /\ Nth(S, n - i) = p[i]
  <2>1. p[i] \in S /\ n - i = Cardinality({j \in S : j > p[i]})
    BY <1>7 DEF TrailedBy
  <2>2. Nth(S, Cardinality({j \in S : j > p[i]})) = p[i]
    BY <2>1, <1>5, <1>6, NthIs
  <2> QED
    BY <2>1, <2>2
<1>9. n <= Cardinality(S)
  <2> DEFINE f == [i \in 1..n |-> p[i]]
  <2>1. f \in [1..n -> S]
    BY <1>8
  <2>2. ASSUME NEW i \in 1..n, NEW j \in 1..n, f[i] = f[j]
        PROVE  i = j
    <3>1. n - i = n - j
      BY <2>2, <1>8
    <3> QED
      BY <3>1
  <2>3. IsFiniteSet(S)
    BY <1>5, <1>6, PositionsAre
  <2> HIDE DEF f
  <2> QED
    BY <2>1, <2>2, <2>3, AsManyValues
<1>10. \A i \in 1..n : SampleAt(Nth(S, n - i), key) = ValueOf(log[p[i]], key)
  <2> SUFFICES ASSUME NEW i \in 1..n
               PROVE  SampleAt(Nth(S, n - i), key) = ValueOf(log[p[i]], key)
    OBVIOUS
  <2>1. p[i] \in DOMAIN log
    BY <1>8, <1>2 DEF S, SamplesOf
  <2> QED
    BY <2>1, <1>4, <1>8
<1>11. Recent(key, n) = Values(log, key, p, n)
  BY <1>3, <1>10 DEF Recent, Values
<1> QED
  BY <1>3, <1>7, <1>9, <1>11

(* An entry of the table of series, and what it knows of a log.            *)
Baselined(b, now) ==
    /\ b = [key |-> b.key, count |-> b.count, mean |-> b.mean, variance |-> b.variance,
            last_seen |-> b.last_seen]
    /\ b.count \in Nat \ {0} /\ b.mean \in Int /\ b.variance \in Nat
    /\ b.last_seen \in Nat /\ b.last_seen <= now
Follow(b, lg) == Averaged(lg, b.key, b.count, b.mean, b.variance)

(* The table in the middle of the loop over the metrics of a line: keys in *)
(* D follow the log with the line already, the others still that without.  *)
Half(table, lg, more, D, now) ==
    /\ IsSeq(table) /\ Distinct(table) /\ Len(table) <= max_series
    /\ \A i \in DOMAIN table :
          /\ Baselined(table[i], now)
          /\ table[i].key \in D => Follow(table[i], more)
          /\ table[i].key \notin D => Follow(table[i], lg)

SeriesSound(table, lg, now) == Half(table, lg, lg, {}, now)

HitIn(table, key, val) == HasKey(table, key) /\ Hit(Lookup(table, key), val)

LEMMA SquareIs == \A d \in Int : d * d \in Nat
OBVIOUS

(* A hit leaves the average alone, any other sample is averaged in.        *)
LEMMA TrainedIs ==
    ASSUME clock \in Nat, NEW lg, IsSeq(lg), NEW e, Known(e), NEW st, Baselined(st, clock),
           Follow(st, lg), NEW val \in Int, val = ValueOf(e, st.key),
           Trains(e, st.key) <=> ~Hit(st, val)
    PROVE  LET r == Trained(st, val)
           IN  Baselined(r, clock) /\ r.key = st.key /\ Follow(r, Append(lg, e))
<1> DEFINE r == Trained(st, val)
           n == st.count
           m == st.mean
           v == st.variance
           D == Delta(st, val)
           key == st.key
           mm == alpha_den * m + alpha_num * D
           vv == Left * (alpha_den * v + alpha_num * D * D)
<1>1. /\ st = [key |-> key, count |-> n, mean |-> m, variance |-> v, last_seen |-> st.last_seen]
      /\ n \in Nat \ {0} /\ m \in Int /\ v \in Nat
  BY DEF Baselined
<1>2. Averaged(lg, key, n, m, v)
  BY DEF Follow
<1>3. D = val * Scale(n) - m
  BY DEF Delta
<1>4. D \in Int /\ Scale(n) \in Int
  <2>1. Scale(n) \in Int
    BY <1>1, ScaleIs
  <2> HIDE DEF D, n, m
  <2> QED
    BY ONLY <2>1, <1>1, <1>3, val \in Int
<1>5. CASE Hit(st, val)
  <2>1. r = [key |-> key, count |-> n, mean |-> m, variance |-> v, last_seen |-> clock]
    BY <1>1, <1>5 DEF Trained
  <2>2. Averaged(Append(lg, e), key, n, m, v)
    BY <1>2, <1>5, AveragedStays
  <2> HIDE DEF r, n, m, v, key
  <2>3. r.key = key /\ r.count = n /\ r.mean = m /\ r.variance = v /\ r.last_seen = clock
    BY <2>1
  <2>4. Baselined(r, clock)
    BY <2>1, <2>3, <1>1 DEF Baselined
  <2>5. Follow(r, Append(lg, e))
    BY <2>2, <2>3 DEF Follow
  <2> QED
    BY <2>3, <2>4, <2>5 DEF r, key
<1>6. CASE ~Hit(st, val)
  <2>1. r = [key |-> key, count |-> n + 1, mean |-> mm, variance |-> vv, last_seen |-> clock]
    BY <1>1, <1>6 DEF Trained, Left
  <2>2. Trains(e, key) /\ val = ValueOf(e, key)
    BY <1>6
  <2> HIDE DEF r, n, m, v, key, D
  <2>3. v \in Int /\ ValueOf(e, key) \in Int /\ D = ValueOf(e, key) * Scale(n) - m
    BY <1>1, <1>3, <2>2
  <2>4. Averaged(Append(lg, e), key, n + 1, mm, vv)
    BY <1>1, <1>2, <2>2, <2>3, AveragedGrows
  <2>5. mm \in Int /\ vv \in Nat /\ n + 1 \in Nat \ {0}
    <3>1. D * D \in Nat
      BY <1>4, SquareIs
    <3>2. alpha_num * D * D = alpha_num * (D * D)
      BY ONLY <1>4, AlphaIs
    <3> DEFINE sq == D * D
    <3> HIDE DEF sq
    <3>3. Left * (alpha_den * v + alpha_num * sq) \in Nat
      BY ONLY <3>1, <1>1, AlphaIs DEF sq
    <3> USE DEF sq
    <3>4. mm \in Int
      BY ONLY <1>1, <1>4, AlphaIs
    <3> QED
      BY <3>2, <3>3, <3>4, <1>1
  <2> HIDE DEF mm, vv
  <2>6. r.key = key /\ r.count = n + 1 /\ r.mean = mm /\ r.variance = vv /\ r.last_seen = clock
    BY <2>1
  <2>7. Baselined(r, clock)
    BY <2>1, <2>5, <2>6 DEF Baselined
  <2>8. Follow(r, Append(lg, e))
    BY <2>4, <2>6 DEF Follow
  <2> QED
    BY <2>6, <2>7, <2>8 DEF r, key
<1> QED
  BY <1>5, <1>6

LEMMA PlacedHalf ==
    ASSUME NEW lg, NEW more, NEW D, NEW now, NEW table, Half(table, lg, more, D, now),
           NEW entry, Baselined(entry, now), Follow(entry, more),
           NEW r, Placed(table, max_series, entry, r)
    PROVE  Half(r, lg, more, D \union {entry.key}, now)
<1> SUFFICES ASSUME NEW i \in DOMAIN r
             PROVE  /\ Baselined(r[i], now)
                    /\ r[i].key \in D \union {entry.key} => Follow(r[i], more)
                    /\ r[i].key \notin D \union {entry.key} => Follow(r[i], lg)
  BY DEF Half, Placed
<1>1. CASE r[i] = entry
  BY <1>1
<1>2. CASE r[i] # entry
  <2>1. PICK k \in DOMAIN table : r[i] = table[k] /\ table[k].key # entry.key
    BY <1>2 DEF Placed
  <2>2. /\ Baselined(table[k], now)
        /\ table[k].key \in D => Follow(table[k], more)
        /\ table[k].key \notin D => Follow(table[k], lg)
    BY DEF Half
  <2> QED
    BY <2>1, <2>2
<1> QED
  BY <1>1, <1>2

(* What a metric with this key and value does to the table.                *)
Takes(e, key, table, val) ==
    /\ val \in Int /\ val = ValueOf(e, key)
    /\ Trains(e, key) <=> ~HitIn(table, key, val)

(* One metric is processed.                                                *)
LEMMA ProcessedIs ==
    ASSUME clock \in Nat, NEW lg, IsSeq(lg), NEW e, Known(e), NEW D, NEW key, key \notin D,
           NEW more, more = Append(lg, e), NEW table, Half(table, lg, more, D, clock),
           NEW val, Takes(e, key, table, val),
           NEW r, r = Processed(table, key, val), NEW E, E = D \union {key}
    PROVE  Half(r, lg, more, E, clock)
<1>0. /\ val \in Int /\ val = ValueOf(e, key)
      /\ Trains(e, key) <=> ~HitIn(table, key, val)
  BY DEF Takes
<1>1. IsSeq(table) /\ Distinct(table) /\ Len(table) <= max_series
  BY DEF Half
<1>2. max_series \in Nat /\ max_series \in Nat \ {0}
  BY DetectorAssumption
<1>3. CASE HasKey(table, key)
  <2> DEFINE st == Lookup(table, key)
             entry == Trained(st, val)
  <2>1. PICK i \in DOMAIN table : st = table[i] /\ table[i].key = key
    BY <1>3, FoundIs
  <2>2. r = MoveToEnd(Assign(table, entry), key)
    BY <1>3 DEF Processed
  <2>3. Trains(e, key) <=> ~Hit(st, val)
    BY <1>0, <1>3 DEF HitIn
  <2> HIDE DEF st
  <2>4. Baselined(st, clock) /\ st.key = key /\ Follow(st, lg)
    BY <2>1 DEF Half
  <2>5. Baselined(entry, clock) /\ entry.key = st.key /\ Follow(entry, more)
    BY <1>0, <2>3, <2>4, TrainedIs
  <2> HIDE DEF entry
  <2>6. Placed(table, max_series, entry, r)
    BY <2>2, <2>4, <2>5, <1>1, <1>2, <1>3, RenewPlaces
  <2>7. Half(r, lg, more, D \union {entry.key}, clock)
    BY <2>5, <2>6, PlacedHalf
  <2> QED
    BY <2>4, <2>5, <2>7
<1>4. CASE ~HasKey(table, key)
  <2> DEFINE entry == Baseline(key, val)
  <2>1. r = Append(RoomFor(table, key, max_series), entry)
    BY <1>4 DEF Processed
  <2>2. entry = [key |-> key, count |-> 1, mean |-> val, variance |-> 0, last_seen |-> clock]
    BY DEF Baseline
  <2> HIDE DEF entry
  <2>3. /\ entry.key = key /\ entry.count = 1 /\ entry.mean = val /\ entry.variance = 0
        /\ entry.last_seen = clock
    BY <2>2
  <2>4. Baselined(entry, clock)
    BY <1>0, <2>2, <2>3 DEF Baselined
  <2>5. Trains(e, key)
    BY <1>0, <1>4 DEF HitIn
  <2>6. Averaged(more, key, 1, ValueOf(e, key), 0)
    BY <1>0, <2>5, AveragedBegins
  <2>7. Follow(entry, more)
    BY <1>0, <2>3, <2>6 DEF Follow
  <2>8. Placed(table, max_series, entry, r)
    BY <2>1, <2>3, <1>1, <1>2, <1>4, NewPlaces
  <2>9. Half(r, lg, more, D \union {entry.key}, clock)
    BY <2>4, <2>7, <2>8, PlacedHalf
  <2> QED
    BY <2>3, <2>9
<1> QED
  BY <1>3, <1>4

(* Numbers under names of their own.                                       *)
Fit(ms) ==
    /\ IsSeq(ms)
    /\ \A i \in DOMAIN ms : ms[i].value \in Int
    /\ \A i, j \in DOMAIN ms : ms[i].name = ms[j].name => i = j

LEMMA MeasurementsFit ==
    ASSUME NEW x, NEW y, x = Absent \/ x \in Int, y = Absent \/ y \in Int
    PROVE  Fit(Measurement("latency_ms", x) \o Measurement("response_bytes", y))
<1> DEFINE a == Measurement("latency_ms", x)
           b == Measurement("response_bytes", y)
           u == a \o b
<1>1. /\ IsSeq(a) /\ Len(a) \in {0, 1}
      /\ Len(a) = 1 => x \in Int /\ a[1] = [name |-> "latency_ms", value |-> x]
  <2>1. CASE x = Absent
    BY <2>1, EmptyIs DEF Measurement
  <2>2. CASE x # Absent
    BY <2>2, OneIs DEF Measurement
  <2> QED
    BY <2>1, <2>2
<1>2. /\ IsSeq(b) /\ Len(b) \in {0, 1}
      /\ Len(b) = 1 => y \in Int /\ b[1] = [name |-> "response_bytes", value |-> y]
  <2>1. CASE y = Absent
    BY <2>1, EmptyIs DEF Measurement
  <2>2. CASE y # Absent
    BY <2>2, OneIs DEF Measurement
  <2> QED
    BY <2>1, <2>2
<1> HIDE DEF a, b
<1> DEFINE n == Len(a)
           k == Len(b)
<1>3. /\ IsSeq(u) /\ DOMAIN u = 1..(n + k)
      /\ \A i \in 1..(n + k) : u[i] = IF i <= n THEN a[i] ELSE b[i - n]
  BY <1>1, <1>2, ConcatIs
<1> HIDE DEF u
<1>4. n \in {0, 1} /\ k \in {0, 1}
  BY <1>1, <1>2
<1> HIDE DEF n, k
<1>5. ASSUME NEW i \in 1..(n + k)
      PROVE  \/ i = 1 /\ n = 1 /\ u[i].value \in Int /\ u[i].name = "latency_ms"
             \/ i = n + 1 /\ u[i].value \in Int /\ u[i].name = "response_bytes"
  <2>1. CASE i <= n
    <3>1. i = 1 /\ n = 1
      BY ONLY <2>1, <1>4, i \in 1..(n + k)
    <3> QED
      BY <3>1, <1>1, <1>3 DEF n
  <2>2. CASE ~(i <= n)
    <3>1. i = n + 1 /\ i - n = 1 /\ k = 1
      BY ONLY <2>2, <1>4, i \in 1..(n + k)
    <3>2. u[i] = b[1]
      BY <2>2, <3>1, <1>3
    <3> QED
      BY <3>1, <3>2, <1>2 DEF k
  <2> QED
    BY <2>1, <2>2
<1>6. Fit(u)
  BY <1>3, <1>5 DEF Fit
<1> QED
  BY <1>6 DEF u, a, b

(* The metrics of an event that is not rejected.                           *)
LEMMA MetricsFit ==
    ASSUME NEW line, Plausible(line, TRUE), IsEvent(line)
    PROVE  Fit(NormalizedEvent(line).metrics)
<1> DEFINE data == Fields(line)
           x == data.lat_ms
           y == data.bytes
<1>1. /\ line = [f \in Labels \union {"format"} |-> line[f]]
      /\ \A f \in {"lat_ms", "bytes"} : line[f] \in {Absent, Malformed} \/ line[f] \in Int
  BY DEF Plausible
<1>2. "lat_ms" \in Labels \union {"format"} /\ "bytes" \in Labels \union {"format"}
      /\ "lat_ms" \in Labels /\ "bytes" \in Labels
  BY DEF Labels
<1>3. x \in {Absent, line.lat_ms} /\ y \in {Absent, line.bytes}
  BY <1>1, <1>2 DEF Fields
<1>4. x # Malformed /\ y # Malformed
  BY <1>2 DEF IsEvent, Rejected
<1>5. (x = Absent \/ x \in Int) /\ (y = Absent \/ y \in Int)
  BY <1>1, <1>3, <1>4
<1>6. NormalizedEvent(line).metrics
      = Measurement("latency_ms", x) \o Measurement("response_bytes", y)
  BY DEF NormalizedEvent
<1> HIDE DEF x, y
<1> QED
  BY <1>5, <1>6, MeasurementsFit

LEMMA AliveSound ==
    ASSUME NEW lg, NEW now, NEW d, SeriesSound(d, lg, now)
    PROVE  SeriesSound(Alive(d), lg, now)
<1> DEFINE S == {i \in DOMAIN d : clock - d[i].last_seen < Ttl}
           r == Alive(d)
<1>1. /\ IsSeq(d) /\ Distinct(d) /\ Len(d) <= max_series
      /\ \A i \in DOMAIN d : Baselined(d[i], now) /\ Follow(d[i], lg)
  BY DEF SeriesSound, Half
<1>2. Remains(d, S, Len(d), r)
  BY <1>1, KeptIs DEF Alive
<1>3. Distinct(r)
  BY <1>1, <1>2, RemainsDistinct
<1>4. Len(d) \in Nat
  BY <1>1, SeqIs
<1>5. DOMAIN d = 1..Len(d)
  BY <1>1, SeqIs
<1> HIDE DEF S, r
<1>6. IsSeq(r) /\ Len(r) <= Len(d)
  BY <1>2 DEF Remains
<1>7. Len(r) <= max_series
  <2>1. Len(r) \in Nat /\ max_series \in Nat
    BY <1>6, SeqIs, DetectorAssumption
  <2> QED
    BY ONLY <2>1, <1>1, <1>4, <1>6
<1>8. \A i \in DOMAIN r : \E k \in DOMAIN d : r[i] = d[k]
  BY <1>2, <1>5 DEF Remains
<1>9. SeriesSound(r, lg, now)
  BY <1>1, <1>3, <1>6, <1>7, <1>8 DEF SeriesSound, Half
<1> QED
  BY <1>9 DEF r

(* A line that says nothing of a series.                                   *)
LEMMA SeriesStays ==
    ASSUME NEW lg, IsSeq(lg), NEW e, ~Known(e), NEW now, NEW d, SeriesSound(d, lg, now)
    PROVE  SeriesSound(d, Append(lg, e), now)
<1>1. \A i \in DOMAIN d : Follow(d[i], Append(lg, e))
  <2> SUFFICES ASSUME NEW i \in DOMAIN d PROVE Follow(d[i], Append(lg, e))
    OBVIOUS
  <2> DEFINE b == d[i]
  <2>1. Averaged(lg, b.key, b.count, b.mean, b.variance)
    BY DEF SeriesSound, Half, Follow
  <2> HIDE DEF b
  <2>2. Averaged(Append(lg, e), b.key, b.count, b.mean, b.variance)
    BY <2>1, AveragedStays
  <2> QED
    BY <2>2 DEF Follow, b
<1> QED
  BY <1>1 DEF SeriesSound, Half

Among(os, name) == \E i \in DOMAIN os : os[i] = name

(* The outliers in the alerts of a line.                                   *)
LEMMA ReportedIs ==
    ASSUME NEW e, NEW c, NEW event, NEW st, NEW os, IsSeq(os),
           AlertsAre(e.alerts, c, event, st, os), NEW m
    PROVE  Reported(e, m) <=> Among(os, m.name)
<1> DEFINE alert == FailureAlert(st, event)
           s == IF c THEN <<alert>> ELSE <<>>
           t == [i \in DOMAIN os |-> OutlierAlert(event, os[i])]
<1>1. alert.type # "SUSPECTED_METRIC_OUTLIER"
  BY DEF FailureAlert
<1>2. \A x : OutlierAlert(event, x).type = "SUSPECTED_METRIC_OUTLIER"
             /\ OutlierAlert(event, x).metric = x
  BY DEF OutlierAlert
<1>3. Len(os) \in Nat /\ DOMAIN os = 1..Len(os)
  BY SeqIs
<1> HIDE DEF alert
<1>4. IsSeq(t) /\ Len(t) = Len(os) /\ \A i \in 1..Len(os) : t[i] = OutlierAlert(event, os[i])
  BY <1>3, FunctionIs
<1>5. IsSeq(s) /\ Len(s) \in Nat /\ \A i \in 1..Len(s) : s[i] = alert
  <2>1. CASE c
    <3>1. Len(s) = 1 /\ \A i \in 1..1 : s[i] = alert
      BY <2>1
    <3> QED
      BY <3>1, <2>1, OneIs
  <2>2. CASE ~c
    <3>1. s = <<>> /\ Len(s) = 0 /\ \A i \in 1..0 : FALSE
      BY <2>2, EmptyIs
    <3> QED
      BY <3>1, EmptyIs
  <2> QED
    BY <2>1, <2>2
<1> DEFINE u == s \o t
           n == Len(s)
           k == Len(os)
<1> HIDE DEF s, t
<1>6. /\ DOMAIN u = 1..(n + k)
      /\ \A i \in 1..(n + k) : u[i] = IF i <= n THEN s[i] ELSE t[i - n]
  BY <1>4, <1>5, ConcatIs
<1>7. e.alerts = u
  BY DEF s, t, alert, AlertsAre
<1> HIDE DEF u
<1>8. n \in Nat /\ k \in Nat
  BY <1>3, <1>5
<1>9. ASSUME Reported(e, m)
      PROVE  \E i \in DOMAIN os : os[i] = m.name
  <2>1. PICK i \in 1..(n + k) : u[i].type = "SUSPECTED_METRIC_OUTLIER" /\ u[i].metric = m.name
    BY <1>6, <1>7, <1>9 DEF Reported, ToSet
  <2>2. ~(i <= n)
    <3> SUFFICES ASSUME i <= n PROVE FALSE
      OBVIOUS
    <3>1. u[i] = s[i] /\ i \in 1..n
      BY <1>6, <1>8
    <3> QED
      BY <3>1, <2>1, <1>1, <1>5
  <2>3. i - n \in 1..k
    BY ONLY <2>2, <1>8, i \in 1..(n + k)
  <2>4. u[i] = OutlierAlert(event, os[i - n])
    BY <2>2, <2>3, <1>4, <1>6
  <2> QED
    BY <2>1, <2>3, <2>4, <1>2, <1>3
<1>10. ASSUME NEW i \in DOMAIN os, os[i] = m.name
       PROVE  Reported(e, m)
  <2>1. i \in 1..k
    BY <1>3
  <2> DEFINE j == n + i
  <2>2. j \in 1..(n + k) /\ ~(j <= n) /\ j - n = i
    BY ONLY <2>1, <1>8
  <2> HIDE DEF j
  <2>3. u[j] = OutlierAlert(event, os[i])
    BY <2>1, <2>2, <1>4, <1>6
  <2>4. u[j].type = "SUSPECTED_METRIC_OUTLIER" /\ u[j].metric = m.name
    BY <2>3, <1>2, <1>10
  <2>5. u[j] \in ToSet(e.alerts)
    BY <2>2, <1>6, <1>7 DEF ToSet
  <2> QED
    BY <2>4, <2>5 DEF Reported
<1> QED
  BY <1>9, <1>10 DEF Among

(* The loop over the metrics ms of the line of e: g[k] is what it has made *)
(* of the table, and of the outliers, after k of them.                     *)
LoopBy(e, table, g) ==
    LET event == NormalizedEvent(e.line)
    IN  /\ g[0] = [table |-> table, outliers |-> <<>>]
        /\ \A k \in 1..Len(event.metrics) : g[k] = Score(event, g[k - 1], event.metrics[k])

HitAt(e, g, k) ==
    LET m == NormalizedEvent(e.line).metrics[k]
    IN  HitIn(g[k - 1].table, KeyOf(e, m), m.value)

Hits(e, g, k, name) ==
    \E j \in 1..k : NormalizedEvent(e.line).metrics[j].name = name /\ HitAt(e, g, j)

HitsReported(e, g, n) == \A m : Reported(e, m) <=> Hits(e, g, n, m.name)

KeysTo(e, k) == {KeyOf(e, NormalizedEvent(e.line).metrics[j]) : j \in 1..k}

Stepped(e, g, k, m) ==
    /\ g[k].table = Processed(g[k - 1].table, KeyOf(e, m), m.value)
    /\ HitAt(e, g, k) => g[k].outliers = Append(g[k - 1].outliers, m.name)
    /\ ~HitAt(e, g, k) => g[k].outliers = g[k - 1].outliers

LEMMA LoopStep ==
    ASSUME NEW e, NEW table, NEW g, LoopBy(e, table, g),
           NEW k \in 1..Len(NormalizedEvent(e.line).metrics), NEW m,
           m = NormalizedEvent(e.line).metrics[k]
    PROVE  Stepped(e, g, k, m)
<1> DEFINE event == NormalizedEvent(e.line)
<1>1. g[k] = Score(event, g[k - 1], m)
  BY DEF LoopBy
<1>2. HitAt(e, g, k) <=> /\ HasKey(g[k - 1].table, SeriesKey(event, m))
                         /\ Hit(Lookup(g[k - 1].table, SeriesKey(event, m)), m.value)
  BY DEF HitAt, HitIn, KeyOf
<1> HIDE DEF event
<1> QED
  BY <1>1, <1>2 DEF Score, KeyOf, event, Stepped

(* The outliers are the names of the metrics hit.                          *)
LEMMA OutliersHit ==
    ASSUME NEW e, NEW table, NEW g, LoopBy(e, table, g), NEW n \in Nat,
           n = Len(NormalizedEvent(e.line).metrics)
    PROVE  /\ IsSeq(g[n].outliers)
           /\ \A name : (\E i \in DOMAIN g[n].outliers : g[n].outliers[i] = name)
                           <=> Hits(e, g, n, name)
<1> DEFINE ms == NormalizedEvent(e.line).metrics
           Names(k) == /\ IsSeq(g[k].outliers)
                       /\ \A name : (\E i \in DOMAIN g[k].outliers : g[k].outliers[i] = name)
                                       <=> Hits(e, g, k, name)
           N == {k \in Nat : k <= n => Names(k)}
<1>1. 0 \in N
  <2>1. g[0].outliers = <<>>
    BY DEF LoopBy
  <2>2. \A name : ~Hits(e, g, 0, name)
    BY DEF Hits
  <2>3. Names(0)
    BY <2>1, <2>2, EmptyIs
  <2> HIDE DEF Names
  <2> QED
    BY <2>3
<1>2. ASSUME NEW k \in N
      PROVE  k + 1 \in N
  <2> SUFFICES ASSUME k + 1 <= n PROVE Names(k + 1)
    OBVIOUS
  <2> DEFINE h == k + 1
             m == ms[h]
             a == g[k].outliers
             b == g[h].outliers
  <2>1. k \in Nat /\ h \in 1..n /\ h - 1 = k /\ Names(k)
    OBVIOUS
  <2>2. \A j : j \in 1..h <=> j \in 1..k \/ j = h
    BY <2>1
  <2> HIDE DEF h
  <2>3. /\ HitAt(e, g, h) => b = Append(a, m.name)
        /\ ~HitAt(e, g, h) => b = a
    <3>1. h \in 1..Len(NormalizedEvent(e.line).metrics) /\ m = NormalizedEvent(e.line).metrics[h]
      BY <2>1
    <3> HIDE DEF m
    <3>2. Stepped(e, g, h, m)
      BY ONLY <3>1, LoopBy(e, table, g), LoopStep
    <3> QED
      BY <3>2, <2>1 DEF Stepped
  <2>4. IsSeq(a) /\ \A name : (\E i \in DOMAIN a : a[i] = name) <=> Hits(e, g, k, name)
    BY <2>1
  <2>5. \A name : Hits(e, g, h, name) <=>
            Hits(e, g, k, name) \/ (m.name = name /\ HitAt(e, g, h))
    BY <2>2 DEF Hits
  <2> DEFINE nm == m.name
  <2> HIDE DEF m, a, b
  <2>6. CASE HitAt(e, g, h)
    <3>0. b = Append(a, nm)
      BY <2>3, <2>6
    <3> HIDE DEF nm
    <3>1. /\ IsSeq(b) /\ DOMAIN b = 1..(Len(a) + 1) /\ b[Len(a) + 1] = nm
          /\ \A i \in 1..Len(a) : b[i] = a[i]
      BY ONLY <3>0, <2>4, AppendIs
    <3>2. Len(a) \in Nat
      BY <2>4, SeqIs
    <3>3. DOMAIN a = 1..Len(a)
      BY <2>4, SeqIs
    <3>4. \A i : i \in 1..(Len(a) + 1) <=> i \in 1..Len(a) \/ i = Len(a) + 1
      BY ONLY <3>2
    <3>5. \A name : (\E i \in DOMAIN b : b[i] = name)
                       <=> (\E i \in DOMAIN a : a[i] = name) \/ nm = name
      BY ONLY <3>1, <3>3, <3>4
    <3>6. \A name : (\E i \in DOMAIN b : b[i] = name) <=> Hits(e, g, h, name)
      BY ONLY <3>5, <2>4, <2>5, <2>6 DEF nm
    <3> QED
      BY <3>1, <3>6 DEF b, h
  <2>7. CASE ~HitAt(e, g, h)
    BY <2>3, <2>4, <2>5, <2>7 DEF b, h
  <2> QED
    BY <2>6, <2>7
<1>3. N \in SUBSET Nat
  OBVIOUS
<1>4. N = Nat
  <2> HIDE DEF N
  <2> QED
    BY <1>1, <1>2, <1>3, Induction
<1>5. Names(n)
  <2> HIDE DEF Names
  <2> QED
    BY <1>4
<1> QED
  BY <1>5

(* Each metric is another series, and trains it unless it is hit.          *)
LEMMA MetricIs ==
    ASSUME NEW e, Fit(NormalizedEvent(e.line).metrics), NEW g, NEW n \in Nat,
           n = Len(NormalizedEvent(e.line).metrics),
           HitsReported(e, g, n),
           NEW k \in 1..n, NEW m, m = NormalizedEvent(e.line).metrics[k], NEW key,
           key = KeyOf(e, m)
    PROVE  /\ m.value \in Int /\ m.value = ValueOf(e, key)
           /\ Trains(e, key) <=> ~HitAt(e, g, k)
           /\ key \notin KeysTo(e, k - 1)
<1> DEFINE ms == NormalizedEvent(e.line).metrics
<1>1. /\ DOMAIN ms = 1..n /\ ms[k] = m /\ \A i \in 1..n : ms[i].value \in Int
      /\ \A i, j \in 1..n : ms[i].name = ms[j].name => i = j
  BY SeqIs DEF Fit
<1>2. MetricsOf(e) = {ms[i] : i \in 1..n}
  BY <1>1 DEF MetricsOf, ToSet
<1>3. \A x, y : KeyOf(e, x) = KeyOf(e, y) => x.name = y.name
  BY DEF KeyOf, SeriesKey
<1> HIDE DEF ms
<1>4. \A i \in 1..n : KeyOf(e, ms[i]) = key => i = k
  BY <1>1, <1>3
<1>5. m \in MetricsOf(e) /\ \A x \in MetricsOf(e) : KeyOf(e, x) = key => x = m
  BY <1>1, <1>2, <1>4
<1>6. m.value \in Int /\ m.value = ValueOf(e, key)
  <2>1. (CHOOSE x \in MetricsOf(e) : KeyOf(e, x) = key) = m
    BY <1>5
  <2> QED
    BY <2>1, <1>1 DEF ValueOf
<1>7. Trains(e, key) <=> ~Reported(e, m)
  BY <1>5 DEF Trains
<1>8a. Reported(e, m) <=> Hits(e, g, n, m.name)
  BY DEF HitsReported
<1>8. Hits(e, g, n, m.name) <=> HitAt(e, g, k)
  <2>1. \A j \in 1..n : ms[j].name = m.name <=> j = k
    BY <1>1
  <2> QED
    BY <2>1 DEF Hits, ms
<1>9. key \notin KeysTo(e, k - 1)
  <2> SUFFICES ASSUME NEW j \in 1..(k - 1), key = KeyOf(e, ms[j]) PROVE FALSE
    BY DEF KeysTo, ms
  <2>1. j \in 1..n /\ j # k
    OBVIOUS
  <2> QED
    BY <2>1, <1>4
<1> QED
  BY <1>6, <1>7, <1>8, <1>8a, <1>9

(* After the loop the table follows the log with the line.                 *)
LEMMA LoopSound ==
    ASSUME clock \in Nat, NEW lg, IsSeq(lg), NEW e, Known(e),
           Fit(NormalizedEvent(e.line).metrics),
           NEW table, SeriesSound(table, lg, clock), NEW g, LoopBy(e, table, g), NEW n \in Nat,
           n = Len(NormalizedEvent(e.line).metrics),
           HitsReported(e, g, n)
    PROVE  SeriesSound(g[n].table, Append(lg, e), clock)
<1> DEFINE ms == NormalizedEvent(e.line).metrics
           more == Append(lg, e)
           Sound(k) == Half(g[k].table, lg, more, KeysTo(e, k), clock)
           N == {k \in Nat : k <= n => Sound(k)}
<1>1. 0 \in N
  <2>1. g[0].table = table
    BY DEF LoopBy
  <2>2. KeysTo(e, 0) = {}
    BY DEF KeysTo
  <2>3. Half(table, lg, more, {}, clock)
    BY DEF SeriesSound, Half
  <2> QED
    BY <2>1, <2>2, <2>3
<1>2. ASSUME NEW k \in N
      PROVE  k + 1 \in N
  <2> SUFFICES ASSUME k + 1 <= n PROVE Sound(k + 1)
    OBVIOUS
  <2> DEFINE h == k + 1
             m == ms[h]
             key == KeyOf(e, m)
             D == KeysTo(e, k)
             t == g[k].table
  <2>1. k \in Nat /\ h \in 1..n /\ h - 1 = k /\ Sound(k)
    OBVIOUS
  <2>2. \A j : j \in 1..h <=> j \in 1..k \/ j = h
    BY <2>1
  <2> HIDE DEF h
  <2>3. /\ m.value \in Int /\ m.value = ValueOf(e, key)
        /\ Trains(e, key) <=> ~HitAt(e, g, h)
        /\ key \notin KeysTo(e, h - 1)
    <3>1. m = NormalizedEvent(e.line).metrics[h] /\ key = KeyOf(e, m)
      OBVIOUS
    <3> HIDE DEF m, key
    <3> QED
      BY ONLY <3>1, <2>1, MetricIs, Fit(NormalizedEvent(e.line).metrics), n \in Nat,
              n = Len(NormalizedEvent(e.line).metrics), HitsReported(e, g, n)
  <2>4. g[h].table = Processed(t, key, m.value)
    <3>1. h \in 1..Len(NormalizedEvent(e.line).metrics) /\ m = NormalizedEvent(e.line).metrics[h]
      BY <2>1
    <3> HIDE DEF m
    <3>2. Stepped(e, g, h, m)
      BY ONLY <3>1, LoopBy(e, table, g), LoopStep
    <3> QED
      BY <3>2, <2>1 DEF Stepped
  <2>5. HitAt(e, g, h) <=> HitIn(t, key, m.value)
    BY <2>1 DEF HitAt
  <2>6. KeysTo(e, h) = D \union {key}
    BY <2>2 DEF KeysTo
  <2>7. Half(t, lg, more, D, clock)
    BY <2>1
  <2> DEFINE val == m.value
  <2>8. Takes(e, key, t, val) /\ key \notin D
    BY <2>1, <2>3, <2>5 DEF Takes
  <2> DEFINE r == g[h].table
             E == KeysTo(e, h)
  <2>9. r = Processed(t, key, val) /\ E = D \union {key} /\ more = Append(lg, e)
    BY <2>4, <2>6
  <2> HIDE DEF t, key, D, val, more, r, E
  <2>10. Half(r, lg, more, E, clock)
    BY ONLY <2>7, <2>8, <2>9, clock \in Nat, IsSeq(lg), Known(e), ProcessedIs
  <2> QED
    BY <2>10 DEF h, r, E
<1>3. N \in SUBSET Nat
  OBVIOUS
<1>4. N = Nat
  <2> HIDE DEF N
  <2> QED
    BY <1>1, <1>2, <1>3, Induction
<1>5. Half(g[n].table, lg, more, KeysTo(e, n), clock)
  <2>1. Sound(n)
    <3> HIDE DEF Sound
    <3> QED
      BY <1>4
  <2> QED
    BY <2>1
<1>6. \A key : key \notin KeysTo(e, n) => ~Trains(e, key)
  <2>1. MetricsOf(e) = {ms[i] : i \in 1..n}
    BY SeqIs DEF MetricsOf, ToSet, Fit
  <2> QED
    BY <2>1 DEF Trains, KeysTo
<1> DEFINE r == g[n].table
<1>7. ASSUME NEW i \in DOMAIN r
      PROVE  Follow(r[i], more)
  <2> DEFINE b == r[i]
  <2>1. CASE b.key \in KeysTo(e, n)
    BY <1>5, <2>1 DEF Half
  <2>2. CASE b.key \notin KeysTo(e, n)
    <3>1. Averaged(lg, b.key, b.count, b.mean, b.variance)
      BY <1>5, <2>2 DEF Half, Follow
    <3>2. ~Trains(e, b.key)
      BY <2>2, <1>6
    <3> HIDE DEF b
    <3>3. Averaged(more, b.key, b.count, b.mean, b.variance)
      BY <3>1, <3>2, AveragedStays
    <3> QED
      BY <3>3 DEF Follow, b
  <2> QED
    BY <2>1, <2>2
<1> QED
  BY <1>5, <1>7 DEF SeriesSound, Half

LEMMA EventSeries ==
    ASSUME NEW line, IngestEvent(line), Plausible(line, TRUE), clock \in Nat, IsSeq(log),
           SeriesSound(series, log, clock)
    PROVE  SeriesSound(series', log', clock)
<1> DEFINE event == NormalizedEvent(line)
           table == Alive(series)
           seen == Seen(Pruned(sources), event.ip)
           scored == Scored(event, table)
           st == IF IsFailure(event) THEN Remembered(Last(seen), event.user) ELSE Last(seen)
           c == IsFailure(event) /\ Len(st.failures) >= 4
           bursts == IF c THEN <<FailureAlert(st, event)>> ELSE <<>>
           outliers == [i \in DOMAIN scored.outliers |-> OutlierAlert(event, scored.outliers[i])]
           e == [line |-> line, at |-> clock, alerts |-> bursts \o outliers]
           os == scored.outliers
<1>1. IsEvent(line) /\ event.ip # None /\ series' = scored.table /\ log' = Append(log, e)
  BY DEF IngestEvent, Ingested
<1>2. Known(e) /\ e.line = line /\ AlertsAre(e.alerts, c, event, st, os)
  BY <1>1 DEF Known, AlertsAre
<1>3. Fit(NormalizedEvent(e.line).metrics) /\ Fit(event.metrics)
  BY <1>1, <1>2, MetricsFit
<1>4. SeriesSound(table, log, clock)
  BY AliveSound
<1> DEFINE n == Len(event.metrics)
<1>5. IsSeq(event.metrics) /\ n \in Nat
  BY <1>3, SeqIs DEF Fit
<1>6. PICK g : /\ g[0] = [table |-> table, outliers |-> <<>>]
               /\ \A k \in 1..Len(event.metrics) : g[k] = Score(event, g[k - 1], event.metrics[k])
               /\ Scored(event, table) = g[Len(event.metrics)]
  <2> HIDE DEF event, table
  <2> QED
    BY <1>5, ScoredIs
<1> HIDE DEF e, c, st
<1>7. LoopBy(e, table, g) /\ n = Len(NormalizedEvent(e.line).metrics) /\ scored = g[n]
  BY <1>2, <1>6 DEF LoopBy
<1> HIDE DEF event, table, scored, os, n
<1>8. IsSeq(os) /\ \A name : (\E i \in DOMAIN os : os[i] = name) <=> Hits(e, g, n, name)
  <2>1. /\ IsSeq(g[n].outliers)
        /\ \A name : (\E i \in DOMAIN g[n].outliers : g[n].outliers[i] = name)
                        <=> Hits(e, g, n, name)
    BY <1>5, <1>7, OutliersHit
  <2> QED
    BY <2>1, <1>7 DEF os
<1>9. HitsReported(e, g, n)
  <2> SUFFICES ASSUME NEW m PROVE Reported(e, m) <=> Hits(e, g, n, m.name)
    BY DEF HitsReported
  <2>1. Reported(e, m) <=> Among(os, m.name)
    BY <1>2, <1>8, ReportedIs
  <2> DEFINE name == m.name
  <2> HIDE DEF name
  <2>2. (\E i \in DOMAIN os : os[i] = name) <=> Hits(e, g, n, name)
    BY <1>8
  <2> QED
    BY <2>1, <2>2 DEF name, Among
<1>10. SeriesSound(g[n].table, Append(log, e), clock)
  BY <1>2, <1>3, <1>4, <1>5, <1>7, <1>9, LoopSound
<1> QED
  BY <1>1, <1>7, <1>10

LEMMA OtherSeries ==
    ASSUME NEW line, IngestOther(line), clock \in Nat, IsSeq(log),
           SeriesSound(series, log, clock)
    PROVE  SeriesSound(series', log', clock)
<1> DEFINE e == [line |-> line, at |-> clock, alerts |-> <<>>]
<1>1. /\ ~(IsEvent(line) /\ NormalizedEvent(line).ip # None)
      /\ series' = Alive(series) /\ log' = Append(log, e)
  BY DEF IngestOther, Ingested
<1>2. ~Known(e)
  BY <1>1 DEF Known
<1>3. SeriesSound(Alive(series), log, clock)
  BY AliveSound
<1> HIDE DEF e
<1> QED
  BY <1>1, <1>2, <1>3, SeriesStays

LEMMA PlainSeries ==
    ASSUME NEW line, PlainLine(line), line.format = "plain", clock \in Nat, IsSeq(log),
           SeriesSound(series, log, clock)
    PROVE  SeriesSound(series', log', clock)
<1> DEFINE e == [line |-> line, at |-> clock, alerts |-> <<>>]
<1>1. series' = series /\ log' = Append(log, e)
  BY DEF PlainLine, Ingested
<1>2. ~Known(e)
  BY DEF Known, IsEvent
<1> HIDE DEF e
<1> QED
  BY <1>1, <1>2, SeriesStays

(* Time alone changes nothing.                                             *)
LEMMA SeriesAge ==
    ASSUME NEW d, NEW lg, NEW now \in Nat, SeriesSound(d, lg, now)
    PROVE  SeriesSound(d, lg, now + 1)
<1>1. \A i \in DOMAIN d : Baselined(d[i], now + 1)
  <2> SUFFICES ASSUME NEW i \in DOMAIN d PROVE Baselined(d[i], now + 1)
    OBVIOUS
  <2>1. Baselined(d[i], now)
    BY DEF SeriesSound, Half
  <2>2. d[i].last_seen \in Nat /\ d[i].last_seen <= now + 1
    <3>1. d[i].last_seen \in Nat /\ d[i].last_seen <= now
      BY <2>1 DEF Baselined
    <3> QED
      BY ONLY <3>1, now \in Nat
  <2> QED
    BY <2>1, <2>2 DEF Baselined
<1> QED
  BY <1>1 DEF SeriesSound, Half

SeriesInv == SeriesSound(series, log, clock)

LEMMA IngestSeries ==
    ASSUME NEW line \in NextLines(scenario.lines, Len(log) + 1), IngestLine(line),
           clock \in Nat, clock' = clock, WatchSound, SeriesInv
    PROVE  SeriesInv'
<1>1. scenario \in Scenarios /\ IsSeq(log) /\ SeriesSound(series, log, clock)
  BY DEF WatchSound, DetectorSound, LogSound, SeriesInv
<1>2. Plausible(line, scenario.security)
  BY <1>1, ScenarioAssumption DEF NextLines
<1>3. SeriesSound(series', log', clock)
  <2>1. CASE scenario.security
    <3>1. IngestRawLog(line)
      BY <2>1 DEF IngestLine, SecurityLine
    <3>2. Plausible(line, TRUE)
      BY <1>2, <2>1 DEF Plausible
    <3> QED
      BY <3>1, <3>2, <1>1, EventSeries, OtherSeries DEF IngestRawLog
  <2>2. CASE ~scenario.security
    <3>1. PlainLine(line) /\ line.format = "plain"
      BY <1>2, <2>2 DEF IngestLine, Plausible
    <3> QED
      BY <3>1, <1>1, PlainSeries
  <2> QED
    BY <2>1, <2>2
<1> QED
  BY <1>3 DEF SeriesInv

LEMMA SeriesBegins == Init => SeriesInv
<1> SUFFICES ASSUME Init PROVE SeriesInv
  OBVIOUS
<1>1. series = <<>>
  BY DEF Init, DetectorInit
<1>2. IsSeq(<<>>) /\ Len(<<>>) = 0 /\ DOMAIN <<>> = {}
  BY EmptyIs
<1>3. max_series \in Nat
  BY DetectorAssumption
<1> QED
  BY <1>1, <1>2, <1>3 DEF SeriesInv, SeriesSound, Half, Distinct

LEMMA SeriesKept == IInv /\ WatchSound /\ SeriesInv /\ [Next]_vars => SeriesInv'
<1> SUFFICES ASSUME IInv, WatchSound, SeriesInv, [Next]_vars PROVE SeriesInv'
  OBVIOUS
<1>1. clock \in Nat
  BY DEF IInv
<1>2. ASSUME UNCHANGED <<series, log, clock>>
      PROVE  SeriesInv'
  BY <1>2 DEF SeriesInv
<1>3. ASSUME NEW line \in NextLines(scenario.lines, Len(log) + 1), IngestLine(line),
             UNCHANGED clock
      PROVE  SeriesInv'
  BY <1>1, <1>3, IngestSeries
<1>4. ASSUME NEW reading, AnalyzeDisk(reading), UNCHANGED clock
      PROVE  SeriesInv'
  BY <1>2, <1>4 DEF AnalyzeDisk
<1>5. ASSUME NEW spoiled, EndCycle(spoiled), UNCHANGED clock
      PROVE  SeriesInv'
  BY <1>2, <1>5 DEF EndCycle
<1>6. ASSUME Deliver, UNCHANGED clock
      PROVE  SeriesInv'
  <2>1. UNCHANGED <<series, log>>
    BY <1>6 DEF Deliver
  <2> QED
    BY <2>1, <1>2, <1>6
<1>7. CASE TimePasses
  <2>1. UNCHANGED <<series, log>> /\ clock' = clock + 1
    BY <1>7 DEF TimePasses, Tick
  <2>2. SeriesSound(series, log, clock + 1)
    BY <1>1, SeriesAge DEF SeriesInv
  <2> QED
    BY <2>1, <2>2 DEF SeriesInv
<1>8. CASE UNCHANGED vars
  BY <1>2, <1>8 DEF vars
<1> QED
  BY <1>3, <1>4, <1>5, <1>6, <1>7, <1>8 DEF Next, Step

LEMMA SeriesHold == Spec => []SeriesInv
<1>1. Init => SeriesInv
  BY SeriesBegins
<1>2. IInv /\ WatchSound /\ SeriesInv /\ [Next]_vars => SeriesInv'
  BY SeriesKept
<1> QED
  BY <1>1, <1>2, InvariantHolds, WatchHolds, PTL DEF Spec

(* The baseline of each series is the exponentially weighted mean and      *)
(* variance of its latest samples, none of them reported as an outlier,    *)
(* however often the bounded table forgot the series: for any smoothing    *)
(* factor, any values and any number of samples (security_detector.py      *)
(* EWMAAnomalyDetector.process).                                           *)
THEOREM BaselinesHold == Spec => []BaselineIsWeighted
<1>1. IsSeq(log) /\ SeriesInv => BaselineIsWeighted
  <2> SUFFICES ASSUME IsSeq(log), SeriesInv, NEW b \in ToSet(series)
               PROVE  LET n == b.count
                          x == Recent(b.key, n)
                          off == [i \in 1..n |-> x[i] * Scale(n) - b.mean]
                      IN  /\ n <= Cardinality(Samples(b.key))
                          /\ b.mean = Total([i \in 1..n |-> Weight(i, n) * x[i]], n)
                          /\ b.variance * Scale(n)
                             = Total([i \in 1..n |-> Weight(i, n) * off[i] * off[i]], n)
    BY DEF BaselineIsWeighted
  <2> DEFINE n == b.count
             m == b.mean
             v == b.variance
             key == b.key
             x == Recent(key, n)
  <2>1. Baselined(b, clock) /\ Follow(b, log)
    BY DEF SeriesInv, SeriesSound, Half, ToSet
  <2>2. n \in Nat \ {0} /\ m \in Int /\ v \in Int /\ Averaged(log, key, n, m, v)
    BY <2>1 DEF Baselined, Follow
  <2> HIDE DEF n, m, v, key
  <2>3. n <= Cardinality(Samples(key)) /\ Weighted(n, x, m, v)
    BY <2>2, AveragedTells
  <2> HIDE DEF x
  <2>4. m = Total([i \in 1..n |-> Weight(i, n) * x[i]], n)
    BY <2>3 DEF Weighted, Shares
  <2>5. v * Scale(n) = Total([i \in 1..n |-> Weight(i, n) * Off(x, n, m)[i] * Off(x, n, m)[i]], n)
    BY <2>3 DEF Weighted, Squares
  <2>6. Off(x, n, m) = [i \in 1..n |-> x[i] * Scale(n) - m]
    BY DEF Off
  <2> QED
    BY <2>3, <2>4, <2>5, <2>6 DEF n, m, v, key, x
<1>2. IInv => IsSeq(log)
  BY DEF IInv
<1> QED
  BY <1>1, <1>2, SeriesHold, InvariantHolds, PTL

-----------------------------------------------------------------------------
(* Types and bounds.                                                       *)

LEMMA KeysAre ==
    ASSUME NEW d, IsSeq(d), Distinct(d)
    PROVE  Cardinality(KeysOf(d)) = Len(d)
<1> DEFINE n == Len(d)
           f == [i \in 1..n |-> d[i].key]
           T == KeysOf(d)
<1>1. n \in Nat
  BY SeqIs
<1>2. DOMAIN d = 1..n
  BY SeqIs
<1> HIDE DEF n
<1>3. T = {f[i] : i \in 1..n} /\ f \in [1..n -> T] /\ DOMAIN f = 1..n
  BY <1>2 DEF KeysOf
<1>4. \A i, j \in 1..n : f[i] = f[j] => i = j
  BY <1>2 DEF Distinct
<1>5. IsFiniteSet(1..n) /\ Cardinality(1..n) = n
  <2>1. 1 \in Int /\ n \in Int /\ (IF 1 > n THEN 0 ELSE n - 1 + 1) = n
    BY <1>1
  <2> QED
    BY <2>1, FS_Interval
<1> HIDE DEF f, T
<1>6. IsFiniteSet(T) /\ Cardinality(T) \in Nat /\ Cardinality(T) <= n
  BY <1>3, <1>5, NoMoreValues
<1>7. n <= Cardinality(T)
  BY <1>1, <1>3, <1>4, <1>6, AsManyValues
<1>8. n = Cardinality(T)
  BY ONLY <1>1, <1>6, <1>7
<1> QED
  BY <1>8 DEF T, n

(* The cycles of a scenario, and time.                                     *)
ProgressInv ==
    /\ phase \in {"disk", "stream", "done"}
    /\ cycle \in Nat /\ cycle <= scenario.cycles
    /\ phase # "done" => cycle + 1 <= scenario.cycles
    /\ clock \in 0..MaxTime

LEMMA ProgressBegins == Init => ProgressInv
<1> SUFFICES ASSUME Init PROVE ProgressInv
  OBVIOUS
<1>1. scenario \in Scenarios /\ phase = "disk" /\ cycle = 0 /\ clock = 0
  BY DEF Init
<1>2. scenario.cycles \in Nat \ {0}
  BY <1>1, ScenarioAssumption
<1>3. 0 <= scenario.cycles /\ 0 + 1 <= scenario.cycles
  BY ONLY <1>2
<1> QED
  BY <1>1, <1>3, TimeAssumption DEF ProgressInv

LEMMA ProgressKept == WatchSound /\ ProgressInv /\ [Next]_vars => ProgressInv'
<1> SUFFICES ASSUME WatchSound, ProgressInv, [Next]_vars PROVE ProgressInv'
  OBVIOUS
<1>1. scenario.cycles \in Nat \ {0}
  BY ScenarioAssumption DEF WatchSound
<1>2. ASSUME UNCHANGED <<phase, cycle, scenario, clock>>
      PROVE  ProgressInv'
  BY <1>2 DEF ProgressInv
<1>3. ASSUME NEW line, IngestLine(line), UNCHANGED clock
      PROVE  ProgressInv'
  BY <1>2, <1>3 DEF IngestLine
<1>4. ASSUME NEW reading, AnalyzeDisk(reading), UNCHANGED clock
      PROVE  ProgressInv'
  BY <1>4 DEF AnalyzeDisk, ProgressInv
<1>5. ASSUME NEW spoiled, EndCycle(spoiled), UNCHANGED clock
      PROVE  ProgressInv'
  <2>1. /\ phase = "stream" /\ cycle' = cycle + 1 /\ scenario' = scenario
        /\ phase' = IF cycle + 1 < scenario.cycles THEN "disk" ELSE "done"
    BY <1>5 DEF EndCycle
  <2>2. cycle \in Nat /\ cycle + 1 <= scenario.cycles
    BY <2>1 DEF ProgressInv
  <2>3. cycle + 1 < scenario.cycles => (cycle + 1) + 1 <= scenario.cycles
    BY ONLY <1>1, <2>2
  <2> QED
    BY <1>5, <2>1, <2>2, <2>3 DEF ProgressInv
<1>6. ASSUME Deliver, UNCHANGED clock
      PROVE  ProgressInv'
  <2>1. UNCHANGED <<phase, cycle, scenario>>
    BY <1>6 DEF Deliver
  <2> QED
    BY <2>1, <1>2, <1>6
<1>7. CASE TimePasses
  <2>1. UNCHANGED <<phase, cycle, scenario>> /\ clock' = clock + 1 /\ clock < MaxTime
    BY <1>7 DEF TimePasses, Tick
  <2>2. clock + 1 \in 0..MaxTime
    BY <2>1, TimeAssumption DEF ProgressInv
  <2> QED
    BY <2>1, <2>2 DEF ProgressInv
<1>8. CASE UNCHANGED vars
  BY <1>2, <1>8 DEF vars
<1> QED
  BY <1>3, <1>4, <1>5, <1>6, <1>7, <1>8 DEF Next, Step

LEMMA ProgressHolds == Spec => []ProgressInv
<1>1. Init => ProgressInv
  BY ProgressBegins
<1>2. WatchSound /\ ProgressInv /\ [Next]_vars => ProgressInv'
  BY ProgressKept
<1> QED
  BY <1>1, <1>2, WatchHolds, PTL DEF Spec

(* An entry of the table of sources is no younger than the clock says.     *)
LEMMA SourceBounded ==
    ASSUME NEW lg, NEW now \in Nat, LogSound(lg, now), NEW t, NEW st, SourceSound(st, lg, t)
    PROVE  /\ st.last_seen <= now /\ Len(st.failures) <= max_failures
           /\ st.truncated_until <= now + Window
<1>1. PICK i \in Mine(lg, st.key) : st.last_seen = lg[i].at
  BY DEF SourceSound
<1>2. i \in DOMAIN lg /\ \A j \in Mine(lg, st.key) : j \in DOMAIN lg
  BY DEF Mine, Uses
<1>3. st.last_seen <= now
  BY <1>1, <1>2 DEF LogSound
<1>4. Len(st.failures) <= max_failures
  BY DEF SourceSound, Remembers
<1>5. st.truncated_until <= now + Window
  <2> DEFINE until == st.truncated_until
  <2>0. until = 0 \/ \E j \in Mine(lg, st.key) : until = lg[j].at + Window
    BY DEF SourceSound, Truncated
  <2>1. CASE until = 0
    BY ONLY <2>1, now \in Nat, DetectorAssumption DEF until
  <2>2. ASSUME NEW j \in Mine(lg, st.key), until = lg[j].at + Window
        PROVE  until <= now + Window
    <3>1. lg[j].at \in Nat /\ lg[j].at <= now
      BY <1>2 DEF LogSound
    <3>2. Window \in Nat
      BY DetectorAssumption
    <3> QED
      BY ONLY <2>2, <3>1, <3>2, now \in Nat
  <2> QED
    BY <2>0, <2>1, <2>2
<1> QED
  BY <1>3, <1>4, <1>5

(* Every variable has its type and every table keeps its bound: for any    *)
(* limits and any scenario (integrated_alerts.py, security_detector.py,    *)
(* alert_delivery.py).                                                     *)
THEOREM TypesHold == Spec => []TypeOK
<1>1. IInv /\ Tallies /\ WatchSound /\ SeriesInv /\ ProgressInv => TypeOK
  <2> SUFFICES ASSUME IInv, Tallies, WatchSound, SeriesInv, ProgressInv PROVE TypeOK
    OBVIOUS
  <2>1. /\ scenario \in Scenarios /\ report \in Reports /\ total \in Reports
    BY DEF Tallies, Kinds
  <2>2. /\ phase \in {"disk", "stream", "done"} /\ cycle \in 0..scenario.cycles
        /\ clock \in 0..MaxTime
    <3>1. scenario.cycles \in Nat
      BY <2>1, ScenarioAssumption
    <3> QED
      BY <3>1 DEF ProgressInv
  <2>3. clock \in Nat
    BY DEF IInv
  <2>4. PICK t : SourcesSound(sources, log, t)
    BY DEF WatchSound, DetectorSound
  <2>5. Len(sources) <= max_sources /\ Cardinality(KeysOf(sources)) = Len(sources)
    BY <2>4, KeysAre DEF SourcesSound
  <2>6. \A st \in ToSet(sources) :
           /\ st.last_seen <= clock /\ Len(st.failures) <= max_failures
           /\ st.truncated_until <= clock + Window
    <3> SUFFICES ASSUME NEW i \in DOMAIN sources
                 PROVE  /\ sources[i].last_seen <= clock
                        /\ Len(sources[i].failures) <= max_failures
                        /\ sources[i].truncated_until <= clock + Window
      BY DEF ToSet
    <3>1. SourceSound(sources[i], log, t) /\ LogSound(log, clock)
      BY <2>4 DEF SourcesSound, WatchSound, DetectorSound
    <3> QED
      BY <2>3, <3>1, SourceBounded
  <2>7. Len(series) <= max_series /\ Cardinality(KeysOf(series)) = Len(series)
    BY KeysAre DEF SeriesInv, SeriesSound, Half
  <2>8. \A b \in ToSet(series) : b.count >= 1 /\ b.variance >= 0 /\ b.last_seen <= clock
    <3> SUFFICES ASSUME NEW i \in DOMAIN series
                 PROVE  /\ series[i].count >= 1 /\ series[i].variance >= 0
                        /\ series[i].last_seen <= clock
      BY DEF ToSet
    <3>1. Baselined(series[i], clock)
      BY DEF SeriesInv, SeriesSound, Half
    <3>2. series[i].count \in Nat \ {0} /\ series[i].variance \in Nat
          /\ series[i].last_seen <= clock
      BY <3>1 DEF Baselined
    <3> QED
      BY ONLY <3>2
  <2>9. /\ Len(observation_delivered) <= observation_capacity
        /\ Cardinality(KeysOf(observation_delivered)) = Len(observation_delivered)
    BY KeysAre DEF IInv, CacheSound
  <2>10. Cardinality(KeysOf(last_delivered)) = Len(last_delivered)
    BY KeysAre DEF IInv, RulesSound
  <2>11. began # None => began \in 0..clock /\ work # <<>>
    BY <2>3 DEF IInv, WorkSound
  <2> QED
    BY <2>1, <2>2, <2>5, <2>6, <2>7, <2>8, <2>9, <2>10, <2>11 DEF TypeOK
<1> QED
  BY <1>1, InvariantHolds, TalliesHold, WatchHolds, SeriesHold, ProgressHolds, PTL
=============================================================================
