----------------------- MODULE AuthorizationDaemonProofs --------------------
(***************************************************************************)
(* For every set of proposals, hashes, payloads and chain transactions,    *)
(* any depth of nested calls and any number of storage failures: the log   *)
(* takes one declared edge at a time, recorded facts are permanent and     *)
(* agree with each other, and acknowledged records survive crashes.        *)
(*                                                                         *)
(* None of the properties is inductive: they speak of the log, and a call  *)
(* that waits in an injected function brings what it read long ago.  What  *)
(* is preserved also says which facts a lifecycle holds in which state     *)
(* (FactsByState), what a waiting call holds relative to the log it read   *)
(* (FrameSound), so that a call whose version is still the current one     *)
(* adds a lifecycle that follows the last one; and that the lines of a     *)
(* journal that recovery would accept continue memory and acknowledged log. *)
(***************************************************************************)
EXTENDS AuthorizationDaemon, SequenceTheorems, TLAPS

(* The states from a given one on.                                         *)
FromBound ==
    {"BOUND", "SIMULATED", "TIMED_WAIT", "RE_SIMULATED", "APPROVED", "EXECUTED", "VERIFIED"}
FromSimulated == FromBound \ {"BOUND"}
FromTimedWait == FromSimulated \ {"SIMULATED"}
FromReSimulated == FromTimedWait \ {"TIMED_WAIT"}
FromApproved == {"APPROVED", "EXECUTED", "VERIFIED"}

(* Which facts a lifecycle holds is a matter of its state.                 *)
FactsByState(l) ==
    LET m == l.metadata
    IN  /\ m.boundTransaction # None <=> l.state \in FromBound
        /\ m.simulation # None <=> l.state \in FromSimulated
        /\ m.unlockAt # None <=> l.state \in FromTimedWait
        /\ m.resimulation # None <=> l.state \in FromReSimulated
        /\ m.resimulatedAt # None <=> l.state \in FromReSimulated
        /\ m.approvedAt # None <=> l.state \in FromApproved
        /\ m.executionEvidence # None <=> l.state \in {"EXECUTED", "VERIFIED"}
        /\ m.verificationEvidence # None <=> l.state = "VERIFIED"

(* The evidence is about the proposal and the transaction of the lifecycle. *)
About(e, l) ==
    /\ e.proposalId = l.proposalId
    /\ e.proposalHash = l.metadata.proposalHash
    /\ e.transaction = l.metadata.boundTransaction

(* The facts of a lifecycle agree with each other.                         *)
FactsAgree(l) ==
    LET m == l.metadata
    IN  /\ l.state \in FromBound =>
              /\ m.boundTransaction.proposalId = l.proposalId
              /\ m.boundTransaction.proposalHash = m.proposalHash
        /\ l.state \in FromSimulated => m.simulation = m.boundTransaction
        /\ l.state \in FromReSimulated =>
              m.resimulation = m.boundTransaction /\ ~Before(m.resimulatedAt, m.unlockAt)
        /\ l.state \in FromApproved => ~Before(m.approvedAt, m.unlockAt)
        /\ l.state \in {"EXECUTED", "VERIFIED"} =>
              /\ About(m.executionEvidence, l)
              /\ m.executionEvidence.signer = "execution"
              /\ m.approvedAt \in Times
              /\ m.executionEvidence.timestamp >= m.approvedAt
        /\ l.state = "VERIFIED" =>
              /\ About(m.verificationEvidence, l)
              /\ m.verificationEvidence.signer = "receipt"
              /\ m.verificationEvidence.timestamp >= m.executionEvidence.timestamp
              /\ m.verificationEvidence.txHash = m.executionEvidence.txHash

Sound(l) == FactsByState(l) /\ FactsAgree(l)

(* What lifecycle a records, b records too.                                *)
Kept(a, b) ==
    /\ a.proposalId = b.proposalId
    /\ \A field \in DOMAIN NoMetadata :
          a.metadata[field] # None => b.metadata[field] = a.metadata[field]

(* b may follow a in the log.                                              *)
Follows(b, a) == b.state \in TRANSITIONS[a.state] /\ Kept(a, b)

LogSound(log) ==
    /\ \A i \in 1..Len(log) : Sound(log[i])
    /\ \A i \in 2..Len(log) : log[i].state \in TRANSITIONS[log[i - 1].state]
    /\ \A j \in 1..Len(log) : \A i \in 1..j : Kept(log[i], log[j])

(* Log s is the beginning of log t.                                        *)
Begins(s, t) == Len(s) <= Len(t) /\ \A i \in 1..Len(s) : s[i] = t[i]

(* A journal that recovery accepts, and what it will bring back.           *)
Intact == \A i \in 1..Len(journal) : journal[i].sequence = i
Logged == [i \in 1..Len(journal) |-> journal[i].lifecycle]

(* What a waiting call holds, seen from the log of now.                    *)
FrameSound(f) ==
    /\ f.base <= Version
    /\ f.at = "policy" =>
          /\ Sound(f.lifecycle)
          /\ f.base # 0 => Follows(f.lifecycle, records[f.base])
    /\ f.at # "policy" =>
          /\ f.base # 0
          /\ f.lifecycle = records[f.base]
    /\ f.at \in {"bindPolicy", "build"} =>
          /\ f.lifecycle.proposalId # None
          /\ f.lifecycle.metadata.proposalHash # None
    /\ f.at = "simulator" => f.lifecycle.metadata.boundTransaction # None
    /\ f.at = "simulator" /\ f.to = "RE_SIMULATED" =>
          /\ f.now # None
          /\ f.lifecycle.metadata.unlockAt # None
          /\ ~Before(f.now, f.lifecycle.metadata.unlockAt)

IInv ==
    /\ TypeOK
    /\ Running =>
          /\ LogSound(records)
          /\ Begins(acked, records)
          /\ \A k \in 1..Len(calls) : FrameSound(calls[k])
    /\ ~Running => calls = <<>>
    /\ Intact =>
          /\ LogSound(Logged)
          /\ Begins(acked, Logged)
          /\ Running => Begins(records, Logged)

-----------------------------------------------------------------------------
(* Operators of the model.                                                 *)

LEMMA Edges ==
    ASSUME NEW s \in States, NEW t \in TRANSITIONS[s]
    PROVE  \/ s = "PROPOSED" /\ t = "AUTHORIZED"
           \/ s = "AUTHORIZED" /\ t = "VALIDATED"
           \/ s = "VALIDATED" /\ t = "BOUND"
           \/ s = "BOUND" /\ t = "SIMULATED"
           \/ s = "SIMULATED" /\ t = "TIMED_WAIT"
           \/ s = "TIMED_WAIT" /\ t = "RE_SIMULATED"
           \/ s = "RE_SIMULATED" /\ t = "APPROVED"
           \/ s = "APPROVED" /\ t = "EXECUTED"
           \/ s = "EXECUTED" /\ t = "VERIFIED"
<1>1. t \in {Successor[u] : u \in {s} \ {"VERIFIED"}}
  BY DEF TRANSITIONS
<1>2. t = Successor[s] /\ s # "VERIFIED"
  BY <1>1
<1> QED
  BY <1>2 DEF Successor, States

LEMMA FieldNames ==
    DOMAIN NoMetadata =
        {"proposalHash", "payload", "boundTransaction", "simulation", "unlockAt",
         "resimulation", "resimulatedAt", "approvedAt", "executionEvidence",
         "verificationEvidence"}
  BY DEF NoMetadata

(* What is kept from a to b and from b to c is kept from a to c.           *)
LEMMA KeptTransitive ==
    ASSUME NEW a, NEW b, NEW c, Kept(a, b), Kept(b, c)
    PROVE  Kept(a, c)
  BY DEF Kept

LEMMA KeptReflexive ==
    ASSUME NEW a
    PROVE  Kept(a, a)
  BY DEF Kept

(* Popping a frame.                                                        *)
LEMMA FrontLast ==
    ASSUME NEW S, NEW s \in Seq(S), s # <<>>
    PROVE  /\ Front(s) \in Seq(S) /\ Len(Front(s)) = Len(s) - 1
           /\ \A i \in 1..Len(Front(s)) : i \in 1..Len(s) /\ Front(s)[i] = s[i]
           /\ Last(s) \in S /\ Last(s) = s[Len(s)]
           /\ Len(s) \in 1..Len(s)
<1>1. Len(s) \in Nat \ {0}
  BY EmptySeq
<1> DEFINE n == Len(s) - 1
           t == SubSeq(s, 1, n)
<1>2. n \in Nat /\ \A i \in 1..n : s[i] \in S /\ i \in 1..Len(s)
  BY <1>1, ElementOfSeq
<1>3. Front(s) = t
  BY DEF Front
<1> HIDE DEF n
<1>4. /\ t \in Seq(S)
      /\ Len(t) = IF 1 <= n THEN n - 1 + 1 ELSE 0
      /\ \A i \in 1..n - 1 + 1 : t[i] = s[1 + i - 1]
  BY <1>2, SubSeqProperties
<1> HIDE DEF t
<1>5. Len(t) = n /\ \A i \in 1..n : t[i] = s[i]
  BY <1>2, <1>4
<1>6. Last(s) = s[Len(s)] /\ Len(s) \in 1..Len(s)
  BY <1>1 DEF Last
<1>7. Last(s) \in S
  BY <1>6, ElementOfSeq
<1>8. Front(s) \in Seq(S) /\ Len(Front(s)) = n
      /\ \A i \in 1..Len(Front(s)) : i \in 1..Len(s) /\ Front(s)[i] = s[i]
  BY <1>2, <1>3, <1>4, <1>5
<1> QED
  BY <1>6, <1>7, <1>8 DEF n

(* Appending to a sound log something sound that follows its end.          *)
LEMMA LogGrows ==
    ASSUME NEW S, NEW log \in Seq(S), LogSound(log), NEW l \in S, Sound(l),
           log # <<>> => Follows(l, log[Len(log)])
    PROVE  LogSound(Append(log, l)) /\ Begins(log, Append(log, l))
<1> DEFINE n == Len(log)
           new == Append(log, l)
<1>1. n \in Nat /\ (log # <<>> => n > 0)
  BY EmptySeq
<1>2. /\ new \in Seq(S) /\ Len(new) = n + 1 /\ new[n + 1] = l
      /\ \A i \in 1..n : new[i] = log[i]
  BY AppendProperties
<1> HIDE DEF new
<1>3. \A i \in 1..Len(new) : Sound(new[i])
  <2> TAKE i \in 1..Len(new)
  <2>1. CASE i = n + 1
    BY <1>2, <2>1
  <2>2. CASE i # n + 1
    <3>1. i \in 1..n
      BY <1>1, <1>2, <2>2
    <3> QED
      BY <1>2, <3>1 DEF LogSound
  <2> QED
    BY <2>1, <2>2
<1>4. \A i \in 2..Len(new) : new[i].state \in TRANSITIONS[new[i - 1].state]
  <2> TAKE i \in 2..Len(new)
  <2>1. CASE i = n + 1
    <3>1. n \in 1..n /\ i - 1 = n /\ log # <<>>
      BY <1>1, <1>2, <2>1, EmptySeq
    <3> QED
      BY <1>2, <2>1, <3>1 DEF Follows
  <2>2. CASE i # n + 1
    <3>1. i \in 2..n /\ i \in 1..n /\ i - 1 \in 1..n
      BY <1>1, <1>2, <2>2
    <3> QED
      BY <1>2, <3>1 DEF LogSound
  <2> QED
    BY <2>1, <2>2
<1>5. \A j \in 1..Len(new) : \A i \in 1..j : Kept(new[i], new[j])
  <2> TAKE j \in 1..Len(new)
  <2> TAKE i \in 1..j
  <2>1. CASE i = n + 1
    <3>1. j = i
      BY <1>1, <1>2, <2>1
    <3> QED
      BY <3>1, KeptReflexive
  <2>2. CASE j # n + 1
    <3>1. j \in 1..n /\ i \in 1..n /\ i \in 1..j
      BY <1>1, <1>2, <2>2
    <3> QED
      BY <1>2, <3>1 DEF LogSound
  <2>3. CASE i # n + 1 /\ j = n + 1
    <3>1. i \in 1..n /\ n \in 1..n
      BY <1>1, <1>2, <2>3
    <3>2. Kept(log[i], log[n]) /\ log # <<>>
      BY <3>1, EmptySeq DEF LogSound
    <3>3. Kept(log[n], l)
      BY <3>2 DEF Follows
    <3>4. Kept(log[i], l)
      BY <3>2, <3>3, KeptTransitive
    <3> QED
      BY <1>2, <2>3, <3>1, <3>4
  <2> QED
    BY <2>1, <2>2, <2>3
<1>6. LogSound(new)
  BY <1>3, <1>4, <1>5 DEF LogSound
<1>7. Begins(log, new)
  BY <1>1, <1>2 DEF Begins
<1> QED
  BY <1>6, <1>7 DEF new

LEMMA BeginsTransitive ==
    ASSUME NEW S, NEW s \in Seq(S), NEW t \in Seq(S), NEW u \in Seq(S),
           Begins(s, t), Begins(t, u)
    PROVE  Begins(s, u)
<1>1. Len(s) \in Nat /\ Len(t) \in Nat /\ Len(u) \in Nat
  OBVIOUS
<1> QED
  BY <1>1 DEF Begins

(* Begins is the library's IsPrefix.                                       *)
LEMMA BeginsIsPrefix ==
    ASSUME NEW S, NEW s \in Seq(S), NEW t \in Seq(S), Begins(s, t)
    PROVE  IsPrefix(s, t)
<1>1. Len(s) \in Nat /\ Len(t) \in Nat /\ Len(s) <= Len(t)
  BY DEF Begins
<1>2. \A i \in 1..Len(s) : i \in 1..Len(t) /\ s[i] = t[i] /\ s[i] \in S /\ t[i] \in S
  BY <1>1, ElementOfSeq DEF Begins
<1>3. SubSeq(s, 1, Len(s)) = SubSeq(t, 1, Len(s))
  BY <1>1, <1>2
<1> QED
  BY <1>1, <1>3 DEF IsPrefix

LEMMA LoggedTyped ==
    ASSUME TypeOK
    PROVE  Logged \in Seq(Lifecycles)
<1>1. journal \in Seq(Lines) /\ Len(journal) \in Nat
  BY DEF TypeOK
<1>2. \A i \in 1..Len(journal) : journal[i].lifecycle \in Lifecycles
  <2> TAKE i \in 1..Len(journal)
  <2>1. journal[i] \in Lines
    BY <1>1, ElementOfSeq
  <2> QED
    BY <2>1 DEF Lines
<1> QED
  BY <1>1, <1>2 DEF Logged

-----------------------------------------------------------------------------
(* What the log of now tells a call that reads it.                         *)

LEMMA RunningLog ==
    ASSUME TypeOK, Running
    PROVE  records \in Seq(Lifecycles) /\ Version \in Nat
           /\ (records # <<>> => Version > 0)
           /\ (records = <<>> => Version = 0)
  BY EmptySeq DEF TypeOK, Running, Version

LEMMA NothingRecordedYet ==
    LET absent == [state |-> "PROPOSED", proposalId |-> None, metadata |-> NoMetadata]
    IN  absent \in Lifecycles /\ Sound(absent)
  BY DEF Lifecycles, States, Optional, Metadata, NoMetadata, Sound, FactsByState,
         FactsAgree, FromBound, FromSimulated, FromTimedWait, FromReSimulated, FromApproved

LEMMA CurrentSound ==
    ASSUME IInv, Running
    PROVE  /\ Current \in Lifecycles /\ Sound(Current)
           /\ records # <<>> => Current = records[Version]
           /\ \A k \in 1..Version : Kept(records[k], Current)
<1>1. /\ records \in Seq(Lifecycles) /\ Version \in Nat
      /\ records # <<>> => Version > 0
      /\ records = <<>> => Version = 0
  BY RunningLog DEF IInv
<1>2. CASE records = <<>>
  BY <1>1, <1>2, NothingRecordedYet DEF Current
<1>3. CASE records # <<>>
  <2>1. Current = records[Version] /\ Version \in 1..Len(records)
    BY <1>1, <1>3 DEF Current, Version
  <2> QED
    BY <1>1, <1>3, <2>1, ElementOfSeq DEF IInv, LogSound, Version
<1> QED
  BY <1>2, <1>3

(* A step that changes the stack only, to sound frames.                    *)
LEMMA StackKeeps ==
    ASSUME IInv, UNCHANGED <<journal, records, acked, faults>>, clock' \in Times,
           calls' \in Seq(Frames),
           ~Running => calls' = <<>>,
           \A k \in 1..Len(calls') : FrameSound(calls'[k])
    PROVE  IInv'
<1>1. TypeOK'
  BY DEF IInv, TypeOK
<1>2. \A f : FrameSound(f) <=> FrameSound(f)'
  BY DEF FrameSound, Version
<1> QED
  BY <1>1 DEF IInv, Running, Intact, Logged, FrameSound, Version

(* A stack with one more frame.                                            *)
LEMMA PushKeeps ==
    ASSUME IInv, Running, UNCHANGED <<journal, records, clock, acked, faults>>,
           NEW stack \in Seq(Frames),
           \A k \in 1..Len(stack) : FrameSound(stack[k]),
           NEW frame \in Frames, FrameSound(frame),
           calls' = Append(stack, frame)
    PROVE  IInv'
<1>1. /\ calls' \in Seq(Frames) /\ Len(calls') = Len(stack) + 1
      /\ \A k \in 1..Len(stack) : calls'[k] = stack[k]
      /\ calls'[Len(stack) + 1] = frame /\ Len(stack) \in Nat
  BY AppendProperties
<1>2. \A k \in 1..Len(calls') : FrameSound(calls'[k])
  <2> TAKE k \in 1..Len(calls')
  <2>1. CASE k = Len(stack) + 1
    BY <1>1, <2>1
  <2>2. CASE k # Len(stack) + 1
    <3>1. k \in 1..Len(stack)
      BY <1>1, <2>2
    <3> QED
      BY <1>1, <3>1
  <2> QED
    BY <2>1, <2>2
<1> QED
  BY <1>1, <1>2, StackKeeps DEF IInv, TypeOK

(* advance() with metadata that makes a sound follower of what it read.    *)
LEMMA AdvanceKeeps ==
    ASSUME IInv, Running, NEW stack \in Seq(Frames),
           \A k \in 1..Len(stack) : FrameSound(stack[k]),
           NEW to \in States, NEW metadata \in Metadata, Advance(stack, to, metadata),
           LET new == [state |-> to, proposalId |-> Current.proposalId,
                       metadata |-> metadata]
           IN  Sound(new) /\ Kept(Current, new)
    PROVE  IInv'
<1> DEFINE new == [state |-> to, proposalId |-> Current.proposalId, metadata |-> metadata]
           frame == [at |-> "policy", to |-> to, base |-> Version, now |-> None,
                     lifecycle |-> new]
<1>1. Current \in Lifecycles /\ (records # <<>> => Current = records[Version])
  BY CurrentSound
<1>2. Version \in Nat /\ (Version # 0 => records # <<>>)
  BY RunningLog DEF IInv
<1>3. new \in Lifecycles
  BY <1>1 DEF Lifecycles
<1>4. frame \in Frames
  BY <1>2, <1>3 DEF Frames, Optional
<1>5. Follows(new, Current)
  BY DEF Advance, Follows
<1>6. FrameSound(frame)
  BY <1>1, <1>2, <1>5 DEF FrameSound
<1>7. calls' = Append(stack, frame) /\ UNCHANGED <<journal, records, clock, acked, faults>>
  BY DEF Advance
<1> QED
  BY <1>4, <1>6, <1>7, PushKeeps

(* The write at the end of a call whose version is still the current one.  *)
LEMMA ApplyKeeps ==
    ASSUME IInv, Running, NEW stack \in Seq(Frames),
           \A k \in 1..Len(stack) : FrameSound(stack[k]),
           NEW base, NEW lifecycle \in Lifecycles, Sound(lifecycle),
           Apply(base, lifecycle, stack),
           base = Version /\ records # <<>> => Follows(lifecycle, records[Version])
    PROVE  IInv'
<1> DEFINE line == Line(lifecycle)
           longer == Append(records, lifecycle)
<1>1. /\ records \in Seq(Lifecycles) /\ Version \in Nat /\ Version = Len(records)
      /\ base = Version /\ journal' = Append(journal, line)
      /\ UNCHANGED clock /\ calls' = stack
  BY RunningLog DEF IInv, Apply, ApplySucceeds, ApplyFails, Version
<1>2. line \in Lines /\ line.sequence = Version + 1 /\ line.lifecycle = lifecycle
  BY <1>1 DEF Line, Lines
<1>3. /\ journal \in Seq(Lines) /\ journal' \in Seq(Lines)
      /\ Len(journal) \in Nat /\ Len(journal') = Len(journal) + 1
      /\ \A i \in 1..Len(journal) : journal'[i] = journal[i]
      /\ journal'[Len(journal) + 1] = line
  BY <1>1, <1>2, AppendProperties DEF IInv, TypeOK
<1>4. LogSound(longer) /\ Begins(records, longer)
  BY <1>1, LogGrows DEF IInv
<1>5. /\ longer \in Seq(Lifecycles) /\ Len(longer) = Version + 1
      /\ \A i \in 1..Version : longer[i] = records[i]
      /\ longer[Version + 1] = lifecycle
  BY <1>1, AppendProperties
<1> HIDE DEF longer
<1>6. \/ records' = longer /\ acked' = longer /\ UNCHANGED faults
      \/ UNCHANGED <<records, acked>> /\ faults' \in 0..MaxFaults
  BY ConstantsAssumption DEF Apply, ApplySucceeds, ApplyFails, longer, IInv, TypeOK
<1>7. TypeOK'
  BY <1>1, <1>3, <1>5, <1>6 DEF IInv, TypeOK
<1>8. Running'
  BY <1>5, <1>6, NoneAssumption DEF Running
<1>9. LogSound(records') /\ Begins(acked', records')
  <2>1. Begins(longer, longer)
    BY <1>5 DEF Begins
  <2> QED
    BY <1>4, <1>6, <2>1 DEF IInv
<1>10. ASSUME NEW k \in 1..Len(calls')
       PROVE  FrameSound(calls[k])'
  <2> DEFINE f == stack[k]
  <2>1. f \in Frames /\ FrameSound(f) /\ calls'[k] = f
    BY <1>1, ElementOfSeq
  <2>2. f.base \in Nat /\ f.base <= Version
    BY <2>1 DEF Frames, FrameSound
  <2> HIDE DEF f
  <2>3. /\ Version' \in Nat /\ f.base <= Version'
        /\ f.base # 0 => records'[f.base] = records[f.base]
    BY <1>1, <1>5, <1>6, <2>2 DEF Version
  <2> QED
    BY <2>1, <2>3 DEF FrameSound
<1>11. ASSUME Intact'
       PROVE  LogSound(Logged') /\ Begins(acked', Logged') /\ Begins(records', Logged')
  <2>1. Len(journal) = Version
    <3>1. journal'[Len(journal) + 1].sequence = Len(journal) + 1
      BY <1>3, <1>11 DEF Intact
    <3> QED
      BY <1>1, <1>2, <1>3, <3>1
  <2>2. Intact
    BY <1>3, <1>11 DEF Intact
  <2>3. Begins(records, Logged)
    BY <2>2 DEF IInv
  <2>4. \A i \in 1..Version : journal[i].lifecycle = records[i]
    BY <1>1, <2>1, <2>3 DEF Begins, Logged
  <2>5. Logged' = [i \in 1..Version + 1 |-> journal'[i].lifecycle]
    BY <1>3, <2>1 DEF Logged
  <2>6. \A i \in 1..Version + 1 : journal'[i].lifecycle = longer[i]
    BY <1>1, <1>2, <1>3, <1>5, <2>1, <2>4
  <2>7. Logged' = longer
    BY <1>5, <2>5, <2>6
  <2>8. Begins(longer, longer)
    BY <1>5 DEF Begins
  <2>9. Begins(acked, longer)
    BY <1>1, <1>4, <1>5, BeginsTransitive DEF IInv, TypeOK
  <2> QED
    BY <1>4, <1>6, <2>7, <2>8, <2>9
<1> QED
  BY <1>7, <1>8, <1>9, <1>10, <1>11 DEF IInv

-----------------------------------------------------------------------------
(* The lifecycle each operation asks to advance to: from a sound one, with *)
(* what the operation checked, it is sound and keeps every recorded fact.  *)

Moved(c, to, metadata) ==
    [state |-> to, proposalId |-> c.proposalId, metadata |-> metadata]

LEMMA MovedSame ==
    ASSUME NEW c \in Lifecycles, Sound(c), NEW to \in {"AUTHORIZED", "VALIDATED"},
           to \in TRANSITIONS[c.state]
    PROVE  Sound(Moved(c, to, c.metadata)) /\ Kept(c, Moved(c, to, c.metadata))
<1>1. c.state \in {"PROPOSED", "AUTHORIZED"}
  BY Edges DEF Lifecycles, States
<1> QED
  BY <1>1 DEF Moved, Kept, Sound, FactsByState, FactsAgree, FromBound, FromSimulated,
         FromTimedWait, FromReSimulated, FromApproved

LEMMA MovedBound ==
    ASSUME NEW c \in Lifecycles, Sound(c), c.state = "VALIDATED",
           NEW tx \in BoundTransactions,
           tx.proposalId = c.proposalId, tx.proposalHash = c.metadata.proposalHash
    PROVE  LET new == Moved(c, "BOUND", [c.metadata EXCEPT !.boundTransaction = tx])
           IN  new.metadata \in Metadata /\ Sound(new) /\ Kept(c, new)
<1> DEFINE m == c.metadata
           n == [m EXCEPT !.boundTransaction = tx]
<1>1. m \in Metadata
  BY DEF Lifecycles
<1>2. n \in Metadata
  BY <1>1 DEF Metadata, Optional
<1>3. m.boundTransaction = None
  BY DEF Sound, FactsByState, FromBound
<1>4. \A field \in DOMAIN NoMetadata : m[field] # None => n[field] = m[field]
  BY <1>1, <1>3, FieldNames DEF Metadata
<1>5. Sound(Moved(c, "BOUND", n))
  BY <1>1, NoneAssumption
     DEF Metadata, Moved, Sound, FactsByState, FactsAgree, FromBound, FromSimulated,
         FromTimedWait, FromReSimulated, FromApproved
<1> QED
  BY <1>2, <1>4, <1>5 DEF Moved, Kept

LEMMA MovedSimulated ==
    ASSUME NEW c \in Lifecycles, Sound(c), c.state = "BOUND"
    PROVE  LET new == Moved(c, "SIMULATED",
                            [c.metadata EXCEPT !.simulation = c.metadata.boundTransaction])
           IN  new.metadata \in Metadata /\ Sound(new) /\ Kept(c, new)
<1> DEFINE m == c.metadata
           n == [m EXCEPT !.simulation = m.boundTransaction]
<1>1. m \in Metadata
  BY DEF Lifecycles
<1>2. n \in Metadata
  BY <1>1 DEF Metadata
<1>3. m.simulation = None /\ m.boundTransaction # None
  BY DEF Sound, FactsByState, FromBound, FromSimulated
<1>4. \A field \in DOMAIN NoMetadata : m[field] # None => n[field] = m[field]
  BY <1>1, <1>3, FieldNames DEF Metadata
<1>5. Sound(Moved(c, "SIMULATED", n))
  BY <1>1, <1>3
     DEF Metadata, Moved, Sound, FactsByState, FactsAgree, FromBound, FromSimulated,
         FromTimedWait, FromReSimulated, FromApproved
<1> QED
  BY <1>2, <1>4, <1>5 DEF Moved, Kept

LEMMA MovedTimedWait ==
    ASSUME NEW c \in Lifecycles, Sound(c), c.state = "SIMULATED", NEW unlockAt \in Times
    PROVE  LET new == Moved(c, "TIMED_WAIT", [c.metadata EXCEPT !.unlockAt = unlockAt])
           IN  new.metadata \in Metadata /\ Sound(new) /\ Kept(c, new)
<1> DEFINE m == c.metadata
           n == [m EXCEPT !.unlockAt = unlockAt]
<1>1. m \in Metadata /\ unlockAt # None
  BY ConstantsAssumption DEF Lifecycles, Times
<1>2. n \in Metadata
  BY <1>1 DEF Metadata, Optional
<1>3. m.unlockAt = None
  BY DEF Sound, FactsByState, FromBound, FromSimulated, FromTimedWait
<1>4. \A field \in DOMAIN NoMetadata : m[field] # None => n[field] = m[field]
  BY <1>1, <1>3, FieldNames DEF Metadata
<1>5. Sound(Moved(c, "TIMED_WAIT", n))
  BY <1>1
     DEF Metadata, Moved, Sound, FactsByState, FactsAgree, FromBound, FromSimulated,
         FromTimedWait, FromReSimulated, FromApproved
<1> QED
  BY <1>2, <1>4, <1>5 DEF Moved, Kept

LEMMA MovedReSimulated ==
    ASSUME NEW c \in Lifecycles, Sound(c), c.state = "TIMED_WAIT",
           NEW now \in Nows, ~Before(now, c.metadata.unlockAt)
    PROVE  LET new == Moved(c, "RE_SIMULATED",
                            [c.metadata EXCEPT !.resimulation = c.metadata.boundTransaction,
                                               !.resimulatedAt = now])
           IN  new.metadata \in Metadata /\ Sound(new) /\ Kept(c, new)
<1> DEFINE m == c.metadata
           n == [m EXCEPT !.resimulation = m.boundTransaction, !.resimulatedAt = now]
<1>1. m \in Metadata /\ now # None
  BY ConstantsAssumption DEF Lifecycles, Nows, Times
<1>2. n \in Metadata
  BY <1>1 DEF Metadata, Optional
<1>3. m.resimulation = None /\ m.resimulatedAt = None /\ m.boundTransaction # None
  BY DEF Sound, FactsByState, FromBound, FromSimulated, FromTimedWait, FromReSimulated
<1>4. \A field \in DOMAIN NoMetadata : m[field] # None => n[field] = m[field]
  BY <1>1, <1>3, FieldNames DEF Metadata
<1>5. Sound(Moved(c, "RE_SIMULATED", n))
  BY <1>1, <1>3
     DEF Metadata, Moved, Sound, FactsByState, FactsAgree, FromBound, FromSimulated,
         FromTimedWait, FromReSimulated, FromApproved
<1> QED
  BY <1>2, <1>4, <1>5 DEF Moved, Kept

LEMMA MovedApproved ==
    ASSUME NEW c \in Lifecycles, Sound(c), c.state = "RE_SIMULATED",
           NEW now \in Nows, ~Before(now, c.metadata.unlockAt)
    PROVE  LET new == Moved(c, "APPROVED", [c.metadata EXCEPT !.approvedAt = now])
           IN  new.metadata \in Metadata /\ Sound(new) /\ Kept(c, new)
<1> DEFINE m == c.metadata
           n == [m EXCEPT !.approvedAt = now]
<1>1. m \in Metadata /\ now # None
  BY ConstantsAssumption DEF Lifecycles, Nows, Times
<1>2. n \in Metadata
  BY <1>1 DEF Metadata, Optional
<1>3. m.approvedAt = None
  BY DEF Sound, FactsByState, FromApproved
<1>4. \A field \in DOMAIN NoMetadata : m[field] # None => n[field] = m[field]
  BY <1>1, <1>3, FieldNames DEF Metadata
<1>5. Sound(Moved(c, "APPROVED", n))
  BY <1>1
     DEF Metadata, Moved, Sound, FactsByState, FactsAgree, FromBound, FromSimulated,
         FromTimedWait, FromReSimulated, FromApproved
<1> QED
  BY <1>2, <1>4, <1>5 DEF Moved, Kept

LEMMA MovedExecuted ==
    ASSUME NEW c \in Lifecycles, Sound(c), c.state = "APPROVED",
           NEW evidence \in Evidence, About(evidence, c),
           evidence.signer = "execution", c.metadata.approvedAt \in Times,
           evidence.timestamp >= c.metadata.approvedAt
    PROVE  LET new == Moved(c, "EXECUTED", [c.metadata EXCEPT !.executionEvidence = evidence])
           IN  new.metadata \in Metadata /\ Sound(new) /\ Kept(c, new)
<1> DEFINE m == c.metadata
           n == [m EXCEPT !.executionEvidence = evidence]
<1>1. m \in Metadata /\ evidence # None
  BY NoneAssumption DEF Lifecycles
<1>2. n \in Metadata
  BY <1>1 DEF Metadata, Optional
<1>3. m.executionEvidence = None
  BY DEF Sound, FactsByState
<1>4. \A field \in DOMAIN NoMetadata : m[field] # None => n[field] = m[field]
  BY <1>1, <1>3, FieldNames DEF Metadata
<1>5. Sound(Moved(c, "EXECUTED", n))
  BY <1>1
     DEF Metadata, Moved, Sound, FactsByState, FactsAgree, About, FromBound,
         FromSimulated, FromTimedWait, FromReSimulated, FromApproved
<1> QED
  BY <1>2, <1>4, <1>5 DEF Moved, Kept

LEMMA MovedVerified ==
    ASSUME NEW c \in Lifecycles, Sound(c), c.state = "EXECUTED",
           NEW evidence \in Evidence, About(evidence, c), evidence.signer = "receipt",
           evidence.timestamp >= c.metadata.executionEvidence.timestamp,
           evidence.txHash = c.metadata.executionEvidence.txHash
    PROVE  LET new == Moved(c, "VERIFIED",
                            [c.metadata EXCEPT !.verificationEvidence = evidence])
           IN  new.metadata \in Metadata /\ Sound(new) /\ Kept(c, new)
<1> DEFINE m == c.metadata
           n == [m EXCEPT !.verificationEvidence = evidence]
<1>1. m \in Metadata /\ evidence # None
  BY NoneAssumption DEF Lifecycles
<1>2. n \in Metadata
  BY <1>1 DEF Metadata, Optional
<1>3. m.verificationEvidence = None
  BY DEF Sound, FactsByState
<1>4. \A field \in DOMAIN NoMetadata : m[field] # None => n[field] = m[field]
  BY <1>1, <1>3, FieldNames DEF Metadata
<1>5. Sound(Moved(c, "VERIFIED", n))
  BY <1>1
     DEF Metadata, Moved, Sound, FactsByState, FactsAgree, About, FromBound,
         FromSimulated, FromTimedWait, FromReSimulated, FromApproved
<1> QED
  BY <1>2, <1>4, <1>5 DEF Moved, Kept

-----------------------------------------------------------------------------
(* The inductive invariant.                                                *)

LEMMA InitInvariant ==
    Init => IInv
<1> SUFFICES ASSUME Init PROVE IInv
  OBVIOUS
<1>1. Len(<<>>) = 0 /\ <<>> \in Seq(Lines) /\ <<>> \in Seq(Lifecycles) /\ <<>> \in Seq(Frames)
  BY EmptySeq
<1>2. TypeOK
  BY <1>1, ConstantsAssumption DEF Init, TypeOK, Times
<1>3. Running
  BY <1>1, NoneAssumption DEF Init, Running
<1>4. LogSound(records) /\ Begins(acked, records)
  BY <1>1 DEF Init, LogSound, Begins
<1>5. Logged = <<>>
  BY <1>1 DEF Init, Logged
<1>6. LogSound(Logged) /\ Begins(acked, Logged) /\ Begins(records, Logged)
  BY <1>1, <1>5 DEF Init, LogSound, Begins
<1> QED
  BY <1>1, <1>2, <1>3, <1>4, <1>6 DEF Init, IInv

LEMMA ProposeKeeps ==
    ASSUME IInv, NEW id \in Ids, NEW hash \in Optional(Hashes),
           NEW payload \in {"object", None}, Propose(id, hash, payload)
    PROVE  IInv'
<1> DEFINE l == Proposed(id, hash, payload)
<1>1. Running /\ records = <<>> /\ Apply(Version, l, calls)
  BY DEF Propose, CanCall
<1>2. l \in Lifecycles
  BY DEF Proposed, Lifecycles, States, NoMetadata, Metadata, Optional
<1>3. Sound(l)
  BY DEF Proposed, NoMetadata, Sound, FactsByState, FactsAgree, FromBound, FromSimulated,
         FromTimedWait, FromReSimulated, FromApproved
<1>4. calls \in Seq(Frames) /\ \A k \in 1..Len(calls) : FrameSound(calls[k])
  BY <1>1 DEF IInv, TypeOK
<1> HIDE DEF l
<1> QED
  BY <1>1, <1>2, <1>3, <1>4, ApplyKeeps

(* The operations that advance at once.                                    *)
LEMMA DirectKeeps ==
    ASSUME IInv, CanCall, NEW to \in States, NEW metadata \in Metadata,
           Advance(calls, to, metadata),
           Sound(Moved(Current, to, metadata)), Kept(Current, Moved(Current, to, metadata))
    PROVE  IInv'
<1>1. Running /\ calls \in Seq(Frames) /\ \A k \in 1..Len(calls) : FrameSound(calls[k])
  BY DEF IInv, TypeOK, CanCall
<1> QED
  BY <1>1, AdvanceKeeps DEF Moved

LEMMA SameKeeps ==
    ASSUME IInv, Authorize \/ Validate
    PROVE  IInv'
<1>1. Running /\ CanCall
  BY DEF Authorize, Validate, CanCall
<1>2. PICK to \in {"AUTHORIZED", "VALIDATED"} : Advance(calls, to, Current.metadata)
  BY DEF Authorize, Validate
<1>3. Current \in Lifecycles /\ Sound(Current) /\ to \in TRANSITIONS[Current.state]
  BY <1>1, <1>2, CurrentSound DEF Advance
<1>4. to \in States /\ Current.metadata \in Metadata
  BY <1>3 DEF States, Lifecycles
<1> QED
  BY <1>1, <1>2, <1>3, <1>4, MovedSame, DirectKeeps

LEMMA EnterTimelockKeeps ==
    ASSUME IInv, NEW unlockAt \in Times, EnterTimelock(unlockAt)
    PROVE  IInv'
<1>1. Running /\ CanCall /\ Current.state = "SIMULATED"
  BY DEF EnterTimelock, CanCall
<1>2. Current \in Lifecycles /\ Sound(Current)
  BY <1>1, CurrentSound
<1>3. "TIMED_WAIT" \in States
  BY DEF States
<1> QED
  BY <1>1, <1>2, <1>3, MovedTimedWait, DirectKeeps DEF EnterTimelock, Moved

LEMMA ApproveKeeps ==
    ASSUME IInv, NEW now \in Nows, Approve(now)
    PROVE  IInv'
<1>1. /\ Running /\ CanCall /\ Current.state = "RE_SIMULATED"
      /\ ~Before(now, Current.metadata.unlockAt)
  BY DEF Approve, CanCall, TimelockOver
<1>2. Current \in Lifecycles /\ Sound(Current)
  BY <1>1, CurrentSound
<1>3. "APPROVED" \in States
  BY DEF States
<1> QED
  BY <1>1, <1>2, <1>3, MovedApproved, DirectKeeps DEF Approve, Moved

LEMMA ExecuteKeeps ==
    ASSUME IInv, NEW evidence \in Evidence, Execute(evidence)
    PROVE  IInv'
<1>1. Running /\ CanCall /\ Current.state = "APPROVED"
  BY DEF Execute, CanCall
<1>2. Current \in Lifecycles /\ Sound(Current)
  BY <1>1, CurrentSound
<1>3. /\ About(evidence, Current) /\ evidence.signer = "execution"
      /\ Current.metadata.approvedAt \in Times
      /\ evidence.timestamp >= Current.metadata.approvedAt
  BY DEF Execute, ExecutionVerifies, NamesCurrent, About
<1>4. "EXECUTED" \in States
  BY DEF States
<1> QED
  BY <1>1, <1>2, <1>3, <1>4, MovedExecuted, DirectKeeps DEF Execute, Moved

LEMMA VerifyKeeps ==
    ASSUME IInv, NEW evidence \in Evidence, Verify(evidence)
    PROVE  IInv'
<1>1. Running /\ CanCall /\ Current.state = "EXECUTED"
  BY DEF Verify, CanCall
<1>2. Current \in Lifecycles /\ Sound(Current)
  BY <1>1, CurrentSound
<1>3. /\ About(evidence, Current) /\ evidence.signer = "receipt"
      /\ evidence.timestamp >= Current.metadata.executionEvidence.timestamp
      /\ evidence.txHash = Current.metadata.executionEvidence.txHash
  BY DEF Verify, ReceiptVerifies, NamesCurrent, About
<1>4. "VERIFIED" \in States
  BY DEF States
<1> QED
  BY <1>1, <1>2, <1>3, <1>4, MovedVerified, DirectKeeps DEF Verify, Moved

(* The operations that wait in an injected function before they advance.   *)
LEMMA WaitKeeps ==
    ASSUME IInv, CanCall, NEW where \in {"bindPolicy", "simulator"}, NEW to \in States,
           NEW now \in Optional(Nows), Wait(calls, where, to, Current, now),
           Current.state # "PROPOSED",
           where = "bindPolicy" =>
               Current.proposalId # None /\ Current.metadata.proposalHash # None,
           where = "simulator" => Current.metadata.boundTransaction # None,
           to = "RE_SIMULATED" =>
               /\ now # None /\ Current.metadata.unlockAt # None
               /\ ~Before(now, Current.metadata.unlockAt)
    PROVE  IInv'
<1> DEFINE frame == [at |-> where, to |-> to, base |-> Version,
                     lifecycle |-> Current, now |-> now]
<1>1. /\ Running /\ calls \in Seq(Frames)
      /\ \A k \in 1..Len(calls) : FrameSound(calls[k])
  BY DEF IInv, TypeOK, CanCall
<1>2. Current \in Lifecycles /\ (records # <<>> => Current = records[Version])
  BY <1>1, CurrentSound
<1>3. records # <<>> /\ Version \in Nat /\ Version # 0
  BY <1>1, RunningLog DEF Current, IInv
<1>4. frame \in Frames /\ FrameSound(frame)
  BY <1>2, <1>3 DEF Frames, FrameSound
<1> HIDE DEF frame
<1>5. calls' = Append(calls, frame) /\ UNCHANGED <<journal, records, clock, acked, faults>>
  BY DEF Wait, frame
<1> QED
  BY <1>1, <1>4, <1>5, PushKeeps

LEMMA WaitingKeeps ==
    ASSUME IInv, Bind \/ Simulate \/ \E now \in Nows : Resimulate(now)
    PROVE  IInv'
<1>1. CASE Bind
  <2>1. "BOUND" \in States /\ None \in Optional(Nows)
    BY DEF States, Optional
  <2> QED
    BY <1>1, <2>1, WaitKeeps DEF Bind
<1>2. CASE Simulate
  <2>1. "SIMULATED" \in States /\ None \in Optional(Nows)
    BY DEF States, Optional
  <2> QED
    BY <1>2, <2>1, WaitKeeps DEF Simulate
<1>3. ASSUME NEW now \in Nows, Resimulate(now)
      PROVE  IInv'
  <2>1. "RE_SIMULATED" \in States /\ now \in Optional(Nows) /\ now # None
    BY ConstantsAssumption DEF States, Optional, Nows, Times
  <2> QED
    BY <1>3, <2>1, WaitKeeps DEF Resimulate, TimelockOver
<1> QED
  BY <1>1, <1>2, <1>3

(* The frames under the top one, and the top one.                          *)
LEMMA TopFrame ==
    ASSUME IInv, Running, calls # <<>>
    PROVE  /\ Front(calls) \in Seq(Frames)
           /\ \A k \in 1..Len(Front(calls)) : FrameSound(Front(calls)[k])
           /\ Last(calls) \in Frames /\ FrameSound(Last(calls))
<1>1. calls \in Seq(Frames) /\ \A k \in 1..Len(calls) : FrameSound(calls[k])
  BY DEF IInv, TypeOK
<1> QED
  BY <1>1, FrontLast

(* What a call held when it went to wait is still recorded.                *)
LEMMA HeldStillRecorded ==
    ASSUME IInv, Running, calls # <<>>, Last(calls).at # "policy"
    PROVE  /\ Last(calls).lifecycle \in Lifecycles
           /\ Kept(Last(calls).lifecycle, Current)
<1>1. Last(calls) \in Frames /\ FrameSound(Last(calls))
  BY TopFrame
<1>2. /\ Last(calls).base \in 1..Version
      /\ Last(calls).lifecycle = records[Last(calls).base]
  BY <1>1, RunningLog DEF Frames, FrameSound, IInv
<1> QED
  BY <1>1, <1>2, CurrentSound DEF Frames

LEMMA BindAllowedKeeps ==
    ASSUME IInv, BindAllowed
    PROVE  IInv'
<1> DEFINE n == Len(calls)
           f == calls[n]
<1>1. /\ Running /\ calls # <<>> /\ f.at = "bindPolicy"
      /\ calls' = [calls EXCEPT ![n].at = "build"]
      /\ UNCHANGED <<journal, records, clock, acked, faults>>
  BY DEF BindAllowed, InCallback, Last
<1>2. /\ calls \in Seq(Frames) /\ n \in 1..n /\ f \in Frames
      /\ \A k \in 1..n : FrameSound(calls[k])
  BY <1>1, FrontLast DEF IInv, TypeOK, Last
<1>3. [f EXCEPT !.at = "build"] \in Frames
  BY <1>2 DEF Frames
<1>4. FrameSound([f EXCEPT !.at = "build"])
  BY <1>1, <1>2 DEF FrameSound, Frames
<1>5. calls' = [calls EXCEPT ![n] = [f EXCEPT !.at = "build"]]
  BY <1>1
<1>6. /\ calls' \in Seq(Frames) /\ Len(calls') = n
      /\ \A k \in 1..n : calls'[k] = IF k = n THEN [f EXCEPT !.at = "build"] ELSE calls[k]
  BY <1>2, <1>3, <1>5, ExceptSeq
<1>7. \A k \in 1..Len(calls') : FrameSound(calls'[k])
  BY <1>2, <1>4, <1>6
<1> QED
  BY <1>1, <1>6, <1>7, StackKeeps DEF IInv, TypeOK

LEMMA BuiltKeeps ==
    ASSUME IInv, NEW payload \in Payloads, Built(payload)
    PROVE  IInv'
<1> DEFINE held == Last(calls).lifecycle
           tx == [proposalId |-> held.proposalId,
                  proposalHash |-> held.metadata.proposalHash, payload |-> payload]
           metadata == [Current.metadata EXCEPT !.boundTransaction = tx]
<1>1. /\ Running /\ calls # <<>> /\ Last(calls).at = "build"
      /\ Advance(Front(calls), "BOUND", metadata)
  BY DEF Built, InCallback
<1>2. Current \in Lifecycles /\ Sound(Current) /\ held \in Lifecycles /\ Kept(held, Current)
  BY <1>1, CurrentSound, HeldStillRecorded
<1>3. held.proposalId # None /\ held.metadata.proposalHash # None
  BY <1>1, TopFrame DEF FrameSound
<1>4. tx \in BoundTransactions
  BY <1>2, <1>3 DEF BoundTransactions, Lifecycles, Metadata, Optional
<1>5. tx.proposalId = Current.proposalId /\ tx.proposalHash = Current.metadata.proposalHash
  <2>1. held.metadata["proposalHash"] = held.metadata.proposalHash
        /\ Current.metadata["proposalHash"] = Current.metadata.proposalHash
    OBVIOUS
  <2> QED
    BY <1>2, <1>3, <2>1, FieldNames DEF Kept
<1>6. Current.state = "VALIDATED" /\ "BOUND" \in States
  BY <1>1, <1>2, Edges DEF Advance, Lifecycles, States
<1>7. /\ metadata \in Metadata /\ Sound(Moved(Current, "BOUND", metadata))
      /\ Kept(Current, Moved(Current, "BOUND", metadata))
  BY <1>2, <1>4, <1>5, <1>6, MovedBound DEF Moved
<1> HIDE DEF metadata
<1> QED
  BY <1>1, <1>6, <1>7, TopFrame, AdvanceKeeps DEF Moved

LEMMA SimulatorPassedKeeps ==
    ASSUME IInv, SimulatorPassed
    PROVE  IInv'
<1> DEFINE frame == Last(calls)
           held == frame.lifecycle
           tx == held.metadata.boundTransaction
<1>1. Running /\ calls # <<>> /\ frame.at = "simulator"
  BY DEF SimulatorPassed, InCallback
<1>2. /\ Current \in Lifecycles /\ Sound(Current) /\ held \in Lifecycles
      /\ Kept(held, Current) /\ frame \in Frames /\ FrameSound(frame)
  BY <1>1, CurrentSound, HeldStillRecorded, TopFrame
<1>3. tx = Current.metadata.boundTransaction
  BY <1>1, <1>2, FieldNames DEF Kept, FrameSound
<1>4. CASE frame.to = "SIMULATED"
  <2> DEFINE metadata == [Current.metadata EXCEPT !.simulation = tx]
  <2>1. Advance(Front(calls), "SIMULATED", metadata)
    BY <1>4 DEF SimulatorPassed
  <2>2. Current.state = "BOUND" /\ "SIMULATED" \in States
    BY <1>2, <2>1, Edges DEF Advance, Lifecycles, States
  <2>3. /\ metadata \in Metadata /\ Sound(Moved(Current, "SIMULATED", metadata))
        /\ Kept(Current, Moved(Current, "SIMULATED", metadata))
    BY <1>2, <1>3, <2>2, MovedSimulated DEF Moved
  <2> HIDE DEF metadata
  <2> QED
    BY <1>1, <2>1, <2>2, <2>3, TopFrame, AdvanceKeeps DEF Moved
<1>5. CASE frame.to = "RE_SIMULATED"
  <2> DEFINE metadata == [Current.metadata EXCEPT !.resimulation = tx,
                                                  !.resimulatedAt = frame.now]
  <2>1. Advance(Front(calls), "RE_SIMULATED", metadata)
    BY <1>5 DEF SimulatorPassed
  <2>2. Current.state = "TIMED_WAIT" /\ "RE_SIMULATED" \in States
    BY <1>2, <2>1, Edges DEF Advance, Lifecycles, States
  <2>3. frame.now \in Nows /\ ~Before(frame.now, Current.metadata.unlockAt)
    <3>1. /\ frame.now # None /\ held.metadata.unlockAt # None
          /\ ~Before(frame.now, held.metadata.unlockAt)
      BY <1>1, <1>2, <1>5 DEF FrameSound
    <3>2. Current.metadata.unlockAt = held.metadata.unlockAt
      BY <1>2, <3>1, FieldNames DEF Kept
    <3> QED
      BY <1>2, <3>1, <3>2 DEF Frames, Optional
  <2>4. /\ metadata \in Metadata /\ Sound(Moved(Current, "RE_SIMULATED", metadata))
        /\ Kept(Current, Moved(Current, "RE_SIMULATED", metadata))
    BY <1>2, <1>3, <2>2, <2>3, MovedReSimulated DEF Moved
  <2> HIDE DEF metadata
  <2> QED
    BY <1>1, <2>1, <2>2, <2>4, TopFrame, AdvanceKeeps DEF Moved
<1> QED
  BY <1>4, <1>5 DEF SimulatorPassed

LEMMA AllowedKeeps ==
    ASSUME IInv, Allowed
    PROVE  IInv'
<1> DEFINE frame == Last(calls)
<1>1. /\ Running /\ calls # <<>> /\ frame.at = "policy"
      /\ Apply(frame.base, frame.lifecycle, Front(calls))
  BY DEF Allowed, InCallback
<1>2. frame \in Frames /\ FrameSound(frame)
  BY <1>1, TopFrame
<1>3. frame.lifecycle \in Lifecycles /\ Sound(frame.lifecycle)
  BY <1>1, <1>2 DEF Frames, FrameSound
<1>4. frame.base = Version /\ records # <<>> => Follows(frame.lifecycle, records[Version])
  BY <1>1, <1>2, RunningLog DEF IInv, FrameSound
<1> HIDE DEF frame
<1> QED
  BY <1>1, <1>3, <1>4, TopFrame, ApplyKeeps

LEMMA ThrowKeeps ==
    ASSUME IInv, Throw
    PROVE  IInv'
  BY TopFrame, StackKeeps DEF Throw, IInv, TypeOK

LEMMA TickKeeps ==
    ASSUME IInv, Tick
    PROVE  IInv'
<1>1. clock' \in Times
  BY ConstantsAssumption DEF IInv, TypeOK, Tick, Times
<1>2. \A k \in 1..Len(calls) : FrameSound(calls[k])
  BY EmptySeq DEF IInv
<1> QED
  BY <1>1, <1>2, StackKeeps DEF Tick, IInv, TypeOK

LEMMA CrashKeeps ==
    ASSUME IInv, Crash
    PROVE  IInv'
<1>1. /\ records' = Down /\ calls' = <<>>
      /\ UNCHANGED <<journal, clock, acked, faults>> /\ ~Running'
  BY DEF Crash, Running
<1>2. TypeOK'
  BY <1>1, EmptySeq DEF IInv, TypeOK
<1> QED
  BY <1>1, <1>2 DEF IInv, Intact, Logged

LEMMA RestartKeeps ==
    ASSUME IInv, Restart
    PROVE  IInv'
<1>1. /\ Intact /\ records' = Logged /\ calls = <<>>
      /\ UNCHANGED <<journal, calls, clock, acked, faults>>
  BY DEF Restart, Intact, Logged, IInv
<1>2. Logged \in Seq(Lifecycles)
  BY LoggedTyped DEF IInv
<1>3. TypeOK'
  BY <1>1, <1>2 DEF IInv, TypeOK
<1>4. Running' /\ Len(<<>>) = 0
  BY <1>1, <1>2, NoneAssumption, EmptySeq DEF Running
<1>5. Begins(Logged, Logged)
  BY <1>2 DEF Begins
<1>6. Logged' = Logged /\ Intact'
  BY <1>1 DEF Logged, Intact
<1> QED
  BY <1>1, <1>3, <1>4, <1>5, <1>6 DEF IInv

LEMMA StutterKeeps ==
    ASSUME IInv, UNCHANGED vars
    PROVE  IInv'
<1>1. \A k \in 1..Len(calls) : FrameSound(calls[k])
  BY EmptySeq DEF IInv
<1> QED
  BY <1>1, StackKeeps DEF vars, IInv, TypeOK

LEMMA StepKeeps ==
    ASSUME IInv, [Next]_vars
    PROVE  IInv'
<1>1. CASE Call
  <2>1. ASSUME NEW id \in Ids, NEW hash \in Optional(Hashes),
               NEW payload \in {"object", None}, Propose(id, hash, payload)
        PROVE  IInv'
    BY <2>1, ProposeKeeps
  <2>2. CASE Operation
    <3>1. CASE Authorize \/ Validate
      BY <3>1, SameKeeps
    <3>2. CASE Bind \/ Simulate \/ \E now \in Nows : Resimulate(now)
      BY <3>2, WaitingKeeps
    <3>3. ASSUME NEW unlockAt \in Times, EnterTimelock(unlockAt)
          PROVE  IInv'
      BY <3>3, EnterTimelockKeeps
    <3>5. ASSUME NEW now \in Nows, Approve(now)
          PROVE  IInv'
      BY <3>5, ApproveKeeps
    <3>4. ASSUME NEW evidence \in Evidence, Execute(evidence) \/ Verify(evidence)
          PROVE  IInv'
      BY <3>4, ExecuteKeeps, VerifyKeeps
    <3> QED
      BY <2>2, <3>1, <3>2, <3>3, <3>4, <3>5 DEF Operation
  <2> QED
    BY <1>1, <2>1, <2>2 DEF Call
<1>2. CASE Return
  BY <1>2, BindAllowedKeeps, BuiltKeeps, SimulatorPassedKeeps, AllowedKeeps, ThrowKeeps
     DEF Return
<1>3. CASE Tick
  BY <1>3, TickKeeps
<1>4. CASE Crash
  BY <1>4, CrashKeeps
<1>5. CASE Restart
  BY <1>5, RestartKeeps
<1>6. CASE UNCHANGED vars
  BY <1>6, StutterKeeps
<1> QED
  BY <1>1, <1>2, <1>3, <1>4, <1>5, <1>6 DEF Next

LEMMA InvariantHolds ==
    Spec => []IInv
<1>1. Init => IInv
  BY InitInvariant
<1>2. IInv /\ [Next]_vars => IInv'
  BY StepKeeps
<1> QED
  BY <1>1, <1>2, PTL DEF Spec

-----------------------------------------------------------------------------
(* The variables of the daemon model keep their types at any depth of      *)
(* calls.                                                                  *)
THEOREM DaemonTyped ==
    Spec => []TypeOK
<1>1. IInv => TypeOK
  BY DEF IInv
<1> QED
  BY <1>1, InvariantHolds, PTL

(* Whatever an injected function calls back, however deep, and whatever    *)
(* writes fail: consecutive records are one declared edge apart            *)
(* (core/lifecycle.js TRANSITIONS, state/store.js apply).                  *)
THEOREM OneEdge ==
    Spec => []OneEdgeAtATime
<1>1. IInv => OneEdgeAtATime
  BY DEF IInv, LogSound, OneEdgeAtATime
<1> QED
  BY <1>1, InvariantHolds, PTL

(* What was recorded of a proposal never changes or vanishes, over nested  *)
(* calls, crashes and restarts (core/daemon.js, metadata merged).          *)
THEOREM FactsArePermanent ==
    Spec => []RecordedFactsArePermanent
<1>1. IInv => RecordedFactsArePermanent
  BY DEF IInv, LogSound, Kept, RecordedFactsArePermanent
<1> QED
  BY <1>1, InvariantHolds, PTL

(* The bound transaction is the proposal's, and both simulations were run  *)
(* on it, although the state is read before the injected function runs and *)
(* written after (core/daemon.js bind, simulate, resimulate).              *)
THEOREM BoundAndSimulated ==
    Spec => []BoundAndSimulatedForThisProposal
<1>1. IInv => BoundAndSimulatedForThisProposal
  <2> SUFFICES ASSUME IInv, Running PROVE BoundAndSimulatedForThisProposal
    BY DEF BoundAndSimulatedForThisProposal
  <2> QED
    BY CurrentSound
       DEF BoundAndSimulatedForThisProposal, Sound, FactsByState, FactsAgree
<1> QED
  BY <1>1, InvariantHolds, PTL

(* A time that is not before another one is no smaller.                    *)
LEMMA NotBefore ==
    ASSUME NEW a \in Times, NEW b \in Times, ~Before(a, b)
    PROVE  a >= b
<1>1. a \in Int /\ b \in Int
  BY ConstantsAssumption DEF Times
<1> QED
  BY <1>1 DEF Before

LEMMA NoEarlier ==
    ASSUME NEW a \in Times, NEW b \in Times, NEW c \in Times, a >= b, b >= c
    PROVE  a >= c
<1>1. a \in Int /\ b \in Int /\ c \in Int
  BY ConstantsAssumption DEF Times
<1> QED
  BY <1>1

(* Nothing is re-simulated or approved at a time before the unlock time,   *)
(* nothing is executed without an approval at a time, and the signed       *)
(* outcomes come in their order, whatever `now' the callers pass: NaN and  *)
(* words included (core/daemon.js, security/transition-evidence.js).       *)
THEOREM UnlockComesFirst ==
    Spec => []NothingBeforeUnlock
<1>1. IInv => NothingBeforeUnlock
  <2> SUFFICES ASSUME IInv, Running PROVE NothingBeforeUnlock
    BY DEF NothingBeforeUnlock
  <2> DEFINE m == Current.metadata
  <2>1. Current \in Lifecycles /\ Sound(Current) /\ m \in Metadata
    BY CurrentSound DEF Lifecycles
  <2>2. /\ None \notin Times /\ Times \subseteq Int
        /\ m.unlockAt # None => m.unlockAt \in Times
    BY <2>1, ConstantsAssumption DEF Metadata, Optional, Times
  <2>3. m.resimulatedAt \in Times => m.resimulatedAt >= m.unlockAt
    <3>1. m.resimulatedAt \in Times =>
             m.unlockAt # None /\ ~Before(m.resimulatedAt, m.unlockAt)
      BY <2>1, <2>2 DEF Sound, FactsByState, FactsAgree, FromReSimulated
    <3> QED
      BY <2>2, <3>1, NotBefore
  <2>4. m.approvedAt \in Times => m.unlockAt \in Times /\ m.approvedAt >= m.unlockAt
    <3>1. m.approvedAt \in Times =>
             m.unlockAt # None /\ ~Before(m.approvedAt, m.unlockAt)
      BY <2>1, <2>2
      DEF Sound, FactsByState, FactsAgree, FromApproved, FromTimedWait, FromSimulated, FromBound
    <3> QED
      BY <2>2, <3>1, NotBefore
  <2>5. ASSUME m.executionEvidence # None
        PROVE  /\ m.approvedAt \in Times
               /\ m.executionEvidence.timestamp >= m.approvedAt
               /\ m.executionEvidence.timestamp >= m.unlockAt
    <3>1. m.approvedAt \in Times /\ m.executionEvidence.timestamp >= m.approvedAt
      BY <2>1, <2>5 DEF Sound, FactsByState, FactsAgree
    <3>2. m.executionEvidence.timestamp \in Times
      BY <2>1, <2>5 DEF Metadata, Optional, Evidence
    <3> QED
      BY <2>4, <3>1, <3>2, NoEarlier
  <2> QED
    BY <2>1, <2>3, <2>4, <2>5 DEF NothingBeforeUnlock, Sound, FactsByState, FactsAgree
<1> QED
  BY <1>1, InvariantHolds, PTL

(* EXECUTED and VERIFIED rest on evidence of two keys about this proposal, *)
(* its bound transaction and one chain transaction                         *)
(* (security/transition-evidence.js, core/daemon.js execute and verify).   *)
THEOREM EvidenceIsAboutThis ==
    Spec => []EvidenceIsAboutBoundTransaction
<1>1. IInv => EvidenceIsAboutBoundTransaction
  <2> SUFFICES ASSUME IInv, Running PROVE EvidenceIsAboutBoundTransaction
    BY DEF EvidenceIsAboutBoundTransaction
  <2> QED
    BY CurrentSound
       DEF EvidenceIsAboutBoundTransaction, Sound, FactsByState, FactsAgree, About
<1> QED
  BY <1>1, InvariantHolds, PTL

-----------------------------------------------------------------------------
(* The refinement of AcceptedLog.                                          *)

LEMMA MappedInit ==
    ASSUME Init
    PROVE  Store!Init
  BY DEF Init, Store!Init

LEMMA MappedStutter ==
    ASSUME UNCHANGED <<records, acked>>
    PROVE  [Store!Next]_(Store!vars)
  BY DEF Store!vars

(* A write either is acknowledged on top of memory, or leaves memory alone. *)
LEMMA MappedApply ==
    ASSUME IInv, Running, NEW base, NEW lifecycle \in Lifecycles, NEW stack,
           Apply(base, lifecycle, stack)
    PROVE  [Store!Next]_(Store!vars)
<1>1. CASE ApplyFails(base, lifecycle)
  BY <1>1, MappedStutter DEF ApplyFails
<1>2. CASE ApplySucceeds(base, lifecycle)
  <2>1. records' = Append(records, lifecycle) /\ acked' = records'
    BY <1>2 DEF ApplySucceeds
  <2>2. /\ records \in Seq(Lifecycles) /\ records' \in Seq(Lifecycles)
        /\ Len(records') = Len(records) + 1
        /\ \A i \in 1..Len(records) : records'[i] = records[i]
    BY <2>1, RunningLog, AppendProperties DEF IInv
  <2>3. Begins(records, records')
    BY <2>2 DEF Begins
  <2>4. IsPrefix(records, records')
    BY <2>2, <2>3, BeginsIsPrefix
  <2>5. Store!Accept
    BY <2>1, <2>2, <2>4 DEF Store!Accept, Store!IsPrefix, IsPrefix, Running
  <2> QED
    BY <2>5 DEF Store!Next
<1> QED
  BY <1>1, <1>2 DEF Apply

LEMMA MappedRestart ==
    ASSUME IInv, Restart
    PROVE  [Store!Next]_(Store!vars)
<1>1. Intact /\ records' = Logged /\ records = Down /\ acked' = acked
  BY DEF Restart, Intact, Logged, Running
<1>2. Logged \in Seq(Lifecycles)
  BY LoggedTyped DEF IInv
<1>3. IsPrefix(acked, Logged)
  BY <1>1, <1>2, BeginsIsPrefix DEF IInv, TypeOK
<1>4. Store!Restart
  BY <1>1, <1>2, <1>3 DEF Store!Restart, Store!IsPrefix, IsPrefix
<1> QED
  BY <1>4 DEF Store!Next

LEMMA MappedStep ==
    ASSUME IInv, [Next]_vars
    PROVE  [Store!Next]_(Store!vars)
<1>1. CASE Call
  <2>1. ASSUME NEW id \in Ids, NEW hash \in Optional(Hashes),
               NEW payload \in {"object", None}, Propose(id, hash, payload)
        PROVE  [Store!Next]_(Store!vars)
    <3>1. Proposed(id, hash, payload) \in Lifecycles
      BY DEF Proposed, Lifecycles, States, NoMetadata, Metadata, Optional
    <3> QED
      BY <2>1, <3>1, MappedApply DEF Propose, CanCall
  <2>2. CASE Operation
    <3>1. UNCHANGED <<records, acked>>
      BY <2>2 DEF Operation, Authorize, Validate, Bind, Simulate, EnterTimelock, Resimulate,
             Approve, Execute, Verify, Advance, Wait
    <3> QED
      BY <3>1, MappedStutter
  <2> QED
    BY <1>1, <2>1, <2>2 DEF Call
<1>2. CASE Return
  <2>1. CASE Allowed
    <3>1. /\ Running /\ calls # <<>>
          /\ Apply(Last(calls).base, Last(calls).lifecycle, Front(calls))
      BY <2>1 DEF Allowed, InCallback
    <3>2. Last(calls).lifecycle \in Lifecycles
      BY <3>1, TopFrame DEF Frames
    <3> QED
      BY <3>1, <3>2, MappedApply
  <2>2. CASE \/ BindAllowed \/ SimulatorPassed \/ Throw
             \/ \E payload \in Payloads : Built(payload)
    <3>1. UNCHANGED <<records, acked>>
      BY <2>2 DEF BindAllowed, SimulatorPassed, Throw, Built, Advance
    <3> QED
      BY <3>1, MappedStutter
  <2> QED
    BY <1>2, <2>1, <2>2 DEF Return
<1>3. CASE Crash
  <2>1. Store!Crash
    BY <1>3 DEF Crash, Running, Store!Crash
  <2> QED
    BY <2>1 DEF Store!Next
<1>4. CASE Restart
  BY <1>4, MappedRestart
<1>5. CASE Tick \/ UNCHANGED vars
  BY <1>5, MappedStutter DEF Tick, vars
<1> QED
  BY <1>1, <1>2, <1>3, <1>4, <1>5 DEF Next

(* What a caller was told is applied survives every crash and failed write *)
(* in its place: the daemon over its store implements AcceptedLog          *)
(* (state/store.js apply and _recover, core/daemon.js).                    *)
THEOREM DaemonImplementsLog ==
    Spec => ImplementsAcceptedLog
<1>1. Init => Store!Init
  BY MappedInit
<1>2. IInv /\ [Next]_vars => [Store!Next]_(Store!vars)
  BY MappedStep
<1> QED
  BY <1>1, <1>2, InvariantHolds, PTL DEF Spec, ImplementsAcceptedLog, Store!Spec
=============================================================================
