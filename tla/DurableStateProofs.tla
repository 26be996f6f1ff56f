------------------------- MODULE DurableStateProofs -------------------------
(***************************************************************************)
(* For every number of processes, every set of transitions and every       *)
(* bound, a journal that recovery accepts holds every transition any       *)
(* process reported as accepted, provided fsync of a new file persists its *)
(* name; and a single writer is kept the promise of AcceptedLog, and, as   *)
(* long as no I/O fault occurs, can always be restarted.                   *)
(*                                                                         *)
(* NoSilentLoss is not inductive.  What is preserved is that the record of *)
(* every acknowledged log is among the lines fsync pinned down, or one of  *)
(* those lines is a fragment and the file is refused for good (Stored);    *)
(* the same holds of the lines on their way (InFlight) and of what a       *)
(* running process has in memory (MemoryStored).                           *)
(***************************************************************************)
EXTENDS DurableState, SequenceTheorems, FiniteSetTheorems, TLAPS

(* Line k of the first n lines of f is the record of `log', or a fragment. *)
Stored(f, n, log) ==
    \E k \in 1..n : f[k] = Fragment \/ f[k].recordHash = log

InFlight ==
    \A p \in Procs :
        /\ stage[p] \in {"written", "durable"} => pending[p] \in Values
        /\ stage[p] = "written" => Stored(file, Len(file), Append(mem[p], pending[p]))
        /\ stage[p] = "durable" => Stored(file, synced, Append(mem[p], pending[p]))

AckedStored == DirEntryDurable => \A log \in acked : Stored(file, synced, log)

MemoryStored ==
    \A p \in Procs : mem[p] # <<>> => Stored(file, Len(file), mem[p])

(* The file ends without a newline only after a fragment.                  *)
OpenEnd == ~newline => Len(file) > 0 /\ file[Len(file)] = Fragment

(* Nothing is pinned down in a file whose name could still be lost.        *)
NameKept == DirEntryDurable => (synced > 0 => linked)

IInv == TypeOK /\ InFlight /\ AckedStored /\ MemoryStored /\ OpenEnd /\ NameKept

-----------------------------------------------------------------------------
(* Appending to what was replayed the value of the next line.              *)
LEMMA ReplayNext ==
    ASSUME NEW f, NEW n \in Nat, \A i \in 1..(n + 1) : f[i].value \in Values
    PROVE  [i \in 1..(n + 1) |-> f[i].value]
               = Append([i \in 1..n |-> f[i].value], f[n + 1].value)
<1> DEFINE R(m) == [i \in 1..m |-> f[i].value]
<1>1. R(n) \in Seq(Values) /\ Len(R(n)) = n
  OBVIOUS
<1>2. R(n + 1) \in Seq(Values) /\ Len(R(n + 1)) = n + 1
  OBVIOUS
<1>3. /\ Append(R(n), f[n + 1].value) \in Seq(Values)
      /\ Len(Append(R(n), f[n + 1].value)) = n + 1
      /\ Append(R(n), f[n + 1].value)[n + 1] = f[n + 1].value
      /\ \A i \in 1..n : Append(R(n), f[n + 1].value)[i] = R(n)[i]
  BY <1>1, AppendProperties
<1>4. \A i \in 1..(n + 1) : R(n + 1)[i] = Append(R(n), f[n + 1].value)[i]
  <2> TAKE i \in 1..(n + 1)
  <2>1. R(n + 1)[i] = f[i].value
    OBVIOUS
  <2>2. CASE i = n + 1
    BY <1>3, <2>1, <2>2
  <2>3. CASE i \in 1..n
    BY <1>3, <2>1, <2>3
  <2>4. i = n + 1 \/ i \in 1..n
    OBVIOUS
  <2> QED
    BY <2>2, <2>3, <2>4
<1> QED
  BY <1>2, <1>3, <1>4, SeqEqual

(* Every line of a file that recovery accepts carries the log up to it.    *)
LEMMA AcceptedLine ==
    ASSUME TypeOK, Recoverable, NEW k \in 1..Len(file)
    PROVE  /\ file[k].recordHash = Replay(k)
           /\ IsPrefix(Replay(k), Replay(Len(file)))
<1> DEFINE n == Len(file)
<1>1. n \in Nat /\ k \in Nat /\ k >= 1 /\ k <= n
  BY DEF TypeOK
<1>2. \A i \in 1..n : file[i] \in Records
  BY DEF TypeOK, Recoverable
<1>3. \A i \in 1..n : file[i].value \in Values
  BY <1>2 DEF Records
<1>4. file[k].recordHash = Append(Replay(k - 1), file[k].value)
  BY DEF Recoverable, Verified
<1>5. \A m \in 0..n : Replay(m) \in Seq(Values) /\ Len(Replay(m)) = m
  <2> TAKE m \in 0..n
  <2>1. Replay(m) = [i \in 1..m |-> file[i].value]
    BY DEF Replay
  <2>2. m \in Nat /\ \A i \in 1..m : file[i].value \in Values
    BY <1>1, <1>3
  <2>3. Replay(m) \in [1..m -> Values]
    BY <2>1, <2>2
  <2> QED
    BY <2>2, <2>3
<1>6. Append(Replay(k - 1), file[k].value) = Replay(k)
  <2>1. k - 1 \in Nat /\ (k - 1) + 1 = k /\ \A i \in 1..k : file[i].value \in Values
    BY <1>1, <1>3
  <2> QED
    BY <2>1, ReplayNext DEF Replay
<1>7. IsPrefix(Replay(k), Replay(n))
  <2>1. /\ Replay(k) \in Seq(Values) /\ Len(Replay(k)) = k
        /\ Replay(n) \in Seq(Values) /\ Len(Replay(n)) = n
    BY <1>1, <1>5
  <2>2. \A i \in 1..k : Replay(k)[i] = Replay(n)[i]
    BY <1>1 DEF Replay
  <2>3. SubSeq(Replay(k), 1, k) = SubSeq(Replay(n), 1, k)
    BY <1>1, <2>1, <2>2
  <2> QED
    BY <1>1, <2>1, <2>3 DEF IsPrefix
<1> QED
  BY <1>4, <1>6, <1>7

(* The inductive invariant implies the two properties.                     *)
LEMMA InvariantGivesNoSilentLoss ==
    DirEntryDurable /\ IInv => NoSilentLoss
<1> SUFFICES ASSUME DirEntryDurable, IInv, Recoverable, NEW log \in acked
             PROVE  IsPrefix(log, Replay(Len(file)))
  BY DEF NoSilentLoss
<1>1. PICK k \in 1..synced : file[k] = Fragment \/ file[k].recordHash = log
  BY DEF IInv, AckedStored, Stored
<1>2. k \in 1..Len(file)
  BY DEF IInv, TypeOK
<1>3. file[k].recordHash = log
  BY <1>1, <1>2 DEF Recoverable
<1> QED
  BY <1>2, <1>3, AcceptedLine DEF IInv

LEMMA InvariantGivesMemoryIsJournalled ==
    IInv => MemoryIsJournalled
<1> SUFFICES ASSUME IInv, Recoverable, NEW p \in Procs
             PROVE  IsPrefix(mem[p], Replay(Len(file)))
  BY DEF MemoryIsJournalled
<1>1. CASE mem[p] = <<>>
  <2>1. SubSeq(mem[p], 1, Len(mem[p])) = <<>> /\ Len(mem[p]) = 0
    BY <1>1
  <2>2. Len(file) \in Nat /\ \A i \in 1..Len(file) : file[i].value \in Values
    BY DEF IInv, TypeOK, Recoverable, Records
  <2>3. Replay(Len(file)) \in Seq(Values)
    BY <2>2 DEF Replay
  <2>4. SubSeq(Replay(Len(file)), 1, 0) = <<>>
    BY SubSeqEmpty
  <2> QED
    BY <2>1, <2>3, <2>4 DEF IsPrefix
<1>2. CASE mem[p] # <<>>
  <2>1. PICK k \in 1..Len(file) : file[k] = Fragment \/ file[k].recordHash = mem[p]
    BY <1>2 DEF IInv, MemoryStored, Stored
  <2>2. file[k].recordHash = mem[p]
    BY <2>1 DEF Recoverable
  <2> QED
    BY <2>2, AcceptedLine DEF IInv
<1> QED
  BY <1>1, <1>2

-----------------------------------------------------------------------------
LEMMA InitInvariant ==
    Init => IInv
<1> SUFFICES ASSUME Init PROVE IInv
  OBVIOUS
<1>1. TypeOK
  <2>1. <<>> \in Seq(Records \union {Fragment}) /\ <<>> \in Logs /\ Len(<<>>) = 0
    BY DEF Logs
  <2>2. file \in Seq(Records \union {Fragment}) /\ synced \in 0..Len(file)
    BY <2>1 DEF Init
  <2>3. mem \in [Procs -> Logs]
    BY <2>1 DEF Init
  <2> QED
    BY <2>2, <2>3 DEF Init, TypeOK
<1>2. InFlight /\ AckedStored /\ MemoryStored /\ OpenEnd /\ NameKept
  BY DEF Init, InFlight, AckedStored, MemoryStored, OpenEnd, NameKept
<1> QED
  BY <1>1, <1>2 DEF IInv

(* Appending a line keeps everything that was stored, and stores the line. *)
LEMMA AppendKeeps ==
    ASSUME TypeOK, OpenEnd, NEW line \in Records \union {Fragment},
           NEW terminated \in BOOLEAN, line = Fragment \/ terminated,
           AppendLine(line, terminated)
    PROVE  /\ file' \in Seq(Records \union {Fragment})
           /\ Len(file') >= Len(file)
           /\ \A k \in 1..Len(file) : file'[k] = file[k]
           /\ \E k \in 1..Len(file') : file'[k] = line \/ file'[k] = Fragment
           /\ ~terminated => Len(file') > 0 /\ file'[Len(file')] = Fragment
<1> DEFINE S == Records \union {Fragment}
<1>1. file \in Seq(S) /\ Len(file) \in Nat
  BY DEF TypeOK
<1>2. CASE newline
  <2>1. file' = Append(file, line)
    BY <1>2 DEF AppendLine
  <2>2. /\ Append(file, line) \in Seq(S)
        /\ Len(Append(file, line)) = Len(file) + 1
        /\ \A k \in 1..Len(file) : Append(file, line)[k] = file[k]
        /\ Append(file, line)[Len(file) + 1] = line
    BY <1>1, AppendProperties
  <2> QED
    BY <1>1, <2>1, <2>2
<1>3. CASE ~newline
  BY <1>1, <1>3 DEF AppendLine, OpenEnd
<1> QED
  BY <1>2, <1>3

-----------------------------------------------------------------------------
(* Each action preserves the invariant.                                    *)

LEMMA RecoverKeeps ==
    ASSUME IInv, NEW p \in Procs, Recover(p)
    PROVE  IInv'
<1>1. Len(file) \in Nat /\ \A i \in 1..Len(file) : file[i].value \in Values
  BY DEF IInv, TypeOK, Recover, Recoverable, Records
<1>2. Replay(Len(file)) \in Logs /\ Len(Replay(Len(file))) = Len(file)
  BY <1>1 DEF Replay, Logs
<1>3. TypeOK'
  BY <1>2 DEF IInv, TypeOK, Recover, disk
<1>4. InFlight'
  BY DEF IInv, TypeOK, InFlight, Recover, disk, Stored
<1>5. MemoryStored'
  <2> SUFFICES ASSUME NEW q \in Procs, mem'[q] # <<>>
               PROVE  Stored(file, Len(file), mem'[q])
    BY DEF MemoryStored, Recover, disk, Stored
  <2>1. CASE q = p
    <3>1. mem'[q] = Replay(Len(file)) /\ Len(file) # 0
      <4>1. mem'[q] = Replay(Len(file))
        BY <2>1 DEF IInv, TypeOK, Recover
      <4>2. CASE Len(file) = 0
        BY <1>1, <4>1, <4>2 DEF Replay
      <4> QED
        BY <4>1, <4>2
    <3>2. Len(file) \in 1..Len(file)
      BY <1>1, <3>1
    <3>3. file[Len(file)].recordHash = Replay(Len(file))
      BY <3>2, AcceptedLine DEF IInv, Recover
    <3> QED
      BY <3>1, <3>2, <3>3 DEF Stored
  <2>2. CASE q # p
    BY <2>2 DEF IInv, TypeOK, MemoryStored, Recover
  <2> QED
    BY <2>1, <2>2
<1>6. AckedStored' /\ OpenEnd' /\ NameKept'
  BY DEF IInv, AckedStored, OpenEnd, NameKept, Recover, disk, Stored
<1> QED
  BY <1>3, <1>4, <1>5, <1>6 DEF IInv

(* Write and ShortWrite differ in the line they append.                    *)
LEMMA StartApplyKeeps ==
    ASSUME IInv, NEW p \in Procs, NEW v \in Values, StartApply(p, v),
           NEW line \in Records \union {Fragment}, NEW terminated \in BOOLEAN,
           AppendLine(line, terminated), line = Fragment \/ terminated,
           line = Fragment \/ line.recordHash = Append(mem[p], v),
           faults' \in Nat
    PROVE  IInv'
<1>1. /\ file' \in Seq(Records \union {Fragment})
      /\ Len(file') >= Len(file)
      /\ \A k \in 1..Len(file) : file'[k] = file[k]
      /\ \E k \in 1..Len(file') : file'[k] = line \/ file'[k] = Fragment
      /\ ~terminated => Len(file') > 0 /\ file'[Len(file')] = Fragment
  BY AppendKeeps DEF IInv
<1>2. Len(file) \in Nat /\ Len(file') \in Nat /\ synced \in 0..Len(file)
  BY <1>1 DEF IInv, TypeOK
<1>3. synced' = synced /\ linked' = linked /\ newline' = terminated
  BY DEF AppendLine
<1>4. TypeOK'
  BY <1>1, <1>2, <1>3 DEF IInv, TypeOK, StartApply
<1>5. \A log : Stored(file, synced, log) => Stored(file', synced, log)
  BY <1>1, <1>2 DEF Stored
<1>6. \A log : Stored(file, Len(file), log) => Stored(file', Len(file'), log)
  BY <1>1, <1>2 DEF Stored
<1>7. InFlight'
  <2> SUFFICES ASSUME NEW q \in Procs
               PROVE  /\ stage'[q] \in {"written", "durable"} => pending'[q] \in Values
                      /\ stage'[q] = "written" =>
                            Stored(file', Len(file'), Append(mem'[q], pending'[q]))
                      /\ stage'[q] = "durable" =>
                            Stored(file', synced', Append(mem'[q], pending'[q]))
    BY DEF InFlight, Stored
  <2>1. CASE q = p
    <3>1. stage'[q] = "written" /\ pending'[q] = v /\ mem'[q] = mem[p]
      BY <2>1 DEF IInv, TypeOK, StartApply
    <3>2. Stored(file', Len(file'), Append(mem[p], v))
      BY <1>1 DEF Stored
    <3> QED
      BY <3>1, <3>2
  <2>2. CASE q # p
    <3>1. stage'[q] = stage[q] /\ pending'[q] = pending[q] /\ mem'[q] = mem[q]
      BY <2>2 DEF IInv, TypeOK, StartApply
    <3> QED
      BY <1>3, <1>5, <1>6, <3>1 DEF IInv, InFlight
  <2> QED
    BY <2>1, <2>2
<1>8. AckedStored'
  BY <1>3, <1>5 DEF IInv, AckedStored, StartApply, Stored
<1>9. MemoryStored'
  <2> SUFFICES ASSUME NEW q \in Procs, mem[q] # <<>>
               PROVE  Stored(file', Len(file'), mem[q])
    BY DEF MemoryStored, StartApply, Stored
  <2> QED
    BY <1>6 DEF IInv, MemoryStored
<1>10. OpenEnd' /\ NameKept'
  BY <1>1, <1>3 DEF IInv, OpenEnd, NameKept
<1> QED
  BY <1>4, <1>7, <1>8, <1>9, <1>10 DEF IInv

LEMMA WriteKeeps ==
    ASSUME IInv, NEW p \in Procs, NEW v \in Values, Write(p, v)
    PROVE  IInv'
<1>1. mem[p] \in Seq(Values)
  BY DEF IInv, TypeOK, Logs
<1>2. Append(mem[p], v) \in Seq(Values) /\ Len(mem[p]) + 1 \in Nat
  BY <1>1, AppendProperties
<1>3. Record(mem[p], v) \in Records
  BY <1>1, <1>2 DEF Record, Records, Logs
<1>4. Record(mem[p], v).recordHash = Append(mem[p], v)
  BY DEF Record
<1>5. faults' \in Nat
  BY DEF IInv, TypeOK, Write
<1> QED
  BY <1>3, <1>4, <1>5, StartApplyKeeps DEF Write

LEMMA ShortWriteKeeps ==
    ASSUME IInv, NEW p \in Procs, NEW v \in Values, ShortWrite(p, v)
    PROVE  IInv'
<1>1. faults' \in Nat
  BY DEF IInv, TypeOK, ShortWrite, Fault
<1> QED
  BY <1>1, StartApplyKeeps DEF ShortWrite

LEMMA FsyncKeeps ==
    ASSUME IInv, NEW p \in Procs, Fsync(p)
    PROVE  IInv'
<1>1. Len(file) \in Nat /\ synced \in 0..Len(file)
  BY DEF IInv, TypeOK
<1>2. TypeOK'
  BY <1>1, ConstantsAssumption DEF IInv, TypeOK, Fsync
<1>3. \A log : Stored(file, synced, log) => Stored(file, Len(file), log)
  BY <1>1 DEF Stored
<1>4. InFlight'
  <2> SUFFICES ASSUME NEW q \in Procs
               PROVE  /\ stage'[q] \in {"written", "durable"} => pending[q] \in Values
                      /\ stage'[q] = "written" =>
                            Stored(file, Len(file), Append(mem[q], pending[q]))
                      /\ stage'[q] = "durable" =>
                            Stored(file, Len(file), Append(mem[q], pending[q]))
    BY DEF InFlight, Fsync, Stored
  <2>1. CASE q = p
    BY <2>1 DEF IInv, TypeOK, InFlight, Fsync
  <2>2. CASE q # p
    BY <1>3, <2>2 DEF IInv, TypeOK, InFlight, Fsync
  <2> QED
    BY <2>1, <2>2
<1>5. AckedStored' /\ MemoryStored' /\ OpenEnd' /\ NameKept'
  BY <1>3 DEF IInv, AckedStored, MemoryStored, OpenEnd, NameKept, Fsync, Stored
<1> QED
  BY <1>2, <1>4, <1>5 DEF IInv

LEMMA FsyncErrorKeeps ==
    ASSUME IInv, NEW p \in Procs, FsyncError(p)
    PROVE  IInv'
<1>1. TypeOK'
  BY DEF IInv, TypeOK, FsyncError, Fault, disk
<1>2. InFlight'
  BY DEF IInv, TypeOK, InFlight, FsyncError, disk, Stored
<1>3. AckedStored' /\ MemoryStored' /\ OpenEnd' /\ NameKept'
  BY DEF IInv, AckedStored, MemoryStored, OpenEnd, NameKept, FsyncError, disk, Stored
<1> QED
  BY <1>1, <1>2, <1>3 DEF IInv

LEMMA CommitKeeps ==
    ASSUME IInv, NEW p \in Procs, Commit(p)
    PROVE  IInv'
<1> DEFINE log == Append(mem[p], pending[p])
<1>1. mem[p] \in Seq(Values) /\ pending[p] \in Values /\ stage[p] = "durable"
  BY DEF IInv, TypeOK, InFlight, Logs, Commit, Acknowledge
<1>2. log \in Logs /\ log # <<>>
  BY <1>1, AppendProperties DEF Logs
<1>3. mem' = [mem EXCEPT ![p] = log] /\ acked' = acked \union {log}
  BY DEF Commit, Acknowledge
<1>4. Len(file) \in Nat /\ synced \in 0..Len(file)
  BY DEF IInv, TypeOK
<1>5. Stored(file, synced, log) /\ Stored(file, Len(file), log)
  BY <1>1, <1>4 DEF IInv, InFlight, Stored
<1>6. TypeOK'
  BY <1>2, <1>3 DEF IInv, TypeOK, Commit, Acknowledge, disk
<1>7. InFlight'
  <2> SUFFICES ASSUME NEW q \in Procs
               PROVE  /\ stage'[q] \in {"written", "durable"} => pending'[q] \in Values
                      /\ stage'[q] = "written" =>
                            Stored(file, Len(file), Append(mem'[q], pending'[q]))
                      /\ stage'[q] = "durable" =>
                            Stored(file, synced, Append(mem'[q], pending'[q]))
    BY DEF InFlight, Commit, Acknowledge, disk, Stored
  <2>1. CASE q = p
    BY <2>1 DEF IInv, TypeOK, Commit, Acknowledge
  <2>2. CASE q # p
    <3>1. stage'[q] = stage[q] /\ pending'[q] = pending[q] /\ mem'[q] = mem[q]
      BY <2>2 DEF IInv, TypeOK, Commit, Acknowledge
    <3> QED
      BY <3>1 DEF IInv, InFlight
  <2> QED
    BY <2>1, <2>2
<1>8. AckedStored'
  BY <1>3, <1>5 DEF IInv, AckedStored, Commit, Acknowledge, disk, Stored
<1>9. MemoryStored'
  <2> SUFFICES ASSUME NEW q \in Procs, mem'[q] # <<>>
               PROVE  Stored(file, Len(file), mem'[q])
    BY DEF MemoryStored, Commit, Acknowledge, disk, Stored
  <2>1. CASE q = p
    BY <1>3, <1>5, <2>1 DEF IInv, TypeOK
  <2>2. CASE q # p
    BY <1>3, <2>2 DEF IInv, TypeOK, MemoryStored
  <2> QED
    BY <2>1, <2>2
<1>10. OpenEnd' /\ NameKept'
  BY DEF IInv, OpenEnd, NameKept, Commit, Acknowledge, disk
<1> QED
  BY <1>6, <1>7, <1>8, <1>9, <1>10 DEF IInv

LEMMA CrashKeeps ==
    ASSUME IInv, NEW p \in Procs, Crash(p)
    PROVE  IInv'
<1>1. <<>> \in Logs
  BY DEF Logs
<1>2. TypeOK'
  BY <1>1 DEF IInv, TypeOK, Crash, disk
<1>3. InFlight'
  BY DEF IInv, TypeOK, InFlight, Crash, disk, Stored
<1>4. AckedStored' /\ MemoryStored' /\ OpenEnd' /\ NameKept'
  BY DEF IInv, TypeOK, AckedStored, MemoryStored, OpenEnd, NameKept, Crash, disk, Stored
<1> QED
  BY <1>2, <1>3, <1>4 DEF IInv

(* With every process down only the lines on disk matter.                  *)
LEMMA AllDownKeeps ==
    ASSUME AllDown
    PROVE  /\ stage' \in [Procs -> {"down", "ready", "written", "durable"}]
           /\ mem' \in [Procs -> Logs]
           /\ pending' \in [Procs -> Values \union {NoValue}]
           /\ InFlight'
           /\ MemoryStored'
  BY DEF AllDown, Logs, InFlight, MemoryStored

LEMMA PowerFailureKeeps ==
    ASSUME IInv, PowerFailure
    PROVE  IInv'
<1> DEFINE S == Records \union {Fragment}
<1>1. PICK n \in synced..Len(file) :
          \/ /\ file' = SubSeq(file, 1, n)
             /\ newline' = (n < Len(file) \/ newline)
             /\ synced' = n
             /\ UNCHANGED faults
          \/ /\ n < Len(file)
             /\ Fault
             /\ file' = Append(SubSeq(file, 1, n), Fragment)
             /\ newline' = FALSE
             /\ synced' = n + 1
  BY DEF PowerFailure
<1>2. /\ AllDown
      /\ linked' = (linked \/ file # <<>>)
      /\ acked' = acked
  BY DEF PowerFailure
<1>3. /\ file \in Seq(S) /\ Len(file) \in Nat /\ synced \in Nat
      /\ n \in Nat /\ synced <= n /\ n <= Len(file)
      /\ faults \in Nat
      /\ file = <<>> => Len(file) = 0
  <2>1. Len(<<>>) = 0
    OBVIOUS
  <2>2. file = <<>> => Len(file) = 0
    BY <2>1
  <2> QED
    BY <2>2 DEF IInv, TypeOK
<1>4. /\ SubSeq(file, 1, n) \in Seq(S)
      /\ Len(SubSeq(file, 1, n)) = n
      /\ \A k \in 1..n : SubSeq(file, 1, n)[k] = file[k]
  <2>1. \A k \in 1..n : file[k] \in S
    BY <1>3
  <2> QED
    BY <1>3, <2>1
<1>5. /\ file' \in Seq(S)
      /\ synced' \in 0..Len(file')
      /\ synced' >= n
      /\ \A k \in 1..n : file'[k] = file[k]
      /\ ~newline' => Len(file') > 0 /\ file'[Len(file')] = Fragment
      /\ newline' \in BOOLEAN
      /\ faults' \in Nat
      /\ synced' > 0 => file # <<>>
  <2>1. CASE /\ file' = SubSeq(file, 1, n)
             /\ newline' = (n < Len(file) \/ newline)
             /\ synced' = n
             /\ UNCHANGED faults
    <3>1. /\ file' \in Seq(S) /\ Len(file') = n
          /\ \A k \in 1..n : file'[k] = file[k]
          /\ faults' \in Nat
      BY <1>3, <1>4, <2>1
    <3>2. newline' \in BOOLEAN
      BY <2>1 DEF IInv, TypeOK
    <3>3. ~newline' => Len(file') > 0 /\ file'[Len(file')] = Fragment
      <4>1. ~newline' => ~(n < Len(file)) /\ ~newline
        BY <2>1
      <4>2. ~newline' => n = Len(file) /\ ~newline
        BY <1>3, <4>1
      <4> QED
        BY <1>3, <3>1, <4>2 DEF IInv, OpenEnd
    <3>4. synced' > 0 => file # <<>>
      BY <1>3, <2>1
    <3> QED
      BY <1>3, <2>1, <3>1, <3>2, <3>3, <3>4
  <2>2. CASE /\ n < Len(file)
             /\ Fault
             /\ file' = Append(SubSeq(file, 1, n), Fragment)
             /\ newline' = FALSE
             /\ synced' = n + 1
    <3>1. /\ file' \in Seq(S) /\ Len(file') = n + 1
          /\ \A k \in 1..n : file'[k] = SubSeq(file, 1, n)[k]
          /\ file'[n + 1] = Fragment
      BY <1>3, <1>4, <2>2, AppendProperties
    <3>2. faults' \in Nat
      BY <1>3, <2>2 DEF Fault
    <3>3. file # <<>>
      BY <1>3, <2>2
    <3>4. newline' \in BOOLEAN
      BY <2>2
    <3>5. synced' = n + 1
      BY <2>2
    <3> QED
      BY <1>3, <1>4, <3>1, <3>2, <3>3, <3>4, <3>5
  <2> QED
    BY <1>1, <2>1, <2>2
<1>6. TypeOK'
  BY <1>2, <1>5, AllDownKeeps DEF IInv, TypeOK
<1>7. AckedStored'
  <2> SUFFICES ASSUME DirEntryDurable, NEW log \in acked
               PROVE  Stored(file', synced', log)
    BY <1>2 DEF AckedStored, Stored
  <2>1. PICK k \in 1..synced : file[k] = Fragment \/ file[k].recordHash = log
    BY DEF IInv, AckedStored, Stored
  <2>2. k \in 1..n /\ k \in 1..synced'
    BY <1>3, <1>5
  <2> QED
    BY <1>5, <2>1, <2>2 DEF Stored
<1>8. OpenEnd' /\ NameKept'
  BY <1>2, <1>5 DEF OpenEnd, NameKept
<1> QED
  BY <1>2, <1>6, <1>7, <1>8, AllDownKeeps DEF IInv

(* A file whose name can be lost never had a line pinned down, hence no    *)
(* transition was accepted.                                                *)
LEMMA PowerFailureLosesFileKeeps ==
    ASSUME IInv, PowerFailureLosesFile
    PROVE  IInv'
<1>1. DirEntryDurable => synced = 0
  BY DEF IInv, TypeOK, NameKept, PowerFailureLosesFile
<1>2. DirEntryDurable => acked = {}
  BY <1>1 DEF IInv, AckedStored, Stored
<1>3. /\ file' = <<>> /\ newline' = TRUE /\ synced' = 0
      /\ linked' = linked /\ acked' = acked /\ faults' = faults /\ AllDown
  BY DEF PowerFailureLosesFile
<1>4. file' \in Seq(Records \union {Fragment}) /\ synced' \in 0..Len(file')
  BY <1>3
<1>5. TypeOK'
  BY <1>3, <1>4, AllDownKeeps DEF IInv, TypeOK
<1>6. AckedStored' /\ OpenEnd' /\ NameKept'
  BY <1>2, <1>3 DEF AckedStored, OpenEnd, NameKept
<1> QED
  BY <1>3, <1>5, <1>6, AllDownKeeps DEF IInv

(* An altered transition leaves the hash written beside it as it was.      *)
LEMMA RotKeeps ==
    ASSUME IInv, Rot
    PROVE  IInv'
<1>1. PICK i \in 1..Len(file), v \in Values :
          file[i] # Fragment /\ file' = [file EXCEPT ![i].value = v]
  BY DEF Rot
<1>2. file \in Seq(Records \union {Fragment}) /\ Len(file) \in Nat /\ file[i] \in Records
  BY <1>1 DEF IInv, TypeOK
<1>3. /\ file' \in Seq(Records \union {Fragment})
      /\ Len(file') = Len(file)
      /\ \A k \in 1..Len(file) : k # i => file'[k] = file[k]
      /\ file'[i].recordHash = file[i].recordHash
  BY <1>1, <1>2 DEF Records
<1>4. faults' \in Nat
  BY DEF IInv, TypeOK, Rot, Fault
<1>5. TypeOK'
  BY <1>3, <1>4 DEF IInv, TypeOK, Rot, procs
<1>6. \A m \in 0..Len(file) : \A log : Stored(file, m, log) => Stored(file', m, log)
  BY <1>1, <1>2, <1>3 DEF Stored
<1>7. /\ newline' = newline /\ synced' = synced /\ linked' = linked /\ acked' = acked
      /\ stage' = stage /\ mem' = mem /\ pending' = pending
      /\ synced \in 0..Len(file) /\ Len(file) \in 0..Len(file)
  BY <1>2 DEF IInv, TypeOK, Rot, procs
<1>8. InFlight'
  <2> SUFFICES ASSUME NEW q \in Procs
               PROVE  /\ stage[q] \in {"written", "durable"} => pending[q] \in Values
                      /\ stage[q] = "written" =>
                            Stored(file', Len(file), Append(mem[q], pending[q]))
                      /\ stage[q] = "durable" =>
                            Stored(file', synced, Append(mem[q], pending[q]))
    BY <1>3, <1>7 DEF InFlight, Stored
  <2> QED
    BY <1>6, <1>7 DEF IInv, InFlight
<1>9. AckedStored' /\ MemoryStored'
  <2>1. DirEntryDurable => \A log \in acked : Stored(file', synced, log)
    BY <1>6, <1>7 DEF IInv, AckedStored
  <2>2. \A q \in Procs : mem[q] # <<>> => Stored(file', Len(file), mem[q])
    BY <1>6, <1>7 DEF IInv, MemoryStored
  <2> QED
    BY <1>3, <1>7, <2>1, <2>2 DEF AckedStored, MemoryStored, Stored
<1>10. OpenEnd' /\ NameKept'
  BY <1>1, <1>3, <1>7 DEF IInv, OpenEnd, NameKept
<1> QED
  BY <1>5, <1>8, <1>9, <1>10 DEF IInv

LEMMA StepKeeps ==
    ASSUME IInv, [Next]_vars
    PROVE  IInv'
<1>1. ASSUME NEW p \in Procs, Recover(p) PROVE IInv'
  BY <1>1, RecoverKeeps
<1>2. ASSUME NEW p \in Procs, NEW v \in Values, Write(p, v) PROVE IInv'
  BY <1>2, WriteKeeps
<1>3. ASSUME NEW p \in Procs, NEW v \in Values, ShortWrite(p, v) PROVE IInv'
  BY <1>3, ShortWriteKeeps
<1>4. ASSUME NEW p \in Procs, Fsync(p) PROVE IInv'
  BY <1>4, FsyncKeeps
<1>5. ASSUME NEW p \in Procs, FsyncError(p) PROVE IInv'
  BY <1>5, FsyncErrorKeeps
<1>6. ASSUME NEW p \in Procs, Commit(p) PROVE IInv'
  BY <1>6, CommitKeeps
<1>7. ASSUME NEW p \in Procs, Crash(p) PROVE IInv'
  BY <1>7, CrashKeeps
<1>8. CASE PowerFailure
  BY <1>8, PowerFailureKeeps
<1>9. CASE PowerFailureLosesFile
  BY <1>9, PowerFailureLosesFileKeeps
<1>10. CASE Rot
  BY <1>10, RotKeeps
<1>11. CASE UNCHANGED vars
  BY <1>11 DEF vars, IInv, TypeOK, InFlight, AckedStored, MemoryStored, OpenEnd,
               NameKept, Stored
<1> QED
  BY <1>1, <1>2, <1>3, <1>4, <1>5, <1>6, <1>7, <1>8, <1>9, <1>10, <1>11 DEF Next

-----------------------------------------------------------------------------
(* The variables of the journal model keep their types in every run of     *)
(* `apply', recovery and the faults around them.                           *)
THEOREM JournalTyped ==
    Spec => []TypeOK
<1>1. Init => IInv
  BY InitInvariant
<1>2. IInv /\ [Next]_vars => IInv'
  BY StepKeeps
<1>3. IInv => TypeOK
  BY DEF IInv
<1> QED
  BY <1>1, <1>2, <1>3, PTL DEF Spec

(* Any number of processes appending to one journal, under crashes, short  *)
(* writes, failed fsyncs, torn tails and altered records: a journal that   *)
(* recovery accepts (state/store.js:88-111) holds every transition that    *)
(* any `apply' reported as accepted.                                       *)
THEOREM NothingAcceptedIsLost ==
    ASSUME DirEntryDurable
    PROVE  Spec => []NoSilentLoss
<1>1. Init => IInv
  BY InitInvariant
<1>2. IInv /\ [Next]_vars => IInv'
  BY StepKeeps
<1>3. IInv => NoSilentLoss
  BY InvariantGivesNoSilentLoss
<1> QED
  BY <1>1, <1>2, <1>3, PTL DEF Spec

(* `apply' never runs ahead of the journal (state/store.js:49-55): while   *)
(* the file would be accepted, what a running process has in memory is a   *)
(* prefix of the log in it.                                                *)
THEOREM MemoryFollowsJournal ==
    Spec => []MemoryIsJournalled
<1>1. Init => IInv
  BY InitInvariant
<1>2. IInv /\ [Next]_vars => IInv'
  BY StepKeeps
<1>3. IInv => MemoryIsJournalled
  BY InvariantGivesMemoryIsJournalled
<1> QED
  BY <1>1, <1>2, <1>3, PTL DEF Spec

-----------------------------------------------------------------------------
(* One process and no I/O fault: every line verifies, and the running      *)
(* process holds the log in the file, the line it is writing included.     *)

Held(p) ==
    IF stage[p] \in {"written", "durable"} THEN Append(mem[p], pending[p]) ELSE mem[p]

Alone ==
    (Cardinality(Procs) = 1 /\ faults = 0) =>
        /\ newline
        /\ \A i \in 1..Len(file) : file[i] # Fragment /\ Verified(i)
        /\ \A p \in Procs : Up(p) => Held(p) = Replay(Len(file))

LEMMA OnlyProcess ==
    ASSUME IsFiniteSet(Procs), Cardinality(Procs) = 1, NEW p \in Procs
    PROVE  Procs = {p}
<1>1. PICK x : Procs = {x}
  BY FS_Singleton
<1> QED
  BY <1>1

(* What is replayed from the first n lines depends on those lines only.    *)
LEMMA ReplaySame ==
    ASSUME NEW n \in Nat, \A i \in 1..n : file'[i] = file[i]
    PROVE  /\ \A m \in 0..n : Replay(m)' = Replay(m)
           /\ \A i \in 1..n : Verified(i)' <=> Verified(i)
<1>1. ASSUME NEW m \in 0..n PROVE Replay(m)' = Replay(m)
  <2>1. \A i \in 1..m : file'[i].value = file[i].value
    OBVIOUS
  <2> QED
    BY <2>1 DEF Replay
<1>2. ASSUME NEW i \in 1..n PROVE Verified(i)' <=> Verified(i)
  <2>1. i - 1 \in 0..n /\ file'[i] = file[i]
    OBVIOUS
  <2>2. Replay(i - 1)' = Replay(i - 1)
    BY <1>1, <2>1
  <2> QED
    BY <2>1, <2>2 DEF Verified
<1> QED
  BY <1>1, <1>2

(* Steps that leave the file as it is.                                     *)
LEMMA AloneSameFile ==
    ASSUME Alone, faults' = 0 => faults = 0,
           UNCHANGED <<file, newline>>,
           \A p \in Procs : Up(p)' /\ Alone /\ faults = 0 /\ Cardinality(Procs) = 1
                              => Held(p)' = Replay(Len(file))
    PROVE  Alone'
<1> SUFFICES ASSUME Cardinality(Procs) = 1, faults' = 0
             PROVE  /\ newline'
                    /\ \A i \in 1..Len(file') : file'[i] # Fragment /\ Verified(i)'
                    /\ \A p \in Procs : Up(p)' => Held(p)' = Replay(Len(file))'
  BY DEF Alone
<1>1. Replay(Len(file))' = Replay(Len(file))
  BY DEF Replay
<1>2. \A i : Verified(i)' <=> Verified(i)
  BY DEF Verified, Replay
<1> QED
  BY <1>1, <1>2 DEF Alone

LEMMA WriteAlone ==
    ASSUME IInv, Alone, IsFiniteSet(Procs), NEW p \in Procs, NEW v \in Values, Write(p, v)
    PROVE  Alone'
<1> SUFFICES ASSUME Cardinality(Procs) = 1, faults = 0
             PROVE  /\ newline'
                    /\ \A i \in 1..Len(file') : file'[i] # Fragment /\ Verified(i)'
                    /\ \A q \in Procs : Up(q)' => Held(q)' = Replay(Len(file))'
  BY DEF Alone, Write
<1>0. PICK n \in Nat : n = Len(file)
  BY DEF IInv, TypeOK
<1> DEFINE r == Record(mem[p], v)
<1>1. /\ newline /\ stage[p] = "ready" /\ mem[p] \in Seq(Values)
      /\ file \in Seq(Records \union {Fragment})
      /\ \A i \in 1..n : file[i] # Fragment /\ Verified(i)
  BY <1>0 DEF IInv, TypeOK, Alone, Logs, Write, StartApply
<1>2. mem[p] = Replay(n)
  BY <1>0, <1>1 DEF Alone, Held, Up
<1>3. Len(mem[p]) = n
  BY <1>1, <1>2 DEF Replay
<1>4. Append(mem[p], v) \in Seq(Values)
  BY <1>1, AppendProperties
<1>5. r \in Records /\ r.sequence = n + 1 /\ r.previousHash = mem[p] /\ r.value = v
      /\ r.recordHash = Append(mem[p], v)
  BY <1>1, <1>3, <1>4 DEF Record, Records, Logs
<1>6. newline' /\ file' = Append(file, r)
  BY <1>1 DEF Write, AppendLine
<1> HIDE DEF r
<1>7. /\ Len(file') = n + 1 /\ file'[n + 1] = r
      /\ \A i \in 1..n : file'[i] = file[i]
  BY <1>0, <1>1, <1>5, <1>6, AppendProperties
<1>8. \A i \in 1..n : Verified(i)' /\ file'[i] # Fragment
  BY <1>1, <1>7, ReplaySame
<1>9. Replay(n)' = mem[p]
  BY <1>2, <1>7, ReplaySame
<1>10. Verified(n + 1)'
  <2>1. (n + 1) - 1 = n
    OBVIOUS
  <2>2. Replay((n + 1) - 1)' = Replay(n)'
    BY <2>1
  <2> QED
    BY <1>5, <1>7, <1>9, <2>2 DEF Verified
<1>11. file'[n + 1] # Fragment
  BY <1>5, <1>7, FragmentAssumption
<1>12. Replay(n + 1)' = Append(mem[p], v)
  <2>1. \A i \in 1..(n + 1) : file'[i].value \in Values
    <3> TAKE i \in 1..(n + 1)
    <3>1. CASE i = n + 1
      BY <1>5, <1>7, <3>1
    <3>2. CASE i \in 1..n
      BY <1>0, <1>1, <1>7, <3>2 DEF Records
    <3>3. i = n + 1 \/ i \in 1..n
      OBVIOUS
    <3> QED
      BY <3>1, <3>2, <3>3
  <2>2. Replay(n + 1)' = Append(Replay(n)', file'[n + 1].value)
    BY <2>1, ReplayNext DEF Replay
  <2> QED
    BY <1>5, <1>7, <1>9, <2>2
<1>13. \A i \in 1..Len(file') : file'[i] # Fragment /\ Verified(i)'
  <2> TAKE i \in 1..Len(file')
  <2>1. CASE i = n + 1
    BY <1>10, <1>11, <2>1
  <2>2. CASE i \in 1..n
    BY <1>8, <2>2
  <2>3. i = n + 1 \/ i \in 1..n
    BY <1>7
  <2> QED
    BY <2>1, <2>2, <2>3
<1>14. \A q \in Procs : Up(q)' => Held(q)' = Replay(Len(file))'
  <2> TAKE q \in Procs
  <2>1. q = p
    BY OnlyProcess
  <2>2. Held(p)' = Append(mem[p], v)
    BY DEF IInv, TypeOK, Held, Write, StartApply
  <2>3. Replay(Len(file))' = Replay(n + 1)'
    BY <1>7
  <2> QED
    BY <1>12, <2>1, <2>2, <2>3
<1> QED
  BY <1>6, <1>13, <1>14

(* A power failure keeps the first lines of the file.                      *)
LEMMA PowerFailureAlone ==
    ASSUME IInv, Alone, PowerFailure
    PROVE  Alone'
<1> SUFFICES ASSUME Cardinality(Procs) = 1, faults' = 0
             PROVE  /\ newline'
                    /\ \A i \in 1..Len(file') : file'[i] # Fragment /\ Verified(i)'
                    /\ \A q \in Procs : Up(q)' => Held(q)' = Replay(Len(file))'
  BY DEF Alone
<1>1. PICK n \in synced..Len(file) :
          \/ /\ file' = SubSeq(file, 1, n)
             /\ newline' = (n < Len(file) \/ newline)
             /\ UNCHANGED faults
          \/ Fault
  BY DEF PowerFailure
<1>2. n \in Nat /\ n <= Len(file) /\ file \in Seq(Records \union {Fragment}) /\ faults \in Nat
  BY DEF IInv, TypeOK
<1>3. ~Fault
  BY <1>2 DEF Fault
<1>4. file' = SubSeq(file, 1, n) /\ newline' = (n < Len(file) \/ newline) /\ faults = 0
  BY <1>1, <1>3
<1>5. newline /\ \A i \in 1..n : file[i] # Fragment /\ Verified(i)
  BY <1>2, <1>4 DEF Alone
<1>6. Len(file') = n /\ \A i \in 1..n : file'[i] = file[i]
  BY <1>2, <1>4
<1>7. \A i \in 1..n : file'[i] # Fragment /\ Verified(i)'
  BY <1>2, <1>5, <1>6, ReplaySame
<1>8. \A q \in Procs : ~Up(q)'
  BY DEF PowerFailure, AllDown, Up
<1> QED
  BY <1>4, <1>5, <1>6, <1>7, <1>8

LEMMA LostFileAlone ==
    ASSUME PowerFailureLosesFile
    PROVE  Alone'
<1>1. Len(file') = 0 /\ newline' = TRUE
  BY DEF PowerFailureLosesFile
<1>2. \A q \in Procs : ~Up(q)'
  BY DEF PowerFailureLosesFile, AllDown, Up
<1> QED
  BY <1>1, <1>2 DEF Alone

LEMMA StepAlone ==
    ASSUME IInv, Alone, IsFiniteSet(Procs), [Next]_vars
    PROVE  Alone'
<1>0. faults \in Nat
  BY DEF IInv, TypeOK
<1>f. ASSUME Fault PROVE Alone'
  <2>1. faults' # 0
    BY <1>0, <1>f DEF Fault
  <2> QED
    BY <2>1 DEF Alone
<1>1. ASSUME NEW p \in Procs, Recover(p) PROVE Alone'
  <2>1. \A q \in Procs : Cardinality(Procs) = 1 => Held(q)' = Replay(Len(file))
    BY <1>1, OnlyProcess DEF Recover, Held, IInv, TypeOK
  <2>2. UNCHANGED <<file, newline, faults>>
    BY <1>1 DEF Recover, disk
  <2> QED
    BY <2>1, <2>2, AloneSameFile
<1>2. ASSUME NEW p \in Procs, NEW v \in Values, Write(p, v) PROVE Alone'
  BY <1>2, WriteAlone
<1>3. ASSUME NEW p \in Procs, NEW v \in Values, ShortWrite(p, v) PROVE Alone'
  BY <1>3, <1>f DEF ShortWrite
<1>4. ASSUME NEW p \in Procs, Fsync(p) PROVE Alone'
  <2>1. \A q \in Procs : Held(q)' = Held(q) /\ (Up(q)' => Up(q))
    BY <1>4 DEF Fsync, Held, Up, IInv, TypeOK
  <2>2. UNCHANGED <<file, newline, faults>>
    BY <1>4 DEF Fsync
  <2> QED
    BY <2>1, <2>2, AloneSameFile DEF Alone
<1>5. ASSUME NEW p \in Procs, FsyncError(p) PROVE Alone'
  BY <1>5, <1>f DEF FsyncError
<1>6. ASSUME NEW p \in Procs, Commit(p) PROVE Alone'
  <2>1. \A q \in Procs : Held(q)' = Held(q) /\ (Up(q)' => Up(q))
    BY <1>6 DEF Commit, Acknowledge, Held, Up, IInv, TypeOK
  <2>2. UNCHANGED <<file, newline, faults>>
    BY <1>6 DEF Commit, Acknowledge, disk
  <2> QED
    BY <2>1, <2>2, AloneSameFile DEF Alone
<1>7. ASSUME NEW p \in Procs, Crash(p) PROVE Alone'
  <2>1. \A q \in Procs : Up(q)' => Up(q) /\ Held(q)' = Held(q)
    BY <1>7 DEF Crash, Held, Up, IInv, TypeOK
  <2>2. UNCHANGED <<file, newline, faults>>
    BY <1>7 DEF Crash, disk
  <2> QED
    BY <2>1, <2>2, AloneSameFile DEF Alone
<1>8. CASE PowerFailure
  BY <1>8, PowerFailureAlone
<1>9. CASE PowerFailureLosesFile
  BY <1>9, LostFileAlone
<1>10. CASE Rot
  BY <1>10, <1>f DEF Rot
<1>11. CASE UNCHANGED vars
  <2>1. \A q \in Procs : Held(q)' = Held(q) /\ Up(q)' = Up(q)
    BY <1>11 DEF vars, Held, Up
  <2>2. UNCHANGED <<file, newline, faults>>
    BY <1>11 DEF vars
  <2> QED
    BY <2>1, <2>2, AloneSameFile DEF Alone
<1> QED
  BY <1>1, <1>2, <1>3, <1>4, <1>5, <1>6, <1>7, <1>8, <1>9, <1>10, <1>11 DEF Next

(* A single process on its own journal, whatever point it dies at, by a    *)
(* crash or a power failure, finds a journal that the constructor accepts  *)
(* (state/store.js:88-111), unless an I/O fault damaged the file.          *)
THEOREM CrashesRecover ==
    ASSUME IsFiniteSet(Procs)
    PROVE  Spec => []CrashesAreRecoverable
<1>1. Init => IInv /\ Alone
  <2>1. Init => Len(file) = 0
    BY DEF Init
  <2>2. Init => \A p \in Procs : Held(p) = Replay(Len(file))
    BY <2>1 DEF Init, Held, Replay
  <2>3. Init => Alone
    BY <2>1, <2>2 DEF Init, Alone
  <2> QED
    BY <2>3, InitInvariant
<1>2. IInv /\ Alone /\ [Next]_vars => IInv' /\ Alone'
  BY StepKeeps, StepAlone
<1>3. Alone => CrashesAreRecoverable
  BY DEF Alone, CrashesAreRecoverable, Recoverable
<1> QED
  BY <1>1, <1>2, <1>3, PTL DEF Spec

-----------------------------------------------------------------------------
(* A single writer and AcceptedLog.                                        *)

(* No accepted log is longer.                                              *)
Covers(log) == \A other \in acked : Len(other) <= Len(log)

(* There is a longest accepted log, and the running writer holds one as    *)
(* long.                                                                   *)
Told ==
    /\ \E log \in acked \union {<<>>} : Covers(log)
    /\ \A p \in Procs : Up(p) => Covers(mem[p])

LEMMA LongestAckedIsLongest ==
    ASSUME Told
    PROVE  LongestAcked \in acked \union {<<>>} /\ Covers(LongestAcked)
  BY DEF Told, Covers, LongestAcked

(* A log longer than all others is the longest.                            *)
LEMMA LongestIsUnique ==
    ASSUME NEW logs, NEW log \in logs, Len(log) > 0,
           \A other \in logs : Len(other) \in Nat,
           \A other \in logs \ {log} : Len(other) < Len(log)
    PROVE  (CHOOSE l \in logs \union {<<>>} : \A other \in logs : Len(other) <= Len(l)) = log
<1> DEFINE P(l) == l \in logs \union {<<>>} /\ \A other \in logs : Len(other) <= Len(l)
<1>1. Len(<<>>) = 0
  OBVIOUS
<1>2. P(log)
  OBVIOUS
<1>3. \A l : P(l) => l = log
  BY <1>1
<1> HIDE DEF P
<1>4. (CHOOSE l : P(l)) = log
  BY <1>2, <1>3
<1> QED
  BY <1>4 DEF P

LEMMA RecoverTold ==
    ASSUME DirEntryDurable, IInv, Told, NEW p \in Procs, Recover(p)
    PROVE  /\ Told'
           /\ Replay(Len(file)) \in Seq(Values)
           /\ IsPrefix(LongestAcked, Replay(Len(file)))
<1> DEFINE n == Len(file)
           log == Replay(n)
<1>1. n \in Nat /\ \A i \in 1..n : file[i].value \in Values
  BY DEF IInv, TypeOK, Recover, Recoverable, Records
<1>2. log \in Seq(Values) /\ Len(log) = n
  BY <1>1 DEF Replay
<1>3. \A other \in acked : IsPrefix(other, log)
  BY InvariantGivesNoSilentLoss DEF NoSilentLoss, Recover
<1>4. \A other \in acked : other \in Seq(Values)
  BY DEF IInv, TypeOK, Logs
<1>5. \A other \in acked : Len(other) <= n
  BY <1>2, <1>3, <1>4 DEF IsPrefix
<1>6. IsPrefix(<<>>, log)
  <2>1. Len(<<>>) = 0 /\ SubSeq(<<>>, 1, 0) = <<>> /\ SubSeq(log, 1, 0) = <<>>
    BY <1>2, SubSeqEmpty
  <2> QED
    BY <1>2, <2>1 DEF IsPrefix
<1>7. IsPrefix(LongestAcked, log)
  BY <1>3, <1>6, LongestAckedIsLongest
<1>8. Told'
  BY <1>2, <1>5 DEF Told, Covers, Recover, Up, IInv, TypeOK
<1> QED
  BY <1>2, <1>7, <1>8

LEMMA CommitTold ==
    ASSUME IInv, Told, NEW p \in Procs, Procs = {p}, Commit(p)
    PROVE  /\ Told'
           /\ LongestAcked' = mem'[p]
           /\ mem'[p] \in Seq(Values)
           /\ Len(mem'[p]) = Len(mem[p]) + 1
           /\ IsPrefix(mem[p], mem'[p])
<1> DEFINE log == Append(mem[p], pending[p])
<1>1. mem[p] \in Seq(Values) /\ pending[p] \in Values /\ stage[p] = "durable"
  BY DEF IInv, TypeOK, InFlight, Logs, Commit, Acknowledge
<1>2. /\ log \in Seq(Values) /\ Len(log) = Len(mem[p]) + 1
      /\ \A i \in 1..Len(mem[p]) : log[i] = mem[p][i]
      /\ Len(mem[p]) \in Nat
  BY <1>1, AppendProperties
<1>3. mem'[p] = log /\ acked' = acked \union {log}
  BY DEF Commit, Acknowledge, IInv, TypeOK
<1> HIDE DEF log
<1>4. \A other \in acked : Len(other) <= Len(mem[p]) /\ Len(other) \in Nat
  BY <1>1 DEF Told, Covers, Up, IInv, TypeOK, Logs
<1>5. IsPrefix(mem[p], log)
  BY <1>1, <1>2 DEF IsPrefix
<1>6. Told'
  <2>1. \A other \in acked' : Len(other) <= Len(log)
    BY <1>2, <1>3, <1>4
  <2> QED
    BY <1>3, <2>1 DEF Told, Covers
<1>7. LongestAcked' = log
  <2>1. /\ log \in acked' /\ Len(log) > 0
        /\ \A other \in acked' : Len(other) \in Nat
        /\ \A other \in acked' \ {log} : Len(other) < Len(log)
    BY <1>2, <1>3, <1>4
  <2>2. (CHOOSE l \in acked' \union {<<>>} : \A other \in acked' : Len(other) <= Len(l)) = log
    BY <2>1, LongestIsUnique
  <2> QED
    BY <2>2 DEF LongestAcked
<1> QED
  BY <1>2, <1>3, <1>5, <1>6, <1>7

(* Every other step leaves the accepted logs alone, and the memory of      *)
(* every process that goes on running.                                     *)
LEMMA OtherStepTold ==
    ASSUME Told, acked' = acked, \A p \in Procs : Up(p)' => Up(p) /\ mem'[p] = mem[p]
    PROVE  Told' /\ LongestAcked' = LongestAcked
  BY DEF Told, Covers, LongestAcked

LEMMA OneWriterStep ==
    ASSUME DirEntryDurable, NEW w, Procs = {w}, IInv, Told, [Next]_vars
    PROVE  Told' /\ [OneWriter!Next]_(OneWriter!vars)
<1> DEFINE view == IF Up(w) THEN mem[w] ELSE NoValue
<1>1. Writer = w
  BY DEF Writer
<1>2. mem[w] \in Seq(Values) /\ NoValue \notin Seq(Values)
  BY ConstantsAssumption DEF IInv, TypeOK, Logs
<1>k. ASSUME acked' = acked, Up(w)' => Up(w) /\ mem'[w] = mem[w], Up(w) => Up(w)'
      PROVE  Told' /\ [OneWriter!Next]_(OneWriter!vars)
  <2>1. Told' /\ LongestAcked' = LongestAcked
    BY <1>k, OtherStepTold
  <2> QED
    BY <1>1, <1>k, <2>1 DEF OneWriter!vars
<1>d. ASSUME acked' = acked, ~Up(w)'
      PROVE  Told' /\ [OneWriter!Next]_(OneWriter!vars)
  <2>1. Told' /\ LongestAcked' = LongestAcked
    BY <1>d, OtherStepTold
  <2>2. CASE Up(w)
    <3>1. OneWriter!Crash
      BY <1>1, <1>2, <1>d, <2>1, <2>2 DEF OneWriter!Crash
    <3> QED
      BY <2>1, <3>1 DEF OneWriter!Next
  <2>3. CASE ~Up(w)
    BY <1>1, <1>d, <2>1, <2>3 DEF OneWriter!vars
  <2> QED
    BY <2>2, <2>3
<1>3. ASSUME Recover(w)
      PROVE  Told' /\ [OneWriter!Next]_(OneWriter!vars)
  <2>1. Told' /\ Replay(Len(file)) \in Seq(Values) /\ IsPrefix(LongestAcked, Replay(Len(file)))
    BY <1>3, RecoverTold
  <2>2. /\ ~Up(w) /\ Up(w)' /\ mem'[w] = Replay(Len(file))
        /\ LongestAcked' = LongestAcked
    BY <1>3 DEF Recover, Up, LongestAcked, IInv, TypeOK
  <2>3. OneWriter!Restart
    BY <1>1, <2>1, <2>2 DEF OneWriter!Restart, OneWriter!IsPrefix, IsPrefix
  <2> QED
    BY <2>1, <2>3 DEF OneWriter!Next
<1>4. ASSUME NEW v \in Values, Write(w, v) \/ ShortWrite(w, v)
      PROVE  Told' /\ [OneWriter!Next]_(OneWriter!vars)
  <2>1. acked' = acked /\ Up(w) /\ Up(w)' /\ mem'[w] = mem[w]
    BY <1>4 DEF Write, ShortWrite, StartApply, Up, IInv, TypeOK
  <2> QED
    BY <1>k, <2>1
<1>5. ASSUME Fsync(w) \/ FsyncError(w)
      PROVE  Told' /\ [OneWriter!Next]_(OneWriter!vars)
  <2>1. acked' = acked /\ Up(w) /\ Up(w)' /\ mem'[w] = mem[w]
    BY <1>5 DEF Fsync, FsyncError, Up, IInv, TypeOK
  <2> QED
    BY <1>k, <2>1
<1>6. ASSUME Commit(w)
      PROVE  Told' /\ [OneWriter!Next]_(OneWriter!vars)
  <2>1. /\ Told'
        /\ LongestAcked' = mem'[w]
        /\ mem'[w] \in Seq(Values)
        /\ Len(mem'[w]) = Len(mem[w]) + 1
        /\ IsPrefix(mem[w], mem'[w])
    BY <1>6, CommitTold
  <2>2. Up(w) /\ Up(w)'
    BY <1>6 DEF Commit, Acknowledge, Up, IInv, TypeOK
  <2>3. OneWriter!Accept
    BY <1>1, <1>2, <2>1, <2>2 DEF OneWriter!Accept, OneWriter!IsPrefix, IsPrefix
  <2> QED
    BY <2>1, <2>3 DEF OneWriter!Next
<1>7. ASSUME Crash(w) \/ PowerFailure \/ PowerFailureLosesFile
      PROVE  Told' /\ [OneWriter!Next]_(OneWriter!vars)
  <2>1. acked' = acked /\ ~Up(w)'
    BY <1>7 DEF Crash, PowerFailure, PowerFailureLosesFile, AllDown, Up, IInv, TypeOK
  <2> QED
    BY <1>d, <2>1
<1>8. ASSUME Rot \/ UNCHANGED vars
      PROVE  Told' /\ [OneWriter!Next]_(OneWriter!vars)
  <2>1. acked' = acked /\ Up(w)' = Up(w) /\ mem'[w] = mem[w]
    BY <1>8 DEF Rot, vars, procs, Up
  <2> QED
    BY <1>k, <2>1
<1>9. \A p \in Procs : p = w
  OBVIOUS
<1> QED
  BY <1>3, <1>4, <1>5, <1>6, <1>7, <1>8, <1>9 DEF Next

(* What one writer sees of its journal is what AcceptedLog promises:       *)
(* through I/O faults too, a restart that succeeds (state/store.js:20-25)  *)
(* has every entry the writer was told of, in its place.                   *)
THEOREM OneWriterImplementsLog ==
    ASSUME DirEntryDurable, NEW w, Procs = {w}
    PROVE  Spec => ImplementsAcceptedLog
<1>1. Init => IInv /\ Told /\ OneWriter!Init
  <2>1. Writer = w
    BY DEF Writer
  <2>2. Init => Told /\ LongestAcked = <<>>
    BY DEF Init, Told, Covers, LongestAcked
  <2>3. Init => OneWriter!Init
    BY <2>1, <2>2 DEF Init, Up, OneWriter!Init
  <2> QED
    BY <2>2, <2>3, InitInvariant
<1>2. IInv /\ Told /\ [Next]_vars => IInv' /\ Told' /\ [OneWriter!Next]_(OneWriter!vars)
  BY StepKeeps, OneWriterStep
<1> QED
  BY <1>1, <1>2, PTL DEF Spec, ImplementsAcceptedLog, OneWriter!Spec
=============================================================================
