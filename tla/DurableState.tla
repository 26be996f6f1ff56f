--------------------------- MODULE DurableState ----------------------------
(***************************************************************************)
(* state/store.js: the journal behind DurableState.                        *)
(*                                                                         *)
(* Every accepted transition is one line of an append-only file.  `apply'  *)
(* builds a hash-chained record, writes it, calls fsync, and only then     *)
(* advances the memory.  Start-up replays the whole file and refuses it if *)
(* any line does not verify.  Several processes may open one journal (the  *)
(* code takes no lock), any of them may die between two system calls, and  *)
(* a power failure loses what fsync has not pinned down.                   *)
(*                                                                         *)
(* Abstraction.  A transition is a member of Values; the data it reduces   *)
(* to is a function of the transitions replayed, so a process' memory is   *)
(* the sequence of them and its version is the length.  A record hash is   *)
(* injective and covers the previous hash, so it stands for the sequence   *)
(* of all transitions up to its record; GENESIS is <<>>.  versionBefore,   *)
(* versionAfter and expectedVersion are sequence - 1, sequence and         *)
(* sequence - 1 in every record the code builds.                           *)
(***************************************************************************)
EXTENDS Naturals, FiniteSets, SequencesExt

CONSTANTS
    Procs,            \* processes that open the journal
    Values,           \* transitions
    NoValue,          \* no append in progress
    Fragment,         \* a line that JSON.parse rejects
    DirEntryDurable,  \* TRUE: fsync of a new file also persists its name
    MaxJournal,       \* bound: lines in the file
    MaxFaults         \* bound: I/O faults (short write, fsync error, rot, tear)

ASSUME ConstantsAssumption ==
    /\ NoValue \notin Values \union Seq(Values)
    /\ DirEntryDurable \in BOOLEAN
    /\ MaxJournal \in Nat
    /\ MaxFaults \in Nat

VARIABLES
    file,       \* the lines of the journal, as a reader of the file sees them
    newline,    \* the file is empty or ends with a newline
    synced,     \* how many lines an fsync has pinned down
    linked,     \* the directory entry of the file is on disk
    stage,      \* per process: where it is in `apply'
    mem,        \* per process: _records, _lastRecordHash, _data and _version
    pending,    \* per process: the transition being appended
    acked,      \* history: the logs some process reported as accepted
    faults      \* history: I/O faults so far

disk == <<file, newline, synced, linked>>
procs == <<stage, mem, pending>>
vars == <<file, newline, synced, linked, stage, mem, pending, acked, faults>>

Logs == Seq(Values)
Record(log, v) ==
    [sequence |-> Len(log) + 1, previousHash |-> log, value |-> v,
     recordHash |-> Append(log, v)]
Records == [sequence : Nat, previousHash : Logs, value : Values, recordHash : Logs]

ASSUME FragmentAssumption == Fragment \notin Records

Up(p) == stage[p] # "down"
Replay(n) == [i \in 1..n |-> file[i].value]

(* Faulty: a record is checked on its own, not against its place.          *)
VerifiedAlone(i) == file[i].recordHash = Append(file[i].previousHash, file[i].value)

(* Faulty: the stored hash is not recomputed from the record.              *)
VerifiedPlace(i) == file[i].sequence = i

(* _verifyRecord against what has been replayed before line i.             *)
Verified(i) ==
    /\ file[i].sequence = i
    /\ file[i].previousHash = Replay(i - 1)
    /\ file[i].recordHash = Append(file[i].previousHash, file[i].value)

(* _recover accepts the file.                                              *)
Recoverable ==
    /\ newline
    /\ \A i \in 1..Len(file) : file[i] # Fragment
    /\ \A i \in 1..Len(file) : Verified(i)

Init ==
    /\ file = <<>> /\ newline = TRUE /\ synced = 0 /\ linked = FALSE
    /\ stage = [p \in Procs |-> "ready"]
    /\ mem = [p \in Procs |-> <<>>]
    /\ pending = [p \in Procs |-> NoValue]
    /\ acked = {} /\ faults = 0

(* The constructor on an existing path: it throws unless the file verifies. *)
Recover(p) ==
    /\ stage[p] = "down"
    /\ Recoverable
    /\ stage' = [stage EXCEPT ![p] = "ready"]
    /\ mem' = [mem EXCEPT ![p] = Replay(Len(file))]
    /\ UNCHANGED <<disk, pending, acked, faults>>

-----------------------------------------------------------------------------
(* apply: build the record, write the line, fsync, advance the memory.     *)

(* writeSync with O_APPEND.  Bytes that follow an unterminated fragment    *)
(* only complete that unreadable line.                                     *)
AppendLine(line, terminated) ==
    /\ file' = IF newline THEN Append(file, line) ELSE file
    /\ newline' = terminated
    /\ UNCHANGED <<synced, linked>>

StartApply(p, v) ==
    /\ stage[p] = "ready"
    /\ Len(file) < MaxJournal
    /\ stage' = [stage EXCEPT ![p] = "written"]
    /\ pending' = [pending EXCEPT ![p] = v]
    /\ UNCHANGED <<mem, acked>>

Write(p, v) ==
    /\ StartApply(p, v)
    /\ AppendLine(Record(mem[p], v), TRUE)
    /\ UNCHANGED faults

Fault ==
    /\ faults < MaxFaults
    /\ faults' = faults + 1

(* writeSync wrote fewer bytes than asked; its return value is not looked at. *)
ShortWrite(p, v) ==
    /\ Fault
    /\ StartApply(p, v)
    /\ AppendLine(Fragment, FALSE)

(* Faulty: the line is left to the operating system's cache.               *)
FsyncSkipped(p) ==
    /\ stage[p] = "written"
    /\ stage' = [stage EXCEPT ![p] = "durable"]
    /\ linked' = (linked \/ DirEntryDurable)
    /\ UNCHANGED <<file, newline, synced, mem, pending, acked, faults>>

Fsync(p) ==
    /\ stage[p] = "written"
    /\ stage' = [stage EXCEPT ![p] = "durable"]
    /\ synced' = Len(file)
    /\ linked' = (linked \/ DirEntryDurable)
    /\ UNCHANGED <<file, newline, mem, pending, acked, faults>>

(* fsyncSync throws: apply fails, the line stays in the file.              *)
FsyncError(p) ==
    /\ Fault
    /\ stage[p] = "written"
    /\ stage' = [stage EXCEPT ![p] = "ready"]
    /\ pending' = [pending EXCEPT ![p] = NoValue]
    /\ UNCHANGED <<disk, mem, acked>>

Acknowledge(p) ==
    /\ stage[p] = "durable"
    /\ stage' = [stage EXCEPT ![p] = "ready"]
    /\ pending' = [pending EXCEPT ![p] = NoValue]
    /\ acked' = acked \union {Append(mem[p], pending[p])}
    /\ UNCHANGED <<disk, faults>>

(* Faulty: the record is not pushed, so the next one reuses its place.     *)
CommitWithoutPush(p) == Acknowledge(p) /\ UNCHANGED mem

(* Faulty: the pending transition is cleared before it is reduced.         *)
CommitAfterClear(p) == Acknowledge(p) /\ mem' = [mem EXCEPT ![p] = Append(@, NoValue)]

(* _append returned: push the record, keep its hash, advance data and version. *)
Commit(p) == Acknowledge(p) /\ mem' = [mem EXCEPT ![p] = Append(@, pending[p])]

-----------------------------------------------------------------------------
(* The environment.                                                        *)

(* A process dies between two system calls; the operating system lives on. *)
Crash(p) ==
    /\ Up(p)
    /\ stage' = [stage EXCEPT ![p] = "down"]
    /\ mem' = [mem EXCEPT ![p] = <<>>]
    /\ pending' = [pending EXCEPT ![p] = NoValue]
    /\ UNCHANGED <<disk, acked, faults>>

AllDown ==
    /\ stage' = [p \in Procs |-> "down"]
    /\ mem' = [p \in Procs |-> <<>>]
    /\ pending' = [p \in Procs |-> NoValue]

(* Power fails: the lines no fsync covered are lost from some point on, and *)
(* the first lost line may leave a torn piece.                             *)
PowerFailure ==
    /\ AllDown
    /\ \E n \in synced..Len(file) :
          \/ /\ file' = SubSeq(file, 1, n)
             /\ newline' = (n < Len(file) \/ newline)
             /\ synced' = n
             /\ UNCHANGED faults
          \/ /\ n < Len(file)
             /\ Fault
             /\ file' = Append(SubSeq(file, 1, n), Fragment)
             /\ newline' = FALSE
             /\ synced' = n + 1
    /\ linked' = (linked \/ file # <<>>)
    /\ UNCHANGED acked

(* Power fails before the name of a new file reached the disk.             *)
PowerFailureLosesFile ==
    /\ ~linked
    /\ AllDown
    /\ file' = <<>> /\ newline' = TRUE /\ synced' = 0
    /\ UNCHANGED <<linked, acked, faults>>

(* The medium alters the transition of a stored record.                    *)
Rot ==
    /\ Fault
    /\ \E i \in 1..Len(file), v \in Values :
          /\ file[i] # Fragment
          /\ v # file[i].value
          /\ file' = [file EXCEPT ![i].value = v]
    /\ UNCHANGED <<newline, synced, linked, procs, acked>>

Next ==
    \/ \E p \in Procs :
          \/ Recover(p)
          \/ \E v \in Values : Write(p, v) \/ ShortWrite(p, v)
          \/ Fsync(p)
          \/ FsyncError(p)
          \/ Commit(p)
          \/ Crash(p)
    \/ PowerFailure
    \/ PowerFailureLosesFile
    \/ Rot

Spec == Init /\ [][Next]_vars

-----------------------------------------------------------------------------
(* The types of the variables.                                             *)
TypeOK ==
    /\ file \in Seq(Records \union {Fragment})
    /\ newline \in BOOLEAN
    /\ synced \in 0..Len(file)
    /\ linked \in BOOLEAN
    /\ stage \in [Procs -> {"down", "ready", "written", "durable"}]
    /\ mem \in [Procs -> Logs]
    /\ pending \in [Procs -> Values \union {NoValue}]
    /\ acked \subseteq Logs
    /\ faults \in Nat

(* "A restart cannot silently lose or alter an accepted transition"        *)
(* (state/store.js:12): whenever a restart would accept the file, the log  *)
(* it rebuilds extends every log any process ever reported as accepted.    *)
NoSilentLoss ==
    Recoverable => \A log \in acked : IsPrefix(log, Replay(Len(file)))

(* A process never holds in memory what the journal does not: as long as   *)
(* the file would be accepted, the memory of a running process is a prefix *)
(* of the log in it.  This is the write-ahead order of `apply'.            *)
MemoryIsJournalled ==
    Recoverable => \A p \in Procs : Up(p) => IsPrefix(mem[p], Replay(Len(file)))

(* With one process and no I/O fault, a crash at any point (power failure  *)
(* included) leaves a journal that the next start accepts.                 *)
CrashesAreRecoverable ==
    (Cardinality(Procs) = 1 /\ faults = 0) => Recoverable

-----------------------------------------------------------------------------
(* One writer implements AcceptedLog.                                      *)
LongestAcked ==
    CHOOSE log \in acked \union {<<>>} :
        \A other \in acked : Len(other) <= Len(log)

Writer == CHOOSE p \in Procs : TRUE
OneWriter ==
    INSTANCE AcceptedLog WITH
        Down <- NoValue,
        accepted <- LongestAcked,
        view <- IF Up(Writer) THEN mem[Writer] ELSE NoValue

(* What a single writer sees of the journal is the promise of AcceptedLog. *)
ImplementsAcceptedLog == OneWriter!Spec
=============================================================================
