------------------------ MODULE AuthorizationDaemon -------------------------
(***************************************************************************)
(* core/daemon.js, core/lifecycle.js, core/router-adapter.js and the       *)
(* boundaries they call (policy, validator, simulation, signed evidence),  *)
(* on top of state/store.js.                                               *)
(*                                                                         *)
(* One transaction goes through ten states.  Every call of the daemon runs *)
(* synchronously, but it hands control to injected functions (authorizer,  *)
(* build, simulator) between the moment it reads the durable state and the *)
(* moment it writes it, and such a function may call the daemon again.     *)
(* `calls' is the JavaScript call stack: each frame is a call waiting for  *)
(* its injected function to return.  Only the top frame can go on.         *)
(*                                                                         *)
(* Abstraction.  A refused or failed call changes nothing, so it is a step *)
(* only when it leaves a frame (Throw).  Actors are inside the authorizer's *)
(* verdict.  The result of a simulation is the transaction it was run on.  *)
(* A transaction digest is the transaction.  Storage is the journal as its *)
(* replay sees it; DurableState has the file underneath.                   *)
(***************************************************************************)
EXTENDS Naturals, SequencesExt

CONSTANTS
    Ids,         \* proposal identifiers
    Hashes,      \* proposal hashes
    Payloads,    \* transaction payloads the build function can return
    TxHashes,    \* chain transaction hashes
    None,        \* undefined / null
    NotATime,    \* a `now' that is no safe integer and that `<' does not place
                 \* before any time: NaN, a word, or the null a replay makes of it
    Down,        \* memory of a daemon that is not running
    MaxTime,     \* bound: last instant
    Window,      \* how old evidence may be (300000 ms in the code)
    MaxDepth,    \* bound: nested calls
    MaxFaults    \* bound: storage failures

ASSUME ConstantsAssumption ==
    /\ MaxTime \in Nat /\ Window \in Nat /\ MaxDepth \in Nat /\ MaxFaults \in Nat
    /\ None \notin Ids \union Hashes \union Payloads \union TxHashes
    /\ None \notin Nat \union {NotATime} /\ NotATime \notin Nat

VARIABLES
    journal,   \* the lines on disk: a sequence number and a lifecycle each
    records,   \* memory: the lifecycle values replayed or applied, or Down
    calls,     \* the call stack
    clock,     \* evidenceClock
    acked,     \* history: the longest log a caller was told is applied
    faults     \* history: storage failures so far

vars == <<journal, records, calls, clock, acked, faults>>

-----------------------------------------------------------------------------
(* Data.                                                                   *)

States == {"PROPOSED", "AUTHORIZED", "VALIDATED", "BOUND", "SIMULATED",
           "TIMED_WAIT", "RE_SIMULATED", "APPROVED", "EXECUTED", "VERIFIED"}

(* The edge out of each state; VERIFIED has none.                          *)
Successor ==
    [PROPOSED |-> "AUTHORIZED", AUTHORIZED |-> "VALIDATED", VALIDATED |-> "BOUND",
     BOUND |-> "SIMULATED", SIMULATED |-> "TIMED_WAIT",
     TIMED_WAIT |-> "RE_SIMULATED", RE_SIMULATED |-> "APPROVED",
     APPROVED |-> "EXECUTED", EXECUTED |-> "VERIFIED"]

(* Faulty: a bound lifecycle may be validated again, to bind anew.         *)
RevalidatingTRANSITIONS ==
    [s \in States |-> {Successor[t] : t \in {s} \ {"VERIFIED"}}
                       \union {"VALIDATED" : t \in {s} \intersect {"BOUND"}}]

TRANSITIONS == [s \in States |-> {Successor[t] : t \in {s} \ {"VERIFIED"}}]

Times == 0..MaxTime
Nows == Times \union {NotATime}
Optional(S) == S \union {None}

BoundTransactions ==
    [proposalId : Ids, proposalHash : Hashes, payload : Payloads]

(* Evidence, whoever made it: `signer' is the key its signature verifies under. *)
Evidence ==
    [signer : {"execution", "receipt", "other"}, timestamp : Times,
     proposalId : Ids, proposalHash : Hashes, transaction : BoundTransactions,
     txHash : Optional(TxHashes)]

Metadata ==
    [proposalHash : Optional(Hashes), payload : Optional({"object"}),
     boundTransaction : Optional(BoundTransactions),
     simulation : Optional(BoundTransactions),
     unlockAt : Optional(Times),
     resimulation : Optional(BoundTransactions),
     resimulatedAt : Optional(Nows),
     approvedAt : Optional(Nows),
     executionEvidence : Optional(Evidence),
     verificationEvidence : Optional(Evidence)]

NoMetadata ==
    [proposalHash |-> None, payload |-> None, boundTransaction |-> None,
     simulation |-> None, unlockAt |-> None, resimulation |-> None,
     resimulatedAt |-> None, approvedAt |-> None, executionEvidence |-> None,
     verificationEvidence |-> None]

Lifecycles == [state : States, proposalId : Optional(Ids), metadata : Metadata]

(* A call waiting in an injected function: where, what it will advance to, *)
(* the version and the lifecycle it holds, and the caller's `now'.         *)
Frames ==
    [at : {"policy", "bindPolicy", "build", "simulator"}, to : States,
     base : Nat, lifecycle : Lifecycles, now : Optional(Nows)]

Lines == [sequence : Nat, lifecycle : Lifecycles]

(* None is none of the things it stands for the absence of; no log is Down. *)
ASSUME NoneAssumption ==
    /\ None \notin {"object"}
    /\ None \notin BoundTransactions /\ None \notin Evidence
    /\ Down \notin Seq(Lifecycles)

-----------------------------------------------------------------------------
(* Reading the state.                                                      *)

Running == records # Down
Version == Len(records)

(* snapshot(): without a lifecycle the state reads PROPOSED, without an id. *)
Current ==
    IF records = <<>>
    THEN [state |-> "PROPOSED", proposalId |-> None, metadata |-> NoMetadata]
    ELSE records[Len(records)]

CanCall == Running /\ Len(calls) < MaxDepth
InCallback(where) == Running /\ calls # <<>> /\ Last(calls).at = where

Init ==
    /\ journal = <<>> /\ records = <<>> /\ calls = <<>>
    /\ clock = 0 /\ acked = <<>> /\ faults = 0

-----------------------------------------------------------------------------
(* DurableState.apply at the end of _applyTransition, with the call returning *)
(* to `stack'.  Validator.validate on the held snapshot always passes: the *)
(* transition was built from that snapshot.                                *)

Line(lifecycle) == [sequence |-> Version + 1, lifecycle |-> lifecycle]

(* Faulty: the version is not compared.                                    *)
ApplyAnyVersion(base, lifecycle) ==
    /\ journal' = Append(journal, Line(lifecycle))
    /\ records' = Append(records, lifecycle)
    /\ acked' = records'
    /\ UNCHANGED faults

ApplySucceeds(base, lifecycle) ==
    /\ base = Version
    /\ journal' = Append(journal, Line(lifecycle))
    /\ records' = Append(records, lifecycle)
    /\ acked' = records'
    /\ UNCHANGED faults

(* Faulty: memory is advanced before the append that fails.                *)
ApplyFailsLate(base, lifecycle) ==
    /\ base = Version
    /\ faults < MaxFaults
    /\ faults' = faults + 1
    /\ records' = Append(records, lifecycle)
    /\ UNCHANGED <<journal, acked>>

(* The line reached the file and fsync then threw: the caller sees an error. *)
ApplyFails(base, lifecycle) ==
    /\ base = Version
    /\ faults < MaxFaults
    /\ faults' = faults + 1
    /\ journal' = Append(journal, Line(lifecycle))
    /\ UNCHANGED <<records, acked>>

Apply(base, lifecycle, stack) ==
    /\ ApplySucceeds(base, lifecycle) \/ ApplyFails(base, lifecycle)
    /\ calls' = stack
    /\ UNCHANGED clock

(* advance() from `stack': the edge must be declared from the state read now, *)
(* the metadata is merged over the metadata read now, and the authorizer is *)
(* asked while the call holds that snapshot.                               *)
Advance(stack, to, metadata) ==
    /\ to \in TRANSITIONS[Current.state]
    /\ calls' = Append(stack,
                  [at |-> "policy", to |-> to, base |-> Version, now |-> None,
                   lifecycle |-> [state |-> to, proposalId |-> Current.proposalId,
                                  metadata |-> metadata]])
    /\ UNCHANGED <<journal, records, clock, acked, faults>>

(* A daemon operation waits in an injected function before it advances.    *)
Wait(stack, where, to, lifecycle, now) ==
    /\ calls' = Append(stack, [at |-> where, to |-> to, base |-> Version,
                               lifecycle |-> lifecycle, now |-> now])
    /\ UNCHANGED <<journal, records, clock, acked, faults>>

-----------------------------------------------------------------------------
(* The daemon's operations, each up to its first injected function.        *)

(* propose() asks no authorizer: it runs to its end.  proposalHash and     *)
(* payload are stored unchecked.                                           *)
Proposed(id, hash, payload) ==
    [state |-> "PROPOSED", proposalId |-> id,
     metadata |-> [NoMetadata EXCEPT !.proposalHash = hash, !.payload = payload]]

Propose(id, hash, payload) ==
    /\ CanCall
    /\ records = <<>>
    /\ Apply(Version, Proposed(id, hash, payload), calls)

Authorize == CanCall /\ Advance(calls, "AUTHORIZED", Current.metadata)

Validate == CanCall /\ Advance(calls, "VALIDATED", Current.metadata)

(* Faulty: the identity of the proposal is not checked before it is bound. *)
BindUnchecked ==
    /\ CanCall
    /\ Current.state = "VALIDATED"
    /\ Wait(calls, "bindPolicy", "BOUND", Current, None)

(* bind() and RouterAdapter.construct() up to its policy question.         *)
Bind ==
    /\ CanCall
    /\ Current.state = "VALIDATED"
    /\ Current.proposalId # None
    /\ Current.metadata.proposalHash # None
    /\ Current.metadata.payload # None
    /\ Wait(calls, "bindPolicy", "BOUND", Current, None)

Simulate ==
    /\ CanCall
    /\ Current.state = "BOUND"
    /\ Current.metadata.boundTransaction # None
    /\ Wait(calls, "simulator", "SIMULATED", Current, None)

(* Faulty: the metadata is replaced instead of merged.                     *)
EnterTimelockAfresh(unlockAt) ==
    /\ CanCall
    /\ Current.state = "SIMULATED"
    /\ Advance(calls, "TIMED_WAIT", [NoMetadata EXCEPT !.unlockAt = unlockAt])

EnterTimelock(unlockAt) ==
    /\ CanCall
    /\ Current.state = "SIMULATED"
    /\ Advance(calls, "TIMED_WAIT", [Current.metadata EXCEPT !.unlockAt = unlockAt])

(* JavaScript's `<': false of what is not a number.                        *)
Before(now, time) == now \in Times /\ now < time

(* Only a `now' before the unlock time is refused.                         *)
TimelockOver(now) ==
    /\ Current.metadata.unlockAt # None
    /\ ~Before(now, Current.metadata.unlockAt)

Resimulate(now) ==
    /\ CanCall
    /\ Current.state = "TIMED_WAIT"
    /\ TimelockOver(now)
    /\ Current.metadata.boundTransaction # None
    /\ Wait(calls, "simulator", "RE_SIMULATED", Current, now)

Approve(now) ==
    /\ CanCall
    /\ Current.state = "RE_SIMULATED"
    /\ TimelockOver(now)
    /\ Advance(calls, "APPROVED", [Current.metadata EXCEPT !.approvedAt = now])

(* TransitionEvidenceVerifier.verify                                       *)
Fresh(evidence) ==
    /\ evidence.timestamp <= clock
    /\ clock - evidence.timestamp <= Window

NamesCurrent(evidence) ==
    /\ evidence.proposalId = Current.proposalId
    /\ evidence.proposalHash = Current.metadata.proposalHash
    /\ evidence.transaction = Current.metadata.boundTransaction

(* Faulty: the evidence may be older than the approval.                    *)
ExecutionVerifiesAnyTime(evidence) ==
    Fresh(evidence) /\ NamesCurrent(evidence)
    /\ evidence.txHash # None /\ evidence.signer = "execution"

ExecutionVerifies(evidence) ==
    /\ Fresh(evidence)
    /\ Current.metadata.approvedAt \in Times
    /\ evidence.timestamp >= Current.metadata.approvedAt
    /\ NamesCurrent(evidence)
    /\ evidence.txHash # None
    /\ evidence.signer = "execution"

(* Faulty: the receipt may be for another chain transaction.               *)
ReceiptVerifiesAnyTx(evidence) ==
    /\ Fresh(evidence) /\ NamesCurrent(evidence)
    /\ evidence.timestamp >= Current.metadata.executionEvidence.timestamp
    /\ evidence.txHash # None
    /\ evidence.signer = "receipt"

ReceiptVerifies(evidence) ==
    /\ Fresh(evidence)
    /\ Current.metadata.executionEvidence # None
    /\ evidence.timestamp >= Current.metadata.executionEvidence.timestamp
    /\ NamesCurrent(evidence)
    /\ evidence.txHash # None
    /\ evidence.txHash = Current.metadata.executionEvidence.txHash
    /\ evidence.signer = "receipt"

Execute(evidence) ==
    /\ CanCall
    /\ Current.state = "APPROVED"
    /\ ExecutionVerifies(evidence)
    /\ Advance(calls, "EXECUTED",
               [Current.metadata EXCEPT !.executionEvidence = evidence])

Verify(evidence) ==
    /\ CanCall
    /\ Current.state = "EXECUTED"
    /\ ReceiptVerifies(evidence)
    /\ Advance(calls, "VERIFIED",
               [Current.metadata EXCEPT !.verificationEvidence = evidence])

-----------------------------------------------------------------------------
(* An injected function returns to the top frame.                          *)

BindAllowed ==
    /\ InCallback("bindPolicy")
    /\ calls' = [calls EXCEPT ![Len(calls)].at = "build"]
    /\ UNCHANGED <<journal, records, clock, acked, faults>>

(* build() returned: BoundTransaction from what construct() holds, then    *)
(* advance() on a fresh snapshot.                                          *)
Built(payload) ==
    /\ InCallback("build")
    /\ LET held == Last(calls).lifecycle
           tx == [proposalId |-> held.proposalId,
                  proposalHash |-> held.metadata.proposalHash,
                  payload |-> payload]
       IN  Advance(Front(calls), "BOUND",
                   [Current.metadata EXCEPT !.boundTransaction = tx])

(* The simulator passed the transaction the call holds.                    *)
SimulatorPassed ==
    /\ InCallback("simulator")
    /\ LET frame == Last(calls)
           tx == frame.lifecycle.metadata.boundTransaction
       IN  \/ /\ frame.to = "SIMULATED"
              /\ Advance(Front(calls), "SIMULATED",
                         [Current.metadata EXCEPT !.simulation = tx])
           \/ /\ frame.to = "RE_SIMULATED"
              /\ Advance(Front(calls), "RE_SIMULATED",
                         [Current.metadata EXCEPT !.resimulation = tx,
                                                  !.resimulatedAt = frame.now])

(* The authorizer allowed the transition: apply it.                        *)
Allowed ==
    /\ InCallback("policy")
    /\ Apply(Last(calls).base, Last(calls).lifecycle, Front(calls))

(* The injected function refused, failed or threw, or what follows it did. *)
Throw ==
    /\ Running /\ calls # <<>>
    /\ calls' = Front(calls)
    /\ UNCHANGED <<journal, records, clock, acked, faults>>

-----------------------------------------------------------------------------
(* Time, crash and restart.                                                *)

Tick ==
    /\ clock < MaxTime
    /\ clock' = clock + 1
    /\ UNCHANGED <<journal, records, calls, acked, faults>>

Crash ==
    /\ Running
    /\ records' = Down /\ calls' = <<>>
    /\ UNCHANGED <<journal, clock, acked, faults>>

(* _recover: a line written after one whose failure was reported repeats its *)
(* sequence number, and such a journal is refused.                         *)
Restart ==
    /\ ~Running
    /\ \A i \in 1..Len(journal) : journal[i].sequence = i
    /\ records' = [i \in 1..Len(journal) |-> journal[i].lifecycle]
    /\ UNCHANGED <<journal, calls, clock, acked, faults>>

(* At most one of these is possible in a given state.  The caller passes   *)
(* any `now'.                                                              *)
Operation ==
    \/ Authorize
    \/ Validate
    \/ Bind
    \/ Simulate
    \/ \E unlockAt \in Times : EnterTimelock(unlockAt)
    \/ \E now \in Nows : Resimulate(now) \/ Approve(now)
    \/ \E evidence \in Evidence : Execute(evidence) \/ Verify(evidence)

Call ==
    \/ \E id \in Ids, hash \in Optional(Hashes), payload \in {"object", None} :
          Propose(id, hash, payload)
    \/ Operation

Return ==
    \/ BindAllowed
    \/ \E payload \in Payloads : Built(payload)
    \/ SimulatorPassed
    \/ Allowed
    \/ Throw

Next == Call \/ Return \/ Tick \/ Crash \/ Restart

(* The callers keep retrying the operation the lifecycle waits for, every  *)
(* injected function returns and again and again agrees, and a daemon that *)
(* crashed is restarted.  Strong fairness, because nested calls and crashes *)
(* disable an operation again and again.                                   *)
Fairness ==
    /\ SF_vars(Operation)
    /\ SF_vars(BindAllowed)
    /\ SF_vars(\E payload \in Payloads : Built(payload))
    /\ SF_vars(SimulatorPassed)
    /\ SF_vars(Allowed)
    /\ WF_vars(Throw)
    /\ WF_vars(Tick)
    /\ WF_vars(Restart)

Spec == Init /\ [][Next]_vars
FairSpec == Spec /\ Fairness

-----------------------------------------------------------------------------
(* Properties.                                                             *)

(* The types of the variables, and the depth of the stack.                 *)
TypeOK ==
    /\ journal \in Seq(Lines)
    /\ records \in Seq(Lifecycles) \union {Down}
    /\ calls \in Seq(Frames)
    /\ clock \in Times
    /\ acked \in Seq(Lifecycles)
    /\ faults \in 0..MaxFaults

(* Whatever injected functions call back into the daemon, consecutive      *)
(* records of the audit log are one declared edge apart: no state is       *)
(* skipped, repeated or revisited (core/lifecycle.js TRANSITIONS), and a   *)
(* call that held a stale snapshot never overwrites a newer one.           *)
OneEdgeAtATime ==
    Running =>
        \A i \in 2..Len(records) : records[i].state \in TRANSITIONS[records[i - 1].state]

(* Once recorded, the proposal's identity, the bound transaction, the      *)
(* unlock time, simulations, approval and evidence never change or vanish, *)
(* nested calls and restarts included.                                     *)
RecordedFactsArePermanent ==
    Running =>
        \A j \in 1..Len(records) : \A i \in 1..j :
            /\ records[i].proposalId = records[j].proposalId
            /\ \A field \in DOMAIN NoMetadata :
                  records[i].metadata[field] # None =>
                      records[j].metadata[field] = records[i].metadata[field]

(* The bound transaction is that of the proposal it is stored with, and    *)
(* both simulations were run on that very transaction, although bind and   *)
(* simulate read the state before an injected function runs and write it   *)
(* after.                                                                  *)
BoundAndSimulatedForThisProposal ==
    Running =>
        LET m == Current.metadata
            tx == m.boundTransaction
        IN  /\ tx # None => /\ tx.proposalId = Current.proposalId
                            /\ tx.proposalHash = m.proposalHash
            /\ m.simulation # None => m.simulation = tx
            /\ m.resimulation # None => m.resimulation = tx

(* The timelock and the order of the signed outcomes, whatever `now' the   *)
(* callers pass: re-simulation and approval come at no time before the     *)
(* unlock time, an execution comes only after an approval at a time, the   *)
(* execution evidence no earlier than the approval, the receipt no earlier *)
(* than the execution; so nothing is executed before the unlock time.      *)
NothingBeforeUnlock ==
    Running =>
        LET m == Current.metadata
        IN  /\ m.resimulatedAt \in Times => m.resimulatedAt >= m.unlockAt
            /\ m.approvedAt \in Times => m.approvedAt >= m.unlockAt
            /\ m.executionEvidence # None =>
                  /\ m.approvedAt \in Times
                  /\ m.executionEvidence.timestamp >= m.approvedAt
                  /\ m.executionEvidence.timestamp >= m.unlockAt
            /\ m.verificationEvidence # None =>
                  m.verificationEvidence.timestamp >= m.executionEvidence.timestamp

(* EXECUTED and VERIFIED rest on evidence signed by two different keys     *)
(* about this proposal and this bound transaction, and the receipt is for  *)
(* the chain transaction that was executed.                                *)
EvidenceIsAboutBoundTransaction ==
    Running =>
        LET m == Current.metadata
            About(e) == /\ e.proposalId = Current.proposalId
                        /\ e.proposalHash = m.proposalHash
                        /\ e.transaction = m.boundTransaction
        IN  /\ Current.state \in {"EXECUTED", "VERIFIED"} =>
                  /\ m.executionEvidence # None
                  /\ About(m.executionEvidence)
                  /\ m.executionEvidence.signer = "execution"
            /\ Current.state = "VERIFIED" =>
                  /\ m.verificationEvidence # None
                  /\ About(m.verificationEvidence)
                  /\ m.verificationEvidence.signer = "receipt"
                  /\ m.verificationEvidence.txHash = m.executionEvidence.txHash

(* The daemon's memory, journal and crashes keep the promise of            *)
(* AcceptedLog: what a caller was told is applied survives every crash and *)
(* failed write, in order.                                                 *)
Store == INSTANCE AcceptedLog WITH
            Values <- Lifecycles, accepted <- acked, view <- records
ImplementsAcceptedLog == Store!Spec

(* A journalled proposal with an id, a hash and a payload reaches VERIFIED, *)
(* however often calls are nested, refused or cut off by a crash, unless   *)
(* its approval was given at no time: then no evidence is ever accepted    *)
(* (security/transition-evidence.js:41).                                   *)
WellProposed ==
    /\ journal # <<>>
    /\ journal[1].lifecycle.state = "PROPOSED"
    /\ journal[1].lifecycle.metadata.proposalHash # None
    /\ journal[1].lifecycle.metadata.payload # None
EventuallyVerified ==
    WellProposed ~> /\ Running
                    /\ Current.state = "VERIFIED" \/ Current.metadata.approvedAt = NotATime
=============================================================================
