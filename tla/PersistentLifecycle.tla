------------------------ MODULE PersistentLifecycle -------------------------
(***************************************************************************)
(* state/persistent-lifecycle.js: the lifecycle of proposals that are      *)
(* published by an external service, and its audit file.                   *)
(*                                                                         *)
(* Every method changes the record in memory first and appends one or more *)
(* audit lines afterwards; a line is written, synced, and then becomes the *)
(* end of the hash chain in memory.  A method may therefore fail with the  *)
(* memory advanced and the line missing, or with the line in the file and  *)
(* the chain in memory one line behind; a webhook appends up to three      *)
(* lines and the process may die between two of them.                      *)
(*                                                                         *)
(* Abstraction.  _recover folds the lines one by one, so the file is kept  *)
(* as what it folds to (disk) and whether its chain still verifies (chain). *)
(* A proposal stands for its id, hash and content, which never change.     *)
(* validationBindingHash is set together with validationValid.  The caller *)
(* of transition() passes no payload; an expected version only refuses.    *)
(* A line is hashed before it is turned into JSON: a field that is         *)
(* undefined is in the hash and not in the file (`exact' is FALSE of such  *)
(* a line), and the replay drops fields that are empty.                    *)
(***************************************************************************)
EXTENDS Naturals, Sequences, FiniteSets

CONSTANTS
    Proposals,
    Bindings,       \* transaction binding hashes
    Durations,      \* timelock durations a caller asks for
    ManualStates,   \* the states callers ask transition() for
    ApprovalIds,    \* what callers pass to approve(): an id ("given"), null
                    \* or an empty word ("empty"), or nothing ("undefined")
    EventIds,       \* webhook event ids
    Posts,          \* post ids of the external service
    None,           \* null
    Down,           \* memory of a process that is not running
    MaxTime,        \* bound: last instant
    MaxVersion,     \* bound: transitions of a proposal
    MaxFaults,      \* bound: failed appends and fsyncs
    MaxCrashes      \* bound: deaths of the process

ASSUME LifecycleAssumption ==
    /\ Durations \subseteq Nat
    /\ ApprovalIds \subseteq {"given", "empty", "undefined"}
    /\ MaxTime \in Nat /\ MaxVersion \in Nat /\ MaxFaults \in Nat /\ MaxCrashes \in Nat

VARIABLES
    mem,       \* this.records, or Down
    disk,      \* what _recover would rebuild from the file
    chain,     \* "whole"; "behind": lastAuditHash misses the last line;
               \* "broken": a line continues an earlier one or is torn;
               \* "tampered": a line does not have its hash
    clock,     \* clock()
    unlock,    \* history: per proposal the end of the last timelock that
               \* startTimelock returned
    faults,    \* history
    crashes    \* history

lifecycleVars == <<mem, disk, chain, clock, unlock, faults, crashes>>

-----------------------------------------------------------------------------
States == {"CREATED", "HASHED", "BUILT", "SIMULATED", "TIMELOCKED", "RE_SIMULATED",
           "APPROVED", "SIGNED", "BROADCAST", "CONFIRMED", "VERIFIED", "REJECTED"}

Successor ==
    [CREATED |-> "HASHED", HASHED |-> "BUILT", BUILT |-> "SIMULATED",
     SIMULATED |-> "TIMELOCKED", TIMELOCKED |-> "RE_SIMULATED",
     RE_SIMULATED |-> "APPROVED", APPROVED |-> "SIGNED", SIGNED |-> "BROADCAST",
     BROADCAST |-> "CONFIRMED", CONFIRMED |-> "VERIFIED"]

Final == {"VERIFIED", "REJECTED"}

(* _transition allows a declared edge, and any state again.                *)
Allowed(state, next) ==
    \/ next = state
    \/ state \notin Final /\ next \in {Successor[state], "REJECTED"}

Optional(S) == S \union {None}
Times == 0..MaxTime

Externals == [postId : Posts, requestId : Posts]

Approvals == [approvalId : ApprovalIds, transactionBindingHash : Optional(Bindings)]

Records ==
    [state : States, version : Nat,
     transactionBindingHash : Optional(Bindings), timelockUntil : Optional(Nat),
     simulationBindingHash : Optional(Bindings), validationValid : Optional(BOOLEAN),
     approval : Optional(Approvals), externalExecution : Optional(Externals),
     processedWebhookIds : SUBSET EventIds]

(* None and Down are no value they are told apart from.                    *)
ASSUME NoneAssumption ==
    /\ None \notin Bindings \union Nat \union BOOLEAN \union {"given", "empty", "undefined"}
    /\ None \notin Approvals /\ None \notin Externals /\ None \notin Records
    /\ Down \notin [Proposals -> Optional(Records)]

Blank ==
    [state |-> "CREATED", version |-> 0, transactionBindingHash |-> None,
     timelockUntil |-> None, simulationBindingHash |-> None, validationValid |-> None,
     approval |-> None, externalExecution |-> None, processedWebhookIds |-> {}]

NoPayload ==
    [transactionBindingHash |-> None, timelockUntil |-> None, approvalId |-> None,
     externalExecution |-> None]

-----------------------------------------------------------------------------
(* _recover, one line: the record of its proposal, created if need be.     *)

(* A field the payload does not carry keeps its value.                     *)
Given(value, old) == IF value = None THEN old ELSE value

ReplayTransition(r, line) ==
    LET p == line.payload
        next == line.nextState
    IN  [r EXCEPT
          !.state = next,
          !.version = line.version,
          !.transactionBindingHash = Given(p.transactionBindingHash, @),
          !.timelockUntil = Given(p.timelockUntil, @),
          !.simulationBindingHash =
              IF next = "RE_SIMULATED" THEN Given(p.transactionBindingHash, @) ELSE @,
          !.approval =
              IF next = "APPROVED" /\ p.approvalId = "given"
              THEN [approvalId |-> p.approvalId,
                    transactionBindingHash |-> p.transactionBindingHash] ELSE @,
          !.externalExecution =
              IF next = "BROADCAST" THEN Given(p.externalExecution, @) ELSE @]

(* Faulty: the timelock is not restored.                                   *)
ReplayWithoutTimelock(record, line) ==
    LET r == Given(record, Blank)
    IN  CASE line.type = "STATE_TRANSITION" ->
                 [ReplayTransition(r, line) EXCEPT !.timelockUntil = r.timelockUntil]
          [] line.type = "VALIDATION_RECORDED" -> [r EXCEPT !.validationValid = line.valid]
          [] line.type = "WEBHOOK_RECORDED" ->
                 [r EXCEPT !.processedWebhookIds = @ \union {line.eventId}]

Replay(record, line) ==
    LET r == Given(record, Blank)
    IN  CASE line.type = "STATE_TRANSITION" -> ReplayTransition(r, line)
          [] line.type = "VALIDATION_RECORDED" -> [r EXCEPT !.validationValid = line.valid]
          [] line.type = "WEBHOOK_RECORDED" ->
                 [r EXCEPT !.processedWebhookIds = @ \union {line.eventId}]

-----------------------------------------------------------------------------
(* A method on the record of p is a sequence of steps: what the record     *)
(* becomes, the line appended after that, and whether the file holds the   *)
(* line as it was hashed.                                                  *)

Running == mem # Down

Advance(r, next, payload) ==
    [record |-> [r EXCEPT !.state = next, !.version = @ + 1],
     line |-> [type |-> "STATE_TRANSITION", nextState |-> next,
               version |-> r.version + 1, payload |-> payload],
     exact |-> TRUE]

(* What the file folds to after the first n lines; no method appends more  *)
(* than three.                                                             *)
Written(p, steps, n) ==
    CASE n = 0 -> disk[p]
      [] n = 1 -> Replay(disk[p], steps[1].line)
      [] n = 2 -> Replay(Replay(disk[p], steps[1].line), steps[2].line)
      [] n = 3 -> Replay(Replay(Replay(disk[p], steps[1].line), steps[2].line),
                         steps[3].line)

(* The chain after the lines of the first n steps were appended.           *)
ChainAfter(steps, n) ==
    CASE n = 0 -> chain
      [] n > 0 /\ chain = "whole" ->
             IF \A i \in 1..n : steps[i].exact THEN "whole" ELSE "tampered"
      [] n > 0 /\ chain = "tampered" -> "tampered"
      [] OTHER -> "broken"

(* What is in memory and in the file after n lines and the effect of step k. *)
Reached(p, steps, k, n) ==
    /\ mem' = [mem EXCEPT ![p] = steps[k].record]
    /\ disk' = [disk EXCEPT ![p] = Written(p, steps, n)]

Returns(p, steps) ==
    /\ Reached(p, steps, Len(steps), Len(steps))
    /\ chain' = ChainAfter(steps, Len(steps))
    /\ UNCHANGED <<faults, crashes>>

(* appendFileSync or fsyncSync throws at step k, and the steps after k are *)
(* left: the line is not in the file, or half of it is and the next line   *)
(* will be glued to it, or all of it is and lastAuditHash misses it.       *)
Throws(p, steps) ==
    /\ faults < MaxFaults
    /\ faults' = faults + 1
    /\ \E k \in 1..Len(steps) :
          \/ /\ Reached(p, steps, k, k - 1)
             /\ chain' \in {ChainAfter(steps, k - 1), "broken"}
          \/ /\ Reached(p, steps, k, k)
             /\ chain' = IF ChainAfter(steps, k) = "whole" THEN "behind"
                                                          ELSE ChainAfter(steps, k)
    /\ UNCHANGED crashes

(* The process dies between two of the appends.                            *)
Dies(p, steps) ==
    /\ crashes < MaxCrashes
    /\ crashes' = crashes + 1
    /\ mem' = Down
    /\ \E k \in 1..(Len(steps) - 1) :
          /\ disk' = [disk EXCEPT ![p] = Written(p, steps, k)]
          /\ chain' = ChainAfter(steps, k)
    /\ UNCHANGED faults

Runs(p, steps) == Returns(p, steps) \/ Throws(p, steps) \/ Dies(p, steps)

Performs(p, steps) == Runs(p, steps) /\ UNCHANGED <<clock, unlock>>

(* The method neither failed nor died: its caller got an answer.           *)
Returned == faults' = faults /\ crashes' = crashes

Known(p) == Running /\ mem[p] # None
In(p, state) == Known(p) /\ mem[p].state = state

-----------------------------------------------------------------------------
(* The methods.                                                            *)

CreateProposal(p) ==
    /\ Running
    /\ mem[p] = None
    /\ Performs(p, <<Advance(Blank, "CREATED", NoPayload)>>)

Transition(p, next) ==
    /\ Known(p)
    /\ mem[p].version < MaxVersion
    /\ next \in ManualStates
    /\ Allowed(mem[p].state, next)
    /\ Performs(p, <<Advance(mem[p], next, NoPayload)>>)

BindTransaction(p, b) ==
    /\ In(p, "HASHED")
    /\ Performs(p, <<Advance([mem[p] EXCEPT !.transactionBindingHash = b], "BUILT",
                             [NoPayload EXCEPT !.transactionBindingHash = b])>>)

RecordValidation(p, valid) ==
    /\ Known(p)
    /\ Performs(p, <<[record |-> [mem[p] EXCEPT !.validationValid = valid],
                      line |-> [type |-> "VALIDATION_RECORDED", valid |-> valid],
                      exact |-> TRUE]>>)

(* recordSimulation, phase `initial': a built or simulated proposal.       *)
RecordSimulation(p, b) ==
    /\ Known(p)
    /\ mem[p].version < MaxVersion
    /\ mem[p].transactionBindingHash = b
    /\ Allowed(mem[p].state, "SIMULATED")
    /\ Performs(p, <<Advance(mem[p], "SIMULATED",
                             [NoPayload EXCEPT !.transactionBindingHash = b])>>)

StartTimelock(p, duration) ==
    /\ In(p, "SIMULATED")
    /\ LET until == clock + duration
           steps == <<Advance([mem[p] EXCEPT !.timelockUntil = until], "TIMELOCKED",
                              [NoPayload EXCEPT !.timelockUntil = until])>>
       IN  /\ Runs(p, steps)
           /\ unlock' = IF Returned THEN [unlock EXCEPT ![p] = until] ELSE unlock
    /\ UNCHANGED clock

(* clock() < null is false in JavaScript.                                  *)
TimelockOver(p) == mem[p].timelockUntil # None => clock >= mem[p].timelockUntil

(* recordSimulation, phase `resimulation'.                                 *)
Resimulate(p, b) ==
    /\ In(p, "TIMELOCKED")
    /\ mem[p].transactionBindingHash = b
    /\ TimelockOver(p)
    /\ Performs(p, <<Advance([mem[p] EXCEPT !.simulationBindingHash = b], "RE_SIMULATED",
                             [NoPayload EXCEPT !.transactionBindingHash = b])>>)

Approve(p, id) ==
    /\ In(p, "RE_SIMULATED")
    /\ mem[p].simulationBindingHash = mem[p].transactionBindingHash
    /\ TimelockOver(p)
    /\ LET b == mem[p].transactionBindingHash
           approval == [approvalId |-> id, transactionBindingHash |-> b]
           approved == Advance([mem[p] EXCEPT !.approval = approval], "APPROVED",
                               [NoPayload EXCEPT !.transactionBindingHash = b,
                                                 !.approvalId = id])
       IN  Performs(p, <<[approved EXCEPT !.exact = id # "undefined"]>>)

(* Faulty: the audit line does not carry the execution.                    *)
RecordExecutionUnaudited(p, execution) ==
    /\ In(p, "APPROVED")
    /\ Performs(p, <<Advance([mem[p] EXCEPT !.externalExecution = execution], "BROADCAST",
                             NoPayload)>>)

RecordExternalExecution(p, execution) ==
    /\ In(p, "APPROVED")
    /\ Performs(p, <<Advance([mem[p] EXCEPT !.externalExecution = execution], "BROADCAST",
                             [NoPayload EXCEPT !.externalExecution = execution])>>)

(* recordWebhook adds the event to the record and the file first; an event *)
(* that is "missing" is undefined.                                         *)
Logged(r, eventId, event) ==
    [record |-> [r EXCEPT !.processedWebhookIds = @ \union {eventId}],
     line |-> [type |-> "WEBHOOK_RECORDED", eventId |-> eventId],
     exact |-> event # "missing"]

Rejecting == {"post.failed", "post.cancelled"}

(* Faulty: one call confirms, and the next one verifies.                   *)
WebhookStepsOneEdge(r, eventId, event) ==
    LET logged == Logged(r, eventId, event)
    IN  <<logged>>
        \o CASE event = "post.published" /\ r.state = "BROADCAST" ->
                    <<Advance(logged.record, "CONFIRMED", NoPayload)>>
             [] event = "post.published" /\ r.state = "CONFIRMED" ->
                    <<Advance(logged.record, "VERIFIED", NoPayload)>>
             [] event \in Rejecting /\ r.state = "BROADCAST" ->
                    <<Advance(logged.record, "REJECTED", NoPayload)>>
             [] OTHER -> <<>>

(* The steps of recordWebhook.                                             *)
WebhookSteps(r, eventId, event) ==
    LET logged == Logged(r, eventId, event)
        confirmed == Advance(logged.record, "CONFIRMED", NoPayload)
    IN  <<logged>>
        \o CASE event = "post.published" /\ r.state = "BROADCAST" ->
                    <<confirmed, Advance(confirmed.record, "VERIFIED", NoPayload)>>
             [] event = "post.published" /\ r.state = "CONFIRMED" ->
                    <<Advance(logged.record, "VERIFIED", NoPayload)>>
             [] event \in Rejecting /\ r.state = "BROADCAST" ->
                    <<Advance(logged.record, "REJECTED", NoPayload)>>
             [] OTHER -> <<>>

Correlated(p, post) ==
    /\ Known(p)
    /\ mem[p].externalExecution # None
    /\ mem[p].externalExecution.postId = post

RecordWebhook(p, eventId, event, post) ==
    /\ Correlated(p, post)
    /\ eventId \notin mem[p].processedWebhookIds
    /\ Performs(p, WebhookSteps(mem[p], eventId, event))

(* What the owner of the proposals calls directly.                         *)
OwnerCalls ==
    \E p \in Proposals :
        \/ CreateProposal(p)
        \/ \E next \in ManualStates : Transition(p, next)
        \/ \E b \in Bindings : BindTransaction(p, b)
        \/ \E b \in Optional(Bindings) : RecordSimulation(p, b) \/ Resimulate(p, b)
        \/ \E d \in Durations : StartTimelock(p, d)
        \/ \E id \in ApprovalIds : Approve(p, id)

-----------------------------------------------------------------------------
Tick ==
    /\ clock < MaxTime
    /\ clock' = clock + 1
    /\ UNCHANGED <<mem, disk, chain, unlock, faults, crashes>>

(* The process dies between two calls.                                     *)
Crash ==
    /\ Running
    /\ crashes < MaxCrashes
    /\ crashes' = crashes + 1
    /\ mem' = Down
    /\ UNCHANGED <<disk, chain, clock, unlock, faults>>

(* The constructor: it throws AUDIT_CHAIN_BROKEN on a broken chain,        *)
(* AUDIT_EVENT_TAMPERED on a line that does not have its hash, and what    *)
(* JSON.parse throws on a torn one.                                        *)
Restart ==
    /\ ~Running
    /\ chain \in {"whole", "behind"}
    /\ mem' = disk
    /\ chain' = "whole"
    /\ UNCHANGED <<disk, clock, unlock, faults, crashes>>

LifecycleInit ==
    /\ mem = [p \in Proposals |-> None]
    /\ disk = [p \in Proposals |-> None]
    /\ chain = "whole"
    /\ clock = 0
    /\ unlock = [p \in Proposals |-> None]
    /\ faults = 0 /\ crashes = 0

LifecycleTypeOK ==
    /\ mem \in [Proposals -> Optional(Records)] \union {Down}
    /\ disk \in [Proposals -> Optional(Records)]
    /\ chain \in {"whole", "behind", "broken", "tampered"}
    /\ clock \in Times
    /\ unlock \in [Proposals -> Optional(Nat)]
    /\ faults \in 0..MaxFaults
    /\ crashes \in 0..MaxCrashes

(* What a replay keeps of a record: an approval needs an id.               *)
Replayable(r) ==
    IF r # None /\ r.approval # None /\ r.approval.approvalId # "given"
    THEN [r EXCEPT !.approval = None]
    ELSE r

(* Replaying the file rebuilds the memory, whatever was called and however *)
(* often the process died in the middle of it, as long as no append fails  *)
(* and no line was written that JSON does not keep as it was hashed (then  *)
(* the file is refused): all of it, but for an approval given without an   *)
(* id.                                                                     *)
RestartRebuildsMemory ==
    (Running /\ faults = 0 /\ chain # "tampered") =>
        /\ chain = "whole"
        /\ \A p \in Proposals : disk[p] = Replayable(mem[p])
=============================================================================
