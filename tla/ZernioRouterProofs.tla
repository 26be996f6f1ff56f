------------------------- MODULE ZernioRouterProofs -------------------------
(***************************************************************************)
(* For every number of proposals, every event and every number of failed   *)
(* appends and deaths: the audit file rebuilds what a replay keeps of the  *)
(* memory as long as no append fails and every line is written as it was   *)
(* hashed, no request leaves before the timelock is over, and the router   *)
(* keeps the promise of PublishOnce.                                       *)
(*                                                                         *)
(* Memory and file may be any number of lines apart once an append has     *)
(* failed, so what is invariant relates them: both hold the timelock that  *)
(* was returned and have moved past it (Locked), an execution names the    *)
(* post of its own proposal (OwnPost), and a verdict in the file is the    *)
(* verdict in memory (InStep).  A method is a chain of steps, each a       *)
(* record and the line that follows it; the invariant holds between any    *)
(* two of them, with the last line written or not (ReachedInStep), which   *)
(* is what a failed append and a death in mid-method come to.              *)
(***************************************************************************)
EXTENDS ZernioRouter, SequenceTheorems, FiniteSetTheorems, TLAPS

SinceTimelocked ==
    {"TIMELOCKED", "RE_SIMULATED", "APPROVED", "SIGNED", "BROADCAST", "CONFIRMED",
     "VERIFIED", "REJECTED"}

SinceApproved ==
    {"APPROVED", "SIGNED", "BROADCAST", "CONFIRMED", "VERIFIED", "REJECTED"}

(* A record of a proposal whose timelock ends at u.                        *)
Locked(r, u) ==
    u # None => r # None /\ r.timelockUntil = u /\ r.state \in SinceTimelocked

PostId(p) == <<p, "request">>

OwnPost(p, r) ==
    (r # None /\ r.externalExecution # None) => r.externalExecution.postId = PostId(p)

Sound(p, r, u) == Locked(r, u) /\ OwnPost(p, r)

(* Nothing was simulated before there was a transaction, and no approval   *)
(* was given without moving on.                                            *)
Orderly(r) ==
    r # None =>
        /\ r.transactionBindingHash = None => r.simulationBindingHash = None
        /\ r.approval # None => r.state \in SinceApproved

(* Memory m of a proposal over what the file folds to, d.                  *)
InStep(p, m, d, u) ==
    /\ Sound(p, m, u)
    /\ d # None => m # None
    /\ (d # None /\ d.state \in Final) => m.state = d.state

FilesSound == \A p \in Proposals : Sound(p, disk[p], unlock[p])

MemoryInStep ==
    Running => \A p \in Proposals : InStep(p, mem[p], disk[p], unlock[p])

(* Every approval has an id and every webhook an event that JSON keeps.    *)
Complete == "undefined" \notin ApprovalIds /\ "missing" \notin OtherEvents
Named(event) == Complete => event # "missing"

Chains == {"whole", "behind", "broken", "tampered"}

Rebuilt ==
    /\ Complete => chain # "tampered"
    /\ faults = 0 =>
          /\ chain \in {"whole", "tampered"}
          /\ \A p \in Proposals : Replayable(disk[p]) = disk[p] /\ Orderly(disk[p])
          /\ Running =>
                \A p \in Proposals : disk[p] = Replayable(mem[p]) /\ Orderly(mem[p])

CallsApproved ==
    \A p \in Proposals, method \in Methods :
        call[p][method] # "none" =>
            /\ Running
            /\ mem[p] # None /\ mem[p].state \in SinceApproved
            /\ unlock[p] # None => clock >= unlock[p]

OnePost ==
    \A x \in posts :
        /\ x.id = PostId(x.proposal)
        /\ \A y \in posts : y.proposal = x.proposal => x = y

IInv == TypeOK /\ FilesSound /\ MemoryInStep /\ Rebuilt /\ CallsApproved /\ OnePost

-----------------------------------------------------------------------------
(* The lines of the audit file.                                            *)

Payloads ==
    [transactionBindingHash : Optional(Bindings), timelockUntil : Optional(Nat),
     approvalId : Optional(ApprovalIds), externalExecution : Optional(Externals)]

TransitionLines ==
    [type : {"STATE_TRANSITION"}, nextState : States, version : Nat, payload : Payloads]
ValidationLines == [type : {"VALIDATION_RECORDED"}, valid : BOOLEAN]
WebhookLines == [type : {"WEBHOOK_RECORDED"}, eventId : EventIds]
Lines == TransitionLines \union ValidationLines \union WebhookLines

LEMMA BlankTyped == Blank \in Records /\ NoPayload \in Payloads
  BY DEF Blank, NoPayload, Records, Payloads, States, Optional

LEMMA GivenTyped ==
    ASSUME NEW S, NEW value \in Optional(S), NEW old \in Optional(S)
    PROVE  Given(value, old) \in Optional(S)
  BY DEF Given, Optional

(* A record is determined by its fields.                                   *)
LEMMA SameFields ==
    ASSUME NEW r \in Records, NEW s \in Records,
           r.state = s.state, r.version = s.version,
           r.transactionBindingHash = s.transactionBindingHash,
           r.timelockUntil = s.timelockUntil,
           r.simulationBindingHash = s.simulationBindingHash,
           r.validationValid = s.validationValid, r.approval = s.approval,
           r.externalExecution = s.externalExecution,
           r.processedWebhookIds = s.processedWebhookIds
    PROVE  r = s
  BY DEF Records

(* Replaying a line on a record, field by field.                           *)
LEMMA ReplayOfTransition ==
    ASSUME NEW r \in Records, NEW line \in TransitionLines
    PROVE  /\ Replay(r, line) \in Records
           /\ Replay(r, line).state = line.nextState
           /\ Replay(r, line).version = line.version
           /\ Replay(r, line).transactionBindingHash
                = Given(line.payload.transactionBindingHash, r.transactionBindingHash)
           /\ Replay(r, line).timelockUntil
                = Given(line.payload.timelockUntil, r.timelockUntil)
           /\ Replay(r, line).simulationBindingHash
                = IF line.nextState = "RE_SIMULATED"
                  THEN Given(line.payload.transactionBindingHash, r.simulationBindingHash)
                  ELSE r.simulationBindingHash
           /\ Replay(r, line).validationValid = r.validationValid
           /\ Replay(r, line).approval
                = IF line.nextState = "APPROVED" /\ line.payload.approvalId = "given"
                  THEN [approvalId |-> line.payload.approvalId,
                        transactionBindingHash |-> line.payload.transactionBindingHash]
                  ELSE r.approval
           /\ Replay(r, line).externalExecution
                = IF line.nextState = "BROADCAST"
                  THEN Given(line.payload.externalExecution, r.externalExecution)
                  ELSE r.externalExecution
           /\ Replay(r, line).processedWebhookIds = r.processedWebhookIds
<1>1. r # None /\ line.type = "STATE_TRANSITION"
  BY NoneAssumption DEF TransitionLines
<1>2. Given(r, Blank) = r
  BY <1>1 DEF Given
<1>3. Replay(r, line) = ReplayTransition(r, line)
  BY <1>1, <1>2 DEF Replay
<1>4. line.payload \in Payloads /\ line.nextState \in States /\ line.version \in Nat
  BY DEF TransitionLines
<1>5. /\ Given(line.payload.transactionBindingHash, r.transactionBindingHash) \in Optional(Bindings)
      /\ Given(line.payload.transactionBindingHash, r.simulationBindingHash) \in Optional(Bindings)
      /\ Given(line.payload.timelockUntil, r.timelockUntil) \in Optional(Nat)
      /\ Given(line.payload.externalExecution, r.externalExecution) \in Optional(Externals)
  BY <1>4, GivenTyped DEF Records, Payloads
<1>6. line.payload.approvalId = "given" =>
         [approvalId |-> line.payload.approvalId,
          transactionBindingHash |-> line.payload.transactionBindingHash] \in Optional(Approvals)
  BY <1>4, NoneAssumption DEF Payloads, Approvals, Optional
<1>7. /\ Replay(r, line).state = line.nextState
      /\ Replay(r, line).timelockUntil = Given(line.payload.timelockUntil, r.timelockUntil)
      /\ Replay(r, line).transactionBindingHash
            = Given(line.payload.transactionBindingHash, r.transactionBindingHash)
      /\ Replay(r, line).version = line.version
  BY <1>3 DEF ReplayTransition, Records
<1>8. /\ Replay(r, line).simulationBindingHash
            = IF line.nextState = "RE_SIMULATED"
              THEN Given(line.payload.transactionBindingHash, r.simulationBindingHash)
              ELSE r.simulationBindingHash
      /\ Replay(r, line).validationValid = r.validationValid
      /\ Replay(r, line).processedWebhookIds = r.processedWebhookIds
  BY <1>3 DEF ReplayTransition, Records
<1>9. /\ Replay(r, line).approval
            = IF line.nextState = "APPROVED" /\ line.payload.approvalId = "given"
              THEN [approvalId |-> line.payload.approvalId,
                    transactionBindingHash |-> line.payload.transactionBindingHash]
              ELSE r.approval
      /\ Replay(r, line).externalExecution
            = IF line.nextState = "BROADCAST"
              THEN Given(line.payload.externalExecution, r.externalExecution)
              ELSE r.externalExecution
  BY <1>3 DEF ReplayTransition, Records
<1>10. Replay(r, line) \in Records
  <2> DEFINE
        simulation == IF line.nextState = "RE_SIMULATED"
                      THEN Given(line.payload.transactionBindingHash, r.simulationBindingHash)
                      ELSE r.simulationBindingHash
        approval == IF line.nextState = "APPROVED" /\ line.payload.approvalId = "given"
                    THEN [approvalId |-> line.payload.approvalId,
                          transactionBindingHash |-> line.payload.transactionBindingHash]
                    ELSE r.approval
        execution == IF line.nextState = "BROADCAST"
                     THEN Given(line.payload.externalExecution, r.externalExecution)
                     ELSE r.externalExecution
  <2>1. /\ simulation \in Optional(Bindings)
        /\ approval \in Optional(Approvals)
        /\ execution \in Optional(Externals)
    BY <1>5, <1>6 DEF Records
  <2>2. Replay(r, line) =
          [r EXCEPT !.state = line.nextState, !.version = line.version,
                    !.transactionBindingHash =
                        Given(line.payload.transactionBindingHash, r.transactionBindingHash),
                    !.timelockUntil = Given(line.payload.timelockUntil, r.timelockUntil),
                    !.simulationBindingHash = simulation,
                    !.approval = approval,
                    !.externalExecution = execution]
    BY <1>3 DEF ReplayTransition, Records
  <2> HIDE DEF simulation, approval, execution
  <2> QED
    BY <1>4, <1>5, <2>1, <2>2 DEF Records
<1> QED
  BY <1>7, <1>8, <1>9, <1>10

LEMMA ReplayOfOther ==
    ASSUME NEW r \in Records, NEW line \in ValidationLines \union WebhookLines
    PROVE  /\ Replay(r, line) \in Records
           /\ Replay(r, line).state = r.state
           /\ Replay(r, line).timelockUntil = r.timelockUntil
           /\ Replay(r, line).externalExecution = r.externalExecution
           /\ Replay(r, line) =
                IF line \in ValidationLines
                THEN [r EXCEPT !.validationValid = line.valid]
                ELSE [r EXCEPT !.processedWebhookIds = @ \union {line.eventId}]
<1>1. Given(r, Blank) = r
  BY NoneAssumption DEF Given
<1>2. CASE line \in ValidationLines
  <2>1. line.type = "VALIDATION_RECORDED" /\ line.valid \in Optional(BOOLEAN)
    BY <1>2 DEF ValidationLines, Optional
  <2>2. Replay(r, line) = [r EXCEPT !.validationValid = line.valid]
    BY <1>1, <2>1 DEF Replay
  <2> QED
    BY <1>2, <2>1, <2>2 DEF Records
<1>3. CASE line \in WebhookLines
  <2>1. line.type = "WEBHOOK_RECORDED" /\ line.eventId \in EventIds /\ line \notin ValidationLines
    BY <1>3 DEF WebhookLines, ValidationLines
  <2>2. Replay(r, line) = [r EXCEPT !.processedWebhookIds = @ \union {line.eventId}]
    BY <1>1, <2>1 DEF Replay
  <2> QED
    BY <2>1, <2>2 DEF Records
<1> QED
  BY <1>2, <1>3

(* A line on no record is a line on the blank one.                         *)
LEMMA ReplayOnNone ==
    ASSUME NEW line PROVE Replay(None, line) = Replay(Blank, line)
<1>1. Given(None, Blank) = Blank /\ Given(Blank, Blank) = Blank
  BY DEF Given
<1> QED
  BY <1>1 DEF Replay

LEMMA ReplayTyped ==
    ASSUME NEW r \in Optional(Records), NEW line \in Lines
    PROVE  Replay(r, line) \in Records
<1>1. PICK e \in Records : Replay(r, line) = Replay(e, line)
  BY ReplayOnNone, BlankTyped DEF Optional
<1>2. CASE line \in TransitionLines
  BY <1>1, <1>2, ReplayOfTransition
<1>3. CASE line \in ValidationLines \union WebhookLines
  BY <1>1, <1>3, ReplayOfOther
<1> QED
  BY <1>2, <1>3 DEF Lines

(* What a replay keeps of an approval.                                     *)
Kept(approval) ==
    IF approval # None /\ approval.approvalId # "given" THEN None ELSE approval

(* A replay keeps everything of a record but an approval without an id.    *)
LEMMA ReplayableFields ==
    ASSUME NEW r \in Records
    PROVE  /\ Replayable(r) \in Records
           /\ Replayable(r).state = r.state
           /\ Replayable(r).version = r.version
           /\ Replayable(r).transactionBindingHash = r.transactionBindingHash
           /\ Replayable(r).timelockUntil = r.timelockUntil
           /\ Replayable(r).simulationBindingHash = r.simulationBindingHash
           /\ Replayable(r).validationValid = r.validationValid
           /\ Replayable(r).approval = Kept(r.approval)
           /\ Replayable(r).externalExecution = r.externalExecution
           /\ Replayable(r).processedWebhookIds = r.processedWebhookIds
<1>1. r # None /\ None \in Optional(Approvals)
  BY NoneAssumption DEF Optional
<1>2. CASE r.approval # None /\ r.approval.approvalId # "given"
  <2>1. Replayable(r) = [r EXCEPT !.approval = None] /\ Kept(r.approval) = None
    BY <1>1, <1>2 DEF Replayable, Kept
  <2> QED
    BY <1>1, <2>1 DEF Records
<1>3. CASE ~(r.approval # None /\ r.approval.approvalId # "given")
  BY <1>1, <1>3 DEF Replayable, Kept
<1> QED
  BY <1>2, <1>3

(* What is replayed is replayed again as it is.                            *)
LEMMA ReplayableTwice ==
    ASSUME NEW r \in Optional(Records)
    PROVE  /\ Replayable(r) \in Optional(Records)
           /\ Replayable(Replayable(r)) = Replayable(r)
           /\ Orderly(r) => Orderly(Replayable(r))
<1>1. CASE r = None
  BY <1>1 DEF Replayable, Optional
<1>2. CASE r # None
  <2>1. r \in Records
    BY <1>2 DEF Optional
  <2>2. Replayable(r) \in Records /\ Replayable(r).approval = Kept(r.approval)
    BY <2>1, ReplayableFields
  <2>3. Replayable(Replayable(r)) = Replayable(r)
    BY <2>2 DEF Replayable, Kept
  <2>4. Orderly(r) => Orderly(Replayable(r))
    BY <1>2, <2>1, ReplayableFields DEF Orderly, Kept
  <2> QED
    BY <2>2, <2>3, <2>4 DEF Optional
<1> QED
  BY <1>1, <1>2

-----------------------------------------------------------------------------
(* The edges of the lifecycle.                                             *)

LEMMA SuccessorTable ==
    \A s \in States \ Final :
        /\ Successor[s] \in States
        /\ s \in SinceTimelocked => Successor[s] \in SinceTimelocked
        /\ s \in SinceApproved => Successor[s] \in SinceApproved
  BY DEF States, Final, Successor, SinceTimelocked, SinceApproved

(* _transition has an edge that only recordExternalExecution may take.     *)
Edge(s, next) == Allowed(s, next) \/ (s = "APPROVED" /\ next = "BROADCAST")

LEMMA EdgeStates ==
    ASSUME NEW s \in States, NEW next, Edge(s, next)
    PROVE  /\ next \in States
           /\ s \in SinceTimelocked => next \in SinceTimelocked
           /\ s \in SinceApproved => next \in SinceApproved
           /\ s \in Final => next = s
<1>1. CASE Allowed(s, next)
  BY <1>1, SuccessorTable DEF Allowed, SinceTimelocked, SinceApproved, States
<1>2. CASE s = "APPROVED" /\ next = "BROADCAST"
  BY <1>2 DEF States, SinceTimelocked, SinceApproved, Final
<1> QED
  BY <1>1, <1>2 DEF Edge

(* One step of a method on the record m of p: the record becomes s.record, *)
(* and then s.line is appended.                                            *)
Legit(p, m, s) ==
    /\ s.record \in Records /\ s.line \in Lines
    /\ Complete => s.exact
    /\ m = None => s.record.state = "CREATED"
    /\ m # None => /\ Edge(m.state, s.record.state)
                   /\ m.state # "SIMULATED" => s.record.timelockUntil = m.timelockUntil
    /\ OwnPost(p, s.record)
    /\ s.line \in TransitionLines =>
          /\ s.line.nextState = s.record.state
          /\ s.line.payload.timelockUntil \in {None, s.record.timelockUntil}
          /\ s.line.payload.externalExecution \in {None, s.record.externalExecution}
    /\ s.line \notin TransitionLines => m # None /\ s.record.state = m.state
    /\ Orderly(m) => /\ Replay(Replayable(m), s.line) = Replayable(s.record)
                     /\ Orderly(s.record)

(* What is replayed of a line that a step appends.                         *)
LEMMA ReplayOfStep ==
    ASSUME NEW p, NEW m, NEW s, Legit(p, m, s), NEW d \in Optional(Records)
    PROVE  /\ Replay(d, s.line) \in Records
           /\ s.line \in TransitionLines => Replay(d, s.line).state = s.record.state
           /\ s.line \notin TransitionLines =>
                 Replay(d, s.line).state = IF d = None THEN "CREATED" ELSE d.state
           /\ d # None =>
                 /\ Replay(d, s.line).timelockUntil \in {d.timelockUntil, s.record.timelockUntil}
                 /\ Replay(d, s.line).externalExecution
                        \in {d.externalExecution, s.record.externalExecution}
           /\ d = None => Replay(d, s.line).externalExecution
                              \in {None, s.record.externalExecution}
<1> DEFINE e == IF d = None THEN Blank ELSE d
<1>1. e \in Records /\ Replay(d, s.line) = Replay(e, s.line)
  BY BlankTyped, ReplayOnNone DEF Optional
<1>2. d = None => e.state = "CREATED" /\ e.externalExecution = None
  BY DEF Blank
<1> HIDE DEF e
<1>3. d # None => e = d
  BY DEF e
<1>4. CASE s.line \in TransitionLines
  <2>1. /\ Replay(e, s.line) \in Records
        /\ Replay(e, s.line).state = s.line.nextState
        /\ Replay(e, s.line).timelockUntil
              = Given(s.line.payload.timelockUntil, e.timelockUntil)
        /\ Replay(e, s.line).externalExecution
              = IF s.line.nextState = "BROADCAST"
                THEN Given(s.line.payload.externalExecution, e.externalExecution)
                ELSE e.externalExecution
    BY <1>1, <1>4, ReplayOfTransition
  <2>2. /\ s.line.nextState = s.record.state
        /\ s.line.payload.timelockUntil \in {None, s.record.timelockUntil}
        /\ s.line.payload.externalExecution \in {None, s.record.externalExecution}
    BY <1>4 DEF Legit
  <2>3. Replay(e, s.line).timelockUntil \in {e.timelockUntil, s.record.timelockUntil}
    BY <2>1, <2>2 DEF Given
  <2>4. Replay(e, s.line).externalExecution \in {e.externalExecution, s.record.externalExecution}
    BY <2>1, <2>2 DEF Given
  <2> QED
    BY <1>1, <1>2, <1>3, <1>4, <2>1, <2>2, <2>3, <2>4
<1>5. CASE s.line \notin TransitionLines
  <2>1. s.line \in ValidationLines \union WebhookLines
    BY <1>5 DEF Legit, Lines
  <2>2. /\ Replay(e, s.line) \in Records
        /\ Replay(e, s.line).state = e.state
        /\ Replay(e, s.line).timelockUntil = e.timelockUntil
        /\ Replay(e, s.line).externalExecution = e.externalExecution
    BY <1>1, <2>1, ReplayOfOther
  <2> QED
    BY <1>1, <1>2, <1>3, <1>5, <2>2
<1> QED
  BY <1>4, <1>5

(* A step keeps memory and file in step, with its line or without.         *)
LEMMA StepInStep ==
    ASSUME NEW p, NEW m \in Optional(Records), NEW d \in Optional(Records),
           NEW u \in Optional(Nat), NEW s,
           InStep(p, m, d, u), Sound(p, d, u), Legit(p, m, s)
    PROVE  /\ InStep(p, s.record, d, u)
           /\ InStep(p, s.record, Replay(d, s.line), u)
           /\ Sound(p, Replay(d, s.line), u)
<1> DEFINE r == s.record
           e == Replay(d, s.line)
<1>1. /\ r \in Records /\ r # None /\ e \in Records /\ e # None
  BY ReplayOfStep, NoneAssumption DEF Legit
<1>2. m # None => m \in Records /\ m.state \in States /\ Edge(m.state, r.state)
  BY DEF Legit, Optional, Records
<1>3. Locked(r, u)
  <2> SUFFICES ASSUME u # None PROVE Locked(r, u)
    BY DEF Locked
  <2>1. m # None /\ m.timelockUntil = u /\ m.state \in SinceTimelocked
    BY DEF InStep, Sound, Locked
  <2>2. m.state # "SIMULATED"
    BY <2>1 DEF SinceTimelocked
  <2>3. r.timelockUntil = u
    BY <2>1, <2>2 DEF Legit
  <2>4. r.state \in SinceTimelocked
    BY <1>2, <2>1, EdgeStates
  <2> QED
    BY <1>1, <2>3, <2>4 DEF Locked
<1>4. OwnPost(p, r)
  BY DEF Legit
<1>5. d # None /\ d.state \in Final => r.state = d.state
  <2> SUFFICES ASSUME d # None, d.state \in Final PROVE r.state = d.state
    OBVIOUS
  <2>1. m # None /\ m.state = d.state
    BY DEF InStep
  <2> QED
    BY <1>2, <2>1, EdgeStates
<1>6. InStep(p, r, d, u)
  BY <1>1, <1>3, <1>4, <1>5 DEF InStep, Sound
<1>7. Sound(p, e, u)
  <2>1. OwnPost(p, e)
    <3>1. CASE d = None
      BY <1>4, <3>1, <1>1, ReplayOfStep DEF OwnPost
    <3>2. CASE d # None
      BY <1>4, <3>2, <1>1, ReplayOfStep DEF OwnPost, Sound
    <3> QED
      BY <3>1, <3>2
  <2>2. Locked(e, u)
    <3> SUFFICES ASSUME u # None PROVE Locked(e, u)
      BY DEF Locked
    <3>1. d # None /\ d.timelockUntil = u /\ d.state \in SinceTimelocked
      BY DEF Sound, Locked
    <3>2. r.timelockUntil = u /\ r.state \in SinceTimelocked
      BY <1>3 DEF Locked
    <3>3. e.timelockUntil = u
      BY <3>1, <3>2, ReplayOfStep
    <3>4. e.state \in {r.state, d.state}
      BY <3>1, ReplayOfStep
    <3> QED
      BY <1>1, <3>1, <3>2, <3>3, <3>4 DEF Locked
  <2> QED
    BY <2>1, <2>2 DEF Sound
<1>8. e.state \in Final => r.state = e.state
  <2>1. CASE s.line \in TransitionLines
    BY <2>1, ReplayOfStep
  <2>2. CASE s.line \notin TransitionLines
    <3>1. e.state = IF d = None THEN "CREATED" ELSE d.state
      BY <2>2, ReplayOfStep
    <3> QED
      BY <1>5, <3>1 DEF Final
  <2> QED
    BY <2>1, <2>2
<1>9. InStep(p, r, e, u)
  BY <1>1, <1>3, <1>4, <1>8 DEF InStep, Sound
<1> QED
  BY <1>6, <1>7, <1>9

-----------------------------------------------------------------------------
(* A method is a chain of at most three steps.                             *)

Chain(p, m, steps) ==
    /\ Len(steps) \in 1..3
    /\ Legit(p, m, steps[1])
    /\ Len(steps) > 1 => Legit(p, steps[1].record, steps[2])
    /\ Len(steps) > 2 => Legit(p, steps[2].record, steps[3])

LEMMA ChainExact ==
    ASSUME NEW p, NEW m, NEW steps, Chain(p, m, steps), Complete
    PROVE  \A i \in 1..Len(steps) : steps[i].exact
<1>1. PICK l \in 1..3 : l = Len(steps)
  BY DEF Chain
<1> SUFFICES ASSUME NEW i \in 1..l PROVE steps[i].exact
  BY <1>1
<1>2. i = 1 \/ (i = 2 /\ l > 1) \/ (i = 3 /\ l > 2)
  OBVIOUS
<1> QED
  BY <1>1, <1>2 DEF Chain, Legit

LEMMA ChainOfOne ==
    ASSUME NEW p, NEW m, NEW s, Legit(p, m, s)
    PROVE  Chain(p, m, <<s>>) /\ Len(<<s>>) = 1 /\ <<s>>[1] = s
  BY DEF Chain

(* Memory after step k with the file after n lines, one fewer or as many.  *)
LEMMA ReachedInStep ==
    ASSUME NEW p, NEW m \in Optional(Records), NEW u \in Optional(Nat), NEW steps,
           disk[p] \in Optional(Records),
           InStep(p, m, disk[p], u), Sound(p, disk[p], u), Chain(p, m, steps),
           NEW k \in 1..Len(steps), NEW n \in {k - 1, k}
    PROVE  /\ steps[k].record \in Records
           /\ Written(p, steps, n) \in Optional(Records)
           /\ InStep(p, steps[k].record, Written(p, steps, n), u)
           /\ Sound(p, Written(p, steps, n), u)
           /\ (m # None /\ m.state \in SinceApproved) =>
                 steps[k].record.state \in SinceApproved
           /\ (disk[p] = Replayable(m) /\ Orderly(m) /\ n = k) =>
                 /\ Written(p, steps, n) = Replayable(steps[k].record)
                 /\ Orderly(steps[k].record)
<1> DEFINE W(i) == Written(p, steps, i)
<1>0. PICK l \in 1..3 : l = Len(steps)
  BY DEF Chain
<1>1. k \in {1, 2, 3} /\ Len(steps) \in {1, 2, 3}
  <2>1. k \in 1..l
    BY <1>0
  <2> QED
    BY <1>0, <2>1
<1>2. /\ W(0) = disk[p]
      /\ W(1) = Replay(W(0), steps[1].line)
      /\ W(2) = Replay(W(1), steps[2].line)
      /\ W(3) = Replay(W(2), steps[3].line)
  BY DEF Written
<1> HIDE DEF W
<1>a. ASSUME NEW s, NEW r \in Optional(Records), NEW d \in Optional(Records),
             InStep(p, r, d, u), Sound(p, d, u), Legit(p, r, s)
      PROVE  /\ s.record \in Records
             /\ Replay(d, s.line) \in Optional(Records)
             /\ InStep(p, s.record, d, u)
             /\ InStep(p, s.record, Replay(d, s.line), u)
             /\ Sound(p, Replay(d, s.line), u)
             /\ (r # None /\ r.state \in SinceApproved) => s.record.state \in SinceApproved
             /\ (d = Replayable(r) /\ Orderly(r)) =>
                   Replay(d, s.line) = Replayable(s.record) /\ Orderly(s.record)
  <2>1. s.record \in Records /\ Replay(d, s.line) \in Optional(Records)
    BY <1>a, ReplayTyped DEF Legit, Optional
  <2>2. r # None => r.state \in States /\ Edge(r.state, s.record.state)
    BY <1>a DEF Legit, Optional, Records
  <2>3. (r # None /\ r.state \in SinceApproved) => s.record.state \in SinceApproved
    BY <2>2, EdgeStates
  <2>4. (d = Replayable(r) /\ Orderly(r)) =>
           Replay(d, s.line) = Replayable(s.record) /\ Orderly(s.record)
    BY <1>a DEF Legit
  <2> QED
    BY <1>a, <2>1, <2>3, <2>4, StepInStep
<1>3. Legit(p, m, steps[1])
  BY DEF Chain
<1>4. /\ steps[1].record \in Records
      /\ W(0) \in Optional(Records) /\ W(1) \in Optional(Records)
      /\ InStep(p, steps[1].record, W(0), u) /\ InStep(p, steps[1].record, W(1), u)
      /\ Sound(p, W(0), u) /\ Sound(p, W(1), u)
      /\ (m # None /\ m.state \in SinceApproved) => steps[1].record.state \in SinceApproved
      /\ (disk[p] = Replayable(m) /\ Orderly(m)) =>
            W(1) = Replayable(steps[1].record) /\ Orderly(steps[1].record)
  BY <1>2, <1>3, <1>a
<1>5. CASE k = 1
  BY <1>4, <1>5 DEF W
<1>6. ASSUME Len(steps) > 1
      PROVE  /\ steps[2].record \in Records /\ W(2) \in Optional(Records)
             /\ InStep(p, steps[2].record, W(1), u) /\ InStep(p, steps[2].record, W(2), u)
             /\ Sound(p, W(2), u)
             /\ (m # None /\ m.state \in SinceApproved) =>
                   steps[2].record.state \in SinceApproved
             /\ (disk[p] = Replayable(m) /\ Orderly(m)) =>
                   W(2) = Replayable(steps[2].record) /\ Orderly(steps[2].record)
  <2>1. Legit(p, steps[1].record, steps[2])
    BY <1>6 DEF Chain
  <2>2. steps[1].record \in Optional(Records) /\ steps[1].record # None
    BY <1>4, NoneAssumption DEF Optional
  <2> QED
    BY <1>2, <1>4, <2>1, <2>2, <1>a
<1>7. CASE k = 2
  BY <1>1, <1>4, <1>6, <1>7 DEF W
<1>8. CASE k = 3
  <2>1. Legit(p, steps[2].record, steps[3]) /\ Len(steps) > 1
    BY <1>1, <1>8 DEF Chain
  <2>2. steps[2].record \in Optional(Records) /\ steps[2].record # None
    BY <1>6, <2>1, NoneAssumption DEF Optional
  <2>3. /\ steps[3].record \in Records /\ W(3) \in Optional(Records)
        /\ InStep(p, steps[3].record, W(2), u) /\ InStep(p, steps[3].record, W(3), u)
        /\ Sound(p, W(3), u)
        /\ (m # None /\ m.state \in SinceApproved) =>
              steps[3].record.state \in SinceApproved
        /\ (disk[p] = Replayable(m) /\ Orderly(m)) =>
              W(3) = Replayable(steps[3].record) /\ Orderly(steps[3].record)
    BY <1>2, <1>6, <2>1, <2>2, <1>a
  <2> QED
    BY <1>6, <1>8, <2>1, <2>3 DEF W
<1> QED
  BY <1>1, <1>5, <1>7, <1>8

-----------------------------------------------------------------------------
(* A method that returns, fails or dies, on the record of p.               *)

(* What becomes of the chain.                                              *)
LEMMA ChainGrows ==
    ASSUME chain \in Chains, NEW steps, NEW l \in 1..3, Len(steps) = l, NEW n \in 0..l
    PROVE  /\ ChainAfter(steps, n) \in Chains
           /\ chain \in {"whole", "tampered"} =>
                 ChainAfter(steps, n) \in {"whole", "tampered"}
           /\ (chain # "tampered" /\ \A i \in 1..l : steps[i].exact) =>
                 ChainAfter(steps, n) # "tampered"
<1>1. \A i \in 1..n : i \in 1..l
  OBVIOUS
<1> QED
  BY <1>1 DEF ChainAfter, Chains

(* Where it gets: memory after step k, or none, and n lines in the file.   *)
LEMMA RunsReach ==
    ASSUME TypeOK, NEW p \in Proposals, Running, NEW steps, Len(steps) \in 1..3,
           Runs(p, steps)
    PROVE  /\ chain' \in Chains
           /\ (faults' = 0 /\ chain \in {"whole", "tampered"}) =>
                 chain' \in {"whole", "tampered"}
           /\ (chain # "tampered" /\ \A i \in 1..Len(steps) : steps[i].exact) =>
                 chain' # "tampered"
           /\ faults' \in 0..MaxFaults /\ crashes' \in 0..MaxCrashes
           /\ \E k \in 1..Len(steps) : \E n \in {k - 1, k} :
                 /\ disk' = [disk EXCEPT ![p] = Written(p, steps, n)]
                 /\ mem' \in {Down, [mem EXCEPT ![p] = steps[k].record]}
                 /\ faults' = 0 => n = k /\ faults = 0
                 /\ Len(steps) = 1 => mem' = [mem EXCEPT ![p] = steps[k].record]
                 /\ Returned => /\ k = Len(steps) /\ n = k
                                /\ mem' = [mem EXCEPT ![p] = steps[k].record]
<1>1. /\ faults \in Nat /\ crashes \in Nat /\ MaxFaults \in Nat /\ MaxCrashes \in Nat
      /\ faults \in 0..MaxFaults /\ crashes \in 0..MaxCrashes
      /\ chain \in Chains
  BY LifecycleAssumption DEF TypeOK, LifecycleTypeOK, Chains
<1>0. PICK l \in 1..3 : l = Len(steps)
  OBVIOUS
<1>2. \A n \in 0..l :
         /\ ChainAfter(steps, n) \in Chains
         /\ chain \in {"whole", "tampered"} =>
               ChainAfter(steps, n) \in {"whole", "tampered"}
         /\ (chain # "tampered" /\ \A i \in 1..l : steps[i].exact) =>
               ChainAfter(steps, n) # "tampered"
  BY <1>0, <1>1, ChainGrows
<1>3. CASE Returns(p, steps)
  <2>1. /\ chain' = ChainAfter(steps, l)
        /\ faults' = faults /\ crashes' = crashes
        /\ disk' = [disk EXCEPT ![p] = Written(p, steps, l)]
        /\ mem' = [mem EXCEPT ![p] = steps[l].record]
    BY <1>0, <1>3 DEF Returns, Reached
  <2>2. l \in 1..Len(steps) /\ l \in {l - 1, l} /\ l \in 0..l
    BY <1>0
  <2> QED
    BY <1>0, <1>1, <1>2, <2>1, <2>2
<1>4. CASE Throws(p, steps)
  <2>1. /\ faults < MaxFaults /\ faults' = faults + 1 /\ crashes' = crashes
    BY <1>4 DEF Throws
  <2>2. faults' \in 0..MaxFaults /\ faults' # 0 /\ ~Returned
    BY <1>1, <2>1 DEF Returned
  <2>3. PICK k \in 1..l :
          \/ /\ Reached(p, steps, k, k - 1)
             /\ chain' \in {ChainAfter(steps, k - 1), "broken"}
          \/ /\ Reached(p, steps, k, k)
             /\ chain' = IF ChainAfter(steps, k) = "whole" THEN "behind"
                                                           ELSE ChainAfter(steps, k)
    BY <1>0, <1>4 DEF Throws
  <2>4. k \in 0..l /\ k - 1 \in 0..l
    OBVIOUS
  <2>5. /\ chain' \in Chains
        /\ (chain # "tampered" /\ \A i \in 1..l : steps[i].exact) => chain' # "tampered"
    BY <1>2, <2>3, <2>4 DEF Chains
  <2>6. PICK n \in {k - 1, k} : Reached(p, steps, k, n)
    BY <2>3
  <2> QED
    BY <1>0, <1>1, <2>1, <2>2, <2>5, <2>6 DEF Reached
<1>5. CASE Dies(p, steps)
  <2>1. /\ crashes < MaxCrashes /\ crashes' = crashes + 1 /\ faults' = faults /\ mem' = Down
    BY <1>5 DEF Dies
  <2>2. crashes' \in 0..MaxCrashes /\ ~Returned
    BY <1>1, <2>1 DEF Returned
  <2>3. PICK k \in 1..(l - 1) :
          /\ disk' = [disk EXCEPT ![p] = Written(p, steps, k)]
          /\ chain' = ChainAfter(steps, k)
    BY <1>0, <1>5 DEF Dies
  <2>4. k \in 1..Len(steps) /\ Len(steps) # 1 /\ k \in {k - 1, k} /\ k \in 0..l
    BY <1>0
  <2> QED
    BY <1>0, <1>1, <1>2, <2>1, <2>2, <2>3, <2>4
<1> QED
  BY <1>3, <1>4, <1>5 DEF Runs

(* The invariant after it, with the timelocks that were returned before.   *)
LEMMA RunsKeep ==
    ASSUME IInv, NEW p \in Proposals, Running, NEW steps, Chain(p, mem[p], steps),
           Runs(p, steps)
    PROVE  /\ mem' \in [Proposals -> Optional(Records)] \union {Down}
           /\ disk' \in [Proposals -> Optional(Records)]
           /\ chain' \in Chains
           /\ faults' \in 0..MaxFaults /\ crashes' \in 0..MaxCrashes
           /\ \A q \in Proposals : q # p => disk'[q] = disk[q]
           /\ \A q \in Proposals : Sound(q, disk'[q], unlock[q])
           /\ mem' # Down =>
                 \A q \in Proposals :
                     /\ InStep(q, mem'[q], disk'[q], unlock[q])
                     /\ mem[q] # None => mem'[q] # None
                     /\ mem[q] # None /\ mem[q].state \in SinceApproved =>
                           mem'[q].state \in SinceApproved
           /\ Rebuilt'
           /\ Len(steps) = 1 => mem' # Down
<1>1. PICK k \in 1..Len(steps) : \E n \in {k - 1, k} :
         /\ disk' = [disk EXCEPT ![p] = Written(p, steps, n)]
         /\ mem' \in {Down, [mem EXCEPT ![p] = steps[k].record]}
         /\ faults' = 0 => n = k /\ faults = 0
         /\ Len(steps) = 1 => mem' = [mem EXCEPT ![p] = steps[k].record]
  BY RunsReach DEF IInv, Chain
<1>2. PICK n \in {k - 1, k} :
         /\ disk' = [disk EXCEPT ![p] = Written(p, steps, n)]
         /\ mem' \in {Down, [mem EXCEPT ![p] = steps[k].record]}
         /\ faults' = 0 => n = k /\ faults = 0
         /\ Len(steps) = 1 => mem' = [mem EXCEPT ![p] = steps[k].record]
  BY <1>1
<1>3. /\ mem \in [Proposals -> Optional(Records)] /\ disk \in [Proposals -> Optional(Records)]
      /\ unlock \in [Proposals -> Optional(Nat)]
  BY DEF IInv, TypeOK, LifecycleTypeOK, Running
<1>4. /\ mem[p] \in Optional(Records) /\ disk[p] \in Optional(Records)
      /\ unlock[p] \in Optional(Nat)
      /\ InStep(p, mem[p], disk[p], unlock[p]) /\ Sound(p, disk[p], unlock[p])
  BY <1>3 DEF IInv, FilesSound, MemoryInStep
<1>5. /\ steps[k].record \in Records
      /\ Written(p, steps, n) \in Optional(Records)
      /\ InStep(p, steps[k].record, Written(p, steps, n), unlock[p])
      /\ Sound(p, Written(p, steps, n), unlock[p])
      /\ (mem[p] # None /\ mem[p].state \in SinceApproved) =>
            steps[k].record.state \in SinceApproved
      /\ (disk[p] = Replayable(mem[p]) /\ Orderly(mem[p]) /\ n = k) =>
            /\ Written(p, steps, n) = Replayable(steps[k].record)
            /\ Orderly(steps[k].record)
  <2>1. PICK m \in Optional(Records) : m = mem[p]
    BY <1>4
  <2>2. PICK u \in Optional(Nat) : u = unlock[p]
    BY <1>4
  <2>3. InStep(p, m, disk[p], u) /\ Sound(p, disk[p], u) /\ Chain(p, m, steps)
    BY <1>4, <2>1, <2>2
  <2>5. k \in 1..Len(steps) /\ n \in {k - 1, k} /\ disk[p] \in Optional(Records)
    BY <1>4
  <2>6. steps[k].record \in Records /\ Written(p, steps, n) \in Optional(Records)
    BY <2>3, <2>5, ReachedInStep
  <2>7. /\ InStep(p, steps[k].record, Written(p, steps, n), u)
        /\ Sound(p, Written(p, steps, n), u)
    BY <2>3, <2>5, ReachedInStep
  <2>8. (m # None /\ m.state \in SinceApproved) => steps[k].record.state \in SinceApproved
    BY <2>3, <2>5, ReachedInStep
  <2>9. (disk[p] = Replayable(m) /\ Orderly(m) /\ n = k) =>
            /\ Written(p, steps, n) = Replayable(steps[k].record)
            /\ Orderly(steps[k].record)
    BY <2>3, <2>5, ReachedInStep
  <2> QED
    BY <2>1, <2>2, <2>6, <2>7, <2>8, <2>9
<1> DEFINE w == Written(p, steps, n)
           r == steps[k].record
           up == [mem EXCEPT ![p] = r]
<1> HIDE DEF w, r
<1>6. /\ r \in Optional(Records) /\ r # None /\ w \in Optional(Records)
      /\ InStep(p, r, w, unlock[p]) /\ Sound(p, w, unlock[p])
      /\ (mem[p] # None /\ mem[p].state \in SinceApproved) => r.state \in SinceApproved
      /\ (disk[p] = Replayable(mem[p]) /\ Orderly(mem[p]) /\ n = k) =>
            w = Replayable(r) /\ Orderly(r)
      /\ disk' = [disk EXCEPT ![p] = w] /\ mem' \in {Down, up}
      /\ faults' = 0 => n = k /\ faults = 0
      /\ Len(steps) = 1 => mem' = up
  BY <1>2, <1>5, NoneAssumption DEF w, r, Optional
<1>7. up \in [Proposals -> Optional(Records)] /\ up # Down
  BY <1>3, <1>6, NoneAssumption
<1>8. disk' \in [Proposals -> Optional(Records)]
  BY <1>3, <1>6
<1>9. /\ \A q \in Proposals : q # p => disk'[q] = disk[q] /\ up[q] = mem[q]
      /\ disk'[p] = w /\ up[p] = r
  BY <1>3, <1>6
<1>10. \A q \in Proposals : Sound(q, disk'[q], unlock[q])
  <2> TAKE q \in Proposals
  <2>1. CASE q = p
    BY <1>6, <1>9, <2>1
  <2>2. CASE q # p
    BY <1>9, <2>2 DEF IInv, FilesSound
  <2> QED
    BY <2>1, <2>2
<1>11. \A q \in Proposals :
          /\ InStep(q, up[q], disk'[q], unlock[q])
          /\ mem[q] # None => up[q] # None
          /\ mem[q] # None /\ mem[q].state \in SinceApproved => up[q].state \in SinceApproved
  <2> TAKE q \in Proposals
  <2>1. CASE q = p
    BY <1>6, <1>9, <2>1
  <2>2. CASE q # p
    BY <1>9, <2>2 DEF IInv, MemoryInStep
  <2> QED
    BY <2>1, <2>2
<1>13. /\ chain' \in Chains
       /\ faults' \in 0..MaxFaults /\ crashes' \in 0..MaxCrashes
       /\ (faults' = 0 /\ chain \in {"whole", "tampered"}) =>
             chain' \in {"whole", "tampered"}
       /\ (chain # "tampered" /\ \A i \in 1..Len(steps) : steps[i].exact) =>
             chain' # "tampered"
  BY RunsReach DEF IInv, Chain
<1>14. Complete => chain' # "tampered"
  BY <1>13, ChainExact DEF IInv, Rebuilt
<1>12. Rebuilt'
  <2> SUFFICES ASSUME faults' = 0
               PROVE  /\ chain' \in {"whole", "tampered"}
                      /\ \A q \in Proposals : Replayable(disk'[q]) = disk'[q] /\ Orderly(disk'[q])
                      /\ mem' # Down =>
                            \A q \in Proposals :
                                disk'[q] = Replayable(mem'[q]) /\ Orderly(mem'[q])
    BY <1>14 DEF Rebuilt, Running, Orderly, Replayable, Complete
  <2>1. /\ chain \in {"whole", "tampered"}
        /\ \A q \in Proposals : /\ Replayable(disk[q]) = disk[q] /\ Orderly(disk[q])
                                 /\ disk[q] = Replayable(mem[q]) /\ Orderly(mem[q])
    BY <1>6 DEF IInv, Rebuilt
  <2>2. w = Replayable(r) /\ Orderly(r)
    BY <1>6, <2>1
  <2>3. Replayable(w) = w /\ Orderly(w)
    BY <1>6, <2>2, ReplayableTwice
  <2>4. \A q \in Proposals : /\ Replayable(disk'[q]) = disk'[q] /\ Orderly(disk'[q])
                             /\ disk'[q] = Replayable(up[q]) /\ Orderly(up[q])
    BY <1>9, <2>1, <2>2, <2>3
  <2> HIDE DEF up
  <2> QED
    BY <1>6, <1>13, <2>1, <2>4
<1> HIDE DEF up
<1> QED
  BY <1>6, <1>7, <1>8, <1>9, <1>10, <1>11, <1>12, <1>13

-----------------------------------------------------------------------------
(* The steps of the methods.                                               *)

LEMMA AdvanceFields ==
    ASSUME NEW base \in Records, NEW payload \in Payloads, NEW next \in States
    PROVE  /\ Advance(base, next, payload).record \in Records
           /\ Advance(base, next, payload).record.state = next
           /\ Advance(base, next, payload).line \in TransitionLines
           /\ Advance(base, next, payload).line.nextState = next
           /\ Advance(base, next, payload).line.version = base.version + 1
           /\ Advance(base, next, payload).line.payload = payload
           /\ Advance(base, next, payload).exact
<1> DEFINE r == [base EXCEPT !.state = next, !.version = @ + 1]
           line == [type |-> "STATE_TRANSITION", nextState |-> next,
                    version |-> base.version + 1, payload |-> payload]
<1>1. base.version \in Nat /\ base.version + 1 \in Nat
  BY DEF Records
<1>2. r \in Records /\ r.state = next
  BY <1>1 DEF Records
<1>3. /\ line \in TransitionLines /\ line.nextState = next
      /\ line.version = base.version + 1 /\ line.payload = payload
  BY <1>1 DEF TransitionLines
<1>4. Advance(base, next, payload) = [record |-> r, line |-> line, exact |-> TRUE]
  BY DEF Advance
<1> HIDE DEF r, line
<1>5. /\ Advance(base, next, payload).record = r /\ Advance(base, next, payload).line = line
      /\ Advance(base, next, payload).exact
  BY <1>4
<1> QED
  BY <1>2, <1>3, <1>5 DEF r

(* The payload of a transition to `next' says how base differs from m.     *)
Explains(payload, m, base, next) ==
    /\ base.version = m.version
    /\ base.validationValid = m.validationValid
    /\ base.processedWebhookIds = m.processedWebhookIds
    /\ base.transactionBindingHash
         = Given(payload.transactionBindingHash, m.transactionBindingHash)
    /\ base.timelockUntil = Given(payload.timelockUntil, m.timelockUntil)
    /\ m.state # "SIMULATED" => payload.timelockUntil = None
    /\ Orderly(m) =>
         /\ base.simulationBindingHash
              = IF next = "RE_SIMULATED"
                THEN Given(payload.transactionBindingHash, m.simulationBindingHash)
                ELSE m.simulationBindingHash
         /\ base.transactionBindingHash = None => base.simulationBindingHash = None
         /\ Kept(base.approval)
              = IF next = "APPROVED" /\ payload.approvalId = "given"
                THEN [approvalId |-> payload.approvalId,
                      transactionBindingHash |-> payload.transactionBindingHash]
                ELSE Kept(m.approval)
    /\ base.approval # m.approval => next = "APPROVED"
    /\ base.externalExecution =
         IF next = "BROADCAST"
         THEN Given(payload.externalExecution, m.externalExecution)
         ELSE m.externalExecution
    /\ payload.externalExecution \in {None, base.externalExecution}

LEMMA AdvanceLegit ==
    ASSUME NEW p, NEW m \in Records, NEW base \in Records, NEW payload \in Payloads,
           NEW next, Edge(m.state, next), Explains(payload, m, base, next),
           OwnPost(p, base)
    PROVE  Legit(p, m, Advance(base, next, payload))
<1> DEFINE s == Advance(base, next, payload)
           r == s.record
           line == s.line
<1>1. m.state \in States /\ next \in States /\ m # None
  BY EdgeStates, NoneAssumption DEF Records
<1>2. r = [base EXCEPT !.state = next, !.version = @ + 1]
  BY DEF Advance
<1>b. r \in Records
  BY <1>1, AdvanceFields
<1>3. /\ line \in TransitionLines
      /\ line.nextState = next /\ line.payload = payload /\ line.version = m.version + 1
  BY <1>1, AdvanceFields DEF Explains
<1> HIDE DEF s, r, line
<1>c. r # None
  BY <1>b, NoneAssumption
<1>4. /\ r \in Records /\ r # None
      /\ r.state = next /\ r.version = m.version + 1
      /\ r.transactionBindingHash = base.transactionBindingHash
      /\ r.timelockUntil = base.timelockUntil
      /\ r.simulationBindingHash = base.simulationBindingHash
      /\ r.validationValid = m.validationValid
      /\ r.approval = base.approval
      /\ r.externalExecution = base.externalExecution
      /\ r.processedWebhookIds = m.processedWebhookIds
  BY <1>2, <1>b, <1>c DEF Records, Explains
<1>6. Orderly(m) => Replay(Replayable(m), line) = Replayable(r)
  <2> SUFFICES ASSUME Orderly(m) PROVE Replay(Replayable(m), line) = Replayable(r)
    OBVIOUS
  <2> DEFINE e == Replayable(m)
  <2>1. /\ e \in Records
        /\ e.transactionBindingHash = m.transactionBindingHash
        /\ e.timelockUntil = m.timelockUntil
        /\ e.simulationBindingHash = m.simulationBindingHash
        /\ e.validationValid = m.validationValid
        /\ e.approval = Kept(m.approval)
        /\ e.externalExecution = m.externalExecution
        /\ e.processedWebhookIds = m.processedWebhookIds
    BY ReplayableFields
  <2> HIDE DEF e
  <2> DEFINE d == Replay(e, line)
  <2>2. /\ d \in Records
        /\ d.state = r.state /\ d.version = r.version
        /\ d.transactionBindingHash = r.transactionBindingHash
        /\ d.timelockUntil = r.timelockUntil
        /\ d.simulationBindingHash = r.simulationBindingHash
        /\ d.validationValid = r.validationValid
        /\ d.approval = Kept(r.approval)
        /\ d.externalExecution = r.externalExecution
        /\ d.processedWebhookIds = r.processedWebhookIds
    BY <1>3, <1>4, <2>1, ReplayOfTransition DEF Explains
  <2> HIDE DEF d
  <2>3. d = Replayable(r)
    BY <1>4, <2>2, ReplayableFields, SameFields
  <2> QED
    BY <2>3 DEF d, e
<1>7. Orderly(m) => Orderly(r)
  <2> SUFFICES ASSUME Orderly(m), r.approval # None PROVE next \in SinceApproved
    BY <1>4 DEF Orderly, Explains
  <2>1. CASE base.approval = m.approval
    BY <1>1, <1>4, <2>1, EdgeStates DEF Orderly
  <2>2. CASE base.approval # m.approval
    BY <2>2 DEF Explains, SinceApproved
  <2> QED
    BY <2>1, <2>2
<1>8. OwnPost(p, r)
  BY <1>4, NoneAssumption DEF OwnPost
<1>9. m.state # "SIMULATED" => r.timelockUntil = m.timelockUntil
  BY <1>4 DEF Given, Explains
<1>10. payload.timelockUntil \in {None, r.timelockUntil}
  BY <1>4 DEF Given, Explains
<1>e. s.exact
  BY <1>1, AdvanceFields DEF s
<1>11. Legit(p, m, s)
  BY <1>e, <1>1, <1>3, <1>4, <1>6, <1>7, <1>8, <1>9, <1>10 DEF Legit, Lines, Explains, r, line
<1> QED
  BY <1>11 DEF s

(* A transition that changes nothing but the state.                        *)
LEMMA PlainAdvanceLegit ==
    ASSUME NEW p, NEW m \in Records, OwnPost(p, m), NEW next, Allowed(m.state, next),
           NEW payload \in Payloads, payload.timelockUntil = None,
           payload.externalExecution = None, payload.approvalId = None,
           payload.transactionBindingHash \in {None, m.transactionBindingHash},
           next = "RE_SIMULATED" => payload.transactionBindingHash = None
    PROVE  Legit(p, m, Advance(m, next, payload))
<1>1. /\ Given(payload.transactionBindingHash, m.transactionBindingHash) = m.transactionBindingHash
      /\ Given(payload.timelockUntil, m.timelockUntil) = m.timelockUntil
      /\ Given(payload.externalExecution, m.externalExecution) = m.externalExecution
      /\ next = "RE_SIMULATED" =>
            Given(payload.transactionBindingHash, m.simulationBindingHash) = m.simulationBindingHash
  BY DEF Given
<1>2. /\ ~(next = "APPROVED" /\ payload.approvalId = "given")
      /\ m.externalExecution =
            IF next = "BROADCAST"
            THEN Given(payload.externalExecution, m.externalExecution)
            ELSE m.externalExecution
      /\ m.simulationBindingHash =
            IF next = "RE_SIMULATED"
            THEN Given(payload.transactionBindingHash, m.simulationBindingHash)
            ELSE m.simulationBindingHash
      /\ m.timelockUntil = Given(payload.timelockUntil, m.timelockUntil)
      /\ m.transactionBindingHash
            = Given(payload.transactionBindingHash, m.transactionBindingHash)
      /\ payload.externalExecution \in {None, m.externalExecution}
  BY <1>1, NoneAssumption
<1>3. Explains(payload, m, m, next)
  <2>1. m # None
    BY NoneAssumption
  <2> QED
    BY <1>2, <2>1 DEF Explains, Orderly
<1> QED
  BY <1>3, AdvanceLegit DEF Edge

LEMMA NoPayloadFields ==
    /\ NoPayload \in Payloads /\ NoPayload.timelockUntil = None
    /\ NoPayload.externalExecution = None /\ NoPayload.approvalId = None
    /\ NoPayload.transactionBindingHash = None
  BY BlankTyped DEF NoPayload

(* In a running process the record of a known proposal.                    *)
LEMMA KnownRecord ==
    ASSUME IInv, NEW p \in Proposals, Known(p)
    PROVE  /\ mem[p] \in Records /\ OwnPost(p, mem[p]) /\ Running
           /\ mem[p] # None /\ Sound(p, mem[p], unlock[p])
<1>1. Running /\ mem[p] # None
  BY DEF Known
<1>2. mem[p] \in Records
  BY <1>1 DEF IInv, TypeOK, LifecycleTypeOK, Running, Optional
<1>3. Sound(p, mem[p], unlock[p])
  BY <1>1 DEF IInv, MemoryInStep, InStep
<1> QED
  BY <1>1, <1>2, <1>3 DEF Sound

LEMMA CreateLegit ==
    ASSUME NEW p PROVE Legit(p, None, Advance(Blank, "CREATED", NoPayload))
<1> DEFINE s == Advance(Blank, "CREATED", NoPayload)
<1>1. Blank \in Records /\ Allowed(Blank.state, "CREATED") /\ OwnPost(p, Blank)
  BY BlankTyped DEF Blank, Allowed, OwnPost
<1>2. Legit(p, Blank, s) /\ s.record.state = "CREATED" /\ s.line \in TransitionLines
  BY <1>1, PlainAdvanceLegit, NoPayloadFields, AdvanceFields DEF States
<1>3. Orderly(Blank)
  BY DEF Orderly, Blank
<1>4. Replay(Replayable(None), s.line) = Replayable(s.record) /\ Orderly(s.record)
  <2>1. Replayable(None) = None /\ Replayable(Blank) = Blank
    BY DEF Replayable, Blank
  <2> QED
    BY <1>2, <1>3, <2>1, ReplayOnNone DEF Legit
<1> QED
  BY <1>2, <1>4 DEF Legit

(* A step is legitimate for its record and its line.                       *)
LEMMA LegitCopy ==
    ASSUME NEW p, NEW m, NEW s, Legit(p, m, s),
           NEW t, t.record = s.record, t.line = s.line, Complete => t.exact
    PROVE  Legit(p, m, t)
  BY DEF Legit

(* A step that moves no proposal: r differs from m in what e, the replay   *)
(* of its line, differs from the replay of m.                              *)
LEMMA OtherLegit ==
    ASSUME NEW p, NEW m \in Records, OwnPost(p, m), NEW r \in Records,
           r.state = m.state, r.version = m.version, r.timelockUntil = m.timelockUntil,
           r.transactionBindingHash = m.transactionBindingHash,
           r.simulationBindingHash = m.simulationBindingHash,
           r.approval = m.approval, r.externalExecution = m.externalExecution,
           NEW line \in ValidationLines \union WebhookLines, line \notin TransitionLines,
           r = IF line \in ValidationLines
               THEN [m EXCEPT !.validationValid = line.valid]
               ELSE [m EXCEPT !.processedWebhookIds = @ \union {line.eventId}],
           NEW s, s.record = r, s.line = line, Complete => s.exact
    PROVE  Legit(p, m, s)
<1> DEFINE e == Replayable(m)
<1>1. m # None /\ r # None
  BY NoneAssumption
<1>2. Replay(e, line) = Replayable(r)
  <2>1. /\ e \in Records /\ Replayable(r) \in Records
        /\ Replayable(r).approval = Kept(r.approval) /\ e.approval = Kept(m.approval)
        /\ Replayable(r).validationValid = r.validationValid
        /\ Replayable(r).processedWebhookIds = r.processedWebhookIds
        /\ e.validationValid = m.validationValid
        /\ e.processedWebhookIds = m.processedWebhookIds
        /\ Replayable(r).state = e.state /\ Replayable(r).version = e.version
        /\ Replayable(r).transactionBindingHash = e.transactionBindingHash
        /\ Replayable(r).timelockUntil = e.timelockUntil
        /\ Replayable(r).simulationBindingHash = e.simulationBindingHash
        /\ Replayable(r).externalExecution = e.externalExecution
    BY ReplayableFields
  <2> DEFINE f == Replayable(r)
  <2> HIDE DEF e, f
  <2>2. CASE line \in ValidationLines
    <3> DEFINE d == [e EXCEPT !.validationValid = line.valid]
    <3>1. Replay(e, line) = d /\ d \in Records
      BY <2>1, <2>2, ReplayOfOther
    <3>2. /\ d.validationValid = r.validationValid
          /\ d.processedWebhookIds = r.processedWebhookIds
      BY <2>1, <2>2 DEF Records
    <3>3. /\ d.state = e.state /\ d.version = e.version
          /\ d.transactionBindingHash = e.transactionBindingHash
          /\ d.timelockUntil = e.timelockUntil
          /\ d.simulationBindingHash = e.simulationBindingHash
          /\ d.approval = e.approval /\ d.externalExecution = e.externalExecution
      BY <2>1 DEF Records
    <3> HIDE DEF d
    <3>4. d = f
      BY <2>1, <3>1, <3>2, <3>3, SameFields DEF f
    <3> QED
      BY <3>1, <3>4 DEF f
  <2>3. CASE line \notin ValidationLines
    <3> DEFINE d == [e EXCEPT !.processedWebhookIds = @ \union {line.eventId}]
    <3>1. Replay(e, line) = d /\ d \in Records
      <4>1. line \in WebhookLines
        BY <2>3
      <4>2. Replay(e, line) \in Records
        BY <2>1, <4>1, ReplayOfOther
      <4>3. Replay(e, line) = IF line \in ValidationLines
                              THEN [e EXCEPT !.validationValid = line.valid]
                              ELSE [e EXCEPT !.processedWebhookIds = @ \union {line.eventId}]
        BY <2>1, <4>1, ReplayOfOther
      <4> QED
        BY <2>3, <4>2, <4>3
    <3>2. /\ d.validationValid = r.validationValid
          /\ d.processedWebhookIds = r.processedWebhookIds
      BY <2>1, <2>3 DEF Records
    <3>3. /\ d.state = e.state /\ d.version = e.version
          /\ d.transactionBindingHash = e.transactionBindingHash
          /\ d.timelockUntil = e.timelockUntil
          /\ d.simulationBindingHash = e.simulationBindingHash
          /\ d.approval = e.approval /\ d.externalExecution = e.externalExecution
      BY <2>1 DEF Records
    <3> HIDE DEF d
    <3>4. d = f
      BY <2>1, <3>1, <3>2, <3>3, SameFields DEF f
    <3> QED
      BY <3>1, <3>4 DEF f
  <2> QED
    BY <2>2, <2>3
<1> HIDE DEF e
<1>3. OwnPost(p, r) /\ (Orderly(m) => Orderly(r)) /\ Edge(m.state, r.state)
  BY <1>1 DEF OwnPost, Orderly, Allowed, Edge
<1> QED
  BY <1>1, <1>2, <1>3 DEF Legit, Lines, e

LEMMA ValidationLegit ==
    ASSUME NEW p, NEW m \in Records, OwnPost(p, m), NEW valid \in BOOLEAN
    PROVE  Legit(p, m, [record |-> [m EXCEPT !.validationValid = valid],
                        line |-> [type |-> "VALIDATION_RECORDED", valid |-> valid],
                        exact |-> TRUE])
<1> DEFINE r == [m EXCEPT !.validationValid = valid]
           line == [type |-> "VALIDATION_RECORDED", valid |-> valid]
           s == [record |-> r, line |-> line, exact |-> TRUE]
<1>1. /\ r \in Records /\ r.state = m.state /\ r.version = m.version
      /\ r.timelockUntil = m.timelockUntil
      /\ r.externalExecution = m.externalExecution /\ r.approval = m.approval
      /\ r.transactionBindingHash = m.transactionBindingHash
      /\ r.simulationBindingHash = m.simulationBindingHash
  BY DEF Records, Optional
<1>2. /\ line \in ValidationLines \union WebhookLines
      /\ line \in ValidationLines /\ line \notin TransitionLines /\ line.valid = valid
  BY DEF ValidationLines, TransitionLines
<1>3. s.record = r /\ s.line = line /\ s.exact
  OBVIOUS
<1>4. r = IF line \in ValidationLines
          THEN [m EXCEPT !.validationValid = line.valid]
          ELSE [m EXCEPT !.processedWebhookIds = @ \union {line.eventId}]
  BY <1>2
<1> HIDE DEF r, line, s
<1>5. Legit(p, m, s)
  BY <1>1, <1>2, <1>3, <1>4, OtherLegit
<1> QED
  BY <1>5 DEF s, r, line

LEMMA LoggedLegit ==
    ASSUME NEW p, NEW m \in Records, OwnPost(p, m), NEW id \in EventIds,
           NEW event, Named(event)
    PROVE  /\ Legit(p, m, Logged(m, id, event))
           /\ Logged(m, id, event).record \in Records
           /\ Logged(m, id, event).record.state = m.state
           /\ Logged(m, id, event).line \notin TransitionLines
           /\ OwnPost(p, Logged(m, id, event).record)
<1> DEFINE r == [m EXCEPT !.processedWebhookIds = @ \union {id}]
           line == [type |-> "WEBHOOK_RECORDED", eventId |-> id]
           s == Logged(m, id, event)
<1>1. /\ r \in Records /\ r.state = m.state /\ r.version = m.version
      /\ r.timelockUntil = m.timelockUntil
      /\ r.externalExecution = m.externalExecution /\ r.approval = m.approval
      /\ r.transactionBindingHash = m.transactionBindingHash
      /\ r.simulationBindingHash = m.simulationBindingHash
  BY DEF Records
<1>2. /\ line \in ValidationLines \union WebhookLines
      /\ line \notin ValidationLines /\ line \notin TransitionLines /\ line.eventId = id
  BY DEF ValidationLines, WebhookLines, TransitionLines
<1>3. s.record = r /\ s.line = line /\ (Complete => s.exact)
  BY DEF Logged, Named
<1>4. r = IF line \in ValidationLines
          THEN [m EXCEPT !.validationValid = line.valid]
          ELSE [m EXCEPT !.processedWebhookIds = @ \union {line.eventId}]
  BY <1>2
<1> HIDE DEF r, line, s
<1>5. Legit(p, m, s)
  BY <1>1, <1>2, <1>3, <1>4, OtherLegit
<1>6. s.record \in Records /\ s.record.state = m.state /\ s.line \notin TransitionLines
  BY <1>1, <1>2, <1>3
<1>7. OwnPost(p, s.record)
  BY <1>5 DEF Legit
<1> QED
  BY <1>5, <1>6, <1>7 DEF s

-----------------------------------------------------------------------------
(* A method that is given the invariant keeps it, as long as it starts no  *)
(* timelock and the calls that go on are calls of a running process.       *)

LEMMA CallKeeps ==
    ASSUME IInv, NEW p \in Proposals, Running, NEW steps, Chain(p, mem[p], steps),
           Runs(p, steps), UNCHANGED <<clock, unlock, posts>>,
           seen' \subseteq EventIds,
           call' \in [Proposals -> [Methods -> {"none", "sent", "answered"}]],
           late' \subseteq Proposals \X Methods,
           \A q \in Proposals, method \in Methods :
               call'[q][method] # "none" => call[q][method] # "none" /\ mem' # Down
    PROVE  IInv'
<1>1. /\ mem' \in [Proposals -> Optional(Records)] \union {Down}
      /\ disk' \in [Proposals -> Optional(Records)]
      /\ chain' \in Chains
      /\ faults' \in 0..MaxFaults /\ crashes' \in 0..MaxCrashes
      /\ \A q \in Proposals : Sound(q, disk'[q], unlock[q])
      /\ mem' # Down =>
            \A q \in Proposals :
                /\ InStep(q, mem'[q], disk'[q], unlock[q])
                /\ mem[q] # None => mem'[q] # None
                /\ mem[q] # None /\ mem[q].state \in SinceApproved =>
                      mem'[q].state \in SinceApproved
      /\ Rebuilt'
  BY RunsKeep
<1>2. TypeOK'
  BY <1>1 DEF IInv, TypeOK, LifecycleTypeOK, Chains
<1>3. FilesSound'
  <2>1. \A q \in Proposals : Sound(q, disk'[q], unlock'[q])
    BY <1>1
  <2> QED
    BY <2>1 DEF FilesSound, Sound, Locked, OwnPost
<1>4. MemoryInStep'
  <2>1. mem' # Down => \A q \in Proposals : InStep(q, mem'[q], disk'[q], unlock'[q])
    BY <1>1
  <2> QED
    BY <2>1 DEF MemoryInStep, Running, InStep, Sound, Locked, OwnPost
<1>5. CallsApproved'
  <2> SUFFICES ASSUME NEW q \in Proposals, NEW method \in Methods, call'[q][method] # "none"
               PROVE  /\ mem' # Down /\ mem'[q] # None /\ mem'[q].state \in SinceApproved
                      /\ unlock[q] # None => clock >= unlock[q]
    BY DEF CallsApproved, Running
  <2>1. call[q][method] # "none" /\ mem' # Down
    OBVIOUS
  <2>2. /\ mem[q] # None /\ mem[q].state \in SinceApproved
        /\ unlock[q] # None => clock >= unlock[q]
    BY <2>1 DEF IInv, CallsApproved
  <2> QED
    BY <1>1, <2>1, <2>2
<1>6. OnePost'
  BY DEF IInv, OnePost
<1> QED
  BY <1>1, <1>2, <1>3, <1>4, <1>5, <1>6 DEF IInv

(* A step that appends the line of a verified proposal.                    *)
Verifies(s) == s.line \in TransitionLines /\ s.line.nextState = "VERIFIED"

(* A step that changes neither memory nor file keeps them in agreement,    *)
(* and so does one after which the process is down.                        *)
LEMMA RebuiltSame ==
    ASSUME Rebuilt, disk' = disk, chain' = chain, faults' = faults, mem' \in {mem, Down}
    PROVE  Rebuilt'
  BY DEF Rebuilt, Running, Orderly, Replayable, Complete

(* A method of one step on the record of p, which the process does not die *)
(* in.  Only transition() may verify on its own.                           *)
OwnStep(p) ==
    /\ Running
    /\ \E s : /\ Legit(p, mem[p], s) /\ Runs(p, <<s>>)
              /\ Verifies(s) => "VERIFIED" \in ManualStates

LEMMA OwnStepKeeps ==
    ASSUME IInv, NEW p \in Proposals, OwnStep(p), UNCHANGED <<clock, unlock>>,
           RouterUnchanged
    PROVE  IInv'
<1>1. PICK s : Legit(p, mem[p], s) /\ Runs(p, <<s>>)
  BY DEF OwnStep
<1>2. Chain(p, mem[p], <<s>>) /\ Len(<<s>>) = 1
  BY <1>1, ChainOfOne
<1>3. Running /\ mem' # Down
  BY <1>1, <1>2, RunsKeep DEF OwnStep
<1>4. seen' = seen /\ call' = call /\ late' = late /\ posts' = posts
  BY DEF RouterUnchanged, routerVars
<1> QED
  BY <1>1, <1>2, <1>3, <1>4, CallKeeps DEF IInv, TypeOK

LEMMA CreateProposalSteps ==
    ASSUME IInv, NEW p \in Proposals, CreateProposal(p)
    PROVE  OwnStep(p)
<1>1. Advance(Blank, "CREATED", NoPayload).line.nextState = "CREATED"
  BY AdvanceFields, BlankTyped DEF States
<1> QED
  BY <1>1, CreateLegit DEF CreateProposal, OwnStep, Performs, Verifies

LEMMA TransitionSteps ==
    ASSUME IInv, NEW p \in Proposals, NEW next, Transition(p, next)
    PROVE  OwnStep(p)
<1>1. /\ mem[p] \in Records /\ OwnPost(p, mem[p]) /\ Running
  BY KnownRecord DEF Transition
<1>2. Legit(p, mem[p], Advance(mem[p], next, NoPayload))
  BY <1>1, PlainAdvanceLegit, NoPayloadFields DEF Transition
<1>3. Advance(mem[p], next, NoPayload).line.nextState = next /\ next \in ManualStates
  BY <1>1, EdgeStates, AdvanceFields, NoPayloadFields DEF Transition, Edge, Records
<1> QED
  BY <1>1, <1>2, <1>3 DEF Transition, OwnStep, Performs, Verifies

LEMMA BindTransactionSteps ==
    ASSUME IInv, NEW p \in Proposals, NEW b \in Bindings, BindTransaction(p, b)
    PROVE  OwnStep(p)
<1> DEFINE m == mem[p]
           base == [m EXCEPT !.transactionBindingHash = b]
           payload == [NoPayload EXCEPT !.transactionBindingHash = b]
<1>1. /\ m \in Records /\ OwnPost(p, m) /\ Running /\ m.state = "HASHED"
  BY KnownRecord DEF BindTransaction, In
<1>2. /\ base \in Records /\ payload \in Payloads /\ b # None
      /\ payload.timelockUntil = None /\ payload.externalExecution = None
      /\ payload.approvalId = None /\ payload.transactionBindingHash = b
  BY <1>1, NoneAssumption DEF Records, Payloads, NoPayload, Optional
<1>3. Edge(m.state, "BUILT")
  BY <1>1 DEF Edge, Allowed, Final, Successor
<1>4. /\ base.version = m.version /\ base.validationValid = m.validationValid
      /\ base.processedWebhookIds = m.processedWebhookIds
      /\ base.transactionBindingHash = b /\ base.timelockUntil = m.timelockUntil
      /\ base.simulationBindingHash = m.simulationBindingHash
      /\ base.approval = m.approval /\ base.externalExecution = m.externalExecution
  BY <1>1 DEF Records
<1>5. base # None /\ m # None
  BY <1>1, <1>2, NoneAssumption
<1>6. Performs(p, <<Advance(base, "BUILT", payload)>>)
  BY DEF BindTransaction
<1> HIDE DEF m, base, payload
<1>7. Explains(payload, m, base, "BUILT")
  BY <1>2, <1>4, NoneAssumption DEF Explains, Given, Orderly
<1>8. OwnPost(p, base)
  BY <1>1, <1>4, <1>5 DEF OwnPost
<1>9. Legit(p, m, Advance(base, "BUILT", payload))
  BY <1>1, <1>2, <1>3, <1>7, <1>8, AdvanceLegit
<1>10. Advance(base, "BUILT", payload).line.nextState = "BUILT"
  BY <1>2, AdvanceFields DEF States
<1> QED
  BY <1>1, <1>6, <1>9, <1>10 DEF m, OwnStep, Performs, Verifies

LEMMA RecordSimulationSteps ==
    ASSUME IInv, NEW p \in Proposals, NEW b \in Optional(Bindings), RecordSimulation(p, b)
    PROVE  OwnStep(p)
<1> DEFINE payload == [NoPayload EXCEPT !.transactionBindingHash = b]
<1>1. /\ mem[p] \in Records /\ OwnPost(p, mem[p]) /\ Running
      /\ mem[p].transactionBindingHash = b /\ Allowed(mem[p].state, "SIMULATED")
  BY KnownRecord DEF RecordSimulation
<1>2. /\ payload \in Payloads
      /\ payload.timelockUntil = None /\ payload.externalExecution = None
      /\ payload.approvalId = None /\ payload.transactionBindingHash = b
  BY <1>1 DEF Payloads, NoPayload, Optional
<1>3. Performs(p, <<Advance(mem[p], "SIMULATED", payload)>>)
  BY DEF RecordSimulation
<1> HIDE DEF payload
<1>4. Legit(p, mem[p], Advance(mem[p], "SIMULATED", payload))
  BY <1>1, <1>2, PlainAdvanceLegit
<1>5. Advance(mem[p], "SIMULATED", payload).line.nextState = "SIMULATED"
  BY <1>1, <1>2, AdvanceFields DEF States
<1> QED
  BY <1>1, <1>3, <1>4, <1>5 DEF OwnStep, Performs, Verifies

LEMMA ResimulateSteps ==
    ASSUME IInv, NEW p \in Proposals, NEW b \in Optional(Bindings), Resimulate(p, b)
    PROVE  OwnStep(p)
<1> DEFINE m == mem[p]
           base == [m EXCEPT !.simulationBindingHash = b]
           payload == [NoPayload EXCEPT !.transactionBindingHash = b]
<1>1. /\ m \in Records /\ OwnPost(p, m) /\ Running /\ m.state = "TIMELOCKED"
      /\ m.transactionBindingHash = b
  BY KnownRecord DEF Resimulate, In
<1>2. /\ base \in Records /\ payload \in Payloads
      /\ payload.timelockUntil = None /\ payload.externalExecution = None
      /\ payload.approvalId = None /\ payload.transactionBindingHash = b
  BY <1>1 DEF Records, Payloads, NoPayload, Optional
<1>3. Edge(m.state, "RE_SIMULATED")
  BY <1>1 DEF Edge, Allowed, Final, Successor
<1>4. /\ base.version = m.version /\ base.validationValid = m.validationValid
      /\ base.processedWebhookIds = m.processedWebhookIds
      /\ base.transactionBindingHash = b /\ base.timelockUntil = m.timelockUntil
      /\ base.simulationBindingHash = b
      /\ base.approval = m.approval /\ base.externalExecution = m.externalExecution
  BY <1>1 DEF Records
<1>5. base # None /\ m # None
  BY <1>1, <1>2, NoneAssumption
<1>6. Performs(p, <<Advance(base, "RE_SIMULATED", payload)>>)
  BY DEF Resimulate
<1> HIDE DEF m, base, payload
<1>7. Explains(payload, m, base, "RE_SIMULATED")
  <2>1. Orderly(m) => b = Given(b, m.simulationBindingHash)
    BY <1>1, <1>5 DEF Orderly, Given
  <2> QED
    BY <1>1, <1>2, <1>4, <2>1, NoneAssumption DEF Explains, Given
<1>8. OwnPost(p, base)
  BY <1>1, <1>4, <1>5 DEF OwnPost
<1>9. Legit(p, m, Advance(base, "RE_SIMULATED", payload))
  BY <1>1, <1>2, <1>3, <1>7, <1>8, AdvanceLegit
<1>10. Advance(base, "RE_SIMULATED", payload).line.nextState = "RE_SIMULATED"
  BY <1>2, AdvanceFields DEF States
<1> QED
  BY <1>1, <1>6, <1>9, <1>10 DEF m, OwnStep, Performs, Verifies

LEMMA ApproveSteps ==
    ASSUME IInv, NEW p \in Proposals, NEW id \in ApprovalIds, Approve(p, id)
    PROVE  OwnStep(p)
<1> DEFINE m == mem[p]
           b == m.transactionBindingHash
           approval == [approvalId |-> id, transactionBindingHash |-> b]
           base == [m EXCEPT !.approval = approval]
           payload == [NoPayload EXCEPT !.transactionBindingHash = b, !.approvalId = id]
           approved == Advance(base, "APPROVED", payload)
           s == [approved EXCEPT !.exact = id # "undefined"]
<1>1. /\ m \in Records /\ OwnPost(p, m) /\ Running /\ m.state = "RE_SIMULATED"
  BY KnownRecord DEF Approve, In
<1>a. b \in Optional(Bindings)
  BY <1>1 DEF Records
<1>b. /\ approval \in Optional(Approvals) /\ approval # None
      /\ approval.approvalId = id /\ id # None
  <2>1. approval \in Approvals
    BY <1>a DEF Approvals
  <2>2. id \in {"given", "empty", "undefined"}
    BY LifecycleAssumption
  <2> QED
    BY <2>1, <2>2, NoneAssumption DEF Optional
<1>6. Performs(p, <<s>>)
  BY DEF Approve
<1>c. b = m.transactionBindingHash
  OBVIOUS
<1>d. approval = [approvalId |-> id, transactionBindingHash |-> b]
  OBVIOUS
<1> HIDE DEF b, m, approval
<1>2. /\ base \in Records /\ payload \in Payloads
      /\ payload.timelockUntil = None /\ payload.externalExecution = None
      /\ payload.transactionBindingHash = b /\ payload.approvalId = id
  BY <1>1, <1>a, <1>b DEF Records, Payloads, NoPayload, Optional
<1>3. Edge(m.state, "APPROVED")
  BY <1>1 DEF Edge, Allowed, Final, Successor
<1>4. /\ base.version = m.version /\ base.validationValid = m.validationValid
      /\ base.processedWebhookIds = m.processedWebhookIds
      /\ base.transactionBindingHash = b /\ base.timelockUntil = m.timelockUntil
      /\ base.simulationBindingHash = m.simulationBindingHash
      /\ base.approval = approval
      /\ base.externalExecution = m.externalExecution
  BY <1>1, <1>c DEF Records
<1>5. base # None /\ m # None
  BY <1>1, <1>2, NoneAssumption
<1> HIDE DEF base, payload
<1>7. Explains(payload, m, base, "APPROVED")
  <2>1. Orderly(m) => /\ base.transactionBindingHash = None => base.simulationBindingHash = None
                      /\ m.approval = None
    BY <1>1, <1>4, <1>5, <1>c DEF Orderly, SinceApproved
  <2>2. Kept(approval) = IF id = "given" THEN approval ELSE None
    BY <1>b DEF Kept
  <2>3. Orderly(m) =>
           Kept(base.approval)
              = IF payload.approvalId = "given"
                THEN [approvalId |-> payload.approvalId,
                      transactionBindingHash |-> payload.transactionBindingHash]
                ELSE Kept(m.approval)
    BY <1>2, <1>4, <1>d, <2>1, <2>2 DEF Kept
  <2> QED
    BY <1>1, <1>2, <1>4, <1>c, <2>1, <2>3 DEF Explains, Given
<1>8. OwnPost(p, base)
  BY <1>1, <1>4, <1>5 DEF OwnPost
<1>9. Legit(p, m, approved)
  BY <1>1, <1>2, <1>3, <1>7, <1>8, AdvanceLegit
<1>11. /\ s.record = approved.record /\ s.line = approved.line
       /\ Complete => s.exact
  BY DEF Advance, Complete
<1>12. approved.line.nextState = "APPROVED"
  BY <1>2, AdvanceFields DEF States
<1> HIDE DEF approved, s
<1>13. Legit(p, m, s)
  BY <1>9, <1>11, LegitCopy
<1>10. s.line.nextState = "APPROVED" /\ Legit(p, m, s)
  BY <1>11, <1>12, <1>13
<1> QED
  BY <1>1, <1>6, <1>9, <1>10 DEF m, OwnStep, Performs, Verifies

(* A timelock is returned only when its line is in the file, and from then *)
(* on no other can be started.                                             *)
LEMMA StartTimelockKeeps ==
    ASSUME IInv, NEW p \in Proposals, NEW d \in Durations, StartTimelock(p, d),
           RouterUnchanged
    PROVE  IInv' /\ OwnStep(p)
<1> DEFINE m == mem[p]
           until == clock + d
           base == [m EXCEPT !.timelockUntil = until]
           payload == [NoPayload EXCEPT !.timelockUntil = until]
           s == Advance(base, "TIMELOCKED", payload)
<1>1. /\ m \in Records /\ OwnPost(p, m) /\ Running /\ m.state = "SIMULATED"
      /\ m # None /\ Sound(p, m, unlock[p])
  BY KnownRecord DEF StartTimelock, In
<1>2. /\ until \in Nat /\ until # None
  BY LifecycleAssumption, NoneAssumption DEF IInv, TypeOK, LifecycleTypeOK, Times
<1>3. Runs(p, <<s>>) /\ clock' = clock
  BY DEF StartTimelock
<1>4. unlock' = IF Returned THEN [unlock EXCEPT ![p] = until] ELSE unlock
  BY DEF StartTimelock
<1> HIDE DEF m, until
<1>5. /\ base \in Records /\ payload \in Payloads
      /\ payload.timelockUntil = until /\ payload.externalExecution = None
      /\ payload.approvalId = None /\ payload.transactionBindingHash = None
  BY <1>1, <1>2 DEF Records, Payloads, NoPayload, Optional
<1>6. Edge(m.state, "TIMELOCKED") /\ "TIMELOCKED" \in States
  BY <1>1 DEF Edge, Allowed, Final, Successor, States
<1>7. /\ base.version = m.version /\ base.validationValid = m.validationValid
      /\ base.processedWebhookIds = m.processedWebhookIds
      /\ base.transactionBindingHash = m.transactionBindingHash
      /\ base.timelockUntil = until
      /\ base.simulationBindingHash = m.simulationBindingHash
      /\ base.approval = m.approval /\ base.externalExecution = m.externalExecution
  BY <1>1 DEF Records
<1>8. base # None
  BY <1>5, NoneAssumption
<1> HIDE DEF base, payload
<1>9. Explains(payload, m, base, "TIMELOCKED")
  BY <1>1, <1>2, <1>5, <1>7, <1>8, NoneAssumption DEF Explains, Given, Orderly
<1>10. OwnPost(p, base)
  BY <1>1, <1>7, <1>8 DEF OwnPost
<1>11. Legit(p, m, s)
  BY <1>1, <1>5, <1>6, <1>9, <1>10, AdvanceLegit
<1>12. /\ s.record \in Records /\ s.record.state = "TIMELOCKED"
       /\ s.line \in TransitionLines /\ s.line.nextState = "TIMELOCKED"
       /\ s.line.payload = payload
  BY <1>5, <1>6, AdvanceFields
<1>13. s.record.timelockUntil = until
  <2>1. s.record = [base EXCEPT !.state = "TIMELOCKED", !.version = @ + 1]
    BY DEF Advance
  <2> QED
    BY <1>5, <1>7, <2>1 DEF Records
<1> HIDE DEF s
<1>14. unlock[p] = None
  BY <1>1 DEF Sound, Locked, SinceTimelocked
<1>15. Chain(p, mem[p], <<s>>) /\ Len(<<s>>) = 1 /\ <<s>>[1] = s
  BY <1>11, ChainOfOne DEF m
<1>16. /\ mem' \in [Proposals -> Optional(Records)] \union {Down}
       /\ disk' \in [Proposals -> Optional(Records)]
       /\ chain' \in Chains
       /\ faults' \in 0..MaxFaults /\ crashes' \in 0..MaxCrashes
       /\ \A q \in Proposals : Sound(q, disk'[q], unlock[q])
       /\ mem' # Down
       /\ \A q \in Proposals :
              /\ InStep(q, mem'[q], disk'[q], unlock[q])
              /\ mem[q] # None => mem'[q] # None
              /\ mem[q] # None /\ mem[q].state \in SinceApproved =>
                    mem'[q].state \in SinceApproved
       /\ Rebuilt'
  BY <1>1, <1>3, <1>15, RunsKeep
<1>s. PICK steps : steps = <<s>>
  OBVIOUS
<1>17. PICK k \in 1..Len(steps) : \E n \in {k - 1, k} :
          /\ disk' = [disk EXCEPT ![p] = Written(p, steps, n)]
          /\ mem' \in {Down, [mem EXCEPT ![p] = steps[k].record]}
          /\ faults' = 0 => n = k /\ faults = 0
          /\ Len(steps) = 1 => mem' = [mem EXCEPT ![p] = steps[k].record]
          /\ Returned => /\ k = Len(steps) /\ n = k
                         /\ mem' = [mem EXCEPT ![p] = steps[k].record]
  <2>1. Runs(p, steps) /\ Len(steps) \in 1..3
    BY <1>3, <1>15, <1>s
  <2> QED
    BY <1>1, <2>1, RunsReach DEF IInv
<1>18. Returned => /\ disk'[p] = Replay(disk[p], s.line)
                   /\ mem'[p] = s.record
  <2>1. /\ mem \in [Proposals -> Optional(Records)]
        /\ disk \in [Proposals -> Optional(Records)]
    BY <1>1 DEF IInv, TypeOK, LifecycleTypeOK, Running
  <2> SUFFICES ASSUME Returned
               PROVE  disk'[p] = Replay(disk[p], s.line) /\ mem'[p] = s.record
    OBVIOUS
  <2>2. k = 1
    BY <1>15, <1>17, <1>s
  <2>3. /\ disk' = [disk EXCEPT ![p] = Written(p, <<s>>, 1)]
        /\ mem' = [mem EXCEPT ![p] = s.record]
    BY <1>15, <1>17, <1>s, <2>2
  <2>4. Written(p, <<s>>, 1) = Replay(disk[p], s.line)
    BY <1>15 DEF Written
  <2> QED
    BY <2>1, <2>3, <2>4
<1>19. Returned => /\ Locked(mem'[p], until) /\ Locked(disk'[p], until)
  <2> DEFINE e == IF disk[p] = None THEN Blank ELSE disk[p]
  <2>1. e \in Records /\ Replay(disk[p], s.line) = Replay(e, s.line)
    BY BlankTyped, ReplayOnNone DEF Optional, IInv, TypeOK, LifecycleTypeOK
  <2> HIDE DEF e
  <2>2. /\ Replay(e, s.line) \in Records
        /\ Replay(e, s.line).state = "TIMELOCKED"
        /\ Replay(e, s.line).timelockUntil = Given(until, e.timelockUntil)
    BY <1>5, <1>12, <2>1, ReplayOfTransition
  <2>3. Replay(e, s.line).timelockUntil = until
    BY <1>2, <2>2 DEF Given
  <2>4. Replay(e, s.line) # None /\ s.record # None
    BY <1>12, <2>2, NoneAssumption
  <2> QED
    BY <1>12, <1>13, <1>18, <2>1, <2>2, <2>3, <2>4 DEF Locked, SinceTimelocked
<1>20. unlock \in [Proposals -> Optional(Nat)]
  BY DEF IInv, TypeOK, LifecycleTypeOK
<1>21. \A q \in Proposals : \/ unlock'[q] = unlock[q]
                            \/ q = p /\ Returned /\ unlock'[q] = until
  BY <1>4, <1>20
<1>22. \A q \in Proposals : /\ Sound(q, disk'[q], unlock'[q])
                            /\ InStep(q, mem'[q], disk'[q], unlock'[q])
  <2> TAKE q \in Proposals
  <2>1. CASE unlock'[q] = unlock[q]
    BY <1>16, <2>1
  <2>2. CASE q = p /\ Returned /\ unlock'[q] = until
    BY <1>16, <1>19, <2>2 DEF InStep, Sound
  <2> QED
    BY <1>21, <2>1, <2>2
<1>23. seen' = seen /\ call' = call /\ late' = late /\ posts' = posts
  BY DEF RouterUnchanged, routerVars
<1>24. TypeOK'
  <2>1. unlock' \in [Proposals -> Optional(Nat)]
    BY <1>2, <1>4, <1>20 DEF Optional
  <2> QED
    BY <1>3, <1>16, <1>23, <2>1 DEF IInv, TypeOK, LifecycleTypeOK, Chains
<1>25. FilesSound' /\ MemoryInStep'
  BY <1>22 DEF FilesSound, MemoryInStep, InStep, Sound, Locked, OwnPost
<1>26. CallsApproved'
  <2> SUFFICES ASSUME NEW q \in Proposals, NEW method \in Methods, call[q][method] # "none"
               PROVE  /\ mem' # Down /\ mem'[q] # None /\ mem'[q].state \in SinceApproved
                      /\ unlock'[q] # None => clock >= unlock'[q]
    BY <1>3, <1>23 DEF CallsApproved, Running
  <2>1. /\ mem[q] # None /\ mem[q].state \in SinceApproved
        /\ unlock[q] # None => clock >= unlock[q]
    BY DEF IInv, CallsApproved
  <2>2. q # p
    BY <1>1, <2>1 DEF SinceApproved, m
  <2> QED
    BY <1>16, <1>21, <2>1, <2>2
<1>27. OnePost'
  BY <1>23 DEF IInv, OnePost
<1>28. IInv'
  BY <1>16, <1>24, <1>25, <1>26, <1>27 DEF IInv
<1>29. OwnStep(p)
  BY <1>1, <1>3, <1>11, <1>12 DEF m, OwnStep, Verifies
<1> QED
  BY <1>28, <1>29

LEMMA ValidatePostKeeps ==
    ASSUME IInv, ValidatePost
    PROVE  IInv' /\ \E p \in Proposals : OwnStep(p)
<1>1. PICK p \in Proposals, valid \in BOOLEAN : RecordValidation(p, valid)
  BY DEF ValidatePost
<1>2. mem[p] \in Records /\ OwnPost(p, mem[p]) /\ Running
  BY <1>1, KnownRecord DEF RecordValidation
<1>3. OwnStep(p)
  BY <1>1, <1>2, ValidationLegit DEF RecordValidation, OwnStep, Performs, Verifies,
                                     TransitionLines
<1>4. UNCHANGED <<clock, unlock>>
  BY <1>1 DEF RecordValidation, Performs
<1> QED
  BY <1>3, <1>4, OwnStepKeeps DEF ValidatePost

LEMMA OwnerCallsKeep ==
    ASSUME IInv, OwnerCalls, RouterUnchanged
    PROVE  IInv' /\ \E p \in Proposals : OwnStep(p)
<1>1. PICK p \in Proposals :
         \/ CreateProposal(p)
         \/ \E next \in ManualStates : Transition(p, next)
         \/ \E b \in Bindings : BindTransaction(p, b)
         \/ \E b \in Optional(Bindings) : RecordSimulation(p, b) \/ Resimulate(p, b)
         \/ \E d \in Durations : StartTimelock(p, d)
         \/ \E id \in ApprovalIds : Approve(p, id)
  BY DEF OwnerCalls
<1>2. CASE \E d \in Durations : StartTimelock(p, d)
  BY <1>2, StartTimelockKeeps
<1>3. CASE ~\E d \in Durations : StartTimelock(p, d)
  <2>1. OwnStep(p)
    BY <1>1, <1>3, CreateProposalSteps, TransitionSteps, BindTransactionSteps,
       RecordSimulationSteps, ResimulateSteps, ApproveSteps
  <2>2. UNCHANGED <<clock, unlock>>
    BY <1>1, <1>3 DEF CreateProposal, Transition, BindTransaction, RecordSimulation,
                      Resimulate, Approve, Performs
  <2> QED
    BY <2>1, <2>2, OwnStepKeeps
<1> QED
  BY <1>2, <1>3

-----------------------------------------------------------------------------
(* recordWebhook: one to three steps.                                      *)

LEMMA Joined ==
    ASSUME NEW a, NEW b, NEW c
    PROVE  /\ <<a>> \o <<>> = <<a>>
           /\ <<a>> \o <<b>> = <<a, b>>
           /\ <<a>> \o <<b, c>> = <<a, b, c>>
<1> DEFINE S == {a, b, c}
<1>1. /\ <<>> \in Seq(S) /\ <<a>> \in Seq(S) /\ <<b>> \in Seq(S)
      /\ <<b, c>> \in Seq(S) /\ <<a, b>> \in Seq(S) /\ <<a, b, c>> \in Seq(S)
  OBVIOUS
<1> HIDE DEF S
<1>2. <<a>> \o <<>> = <<a>>
  BY <1>1, ConcatEmptySeq
<1>3. <<a>> \o <<b>> = <<a, b>>
  <2>1. /\ <<a>> \o <<b>> \in Seq(S) /\ Len(<<a>> \o <<b>>) = 2
        /\ (<<a>> \o <<b>>)[1] = a /\ (<<a>> \o <<b>>)[2] = b
    BY <1>1, ConcatProperties
  <2>2. PICK q \in Seq(S) : q = <<a>> \o <<b>>
    BY <2>1
  <2>3. \A i \in 1..2 : q[i] = <<a, b>>[i]
    <3>1. q[1] = <<a, b>>[1] /\ q[2] = <<a, b>>[2]
      BY <2>1, <2>2
    <3>2. \A i \in 1..2 : i = 1 \/ i = 2
      OBVIOUS
    <3> QED
      BY <3>1, <3>2
  <2>4. Len(q) = 2 /\ Len(<<a, b>>) = 2
    BY <2>1, <2>2
  <2>5. q = <<a, b>>
    BY <1>1, <2>3, <2>4, SeqEqual
  <2> QED
    BY <2>2, <2>5
<1>4. <<a>> \o <<b, c>> = <<a, b, c>>
  <2>1. /\ <<a>> \o <<b, c>> \in Seq(S) /\ Len(<<a>> \o <<b, c>>) = 3
        /\ (<<a>> \o <<b, c>>)[1] = a /\ (<<a>> \o <<b, c>>)[2] = b
        /\ (<<a>> \o <<b, c>>)[3] = c
    BY <1>1, ConcatProperties
  <2>2. PICK q \in Seq(S) : q = <<a>> \o <<b, c>>
    BY <2>1
  <2>3. \A i \in 1..3 : q[i] = <<a, b, c>>[i]
    <3>1. q[1] = <<a, b, c>>[1] /\ q[2] = <<a, b, c>>[2] /\ q[3] = <<a, b, c>>[3]
      BY <2>1, <2>2
    <3>2. \A i \in 1..3 : i = 1 \/ i = 2 \/ i = 3
      OBVIOUS
    <3> QED
      BY <3>1, <3>2
  <2>4. Len(q) = 3 /\ Len(<<a, b, c>>) = 3
    BY <2>1, <2>2
  <2>5. q = <<a, b, c>>
    BY <1>1, <2>3, <2>4, SeqEqual
  <2> QED
    BY <2>2, <2>5
<1> QED
  BY <1>2, <1>3, <1>4

(* Only a published post is verified.                                      *)
LEMMA WebhookChain ==
    ASSUME NEW p, NEW m \in Records, OwnPost(p, m), NEW id \in EventIds,
           NEW event, Named(event)
    PROVE  /\ Chain(p, m, WebhookSteps(m, id, event))
           /\ \A k \in 1..Len(WebhookSteps(m, id, event)) :
                 WebhookSteps(m, id, event)[k].line \in TransitionLines =>
                     \/ WebhookSteps(m, id, event)[k].line.nextState # "VERIFIED"
                     \/ event = "post.published"
<1> DEFINE s1 == Logged(m, id, event)
           logged == s1.record
           confirmed == Advance(logged, "CONFIRMED", NoPayload)
           verified == Advance(confirmed.record, "VERIFIED", NoPayload)
           direct == Advance(logged, "VERIFIED", NoPayload)
           rejected == Advance(logged, "REJECTED", NoPayload)
           rest == CASE event = "post.published" /\ m.state = "BROADCAST" ->
                             <<confirmed, verified>>
                     [] event = "post.published" /\ m.state = "CONFIRMED" -> <<direct>>
                     [] event \in Rejecting /\ m.state = "BROADCAST" -> <<rejected>>
                     [] OTHER -> <<>>
           steps == WebhookSteps(m, id, event)
<1>1. steps = <<s1>> \o rest
  BY DEF WebhookSteps
<1>2. /\ Legit(p, m, s1) /\ logged \in Records /\ logged.state = m.state
      /\ OwnPost(p, logged) /\ s1.record = logged /\ s1.line \notin TransitionLines
  BY LoggedLegit
<1>a. "post.published" \notin Rejecting
  BY DEF Rejecting
<1> HIDE DEF logged, s1
<1>3. ASSUME m.state = "BROADCAST"
      PROVE  /\ Legit(p, logged, confirmed) /\ Legit(p, confirmed.record, verified)
             /\ Legit(p, logged, rejected)
             /\ confirmed.line.nextState = "CONFIRMED"
             /\ rejected.line.nextState = "REJECTED"
  <2>1. Allowed(logged.state, "CONFIRMED") /\ Allowed(logged.state, "REJECTED")
    BY <1>2, <1>3 DEF Allowed, Final, Successor
  <2>2. Legit(p, logged, confirmed) /\ Legit(p, logged, rejected)
    BY <1>2, <2>1, PlainAdvanceLegit, NoPayloadFields
  <2>3. /\ confirmed.record \in Records /\ confirmed.record.state = "CONFIRMED"
        /\ confirmed.line.nextState = "CONFIRMED" /\ rejected.line.nextState = "REJECTED"
    BY <1>2, NoPayloadFields, AdvanceFields DEF States
  <2> HIDE DEF confirmed, rejected
  <2>4. OwnPost(p, confirmed.record) /\ Allowed(confirmed.record.state, "VERIFIED")
    BY <2>2, <2>3 DEF Legit, Allowed, Final, Successor
  <2>5. Legit(p, confirmed.record, verified)
    BY <2>3, <2>4, PlainAdvanceLegit, NoPayloadFields
  <2> QED
    BY <2>2, <2>3, <2>5
<1>4. ASSUME m.state = "CONFIRMED"
      PROVE  Legit(p, logged, direct)
  <2>1. Allowed(logged.state, "VERIFIED")
    BY <1>2, <1>4 DEF Allowed, Final, Successor
  <2> QED
    BY <1>2, <2>1, PlainAdvanceLegit, NoPayloadFields
<1> HIDE DEF confirmed, verified, direct, rejected, steps
<1> DEFINE Good(q) ==
      /\ Chain(p, m, q)
      /\ \A k \in 1..Len(q) :
            q[k].line \in TransitionLines =>
                q[k].line.nextState # "VERIFIED" \/ event = "post.published"
<1>5. CASE event = "post.published" /\ m.state = "BROADCAST"
  <2>1. steps = <<s1, confirmed, verified>>
    BY <1>1, <1>5, <1>a, Joined
  <2>2. Chain(p, m, steps)
    BY <1>2, <1>3, <1>5, <2>1 DEF Chain
  <2> QED
    BY <1>5, <2>2 DEF steps
<1>6. CASE event = "post.published" /\ m.state = "CONFIRMED"
  <2>1. steps = <<s1, direct>>
    BY <1>1, <1>6, Joined
  <2> QED
    BY <1>2, <1>4, <1>6, <2>1 DEF Chain, steps
<1>7. CASE event \in Rejecting /\ m.state = "BROADCAST"
  <2>1. steps = <<s1, rejected>>
    BY <1>1, <1>7, <1>a, Joined
  <2>2. Chain(p, m, steps)
    BY <1>2, <1>3, <1>7, <2>1 DEF Chain
  <2>3. \A k \in 1..Len(steps) :
           steps[k].line \in TransitionLines => steps[k].line.nextState # "VERIFIED"
    <3> TAKE k \in 1..Len(steps)
    <3>1. k \in {1, 2} /\ steps[1] = s1 /\ steps[2] = rejected
      BY <2>1
    <3> QED
      BY <1>2, <1>3, <1>7, <3>1
  <2> QED
    BY <2>2, <2>3 DEF steps
<1>8. CASE ~(event = "post.published" /\ m.state \in {"BROADCAST", "CONFIRMED"})
           /\ ~(event \in Rejecting /\ m.state = "BROADCAST")
  <2>1. steps = <<s1>>
    BY <1>1, <1>8, Joined
  <2>2. Chain(p, m, steps)
    BY <1>2, <2>1 DEF Chain
  <2>3. \A k \in 1..Len(steps) : steps[k].line \notin TransitionLines
    BY <1>2, <2>1
  <2> QED
    BY <2>2, <2>3 DEF steps
<1> QED
  BY <1>5, <1>6, <1>7, <1>8

(* An event of a post correlates with the proposal of the post only.       *)
LEMMA CorrelatedOwn ==
    ASSUME IInv, NEW p \in Proposals, NEW x \in posts, Correlated(p, x.id)
    PROVE  /\ x.proposal = p
           /\ mem[p] \in Records /\ OwnPost(p, mem[p]) /\ Running
<1>1. mem[p] \in Records /\ OwnPost(p, mem[p]) /\ Running /\ mem[p] # None
  BY KnownRecord DEF Correlated
<1>2. x.id = PostId(p)
  BY <1>1 DEF Correlated, OwnPost
<1>3. x.id = PostId(x.proposal)
  BY DEF IInv, OnePost
<1> QED
  BY <1>1, <1>2, <1>3 DEF PostId

LEMMA EventIdsKnown ==
    ASSUME TypeOK, NEW x \in posts,
           NEW event \in Events
    PROVE  WebhookEventId(x.id, event) \in EventIds /\ StatusEventId(x.id, event) \in EventIds
<1>1. x.id \in Posts
  BY DEF TypeOK
<1> QED
  BY <1>1, RouterAssumption DEF WebhookEventId, StatusEventId

(* What the service reports of a post.                                     *)
LEMMA Reported ==
    ASSUME NEW x, NEW event \in EventsOf(x)
    PROVE  /\ event \in Events
           /\ Named(event)
           /\ event = "post.published" => x.status = "published"
<1>1. event \in OtherEvents \/ (event = EventOf(x.status) /\ x.status # "open")
  BY DEF EventsOf
<1>2. CASE event \in OtherEvents
  BY <1>2, RouterAssumption DEF Events, Complete, Named
<1>3. CASE event = EventOf(x.status)
  BY <1>3 DEF EventOf, Events, Named
<1> QED
  BY <1>1, <1>2, <1>3

LEMMA Answered ==
    ASSUME NEW x, Poll(x)
    PROVE  /\ EventOf(x.status) \in Events /\ Named(EventOf(x.status))
           /\ EventOf(x.status) = "post.published" => x.status = "published"
  BY DEF Poll, EventOf, Events, Named

LEMMA RecordWebhookKeeps ==
    ASSUME IInv, NEW p \in Proposals, NEW x \in posts, NEW id \in EventIds,
           NEW event, Named(event),
           RecordWebhook(p, id, event, x.id),
           seen' \subseteq EventIds, posts' = posts,
           mem' = Down => RouterDies,
           mem' # Down => UNCHANGED <<call, late>>
    PROVE  IInv'
<1>1. mem[p] \in Records /\ OwnPost(p, mem[p]) /\ Running
  BY CorrelatedOwn DEF RecordWebhook
<1>2. Chain(p, mem[p], WebhookSteps(mem[p], id, event))
  BY <1>1, WebhookChain
<1>3. Runs(p, WebhookSteps(mem[p], id, event)) /\ UNCHANGED <<clock, unlock>>
  BY DEF RecordWebhook, Performs
<1>4. /\ call' \in [Proposals -> [Methods -> {"none", "sent", "answered"}]]
      /\ late' \subseteq Proposals \X Methods
      /\ \A q \in Proposals, method \in Methods :
             call'[q][method] # "none" => call[q][method] # "none" /\ mem' # Down
  BY DEF IInv, TypeOK, RouterDies, NoCalls
<1> QED
  BY <1>1, <1>2, <1>3, <1>4, CallKeeps

LEMMA IngestWebhookKeeps ==
    ASSUME IInv, NEW x \in posts, NEW event \in EventsOf(x), IngestWebhook(x, event)
    PROVE  IInv'
<1> DEFINE id == WebhookEventId(x.id, event)
<1>1. event \in Events /\ Named(event)
  BY Reported
<1>2. id \in EventIds
  BY <1>1, EventIdsKnown DEF IInv
<1> HIDE DEF id
<1>3. CASE /\ \E p \in Proposals : RecordWebhook(p, id, event, x.id)
           /\ IF mem' = Down THEN RouterDies
              ELSE /\ seen' = IF Returned THEN seen \union {id} ELSE seen
                   /\ UNCHANGED <<call, late, posts>>
  <2>1. seen' \subseteq EventIds /\ posts' = posts
    BY <1>2, <1>3 DEF IInv, TypeOK, RouterDies
  <2> QED
    <3>1. PICK p \in Proposals : RecordWebhook(p, id, event, x.id)
      BY <1>3
    <3>2. mem' = Down => RouterDies
      BY <1>3
    <3>3. mem' # Down => UNCHANGED <<call, late>>
      BY <1>3
    <3> QED
      BY <1>1, <1>2, <2>1, <3>1, <3>2, <3>3, RecordWebhookKeeps
<1>4. CASE seen' = seen \union {id} /\ UNCHANGED <<lifecycleVars, call, late, posts>>
  <2>1. TypeOK'
    BY <1>2, <1>4 DEF IInv, TypeOK, lifecycleVars, LifecycleTypeOK
  <2>2. FilesSound' /\ MemoryInStep'
    BY <1>4 DEF IInv, lifecycleVars, FilesSound, MemoryInStep, Running, Sound,
                InStep, Locked, OwnPost
  <2>4. Rebuilt'
    BY <1>4, RebuiltSame DEF IInv, lifecycleVars
  <2>3. CallsApproved' /\ OnePost'
    BY <1>4 DEF IInv, lifecycleVars, CallsApproved, OnePost, Running
  <2> QED
    BY <2>1, <2>2, <2>3, <2>4 DEF IInv
<1> QED
  BY <1>3, <1>4 DEF IngestWebhook, id

LEMMA PollKeeps ==
    ASSUME IInv, NEW x \in posts, Poll(x)
    PROVE  IInv'
<1> DEFINE event == EventOf(x.status)
           id == StatusEventId(x.id, event)
<1>1. event \in Events /\ Named(event)
  BY Answered
<1>2. id \in EventIds
  BY <1>1, EventIdsKnown DEF IInv
<1>3. x.proposal \in Proposals
  BY DEF IInv, TypeOK
<1>4. RecordWebhook(x.proposal, id, event, x.id)
  BY DEF Poll
<1>5. IF mem' = Down THEN RouterDies ELSE RouterUnchanged
  BY DEF Poll
<1> HIDE DEF id, event
<1>6. seen' \subseteq EventIds /\ posts' = posts
  BY <1>5 DEF IInv, TypeOK, RouterDies, RouterUnchanged, routerVars
<1> QED
  <2>1. mem' = Down => RouterDies
    BY <1>5
  <2>2. mem' # Down => UNCHANGED <<call, late>>
    BY <1>5 DEF RouterUnchanged, routerVars
  <2> QED
    BY <1>1, <1>2, <1>3, <1>4, <1>6, <2>1, <2>2, RecordWebhookKeeps

-----------------------------------------------------------------------------
(* The calls of the service.                                               *)

CallStates == {"none", "sent", "answered"}

LEMMA CallUpdated ==
    ASSUME TypeOK, NEW p \in Proposals, NEW method \in Methods, NEW v \in CallStates,
           call' = [call EXCEPT ![p][method] = v]
    PROVE  /\ call' \in [Proposals -> [Methods -> {"none", "sent", "answered"}]]
           /\ \A q \in Proposals, way \in Methods :
                 call'[q][way] # "none" =>
                     call[q][way] # "none" \/ (q = p /\ v # "none")
<1>1. call \in [Proposals -> [Methods -> {"none", "sent", "answered"}]]
  BY DEF TypeOK
<1> QED
  BY <1>1 DEF CallStates

(* What leaves records, file and clock alone, and calls the service only   *)
(* for an approved proposal whose timelock is over.                        *)
LEMMA RouterKeeps ==
    ASSUME IInv, UNCHANGED lifecycleVars,
           seen' \subseteq EventIds,
           call' \in [Proposals -> [Methods -> {"none", "sent", "answered"}]],
           late' \subseteq Proposals \X Methods,
           posts' \subseteq [id : Posts, proposal : Proposals,
                             status : {"open", "published", "failed", "cancelled"}],
           OnePost',
           \A q \in Proposals, method \in Methods :
               call'[q][method] # "none" =>
                   \/ call[q][method] # "none"
                   \/ /\ Running /\ mem[q] # None /\ mem[q].state \in SinceApproved
                      /\ unlock[q] # None => clock >= unlock[q]
    PROVE  IInv'
<1>1. TypeOK'
  BY DEF IInv, TypeOK, lifecycleVars, LifecycleTypeOK
<1>2. FilesSound' /\ MemoryInStep'
  BY DEF IInv, lifecycleVars, FilesSound, MemoryInStep, Running, Sound, InStep, Locked, OwnPost
<1>4. Rebuilt'
  BY RebuiltSame DEF IInv, lifecycleVars
<1>3. CallsApproved'
  <2> SUFFICES ASSUME NEW q \in Proposals, NEW method \in Methods, call'[q][method] # "none"
               PROVE  /\ Running /\ mem[q] # None /\ mem[q].state \in SinceApproved
                      /\ unlock[q] # None => clock >= unlock[q]
    BY DEF CallsApproved, lifecycleVars, Running
  <2> QED
    BY DEF IInv, CallsApproved
<1> QED
  BY <1>1, <1>2, <1>3, <1>4 DEF IInv

LEMMA SendKeeps ==
    ASSUME IInv, NEW p \in Proposals, NEW method \in Methods, Send(p, method)
    PROVE  IInv'
<1>1. /\ AssertApproved(p) /\ call' = [call EXCEPT ![p][method] = "sent"]
      /\ UNCHANGED <<lifecycleVars, seen, late, posts>>
  BY DEF Send
<1>2. /\ mem[p] \in Records /\ Running /\ mem[p] # None /\ Sound(p, mem[p], unlock[p])
      /\ mem[p].state = "APPROVED" /\ TimelockOver(p)
  BY <1>1, KnownRecord DEF AssertApproved, In
<1>3. mem[p].state \in SinceApproved
  BY <1>2 DEF SinceApproved
<1>4. unlock[p] # None => clock >= unlock[p]
  BY <1>2 DEF Sound, Locked, TimelockOver
<1>5. /\ call' \in [Proposals -> [Methods -> {"none", "sent", "answered"}]]
      /\ \A q \in Proposals, way \in Methods :
            call'[q][way] # "none" => call[q][way] # "none" \/ q = p
  BY <1>1, CallUpdated DEF IInv, CallStates
<1>6. OnePost'
  BY <1>1 DEF IInv, OnePost
<1> QED
  BY <1>1, <1>2, <1>3, <1>4, <1>5, <1>6, RouterKeeps DEF IInv, TypeOK

(* The service makes a post only for an id that it does not know.          *)
LEMMA CreatePostKeeps ==
    ASSUME IInv, NEW p \in Proposals, NEW method \in Methods, CreatePost(p, method)
    PROVE  /\ posts' \subseteq [id : Posts, proposal : Proposals,
                                status : {"open", "published", "failed", "cancelled"}]
           /\ OnePost'
           /\ \/ posts' = posts
              \/ /\ \A y \in posts : y.proposal # p
                 /\ posts' = posts \union {[id |-> PostId(p), proposal |-> p,
                                            status |-> "open"]}
<1> DEFINE new == [id |-> PostId(p), proposal |-> p, status |-> "open"]
<1>1. RequestId(p, method) = PostId(p)
  BY DEF RequestId, PostId
<1>2. PostId(p) \in Posts
  BY RouterAssumption DEF PostId
<1>3. /\ new \in [id : Posts, proposal : Proposals, status : {"open", "published", "failed", "cancelled"}]
      /\ new.id = PostId(p) /\ new.proposal = p
  BY <1>2
<1>4. posts' = IF Exists(PostId(p)) THEN posts ELSE posts \union {new}
  <2>1. posts' = posts \union {[id |-> id, proposal |-> p, status |-> "open"] :
                                   id \in {i \in {PostId(p)} : ~Exists(i)}}
    BY <1>1 DEF CreatePost
  <2>2. CASE Exists(PostId(p))
    <3>1. {i \in {PostId(p)} : ~Exists(i)} = {}
      BY <2>2
    <3> QED
      BY <2>1, <2>2, <3>1
  <2>3. CASE ~Exists(PostId(p))
    <3>1. {i \in {PostId(p)} : ~Exists(i)} = {PostId(p)}
      BY <2>3
    <3> QED
      BY <2>1, <2>3, <3>1
  <2> QED
    BY <2>2, <2>3
<1> HIDE DEF new
<1>5. \A y \in posts : y.id = PostId(y.proposal)
  BY DEF IInv, OnePost
<1>6. ~Exists(PostId(p)) => \A y \in posts : y.proposal # p
  BY <1>5 DEF Exists
<1>7. OnePost'
  <2>1. CASE posts' = posts
    BY <2>1 DEF IInv, OnePost
  <2>2. CASE posts' = posts \union {new} /\ \A y \in posts : y.proposal # p
    BY <1>3, <2>2 DEF IInv, OnePost
  <2> QED
    BY <1>4, <1>6, <2>1, <2>2
<1>8. posts' \subseteq [id : Posts, proposal : Proposals,
                        status : {"open", "published", "failed", "cancelled"}]
  BY <1>3, <1>4 DEF IInv, TypeOK
<1> QED
  BY <1>4, <1>6, <1>7, <1>8 DEF new

LEMMA ServeKeeps ==
    ASSUME IInv, NEW p \in Proposals, NEW method \in Methods,
           Serve(p, method) \/ ServeLate(p, method)
    PROVE  IInv'
<1>1. /\ CreatePost(p, method) /\ UNCHANGED <<lifecycleVars, seen>>
      /\ late' \subseteq late
  BY DEF Serve, ServeLate
<1>2. /\ call' \in [Proposals -> [Methods -> {"none", "sent", "answered"}]]
      /\ \A q \in Proposals, way \in Methods :
            call'[q][way] # "none" => call[q][way] # "none"
  <2>1. CASE Serve(p, method)
    <3>1. call[p][method] = "sent" /\ call' = [call EXCEPT ![p][method] = "answered"]
      BY <2>1 DEF Serve
    <3> QED
      BY <3>1 DEF IInv, TypeOK
  <2>2. CASE ServeLate(p, method)
    BY <2>2 DEF ServeLate, IInv, TypeOK
  <2> QED
    BY <2>1, <2>2
<1>3. /\ posts' \subseteq [id : Posts, proposal : Proposals,
                           status : {"open", "published", "failed", "cancelled"}]
      /\ OnePost'
  BY <1>1, CreatePostKeeps
<1>4. seen' \subseteq EventIds /\ late' \subseteq Proposals \X Methods
  BY <1>1 DEF IInv, TypeOK
<1> QED
  BY <1>1, <1>2, <1>3, <1>4, RouterKeeps

LEMMA EndsKeep ==
    ASSUME IInv, NEW p \in Proposals, NEW method \in Methods,
           Lose(p, method) \/ AlreadyRecorded(p, method) \/ Fail(p, method)
    PROVE  IInv'
<1>1. UNCHANGED <<lifecycleVars, seen, posts>>
  BY DEF Lose, AlreadyRecorded, Fail
<1>2. late' \subseteq Proposals \X Methods
  BY DEF Lose, AlreadyRecorded, Fail, IInv, TypeOK
<1>3. /\ call' \in [Proposals -> [Methods -> {"none", "sent", "answered"}]]
      /\ \A q \in Proposals, way \in Methods :
            call'[q][way] # "none" => call[q][way] # "none"
  <2>1. call' = call \/ call' = [call EXCEPT ![p][method] = "none"]
    BY DEF Lose, AlreadyRecorded, Fail
  <2> QED
    BY <2>1, CallUpdated DEF IInv, TypeOK, CallStates
<1>4. OnePost'
  BY <1>1 DEF IInv, OnePost
<1> QED
  BY <1>1, <1>2, <1>3, <1>4, RouterKeeps DEF IInv, TypeOK

(* The execution names the post of its own proposal.                       *)
LEMMA RecordedLegit ==
    ASSUME NEW p, NEW m \in Records, OwnPost(p, m), m.state = "APPROVED",
           NEW execution \in Externals, execution.postId = PostId(p)
    PROVE  Legit(p, m, Advance([m EXCEPT !.externalExecution = execution], "BROADCAST",
                               [NoPayload EXCEPT !.externalExecution = execution]))
<1> DEFINE base == [m EXCEPT !.externalExecution = execution]
           payload == [NoPayload EXCEPT !.externalExecution = execution]
<1>1. execution # None /\ m # None
  BY NoneAssumption
<1>2. /\ base \in Records /\ payload \in Payloads
      /\ payload.timelockUntil = None /\ payload.externalExecution = execution
      /\ payload.approvalId = None /\ payload.transactionBindingHash = None
  BY DEF Records, Payloads, NoPayload, Optional
<1>3. Edge(m.state, "BROADCAST")
  BY DEF Edge
<1>4. /\ base.version = m.version /\ base.validationValid = m.validationValid
      /\ base.processedWebhookIds = m.processedWebhookIds
      /\ base.transactionBindingHash = m.transactionBindingHash
      /\ base.timelockUntil = m.timelockUntil
      /\ base.simulationBindingHash = m.simulationBindingHash
      /\ base.approval = m.approval /\ base.externalExecution = execution
  BY DEF Records
<1>5. base # None
  BY <1>2, NoneAssumption
<1> HIDE DEF base, payload
<1>6. Explains(payload, m, base, "BROADCAST")
  BY <1>1, <1>2, <1>4, <1>5, NoneAssumption DEF Explains, Given, Orderly
<1>7. OwnPost(p, base)
  BY <1>4, <1>5 DEF OwnPost
<1>8. Legit(p, m, Advance(base, "BROADCAST", payload))
  BY <1>2, <1>3, <1>6, <1>7, AdvanceLegit
<1> QED
  BY <1>8 DEF base, payload

LEMMA RecordedKeeps ==
    ASSUME IInv, NEW p \in Proposals, NEW method \in Methods, Recorded(p, method)
    PROVE  IInv' /\ OwnStep(p)
<1> DEFINE id == RequestId(p, method)
           execution == [postId |-> id, requestId |-> id]
           s == Advance([mem[p] EXCEPT !.externalExecution = execution], "BROADCAST",
                        [NoPayload EXCEPT !.externalExecution = execution])
<1>1. id = PostId(p) /\ id \in Posts
  BY RouterAssumption DEF RequestId, PostId
<1>2. RecordExternalExecution(p, execution)
  BY DEF Recorded
<1> HIDE DEF id
<1>3. execution \in Externals /\ execution.postId = PostId(p)
  BY <1>1 DEF Externals
<1>4. In(p, "APPROVED") /\ Performs(p, <<s>>)
  BY <1>2 DEF RecordExternalExecution
<1> HIDE DEF execution
<1>5. mem[p] \in Records /\ OwnPost(p, mem[p]) /\ Running /\ mem[p].state = "APPROVED"
  BY <1>4, KnownRecord DEF In
<1>6. Legit(p, mem[p], s)
  BY <1>3, <1>5, RecordedLegit
<1>a. s.line.nextState = "BROADCAST"
  <2>1. /\ [mem[p] EXCEPT !.externalExecution = execution] \in Records
        /\ [NoPayload EXCEPT !.externalExecution = execution] \in Payloads
    BY <1>3, <1>5 DEF Records, Payloads, NoPayload, Optional
  <2> QED
    BY <2>1, AdvanceFields DEF States
<1> HIDE DEF s
<1>7. Chain(p, mem[p], <<s>>) /\ Len(<<s>>) = 1
  BY <1>6, ChainOfOne
<1>8. Runs(p, <<s>>) /\ UNCHANGED <<clock, unlock>>
  BY <1>4 DEF Performs
<1>9. mem' # Down
  BY <1>5, <1>7, <1>8, RunsKeep
<1>10. /\ call' = [call EXCEPT ![p][method] = "none"]
       /\ UNCHANGED <<seen, late, posts>>
  BY DEF Recorded
<1>11. /\ call' \in [Proposals -> [Methods -> {"none", "sent", "answered"}]]
       /\ \A q \in Proposals, way \in Methods :
             call'[q][way] # "none" => call[q][way] # "none"
  BY <1>10, CallUpdated DEF IInv, CallStates
<1>12. OwnStep(p)
  BY <1>5, <1>6, <1>8, <1>a DEF OwnStep, Verifies
<1> QED
  BY <1>5, <1>7, <1>8, <1>9, <1>10, <1>11, <1>12, CallKeeps DEF IInv, TypeOK

LEMMA SettleKeeps ==
    ASSUME IInv, NEW x \in posts, NEW outcome \in Outcomes,
           Settle(x, outcome)
    PROVE  IInv'
<1> DEFINE y == [x EXCEPT !.status = outcome]
<1>1. x \in [id : Posts, proposal : Proposals, status : {"open", "published", "failed", "cancelled"}]
  BY DEF IInv, TypeOK
<1>2. /\ y \in [id : Posts, proposal : Proposals, status : {"open", "published", "failed", "cancelled"}]
      /\ y.id = x.id /\ y.proposal = x.proposal
  BY <1>1, RouterAssumption
<1>3. /\ posts' = (posts \ {x}) \union {y}
      /\ UNCHANGED <<lifecycleVars, seen, call, late>>
  BY DEF Settle
<1> HIDE DEF y
<1>4. posts' \subseteq [id : Posts, proposal : Proposals,
                        status : {"open", "published", "failed", "cancelled"}]
  BY <1>2, <1>3 DEF IInv, TypeOK
<1>5. \A z \in posts : z.proposal = x.proposal => z = x
  BY DEF IInv, OnePost
<1>6. OnePost'
  BY <1>2, <1>3, <1>5 DEF IInv, OnePost
<1> QED
  BY <1>3, <1>4, <1>6, RouterKeeps DEF IInv, TypeOK

-----------------------------------------------------------------------------
(* Time, and the death and restart of the process.                         *)

LEMMA TickKeeps ==
    ASSUME IInv, Tick, RouterUnchanged
    PROVE  IInv'
<1>1. /\ clock' = clock + 1 /\ clock < MaxTime
      /\ UNCHANGED <<mem, disk, chain, unlock, faults, crashes, seen, call, late, posts>>
  BY DEF Tick, RouterUnchanged, routerVars
<1>2. clock \in Nat /\ clock \in 0..MaxTime /\ MaxTime \in Nat
  BY LifecycleAssumption DEF IInv, TypeOK, LifecycleTypeOK, Times
<1>3. TypeOK'
  BY <1>1, <1>2 DEF IInv, TypeOK, LifecycleTypeOK, Times
<1>6. Rebuilt'
  BY <1>1, RebuiltSame DEF IInv
<1>4. FilesSound' /\ MemoryInStep' /\ Rebuilt' /\ OnePost'
  BY <1>1, <1>6 DEF IInv, FilesSound, MemoryInStep, Running, Sound, InStep, Locked,
                    OwnPost, OnePost
<1>5. CallsApproved'
  <2> SUFFICES ASSUME NEW q \in Proposals, NEW method \in Methods, call[q][method] # "none"
               PROVE  /\ Running /\ mem[q] # None /\ mem[q].state \in SinceApproved
                      /\ unlock[q] # None => clock + 1 >= unlock[q]
    BY <1>1 DEF CallsApproved, Running
  <2>1. /\ Running /\ mem[q] # None /\ mem[q].state \in SinceApproved
        /\ unlock[q] # None => clock >= unlock[q]
    BY DEF IInv, CallsApproved
  <2>2. unlock[q] # None => unlock[q] \in Nat
    BY DEF IInv, TypeOK, LifecycleTypeOK, Optional
  <2> QED
    BY <1>2, <2>1, <2>2
<1> QED
  BY <1>3, <1>4, <1>5 DEF IInv

(* The callers are gone.                                                   *)
LEMMA NoCallsLeft ==
    /\ NoCalls \in [Proposals -> [Methods -> {"none", "sent", "answered"}]]
    /\ \A q \in Proposals, method \in Methods : NoCalls[q][method] = "none"
  BY DEF NoCalls

LEMMA CrashKeeps ==
    ASSUME IInv, Crash, RouterDies
    PROVE  IInv'
<1>1. /\ mem' = Down /\ crashes < MaxCrashes /\ crashes' = crashes + 1
      /\ UNCHANGED <<disk, chain, clock, unlock, faults, posts>>
      /\ seen' = {} /\ call' = NoCalls /\ late' \subseteq Proposals \X Methods
  BY DEF Crash, RouterDies, IInv, TypeOK
<1>2. crashes' \in 0..MaxCrashes
  BY <1>1, LifecycleAssumption DEF IInv, TypeOK, LifecycleTypeOK
<1>3. TypeOK'
  BY <1>1, <1>2, NoCallsLeft DEF IInv, TypeOK, LifecycleTypeOK
<1>6. Rebuilt'
  BY <1>1, RebuiltSame DEF IInv
<1>4. FilesSound' /\ MemoryInStep' /\ Rebuilt' /\ OnePost'
  BY <1>1, <1>6 DEF IInv, FilesSound, MemoryInStep, Running, Sound, Locked, OwnPost, OnePost
<1>5. CallsApproved'
  BY <1>1, NoCallsLeft DEF CallsApproved
<1> QED
  BY <1>3, <1>4, <1>5 DEF IInv

LEMMA RestartKeeps ==
    ASSUME IInv, Restart, RouterUnchanged
    PROVE  IInv'
<1>1. /\ ~Running /\ mem' = disk /\ chain' = "whole" /\ chain \in {"whole", "behind"}
      /\ UNCHANGED <<disk, clock, unlock, faults, crashes, seen, call, late, posts>>
  BY DEF Restart, RouterUnchanged, routerVars
<1>2. TypeOK'
  BY <1>1 DEF IInv, TypeOK, LifecycleTypeOK, Chains
<1>3. \A p \in Proposals : InStep(p, disk[p], disk[p], unlock[p])
  BY DEF IInv, FilesSound, InStep
<1>4. MemoryInStep'
  BY <1>1, <1>3 DEF MemoryInStep, InStep, Sound, Locked, OwnPost
<1>7. Rebuilt'
  BY <1>1 DEF IInv, Rebuilt, Running, Orderly, Replayable, Complete
<1>5. FilesSound' /\ Rebuilt' /\ OnePost'
  BY <1>1, <1>7 DEF IInv, FilesSound, Sound, Locked, OwnPost, OnePost
<1>6. CallsApproved'
  BY <1>1 DEF IInv, CallsApproved
<1> QED
  BY <1>2, <1>4, <1>5, <1>6 DEF IInv

LEMMA StutterKeeps ==
    ASSUME IInv, UNCHANGED vars
    PROVE  IInv'
<1>1. UNCHANGED lifecycleVars /\ UNCHANGED <<seen, call, late, posts>>
  BY DEF vars, lifecycleVars
<1>2. OnePost'
  BY <1>1 DEF IInv, OnePost
<1> QED
  BY <1>1, <1>2, RouterKeeps DEF IInv, TypeOK

LEMMA InitInvariant == Init => IInv
<1> SUFFICES ASSUME Init PROVE IInv
  OBVIOUS
<1>1. /\ mem = [p \in Proposals |-> None] /\ disk = [p \in Proposals |-> None]
      /\ chain = "whole" /\ clock = 0 /\ unlock = [p \in Proposals |-> None]
      /\ faults = 0 /\ crashes = 0
      /\ seen = {} /\ call = NoCalls /\ late = {} /\ posts = {}
  BY DEF Init, LifecycleInit
<1>2. TypeOK
  BY <1>1, NoCallsLeft, LifecycleAssumption DEF TypeOK, LifecycleTypeOK, Optional, Times
<1>3. FilesSound /\ MemoryInStep /\ Rebuilt
  BY <1>1 DEF FilesSound, MemoryInStep, Rebuilt, Sound, InStep, Locked, OwnPost, Orderly,
              Replayable
<1>4. CallsApproved /\ OnePost
  BY <1>1, NoCallsLeft DEF CallsApproved, OnePost
<1> QED
  BY <1>2, <1>3, <1>4 DEF IInv

LEMMA StepKeeps == IInv /\ [Next]_vars => IInv'
<1> SUFFICES ASSUME IInv, [Next]_vars PROVE IInv'
  OBVIOUS
<1>1. CASE OwnerCalls /\ RouterUnchanged
  BY <1>1, OwnerCallsKeep
<1>2. CASE ValidatePost
  BY <1>2, ValidatePostKeeps
<1>3. CASE RouterCalls
  BY <1>3, SendKeeps, ServeKeeps, EndsKeep, RecordedKeeps DEF RouterCalls
<1>4. CASE ServiceSteps
  BY <1>4, SettleKeeps, IngestWebhookKeeps, PollKeeps DEF ServiceSteps
<1>5. CASE Tick /\ RouterUnchanged
  BY <1>5, TickKeeps
<1>6. CASE Crash /\ RouterDies
  BY <1>6, CrashKeeps
<1>7. CASE Restart /\ RouterUnchanged
  BY <1>7, RestartKeeps
<1>8. CASE UNCHANGED vars
  BY <1>8, StutterKeeps
<1> QED
  BY <1>1, <1>2, <1>3, <1>4, <1>5, <1>6, <1>7, <1>8 DEF Next

LEMMA InvariantHolds == Spec => []IInv
  BY InitInvariant, StepKeeps, PTL DEF Spec

-----------------------------------------------------------------------------
(* Every record, in memory and in the file, is one that the methods make,  *)
(* and every call, late request and post is one of a proposal.             *)
THEOREM RouterTyped == Spec => []TypeOK
<1>1. IInv => TypeOK
  BY DEF IInv
<1> QED
  BY <1>1, InvariantHolds, PTL

(* Whatever is called, in whatever order, and however often the process    *)
(* dies between two lines of one webhook: as long as no append has failed  *)
(* and no line was written without a field it was hashed with, _recover    *)
(* accepts the file and rebuilds from it what the methods hold in memory,  *)
(* but for an approval that was given without an id.                       *)
THEOREM RestartRebuilds == Spec => []RestartRebuildsMemory
<1>1. IInv => RestartRebuildsMemory
  BY DEF IInv, Rebuilt, RestartRebuildsMemory
<1> QED
  BY <1>1, InvariantHolds, PTL

(* Such a line needs a caller of approve() that passes no id, or a webhook *)
(* that names no event: without them no file the process has written is    *)
(* refused for a hash, and as long as no append fails the process can be   *)
(* restarted at any time, with all that it held in memory.                 *)
THEOREM RestartAfterCompleteCalls ==
    ASSUME ApprovalIds = {"given"}, "missing" \notin OtherEvents
    PROVE  Spec => [](/\ chain # "tampered"
                      /\ faults = 0 => chain = "whole"
                      /\ (Running /\ faults = 0) => mem = disk)
<1>1. Complete
  BY DEF Complete
<1>2. ASSUME IInv, Running, faults = 0
      PROVE  mem = disk
  <2>1. /\ mem \in [Proposals -> Optional(Records)]
        /\ disk \in [Proposals -> Optional(Records)]
    BY <1>2 DEF IInv, TypeOK, LifecycleTypeOK, Running
  <2>2. ASSUME NEW p \in Proposals PROVE mem[p] = disk[p]
    <3>1. disk[p] = Replayable(mem[p]) /\ mem[p] \in Optional(Records)
      BY <1>2, <2>1 DEF IInv, Rebuilt
    <3>2. mem[p] # None /\ mem[p].approval # None => mem[p].approval.approvalId = "given"
      BY <3>1 DEF Optional, Records, Approvals
    <3> QED
      BY <3>1, <3>2 DEF Replayable
  <2> QED
    BY <2>1, <2>2
<1>3. IInv => /\ chain # "tampered"
              /\ faults = 0 => chain = "whole"
              /\ (Running /\ faults = 0) => mem = disk
  BY <1>1, <1>2 DEF IInv, Rebuilt
<1> QED
  BY <1>3, InvariantHolds, PTL

(* Also when appends fail: scheduleApproved and executeApproved send no    *)
(* request before the end of the timelock that startTimelock returned.     *)
THEOREM SentAfterUnlock == Spec => []NothingSentBeforeUnlock
<1>1. IInv => NothingSentBeforeUnlock
  BY DEF IInv, CallsApproved, NothingSentBeforeUnlock
<1> QED
  BY <1>1, InvariantHolds, PTL

-----------------------------------------------------------------------------
(* The verdict in the file.                                                *)

VerdictOf(d) == IF d # None /\ d.state \in Final THEN d.state ELSE "pending"

(* A pending proposal is rejected, or verified if that is justified.       *)
Judged(before, after, justified) ==
    \/ after = before
    \/ before = "pending" /\ after = "REJECTED"
    \/ before = "pending" /\ after = "VERIFIED" /\ justified

LEMMA JudgedTwice ==
    ASSUME NEW a, NEW b, NEW c, NEW justified \in BOOLEAN,
           Judged(a, b, justified), Judged(b, c, justified)
    PROVE  Judged(a, c, justified)
  BY DEF Judged

(* One more line.                                                          *)
LEMMA LineJudges ==
    ASSUME NEW p, NEW m \in Optional(Records), NEW d \in Optional(Records), NEW u, NEW s,
           InStep(p, m, d, u), Legit(p, m, s),
           NEW justified \in BOOLEAN, Verifies(s) => justified
    PROVE  Judged(VerdictOf(d), VerdictOf(Replay(d, s.line)), justified)
<1> DEFINE e == Replay(d, s.line)
<1>1. /\ e \in Records
      /\ s.line \in TransitionLines => e.state = s.record.state
      /\ s.line \notin TransitionLines => e.state = IF d = None THEN "CREATED" ELSE d.state
  BY ReplayOfStep
<1>2. e # None
  BY <1>1, NoneAssumption
<1>3. s.line \in TransitionLines => s.line.nextState = s.record.state
  BY DEF Legit
<1> SUFFICES Judged(VerdictOf(d), VerdictOf(e), justified)
  OBVIOUS
<1> HIDE DEF e
<1>4. CASE s.line \notin TransitionLines
  <2>1. VerdictOf(e) = VerdictOf(d)
    BY <1>1, <1>2, <1>4 DEF VerdictOf, Final
  <2> QED
    BY <2>1 DEF Judged
<1>5. CASE s.line \in TransitionLines /\ d # None /\ d.state \in Final
  <2>1. m # None /\ m.state = d.state
    BY <1>5 DEF InStep
  <2>2. m.state \in States /\ Edge(m.state, s.record.state)
    BY <2>1 DEF Legit, Optional, Records
  <2>3. s.record.state = d.state
    BY <1>5, <2>1, <2>2, EdgeStates
  <2>4. VerdictOf(e) = d.state /\ VerdictOf(d) = d.state
    BY <1>1, <1>2, <1>5, <2>3 DEF VerdictOf
  <2> QED
    BY <2>4 DEF Judged
<1>6. CASE s.line \in TransitionLines /\ ~(d # None /\ d.state \in Final)
  <2>1. VerdictOf(d) = "pending"
    BY <1>6 DEF VerdictOf
  <2>2. e.state = "VERIFIED" => justified
    BY <1>1, <1>3, <1>6 DEF Verifies
  <2>3. \/ VerdictOf(e) = "pending" \/ VerdictOf(e) = "REJECTED"
        \/ VerdictOf(e) = "VERIFIED" /\ e.state = "VERIFIED"
    BY <1>2 DEF VerdictOf, Final
  <2> QED
    BY <2>1, <2>2, <2>3 DEF Judged
<1> QED
  BY <1>4, <1>5, <1>6

(* The lines of a method that returns, fails or dies.                      *)
LEMMA LinesJudge ==
    ASSUME NEW p, NEW m \in Optional(Records), NEW u \in Optional(Nat), NEW steps,
           disk[p] \in Optional(Records),
           InStep(p, m, disk[p], u), Sound(p, disk[p], u), Chain(p, m, steps),
           NEW justified \in BOOLEAN,
           \A k \in 1..Len(steps) : Verifies(steps[k]) => justified,
           NEW n \in 0..Len(steps)
    PROVE  Judged(VerdictOf(disk[p]), VerdictOf(Written(p, steps, n)), justified)
<1> DEFINE W(i) == Written(p, steps, i)
           V(i) == VerdictOf(W(i))
<1>0. PICK l \in 1..3 : l = Len(steps)
  BY DEF Chain
<1>1. /\ W(0) = disk[p]
      /\ W(1) = Replay(W(0), steps[1].line)
      /\ W(2) = Replay(W(1), steps[2].line)
      /\ W(3) = Replay(W(2), steps[3].line)
  BY DEF Written
<1>2. \A k \in 1..l : /\ W(k) \in Optional(Records) /\ steps[k].record \in Records
                      /\ InStep(p, steps[k].record, W(k), u)
  <2> TAKE k \in 1..l
  <2>1. k \in 1..Len(steps) /\ k \in {k - 1, k}
    BY <1>0
  <2> QED
    BY <2>1, ReachedInStep
<1> HIDE DEF W
<1>3. Judged(V(0), V(0), justified)
  BY DEF Judged
<1>4. Judged(V(0), V(1), justified)
  <2>1. Legit(p, m, steps[1]) /\ (Verifies(steps[1]) => justified)
    BY <1>0 DEF Chain
  <2> QED
    BY <1>1, <2>1, LineJudges
<1>5. l > 1 => Judged(V(0), V(2), justified)
  <2> SUFFICES ASSUME l > 1 PROVE Judged(V(0), V(2), justified)
    OBVIOUS
  <2>1. Legit(p, steps[1].record, steps[2]) /\ (Verifies(steps[2]) => justified)
    BY <1>0 DEF Chain
  <2>2. /\ W(1) \in Optional(Records) /\ steps[1].record \in Optional(Records)
        /\ InStep(p, steps[1].record, W(1), u)
    BY <1>2 DEF Optional
  <2>3. Judged(V(1), V(2), justified)
    BY <1>1, <2>1, <2>2, LineJudges
  <2> QED
    BY <1>4, <2>3, JudgedTwice
<1>6. l > 2 => Judged(V(0), V(3), justified)
  <2> SUFFICES ASSUME l > 2 PROVE Judged(V(0), V(3), justified)
    OBVIOUS
  <2>1. Legit(p, steps[2].record, steps[3]) /\ (Verifies(steps[3]) => justified)
    BY <1>0 DEF Chain
  <2>2. /\ W(2) \in Optional(Records) /\ steps[2].record \in Optional(Records)
        /\ InStep(p, steps[2].record, W(2), u)
    BY <1>2 DEF Optional
  <2>3. Judged(V(2), V(3), justified)
    BY <1>1, <2>1, <2>2, LineJudges
  <2> QED
    BY <1>5, <2>3, JudgedTwice
<1>7. n = 0 \/ n = 1 \/ (n = 2 /\ l > 1) \/ (n = 3 /\ l > 2)
  BY <1>0
<1>8. Judged(V(0), V(n), justified)
  BY <1>3, <1>4, <1>5, <1>6, <1>7
<1> QED
  BY <1>1, <1>8 DEF W

(* A method changes no other verdict, and its own as it may.               *)
LEMMA RunsJudge ==
    ASSUME IInv, NEW p \in Proposals, Running, NEW steps, Chain(p, mem[p], steps),
           Runs(p, steps), NEW justified \in BOOLEAN,
           \A k \in 1..Len(steps) : Verifies(steps[k]) => justified
    PROVE  /\ \A q \in Proposals : q # p => Verdict(q)' = Verdict(q)
           /\ Judged(Verdict(p), Verdict(p)', justified)
<1>1. PICK k \in 1..Len(steps) : \E n \in {k - 1, k} :
         disk' = [disk EXCEPT ![p] = Written(p, steps, n)]
  BY RunsReach DEF IInv, Chain
<1>2. PICK n \in {k - 1, k} : disk' = [disk EXCEPT ![p] = Written(p, steps, n)]
  BY <1>1
<1>3. n \in 0..Len(steps)
  <2>1. PICK l \in 1..3 : l = Len(steps)
    BY DEF Chain
  <2> QED
    BY <2>1
<1>4. /\ mem \in [Proposals -> Optional(Records)] /\ disk \in [Proposals -> Optional(Records)]
      /\ unlock \in [Proposals -> Optional(Nat)]
  BY DEF IInv, TypeOK, LifecycleTypeOK, Running
<1>5. PICK m \in Optional(Records), u \in Optional(Nat) : m = mem[p] /\ u = unlock[p]
  BY <1>4
<1>6. InStep(p, m, disk[p], u) /\ Sound(p, disk[p], u) /\ disk[p] \in Optional(Records)
      /\ Chain(p, m, steps)
  BY <1>4, <1>5 DEF IInv, FilesSound, MemoryInStep
<1>7. Judged(VerdictOf(disk[p]), VerdictOf(Written(p, steps, n)), justified)
  BY <1>3, <1>6, LinesJudge
<1>8. /\ disk'[p] = Written(p, steps, n)
      /\ \A q \in Proposals : q # p => disk'[q] = disk[q]
  BY <1>2, <1>4
<1>9. /\ Verdict(p) = VerdictOf(disk[p]) /\ Verdict(p)' = VerdictOf(disk'[p])
  BY DEF Verdict, VerdictOf
<1> QED
  BY <1>7, <1>8, <1>9 DEF Verdict

-----------------------------------------------------------------------------
(* The steps of the promise.                                               *)

LEMMA StatusOfPosts ==
    ASSUME NEW S, NEW p, \A x \in S : \A y \in S : y.proposal = x.proposal => x = y,
           NEW own, own = {x \in S : x.proposal = p}
    PROVE  \/ own = {}
           \/ \E x \in own : /\ own = {x} /\ Cardinality(own) = 1
                             /\ (CHOOSE y \in own : TRUE) = x
<1>1. CASE own = {}
  BY <1>1
<1>2. CASE own # {}
  <2>1. PICK x \in own : TRUE
    BY <1>2
  <2>2. own = {x}
    BY <2>1
  <2>3. Cardinality(own) = 1 /\ (CHOOSE y \in own : TRUE) = x
    BY <2>2, FS_Singleton
  <2> QED
    BY <2>1, <2>2, <2>3
<1> QED
  BY <1>1, <1>2

(* The status of the one post of p, if there is one.                       *)
LEMMA StatusOfPost ==
    ASSUME OnePost, NEW p
    PROVE  /\ (\A y \in posts : y.proposal # p) => PostStatus(p) = "none"
           /\ \A x \in posts : x.proposal = p => PostStatus(p) = x.status
<1>1. \/ PostsOf(p) = {}
      \/ \E x \in PostsOf(p) : /\ PostsOf(p) = {x} /\ Cardinality(PostsOf(p)) = 1
                               /\ (CHOOSE y \in PostsOf(p) : TRUE) = x
  <2>1. PostsOf(p) = {x \in posts : x.proposal = p}
    BY DEF PostsOf
  <2>2. \A x \in posts : \A y \in posts : y.proposal = x.proposal => x = y
    BY DEF OnePost
  <2> QED
    BY <2>1, <2>2, StatusOfPosts
<1>2. (\A y \in posts : y.proposal # p) => PostStatus(p) = "none"
  <2>1. (\A y \in posts : y.proposal # p) => PostsOf(p) = {}
    BY DEF PostsOf
  <2>2. PostsOf(p) = {} => PostStatus(p) = "none"
    BY FS_EmptySet DEF PostStatus
  <2> QED
    BY <2>1, <2>2
<1>3. ASSUME NEW x \in posts, x.proposal = p
      PROVE  PostStatus(p) = x.status
  <2>1. x \in PostsOf(p)
    BY <1>3 DEF PostsOf
  <2>2. PostsOf(p) = {x} /\ Cardinality(PostsOf(p)) = 1 /\ (CHOOSE y \in PostsOf(p) : TRUE) = x
    BY <1>1, <2>1
  <2> QED
    BY <2>1, <2>2 DEF PostStatus
<1> QED
  BY <1>2, <1>3


LEMMA StatusOfPostNext ==
    (OnePost => \A x \in posts : PostStatus(x.proposal) = x.status)'
<1>1. OnePost => \A x \in posts : PostStatus(x.proposal) = x.status
  BY StatusOfPost
<1> QED
  BY <1>1, PTL

(* A change of one verdict is a step of the promise.                       *)
LEMMA VerdictSteps ==
    ASSUME NEW p \in Proposals,
           \A q \in Proposals : PostStatus(q)' = PostStatus(q),
           \A q \in Proposals : q # p => Verdict(q)' = Verdict(q),
           Judged(Verdict(p), Verdict(p)', PostStatus(p) = "published")
    PROVE  [Promise!Next]_(Promise!vars)
<1> DEFINE post == [q \in Proposals |-> PostStatus(q)]
           verdict == [q \in Proposals |-> Verdict(q)]
<1>1. post' = post
  OBVIOUS
<1>2. verdict' = [verdict EXCEPT ![p] = Verdict(p)']
  OBVIOUS
<1>3. verdict[p] = Verdict(p) /\ post[p] = PostStatus(p)
  OBVIOUS
<1>4. CASE Verdict(p)' = Verdict(p)
  <2>1. verdict' = verdict
    BY <1>4
  <2> QED
    BY <1>1, <2>1 DEF Promise!vars
<1>5. CASE Verdict(p) = "pending" /\ Verdict(p)' = "REJECTED"
  <2>1. Promise!Reject(p)
    BY <1>1, <1>2, <1>3, <1>5 DEF Promise!Reject
  <2> QED
    BY <2>1 DEF Promise!Next
<1>6. CASE Verdict(p) = "pending" /\ Verdict(p)' = "VERIFIED" /\ PostStatus(p) = "published"
  <2>1. Promise!Verify(p)
    BY <1>1, <1>2, <1>3, <1>6 DEF Promise!Verify
  <2> QED
    BY <2>1 DEF Promise!Next
<1> QED
  BY <1>4, <1>5, <1>6 DEF Judged

LEMMA SamePosts ==
    ASSUME posts' = posts
    PROVE  \A q : PostStatus(q)' = PostStatus(q)
  BY DEF PostStatus, PostsOf

LEMMA SameFile ==
    ASSUME disk' = disk
    PROVE  \A q : Verdict(q)' = Verdict(q)
  BY DEF Verdict

LEMMA OwnStepPromised ==
    ASSUME IInv, "VERIFIED" \notin ManualStates, NEW p \in Proposals, OwnStep(p),
           posts' = posts
    PROVE  [Promise!Next]_(Promise!vars)
<1>1. PICK s : Legit(p, mem[p], s) /\ Runs(p, <<s>>) /\ ~Verifies(s)
  BY DEF OwnStep
<1>2. PICK steps : steps = <<s>>
  OBVIOUS
<1>3. Chain(p, mem[p], steps) /\ Len(steps) = 1 /\ steps[1] = s /\ Runs(p, steps)
  BY <1>1, <1>2, ChainOfOne
<1>4. \A k \in 1..Len(steps) : Verifies(steps[k]) => FALSE
  BY <1>1, <1>3
<1>5. /\ \A q \in Proposals : q # p => Verdict(q)' = Verdict(q)
      /\ Judged(Verdict(p), Verdict(p)', FALSE)
  BY <1>3, <1>4, RunsJudge DEF OwnStep
<1>6. Judged(Verdict(p), Verdict(p)', PostStatus(p) = "published")
  BY <1>5 DEF Judged
<1> QED
  BY <1>5, <1>6, SamePosts, VerdictSteps

(* Only the event of a published post verifies its proposal.               *)
LEMMA WebhookPromised ==
    ASSUME IInv, NEW p \in Proposals, NEW x \in posts, NEW id \in EventIds,
           NEW event, Named(event),
           event = "post.published" => x.status = "published",
           RecordWebhook(p, id, event, x.id), posts' = posts
    PROVE  [Promise!Next]_(Promise!vars)
<1>1. x.proposal = p /\ mem[p] \in Records /\ OwnPost(p, mem[p]) /\ Running
  BY CorrelatedOwn DEF RecordWebhook
<1> DEFINE justified == PostStatus(p) = "published"
<1>2. PostStatus(p) = x.status
  BY <1>1, StatusOfPost DEF IInv
<1>3. event = "post.published" => justified
  BY <1>2
<1>4. PICK steps : steps = WebhookSteps(mem[p], id, event)
  OBVIOUS
<1>5. /\ Chain(p, mem[p], steps)
      /\ \A k \in 1..Len(steps) : Verifies(steps[k]) => event = "post.published"
  BY <1>1, <1>4, WebhookChain DEF Verifies
<1>6. Runs(p, steps)
  BY <1>4 DEF RecordWebhook, Performs
<1>7. PICK j \in BOOLEAN : j <=> justified
  OBVIOUS
<1>8. /\ \A q \in Proposals : q # p => Verdict(q)' = Verdict(q)
      /\ Judged(Verdict(p), Verdict(p)', j)
  BY <1>1, <1>3, <1>5, <1>6, <1>7, RunsJudge
<1>9. Judged(Verdict(p), Verdict(p)', PostStatus(p) = "published")
  BY <1>7, <1>8 DEF Judged
<1> QED
  BY <1>8, <1>9, SamePosts, VerdictSteps

(* Nothing that the promise speaks of changes.                             *)
LEMMA NothingPromised ==
    ASSUME posts' = posts, disk' = disk
    PROVE  UNCHANGED Promise!vars
  BY SamePosts, SameFile DEF Promise!vars

(* The service makes the first post of a proposal, or none.                *)
LEMMA CreatePromised ==
    ASSUME IInv, IInv', NEW p \in Proposals, NEW method \in Methods,
           CreatePost(p, method), disk' = disk
    PROVE  [Promise!Next]_(Promise!vars)
<1> DEFINE new == [id |-> PostId(p), proposal |-> p, status |-> "open"]
<1>1. CASE posts' = posts
  BY <1>1, NothingPromised
<1>2. CASE (\A y \in posts : y.proposal # p) /\ posts' = posts \union {new}
  <2>1. PostStatus(p) = "none"
    BY <1>2, StatusOfPost DEF IInv
  <2>2. PostStatus(p)' = "open"
    <3>1. new \in posts' /\ new.proposal = p /\ new.status = "open"
      BY <1>2
    <3>2. OnePost'
      BY DEF IInv
    <3> QED
      BY <3>1, <3>2, StatusOfPostNext
  <2>3. \A q \in Proposals : q # p => PostStatus(q)' = PostStatus(q)
    <3> SUFFICES ASSUME NEW q \in Proposals, q # p PROVE PostStatus(q)' = PostStatus(q)
      OBVIOUS
    <3>1. new.proposal # q
      OBVIOUS
    <3>2. PostsOf(q)' = PostsOf(q)
      BY <1>2, <3>1 DEF PostsOf
    <3> QED
      BY <3>2 DEF PostStatus
  <2>4. \A q \in Proposals : Verdict(q)' = Verdict(q)
    BY SameFile
  <2>5. Promise!Publish(p)
    BY <2>1, <2>2, <2>3, <2>4 DEF Promise!Publish
  <2> QED
    BY <2>5 DEF Promise!Next
<1> QED
  BY <1>1, <1>2, CreatePostKeeps

LEMMA SettlePromised ==
    ASSUME IInv, IInv', NEW x \in posts, NEW outcome \in Outcomes,
           Settle(x, outcome)
    PROVE  [Promise!Next]_(Promise!vars)
<1> DEFINE y == [x EXCEPT !.status = outcome]
           p == x.proposal
<1>1. x \in [id : Posts, proposal : Proposals, status : {"open", "published", "failed", "cancelled"}]
  BY DEF IInv, TypeOK
<1>2. /\ p \in Proposals /\ x.status = "open" /\ posts' = (posts \ {x}) \union {y}
      /\ y.proposal = p /\ y.status = outcome /\ disk' = disk
  BY <1>1 DEF Settle, lifecycleVars
<1> HIDE DEF y
<1>3. PostStatus(p) = "open"
  BY <1>2, StatusOfPost DEF IInv
<1>4. PostStatus(p)' = outcome
  <2>1. OnePost' /\ y \in posts'
    BY <1>2 DEF IInv
  <2> QED
    BY <1>2, <2>1, StatusOfPostNext
<1>5. \A q \in Proposals : q # p => PostStatus(q)' = PostStatus(q)
  <2> SUFFICES ASSUME NEW q \in Proposals, q # p PROVE PostStatus(q)' = PostStatus(q)
    OBVIOUS
  <2>1. PostsOf(q)' = PostsOf(q)
    BY <1>2 DEF PostsOf
  <2> QED
    BY <2>1 DEF PostStatus
<1>6. \A q \in Proposals : Verdict(q)' = Verdict(q)
  BY <1>2, SameFile
<1> HIDE DEF p
<1>7. Promise!Settle(p, outcome)
  BY <1>2, <1>3, <1>4, <1>5, <1>6 DEF Promise!Settle
<1> QED
  BY <1>2, <1>7, RouterAssumption DEF Promise!Next

LEMMA StepPromised ==
    ASSUME IInv, IInv', "VERIFIED" \notin ManualStates, [Next]_vars
    PROVE  [Promise!Next]_(Promise!vars)
<1>1. CASE OwnerCalls /\ RouterUnchanged
  <2>1. posts' = posts
    BY <1>1 DEF RouterUnchanged, routerVars
  <2> QED
    BY <1>1, <2>1, OwnerCallsKeep, OwnStepPromised
<1>2. CASE ValidatePost
  <2>1. posts' = posts
    BY <1>2 DEF ValidatePost, RouterUnchanged, routerVars
  <2> QED
    BY <1>2, <2>1, ValidatePostKeeps, OwnStepPromised
<1>3. CASE RouterCalls
  <2>1. PICK p \in Proposals, method \in Methods :
           \/ Send(p, method) \/ Serve(p, method) \/ ServeLate(p, method)
           \/ Lose(p, method) \/ Recorded(p, method)
           \/ AlreadyRecorded(p, method) \/ Fail(p, method)
    BY <1>3 DEF RouterCalls
  <2>2. CASE Serve(p, method) \/ ServeLate(p, method)
    BY <2>2, CreatePromised DEF Serve, ServeLate, lifecycleVars
  <2>3. CASE Recorded(p, method)
    BY <2>3, RecordedKeeps, OwnStepPromised DEF Recorded
  <2>4. CASE \/ Send(p, method) \/ Lose(p, method)
             \/ AlreadyRecorded(p, method) \/ Fail(p, method)
    BY <2>4, NothingPromised DEF Send, Lose, AlreadyRecorded, Fail, lifecycleVars
  <2> QED
    BY <2>1, <2>2, <2>3, <2>4
<1>4. CASE ServiceSteps
  <2>1. PICK x \in posts :
           \/ \E outcome \in Outcomes : Settle(x, outcome)
           \/ \E event \in EventsOf(x) : IngestWebhook(x, event)
           \/ Poll(x)
    BY <1>4 DEF ServiceSteps
  <2>2. CASE \E outcome \in Outcomes : Settle(x, outcome)
    BY <2>2, SettlePromised
  <2>3. ASSUME NEW event \in EventsOf(x), IngestWebhook(x, event)
        PROVE  [Promise!Next]_(Promise!vars)
    <3> DEFINE id == WebhookEventId(x.id, event)
    <3>1. /\ event \in Events /\ Named(event)
          /\ event = "post.published" => x.status = "published"
      BY Reported
    <3>2. id \in EventIds /\ posts' = posts
      BY <2>3, <3>1, EventIdsKnown DEF IInv, IngestWebhook, RouterDies
    <3>3. \/ \E p \in Proposals : RecordWebhook(p, id, event, x.id)
          \/ disk' = disk
      BY <2>3 DEF IngestWebhook, lifecycleVars
    <3> HIDE DEF id
    <3> QED
      BY <3>1, <3>2, <3>3, WebhookPromised, NothingPromised
  <2>4. CASE Poll(x)
    <3> DEFINE event == EventOf(x.status)
               id == StatusEventId(x.id, event)
    <3>1. /\ event \in Events /\ Named(event)
          /\ event = "post.published" => x.status = "published"
      BY <2>4, Answered
    <3>2. id \in EventIds /\ posts' = posts /\ x.proposal \in Proposals
      BY <2>4, <3>1, EventIdsKnown
         DEF IInv, TypeOK, Poll, RouterDies, RouterUnchanged, routerVars
    <3>3. RecordWebhook(x.proposal, id, event, x.id)
      BY <2>4 DEF Poll
    <3> HIDE DEF id, event
    <3> QED
      BY <3>1, <3>2, <3>3, WebhookPromised
  <2> QED
    BY <2>1, <2>2, <2>3, <2>4
<1>5. CASE Tick /\ RouterUnchanged
  BY <1>5, NothingPromised DEF Tick, RouterUnchanged, routerVars
<1>6. CASE Crash /\ RouterDies
  BY <1>6, NothingPromised DEF Crash, RouterDies
<1>7. CASE Restart /\ RouterUnchanged
  BY <1>7, NothingPromised DEF Restart, RouterUnchanged, routerVars
<1>8. CASE UNCHANGED vars
  BY <1>8, NothingPromised DEF vars
<1> QED
  BY <1>1, <1>2, <1>3, <1>4, <1>5, <1>6, <1>7, <1>8 DEF Next

(* The router keeps the promise of PublishOnce, whatever fails: scheduling *)
(* and publishing, retried and both in flight at once, make one post per   *)
(* proposal; the audit file says VERIFIED of a published post only; and no *)
(* verdict is taken back.  What is assumed is that no caller of            *)
(* transition() asks for VERIFIED by hand, which the method would grant.   *)
THEOREM RouterImplementsPublishOnce ==
    ASSUME "VERIFIED" \notin ManualStates
    PROVE  Spec => ImplementsPublishOnce
<1>1. Init => Promise!Init
  <2> SUFFICES ASSUME Init PROVE Promise!Init
    OBVIOUS
  <2>1. posts = {} /\ disk = [p \in Proposals |-> None]
    BY DEF Init, LifecycleInit
  <2>2. \A p \in Proposals : PostStatus(p) = "none"
    BY <2>1, FS_EmptySet DEF PostStatus, PostsOf
  <2>3. \A p \in Proposals : Verdict(p) = "pending"
    BY <2>1 DEF Verdict
  <2> QED
    BY <2>2, <2>3 DEF Promise!Init
<1>2. IInv /\ IInv' /\ [Next]_vars => [Promise!Next]_(Promise!vars)
  BY StepPromised
<1> QED
  BY <1>1, <1>2, InvariantHolds, PTL DEF Spec, ImplementsPublishOnce, Promise!Spec
=============================================================================
