-------------------------- MODULE SigningPipeline ---------------------------
(***************************************************************************)
(* security_boundary/pipeline.py: BoundaryPipeline.execute, with the       *)
(* proposal store (store.py), the timelock and the approval binding        *)
(* (approval.py), and the proposal factory (proposal.py).                  *)
(*                                                                         *)
(* Several processes run `execute' over one database file.  Another        *)
(* process may run, and time may pass, between any two database statements *)
(* and around every call of the simulator, the approval provider and the   *)
(* signer.  An attempt may end at any point: a check refuses, a            *)
(* collaborator fails, or the process dies; only the database survives.    *)
(*                                                                         *)
(* Abstraction.  An intent is the size and the amount it asks for; all     *)
(* processes run under one policy, one set of limits and one timelock, so  *)
(* an intent also stands for its fingerprint.  An absent request id is the *)
(* fingerprint used as one.  A proposal and the transaction built for it   *)
(* are one record, the pair.  The gates and checks are those of RiskPolicy *)
(* and TransactionChecks; an attempt they refuse is no step, since nothing *)
(* was written for it, or ends.                                            *)
(***************************************************************************)
EXTENDS Naturals, FiniteSets, TransactionChecks

CONSTANTS
    Workers,        \* processes
    Requests,       \* request ids
    Intents,        \* [size_bps, amount]
    threshold_bps,  \* Timelock.threshold_bps
    Duration,       \* Timelock.duration_seconds
    SigningWindow,  \* the 300 seconds of pipeline.py:98
    None,           \* no row, no pair, no request
    MaxTime,        \* bound: last second
    MaxProposals    \* bound: proposals made

ASSUME ConstantsAssumption ==
    /\ Intents \subseteq [size_bps : Sizes, amount : Amounts]
    /\ threshold_bps \in Int
    /\ Duration \in Nat /\ SigningWindow \in Nat \ {0}
    /\ MaxTime \in Nat /\ MaxProposals \in Nat

VARIABLES
    store,        \* the table: per request id a row, or None
    worker,       \* per process: where it is in execute, and its locals
    clock,        \* int(time.time())
    made,         \* proposals made so far; the source of fresh uuids
    signatures    \* history: every call of the signer

vars == <<store, worker, clock, made, signatures>>

-----------------------------------------------------------------------------
Large == {intent \in Intents : intent.size_bps > threshold_bps}

Times == 0..MaxTime

Proposals ==
    [id : 1..MaxProposals, intent : Intents, created_at : Times,
     deadline : 0..(MaxTime + Duration + SigningWindow)]
Pairs == [proposal : Proposals,
          tx : [envelope : Envelopes, proposal_digest : Proposals]]

Rows == [fingerprint : Intents, pair : Pairs, attempted : BOOLEAN]

ASSUME NoneAssumption == None \notin Rows \union Pairs

Steps == {"save", "reread", "simulate", "timelock", "resimulate", "approve",
          "deadline", "claim", "sign"}

NotRunning == [at |-> "idle", request |-> None, intent |-> None, pair |-> None,
               approval |-> None]
Attempts == [at : Steps, request : Requests, intent : Intents, pair : Pairs,
             approval : Pairs \union {None}]

Signatures == [by : Workers, request : Requests, pair : Pairs, approval : Pairs,
               returned : Pairs \union {None}, time : Times]

Lock(intent) == IF intent \in Large THEN Duration ELSE 0
(* Faulty: the duration of the lock is forgotten.                          *)
UnlockAtOnce(pair) == pair.proposal.created_at

UnlockAt(pair) == pair.proposal.created_at + Lock(pair.proposal.intent)
(* Steps 1 and 2 of execute, for some exposure and some gas price.         *)
Admitted ==
    {intent \in Intents :
        \E exposed \in Exposures, wei \in GasPrices :
            GatesAccept(intent.size_bps, exposed, wei, intent.amount)}

PairValid(pair) == ValidBuilt(pair.proposal, pair.tx)

Live(pair) == clock < pair.proposal.deadline

Running == {w \in Workers : worker[w] # NotRunning}
KnownPairs ==
    {store[r].pair : r \in {q \in Requests : store[q] # None}}
    \union {worker[w].pair : w \in Running}

Init ==
    /\ store = [r \in Requests |-> None]
    /\ worker = [w \in Workers |-> NotRunning]
    /\ clock = 0 /\ made = 0 /\ signatures = {}

Goto(w, step) ==
    /\ worker' = [worker EXCEPT ![w].at = step]
    /\ UNCHANGED <<clock, made>>

-----------------------------------------------------------------------------
(* execute, step by step.                                                  *)

(* Risk and policy allowed the intent and get() found a row of the same    *)
(* fingerprint, not attempted and not expired, with a valid transaction.   *)
Resume(w, r, intent) ==
    /\ worker[w] = NotRunning
    /\ store[r] # None
    /\ store[r].fingerprint = intent
    /\ ~store[r].attempted
    /\ Live(store[r].pair)
    /\ intent \in Admitted /\ PairValid(store[r].pair)
    /\ worker' = [worker EXCEPT ![w] =
                    [at |-> "simulate", request |-> r, intent |-> intent,
                     pair |-> store[r].pair, approval |-> None]]
    /\ UNCHANGED <<store, clock, made, signatures>>

NewProposal(intent) ==
    [id |-> made + 1, intent |-> intent, created_at |-> clock,
     deadline |-> clock + SigningWindow + Lock(intent)]

(* get() found nothing: make a proposal and have the router build for it.  *)
(* The router may build any envelope, for this proposal or for another.    *)
Begin(w, r, intent, envelope, named) ==
    /\ worker[w] = NotRunning
    /\ store[r] = None
    /\ made < MaxProposals
    /\ intent \in Admitted
    /\ made' = made + 1
    /\ LET pair == [proposal |-> NewProposal(intent),
                    tx |-> [envelope |-> envelope, proposal_digest |-> named]]
       IN  /\ PairValid(pair)
           /\ worker' = [worker EXCEPT ![w] =
                            [at |-> "save", request |-> r, intent |-> intent,
                             pair |-> pair, approval |-> None]]
    /\ UNCHANGED <<store, clock, signatures>>

(* Faulty: INSERT OR REPLACE.                                              *)
SaveReplaces(w) ==
    /\ worker[w].at = "save"
    /\ store' = [store EXCEPT ![worker[w].request] =
                    [fingerprint |-> worker[w].intent, pair |-> worker[w].pair,
                     attempted |-> FALSE]]
    /\ Goto(w, "reread")
    /\ UNCHANGED signatures

(* INSERT OR IGNORE: a row that appeared since get() wins.                 *)
Save(w) ==
    /\ worker[w].at = "save"
    /\ LET r == worker[w].request
           row == [fingerprint |-> worker[w].intent, pair |-> worker[w].pair,
                   attempted |-> FALSE]
       IN  store' = [store EXCEPT ![r] = IF store[r] = None THEN row ELSE @]
    /\ Goto(w, "reread")
    /\ UNCHANGED signatures

(* Faulty: execute goes on with the pair it built, stored or not.          *)
RereadIgnored(w) ==
    /\ worker[w].at = "reread"
    /\ ~store[worker[w].request].attempted
    /\ Goto(w, "simulate")
    /\ UNCHANGED <<store, signatures>>

(* save() returns what get() now finds; execute goes on with that pair.    *)
Reread(w) ==
    /\ worker[w].at = "reread"
    /\ LET row == store[worker[w].request]
       IN  /\ row.fingerprint = worker[w].intent
           /\ ~row.attempted
           /\ PairValid(row.pair)
           /\ worker' = [worker EXCEPT ![w].at = "simulate", ![w].pair = row.pair]
    /\ UNCHANGED <<store, clock, made, signatures>>

Simulate(w) ==
    /\ worker[w].at = "simulate"
    /\ Live(worker[w].pair)
    /\ SimulationPasses(worker[w].pair.proposal, worker[w].pair.tx)
    /\ Goto(w, "timelock")
    /\ UNCHANGED <<store, signatures>>

(* Timelock.ready: the unlock time derives from created_at and never moves. *)
TimelockReady(w) ==
    /\ worker[w].at = "timelock"
    /\ clock >= UnlockAt(worker[w].pair)
    /\ Goto(w, "resimulate")
    /\ UNCHANGED <<store, signatures>>

Resimulate(w) ==
    /\ worker[w].at = "resimulate"
    /\ Live(worker[w].pair)
    /\ SimulationPasses(worker[w].pair.proposal, worker[w].pair.tx)
    /\ Goto(w, "approve")
    /\ UNCHANGED <<store, signatures>>

(* Faulty: a missing answer is taken for an approval.                      *)
ApproveByDefault(w, approved) ==
    /\ worker[w].at = "approve"
    /\ Goto(w, "deadline")
    /\ UNCHANGED <<store, signatures>>

(* Faulty: the digests of the approval are not compared.                   *)
ApproveAnyPair(w, approved) ==
    /\ worker[w].at = "approve"
    /\ worker' = [worker EXCEPT ![w].at = "deadline", ![w].approval = approved]
    /\ UNCHANGED <<store, clock, made, signatures>>

(* validate_approval: an approval carries the digests of the proposal and  *)
(* of the transaction it was bound to, that is, its pair.                  *)
BoundTo(approved, pair) == approved = pair

(* The provider may answer with an approval of any pair it ever saw.       *)
Approve(w, approved) ==
    /\ worker[w].at = "approve"
    /\ BoundTo(approved, worker[w].pair)
    /\ worker' = [worker EXCEPT ![w].at = "deadline", ![w].approval = approved]
    /\ UNCHANGED <<store, clock, made, signatures>>

CheckDeadline(w) ==
    /\ worker[w].at = "deadline"
    /\ Live(worker[w].pair)
    /\ Goto(w, "claim")
    /\ UNCHANGED <<store, signatures>>

(* Faulty: the claim does not look at earlier claims.                      *)
ClaimAgain(w) ==
    /\ worker[w].at = "claim"
    /\ store' = [store EXCEPT ![worker[w].request].attempted = TRUE]
    /\ Goto(w, "sign")
    /\ UNCHANGED signatures

(* UPDATE ... WHERE request_id=? AND signing_attempted=0, one statement.   *)
ClaimSigning(w) ==
    /\ worker[w].at = "claim"
    /\ LET r == worker[w].request
       IN  /\ ~store[r].attempted
           /\ store' = [store EXCEPT ![r].attempted = TRUE]
    /\ Goto(w, "sign")
    /\ UNCHANGED signatures

(* The signer is called.  It may fail, or give back a payload it signed    *)
(* for any pair it ever saw; execute returns the payload if it validates.  *)
Sign(w, signed) ==
    /\ worker[w].at = "sign"
    /\ signatures' = signatures \union
          {[by |-> w, request |-> worker[w].request, pair |-> worker[w].pair,
            approval |-> worker[w].approval,
            returned |-> Validated(signed, worker[w].pair, None), time |-> clock]}
    /\ worker' = [worker EXCEPT ![w] = NotRunning]
    /\ UNCHANGED <<store, clock, made>>

(* The attempt ends here: a refusal, an exception or the death of the process. *)
End(w) ==
    /\ worker[w] # NotRunning
    /\ worker' = [worker EXCEPT ![w] = NotRunning]
    /\ UNCHANGED <<store, clock, made, signatures>>

Tick ==
    /\ clock < MaxTime
    /\ clock' = clock + 1
    /\ UNCHANGED <<store, worker, made, signatures>>

Execute(w) ==
    \/ \E r \in Requests, intent \in Intents :
          \/ Resume(w, r, intent)
          \/ \E envelope \in Envelopes,
                named \in {NewProposal(intent)} \union {p.proposal : p \in KnownPairs} :
                Begin(w, r, intent, envelope, named)
    \/ Save(w)
    \/ Reread(w)
    \/ Simulate(w)
    \/ TimelockReady(w)
    \/ Resimulate(w)
    \/ \E approved \in KnownPairs : Approve(w, approved)
    \/ CheckDeadline(w)
    \/ ClaimSigning(w)
    \/ \E signed \in KnownPairs \union {None} : Sign(w, signed)

Next == Tick \/ \E w \in Workers : Execute(w) \/ End(w)

Spec == Init /\ [][Next]_vars

-----------------------------------------------------------------------------
(* Properties.                                                             *)

(* The types of the variables.                                             *)
TypeOK ==
    /\ store \in [Requests -> Rows \union {None}]
    /\ worker \in [Workers -> Attempts \union {NotRunning}]
    /\ clock \in Times
    /\ made \in 0..MaxProposals
    /\ signatures \subseteq Signatures

(* The signer is called at most once for a request id, whichever processes *)
(* race for it, fail or restart (store.py claim_signing).                  *)
OneSignaturePerRequest ==
    \A s, t \in signatures : s.request = t.request => s = t

(* What the signer was given is the pair first saved for the request, for  *)
(* the intent it was saved under, with an approval of exactly that pair;   *)
(* and the claim is on record.  A process that lost the race to save goes  *)
(* on with the winner's pair, and what execute returns is a payload signed *)
(* for that pair or none.                                                  *)
OnlyTheStoredPairIsSigned ==
    \A s \in signatures :
        /\ store[s.request] # None
        /\ store[s.request].attempted
        /\ s.pair = store[s.request].pair
        /\ s.pair.proposal.intent = store[s.request].fingerprint
        /\ s.approval = s.pair
        /\ s.returned \in {None, s.pair}

(* "Timelocked proposals cannot sign before expiry" (README.md of the      *)
(* package): a large trade is signed no earlier than Duration after the    *)
(* creation of the proposal that was saved, resumed or not.                *)
NoSignatureBeforeUnlock ==
    \A s \in signatures :
        s.pair.proposal.intent \in Large =>
            s.time >= s.pair.proposal.created_at + Duration

(* Whoever saved the row and whoever resumed it, what reaches the signer is *)
(* a trade within the position limits of the engine and of the policy, and *)
(* a transaction for that very proposal, from the wallet to the router on  *)
(* the chain of the policy, under the gas price the engine allows.         *)
SignedWithinLimits ==
    \A s \in signatures :
        LET intent == s.pair.proposal.intent
            e == s.pair.tx.envelope
        IN  /\ intent.amount > 0 /\ intent.size_bps > 0
            /\ intent.size_bps <= max_position_bps /\ intent.size_bps <= hard_position_bps
            /\ s.pair.tx.proposal_digest = s.pair.proposal
            /\ e.chain_id = chain_id
            /\ e.from.account = wallet /\ e.to.account = router
            /\ e.gas_price_wei <= max_gas_price_gwei * Gwei

(* A saved row never changes its fingerprint or its pair, never goes away  *)
(* and never gets its signing permission back.                             *)
RowsAreImmutable ==
    [][\A r \in Requests :
          store[r] # None =>
              /\ store'[r] # None
              /\ store'[r].fingerprint = store[r].fingerprint
              /\ store'[r].pair = store[r].pair
              /\ store[r].attempted => store'[r].attempted]_vars

(* The pipeline implements AtMostOnceSigning.                              *)
Boundary ==
    INSTANCE AtMostOnceSigning WITH
        NoPair <- None,
        fixed <- [r \in Requests |-> IF store[r] = None THEN None ELSE store[r].pair],
        claimed <- {r \in Requests : store[r] # None /\ store[r].attempted},
        issued <- [r \in Requests |-> Cardinality({s \in signatures : s.request = r})]
ImplementsAtMostOnceSigning == Boundary!Spec

(* "Expired proposals cannot simulate or sign" (README.md of the package): *)
(* no signature is made at or after the deadline of its proposal.          *)
NoSignatureAfterDeadline ==
    \A s \in signatures : s.time < s.pair.proposal.deadline

(* The gates in front of the pipeline, for every intent, exposure and gas  *)
(* price it can be given: before its first proposal it accepts exactly     *)
(* what is within every limit, and the score that the proposal will carry  *)
(* is a margin that shrinks with the size (GatesMatchLimits and            *)
(* ScoreFallsWithSize; risk.py, policy.py, pipeline.py 63-77).             *)
AcceptedIffWithinLimits == made = 0 => GatesMatchLimits /\ ScoreFallsWithSize
=============================================================================
