----------------------- MODULE SigningPipelineProofs ------------------------
(***************************************************************************)
(* For every number of processes, requests and proposals, every timelock   *)
(* and every signing window: a request is signed at most once, with the    *)
(* pair that was first saved for it and an approval of that pair, not      *)
(* before its timelock is over, and for a trade within the limits.         *)
(*                                                                         *)
(* The properties only speak of signatures made.  What is preserved also   *)
(* says what a process knows at each step of `execute' (Holds): after it   *)
(* reread the row its pair is the stored one, after the timelock check the *)
(* unlock time is past, after the approval it has one for its pair, and    *)
(* between claim and signature it owns the permission of its request,      *)
(* which nobody else owns (SignersApart) and nobody used.                  *)
(***************************************************************************)
EXTENDS SigningPipeline, FiniteSetTheorems, TLAPS

-----------------------------------------------------------------------------
(* RiskPolicy: the arithmetic of the two gates for every limit, size,      *)
(* exposure, gas price and amount.  They accept exactly what is within     *)
(* every limit, and the risk score is a margin that shrinks with the size. *)

(* Flooring to whole units and comparing is comparing with the next unit.  *)
LEMMA FloorAbove ==
    ASSUME NEW n \in Int, NEW m \in Int, NEW unit \in Nat \ {0}
    PROVE  n \div unit \in Int /\ (n \div unit > m <=> n >= (m + 1) * unit)
  BY Z3

(* Integer division keeps the order of its dividends.                      *)
LEMMA DivisionMonotone ==
    ASSUME NEW m \in Int, NEW n \in Int, NEW unit \in Nat \ {0}, m <= n
    PROVE  m \div unit \in Int /\ n \div unit \in Int /\ m \div unit <= n \div unit
  BY Z3

LEMMA DivisionExact ==
    ASSUME NEW n \in Int, NEW unit \in Nat \ {0}
    PROVE  (unit * n) \div unit = n
  BY Z3

LEMMA ProductMonotone ==
    ASSUME NEW m \in Int, NEW n \in Int, NEW factor \in Nat, m <= n
    PROVE  m * factor \in Int /\ n * factor \in Int /\ m * factor <= n * factor
  BY Z3

-----------------------------------------------------------------------------
(* The engine allows a size that is positive and within its limits.        *)
LEMMA EvaluateAllows ==
    ASSUME NEW requested \in Int, NEW exposed \in Int, NEW gas_gwei \in Int
    PROVE  LET risk == Evaluate(requested, exposed, gas_gwei)
               permitted == Permitted(requested, exposed)
           IN  /\ risk.allowed <=>
                     /\ requested > 0 /\ exposed >= 0
                     /\ gas_gwei <= max_gas_price_gwei
                     /\ exposed < max_portfolio_exposure_bps
                     /\ max_position_bps > 0
               /\ risk.allowed =>
                     /\ risk.permitted_size_bps = permitted
                     /\ permitted \in 1..max_position_bps
                     /\ risk.risk_score_bps = RiskScore(permitted)
               /\ ~risk.allowed => risk.risk_score_bps = Scale
<1> DEFINE permitted == Permitted(requested, exposed)
<1>1. /\ permitted \in Int /\ permitted <= max_position_bps
      /\ permitted > 0 <=> /\ requested > 0 /\ max_position_bps > 0
                           /\ exposed < max_portfolio_exposure_bps
      /\ requested = permitted <=> /\ requested <= max_position_bps
                                   /\ requested <= max_portfolio_exposure_bps - exposed
  BY LimitsAssumption DEF Permitted, Smaller
<1> HIDE DEF permitted
<1>2. Evaluate(requested, exposed, gas_gwei) =
          IF \/ requested < 0 \/ exposed < 0 \/ gas_gwei > max_gas_price_gwei
             \/ exposed >= max_portfolio_exposure_bps \/ permitted <= 0
          THEN Reject
          ELSE [allowed |-> TRUE, permitted_size_bps |-> permitted,
                risk_score_bps |-> RiskScore(permitted)]
  BY DEF Evaluate, permitted
<1>3. CASE /\ requested > 0 /\ exposed >= 0 /\ gas_gwei <= max_gas_price_gwei
           /\ exposed < max_portfolio_exposure_bps /\ max_position_bps > 0
  <2>1. Evaluate(requested, exposed, gas_gwei) =
            [allowed |-> TRUE, permitted_size_bps |-> permitted,
             risk_score_bps |-> RiskScore(permitted)]
    BY <1>1, <1>2, <1>3, LimitsAssumption
  <2> QED
    BY <1>1, <1>3, <2>1 DEF permitted
<1>4. CASE ~ /\ requested > 0 /\ exposed >= 0 /\ gas_gwei <= max_gas_price_gwei
             /\ exposed < max_portfolio_exposure_bps /\ max_position_bps > 0
  <2>1. Evaluate(requested, exposed, gas_gwei) = Reject
    BY <1>1, <1>2, <1>4, LimitsAssumption
  <2> QED
    BY <1>4, <2>1 DEF Reject
<1> QED
  BY <1>3, <1>4

(* The gates accept an intent exactly when it is within every limit, for   *)
(* every value of the limits (risk.py, policy.py, pipeline.py:63-77).      *)
THEOREM GatesExact ==
    GatesMatchLimits
<1> SUFFICES ASSUME NEW requested \in Int, NEW exposed \in Int,
                    NEW wei \in Nat, NEW units \in Int
             PROVE  GatesAccept(requested, exposed, wei, units) <=>
                        WithinLimits(requested, exposed, wei, units)
  BY LimitsAssumption DEF GatesMatchLimits
<1> DEFINE permitted == Permitted(requested, exposed)
           gas_gwei == wei \div Gwei
           risk == Evaluate(requested, exposed, gas_gwei)
<1>1. gas_gwei \in Int /\ (gas_gwei <= max_gas_price_gwei <=>
                               wei < (max_gas_price_gwei + 1) * Gwei)
  <2>1. gas_gwei \in Int /\ (gas_gwei > max_gas_price_gwei <=>
                                 wei >= (max_gas_price_gwei + 1) * Gwei)
    BY FloorAbove, LimitsAssumption
  <2>2. (max_gas_price_gwei + 1) * Gwei \in Int
    BY LimitsAssumption
  <2> QED
    BY <2>1, <2>2, LimitsAssumption
<1>2. permitted \in Int
      /\ (requested = permitted <=> /\ requested <= max_position_bps
                                    /\ requested <= max_portfolio_exposure_bps - exposed)
  BY LimitsAssumption DEF Permitted, Smaller
<1> HIDE DEF gas_gwei, permitted
<1>3. /\ risk.allowed <=>
            /\ requested > 0 /\ exposed >= 0 /\ gas_gwei <= max_gas_price_gwei
            /\ exposed < max_portfolio_exposure_bps /\ max_position_bps > 0
      /\ risk.allowed => risk.permitted_size_bps = permitted
  BY <1>1, EvaluateAllows DEF permitted
<1> HIDE DEF risk
<1>4. GatesAccept(requested, exposed, wei, units) <=>
          /\ risk.allowed /\ units > 0 /\ requested = permitted
          /\ permitted <= hard_position_bps
  BY <1>3 DEF GatesAccept, Authorizes, risk, gas_gwei
<1>5. CASE WithinLimits(requested, exposed, wei, units)
  BY <1>1, <1>2, <1>3, <1>4, <1>5, LimitsAssumption DEF WithinLimits
<1>6. CASE GatesAccept(requested, exposed, wei, units)
  BY <1>1, <1>2, <1>3, <1>4, <1>6, LimitsAssumption DEF WithinLimits
<1> QED
  BY <1>5, <1>6

-----------------------------------------------------------------------------
(* The score of a permitted size, without the clamping.                    *)
Used(permitted) == (permitted * Scale) \div max_position_bps

LEMMA UsedRanges ==
    ASSUME NEW permitted \in 1..max_position_bps
    PROVE  Used(permitted) \in 0..Scale /\ RiskScore(permitted) = Scale - Used(permitted)
<1>1. max_position_bps \in Nat \ {0} /\ Scale \in Nat /\ permitted \in Int
  BY LimitsAssumption
<1>2. /\ 0 * Scale \in Int /\ permitted * Scale \in Int /\ max_position_bps * Scale \in Int
      /\ 0 * Scale <= permitted * Scale /\ permitted * Scale <= max_position_bps * Scale
  BY <1>1, ProductMonotone
<1>3. /\ Used(permitted) \in Int
      /\ (0 * Scale) \div max_position_bps <= Used(permitted)
      /\ Used(permitted) <= (max_position_bps * Scale) \div max_position_bps
  BY <1>1, <1>2, DivisionMonotone DEF Used
<1>4. (max_position_bps * Scale) \div max_position_bps = Scale
  BY <1>1, DivisionExact
<1>5. (0 * Scale) \div max_position_bps = 0
  <2>1. 0 * Scale = max_position_bps * 0
    BY <1>1
  <2> QED
    BY <1>1, <2>1, DivisionExact
<1>6. Used(permitted) \in 0..Scale
  BY <1>1, <1>3, <1>4, <1>5
<1> QED
  BY <1>1, <1>6 DEF RiskScore, Smaller, Larger, Used

(* The score of a decision is that of the size it permits.                 *)
LEMMA EvaluateScores ==
    ASSUME NEW requested \in Int, NEW exposed \in Int, NEW gas_gwei \in Int
    PROVE  LET risk == Evaluate(requested, exposed, gas_gwei)
           IN  /\ risk.allowed =>
                     /\ risk.permitted_size_bps \in 1..max_position_bps
                     /\ risk.risk_score_bps = RiskScore(risk.permitted_size_bps)
               /\ ~risk.allowed => risk.risk_score_bps = Scale
<1> DEFINE risk == Evaluate(requested, exposed, gas_gwei)
           permitted == Permitted(requested, exposed)
<1>1. /\ risk.allowed =>
            /\ risk.permitted_size_bps = permitted
            /\ permitted \in 1..max_position_bps
            /\ risk.risk_score_bps = RiskScore(permitted)
      /\ ~risk.allowed => risk.risk_score_bps = Scale
  BY EvaluateAllows
<1> HIDE DEF risk, permitted
<1>2. ASSUME risk.allowed
      PROVE  /\ risk.permitted_size_bps \in 1..max_position_bps
             /\ risk.risk_score_bps = RiskScore(risk.permitted_size_bps)
  <2>1. risk.permitted_size_bps = permitted
    BY <1>1, <1>2
  <2> QED
    BY <1>1, <1>2, <2>1, Zenon
<1>3. /\ risk.allowed =>
            /\ risk.permitted_size_bps \in 1..max_position_bps
            /\ risk.risk_score_bps = RiskScore(risk.permitted_size_bps)
      /\ ~risk.allowed => risk.risk_score_bps = Scale
  BY <1>1, <1>2
<1> QED
  BY <1>3 DEF risk

(* A score is between 0 and Scale, 0 for the largest position, and never   *)
(* rises with the size it permits (risk.py).                               *)
THEOREM ScoreIsAMargin ==
    ScoreFallsWithSize
<1> SUFFICES ASSUME NEW requested \in Int, NEW other \in Int, NEW exposed \in Int,
                    NEW gas_gwei \in Int
             PROVE  LET risk == Evaluate(requested, exposed, gas_gwei)
                        larger == Evaluate(other, exposed, gas_gwei)
                    IN  /\ risk.risk_score_bps \in 0..Scale
                        /\ risk.allowed /\ risk.permitted_size_bps = max_position_bps =>
                               risk.risk_score_bps = 0
                        /\ /\ risk.allowed /\ larger.allowed
                           /\ risk.permitted_size_bps <= larger.permitted_size_bps
                           => risk.risk_score_bps >= larger.risk_score_bps
  BY LimitsAssumption DEF ScoreFallsWithSize
<1> DEFINE risk == Evaluate(requested, exposed, gas_gwei)
           larger == Evaluate(other, exposed, gas_gwei)
<1>1. /\ risk.allowed =>
            /\ risk.permitted_size_bps \in 1..max_position_bps
            /\ risk.risk_score_bps = RiskScore(risk.permitted_size_bps)
      /\ ~risk.allowed => risk.risk_score_bps = Scale
  BY EvaluateScores
<1>2. larger.allowed =>
          /\ larger.permitted_size_bps \in 1..max_position_bps
          /\ larger.risk_score_bps = RiskScore(larger.permitted_size_bps)
  BY EvaluateScores
<1> HIDE DEF risk, larger
<1>3. risk.risk_score_bps \in 0..Scale
  BY <1>1, UsedRanges, LimitsAssumption
<1>4. ASSUME risk.allowed, risk.permitted_size_bps = max_position_bps
      PROVE  risk.risk_score_bps = 0
  <2>1. max_position_bps \in Nat \ {0} /\ max_position_bps \in 1..max_position_bps
    BY <1>1, <1>4, LimitsAssumption
  <2>2. Used(max_position_bps) = Scale
    BY <2>1, DivisionExact, LimitsAssumption DEF Used
  <2> QED
    BY <1>1, <1>4, <2>1, <2>2, UsedRanges, LimitsAssumption
<1>5. ASSUME risk.allowed, larger.allowed,
             risk.permitted_size_bps <= larger.permitted_size_bps
      PROVE  risk.risk_score_bps >= larger.risk_score_bps
  <2> DEFINE m == risk.permitted_size_bps
             n == larger.permitted_size_bps
  <2>1. m \in 1..max_position_bps /\ n \in 1..max_position_bps /\ m <= n
        /\ max_position_bps \in Nat \ {0} /\ m \in Int /\ n \in Int
    BY <1>1, <1>2, <1>5, LimitsAssumption
  <2> HIDE DEF m, n
  <2>2. m * Scale \in Int /\ n * Scale \in Int /\ m * Scale <= n * Scale
    BY <2>1, ProductMonotone, LimitsAssumption
  <2>3. Used(m) <= Used(n)
    BY <2>1, <2>2, DivisionMonotone DEF Used
  <2>4. Used(m) \in 0..Scale /\ Used(n) \in 0..Scale
        /\ RiskScore(m) = Scale - Used(m) /\ RiskScore(n) = Scale - Used(n)
    BY <2>1, UsedRanges
  <2> QED
    BY <1>1, <1>2, <1>5, <2>3, <2>4, LimitsAssumption DEF m, n
<1> QED
  BY <1>3, <1>4, <1>5 DEF risk, larger

-----------------------------------------------------------------------------
(* The pipeline.                                                           *)

Holding == Steps \ {"save", "reread"}
Unlocked == {"resimulate", "approve", "deadline", "claim", "sign"}
Approved == {"deadline", "claim", "sign"}

(* What process w knows at each step.                                      *)
Holds(w) ==
    /\ worker[w].at = "save" => worker[w].pair.proposal.intent = worker[w].intent
    /\ worker[w].at \in Steps \ {"save"} => store[worker[w].request] # None
    /\ worker[w].at \in Holding => worker[w].pair = store[worker[w].request].pair
    /\ worker[w].at \in Unlocked => clock >= UnlockAt(worker[w].pair)
    /\ worker[w].at \in Approved => worker[w].approval = worker[w].pair
    /\ worker[w].at = "sign" =>
          /\ store[worker[w].request].attempted
          /\ \A s \in signatures : s.request # worker[w].request

SignersApart ==
    \A v, w \in Workers :
        /\ worker[v].at = "sign" /\ worker[w].at = "sign"
        /\ worker[v].request = worker[w].request
        => v = w

RowsConsistent ==
    \A r \in Requests :
        store[r] # None => store[r].pair.proposal.intent = store[r].fingerprint

(* Unlock times as the timelock computes them.                             *)
SignedAfterUnlock == \A s \in signatures : s.time >= UnlockAt(s.pair)

IInv ==
    /\ TypeOK
    /\ \A w \in Workers : Holds(w)
    /\ SignersApart
    /\ RowsConsistent
    /\ OneSignaturePerRequest
    /\ OnlyTheStoredPairIsSigned
    /\ SignedAfterUnlock

(* The table only gains rows and claims.                                   *)
RowsKept ==
    \A r \in Requests :
        store[r] # None =>
            /\ store'[r] # None
            /\ store'[r].fingerprint = store[r].fingerprint
            /\ store'[r].pair = store[r].pair
            /\ store[r].attempted => store'[r].attempted

-----------------------------------------------------------------------------
(* A process between two steps of `execute' has an attempt.                *)
LEMMA AttemptTyped ==
    ASSUME TypeOK, NEW w \in Workers, worker[w].at \in Steps
    PROVE  worker[w] \in Attempts
  BY DEF TypeOK, Steps, NotRunning

(* The unlock time of a pair is the creation of its proposal plus its lock. *)
LEMMA UnlockTyped ==
    ASSUME NEW pair \in Pairs
    PROVE  /\ UnlockAt(pair) \in Nat
           /\ pair.proposal.intent \in Large =>
                 UnlockAt(pair) = pair.proposal.created_at + Duration
  BY ConstantsAssumption DEF UnlockAt, Lock, Pairs, Proposals, Times

(* Goto moves one process and leaves its locals alone.                     *)
LEMMA GotoMoves ==
    ASSUME TypeOK, NEW w \in Workers, worker[w].at \in Steps, NEW step \in Steps,
           Goto(w, step)
    PROVE  /\ worker' \in [Workers -> Attempts \union {NotRunning}]
           /\ worker'[w] = [worker[w] EXCEPT !.at = step]
           /\ worker'[w].at = step
           /\ worker'[w].request = worker[w].request
           /\ worker'[w].intent = worker[w].intent
           /\ worker'[w].pair = worker[w].pair
           /\ worker'[w].approval = worker[w].approval
           /\ \A v \in Workers \ {w} : worker'[v] = worker[v]
           /\ clock' = clock /\ made' = made
<1>1. worker[w] \in Attempts
  BY AttemptTyped
<1>2. [worker[w] EXCEPT !.at = step] \in Attempts
  BY <1>1 DEF Attempts
<1> QED
  BY <1>1, <1>2 DEF TypeOK, Goto, Attempts

(* A step that keeps the rows, the attempt of v and the permission v may   *)
(* own also keeps what v knows.                                            *)
LEMMA OthersKeep ==
    ASSUME TypeOK, NEW v \in Workers, Holds(v), RowsKept,
           clock' \in Nat, clock' >= clock,
           worker'[v] = worker[v],
           \A s \in signatures' :
               s \in signatures \/ worker[v].at # "sign" \/ s.request # worker[v].request
    PROVE  Holds(v)'
<1>1. CASE worker[v].at \in Steps
  <2>1. worker[v].request \in Requests /\ worker[v].pair \in Pairs
    BY <1>1, AttemptTyped DEF Attempts
  <2>2. UnlockAt(worker[v].pair) \in Nat /\ clock \in Nat
    BY <2>1, UnlockTyped DEF TypeOK, Times
  <2>3. worker[v].at \in Unlocked => clock' >= UnlockAt(worker[v].pair)
    BY <2>2 DEF Holds
  <2>4. UnlockAt(worker[v].pair)' = UnlockAt(worker[v].pair)
    BY DEF UnlockAt, Lock
  <2> QED
    BY <1>1, <2>1, <2>3, <2>4 DEF Holds, RowsKept, Holding, Steps
<1>2. CASE worker[v].at \notin Steps
  BY <1>2 DEF Holds, Steps, Holding, Unlocked, Approved
<1> QED
  BY <1>1, <1>2

(* Rows that are kept keep the facts about the signatures already made.    *)
LEMMA SignaturesKeep ==
    ASSUME IInv, RowsKept, UNCHANGED signatures
    PROVE  OneSignaturePerRequest' /\ OnlyTheStoredPairIsSigned' /\ SignedAfterUnlock'
<1>1. \A s \in signatures : s.request \in Requests
  BY DEF IInv, TypeOK, Signatures
<1>2. OneSignaturePerRequest'
  BY DEF IInv, OneSignaturePerRequest
<1>3. OnlyTheStoredPairIsSigned'
  BY <1>1 DEF IInv, OnlyTheStoredPairIsSigned, RowsKept
<1>4. SignedAfterUnlock'
  BY DEF IInv, SignedAfterUnlock, UnlockAt, Lock
<1> QED
  BY <1>2, <1>3, <1>4

-----------------------------------------------------------------------------
LEMMA InitInvariant ==
    Init => IInv
<1> SUFFICES ASSUME Init PROVE IInv
  OBVIOUS
<1>1. TypeOK
  BY ConstantsAssumption DEF Init, TypeOK, Times
<1>2. \A w \in Workers : worker[w].at = "idle"
  BY DEF Init, NotRunning
<1>3. (\A w \in Workers : Holds(w)) /\ SignersApart
  BY <1>2 DEF Holds, SignersApart, Holding, Steps, Unlocked, Approved
<1>4. RowsConsistent /\ OneSignaturePerRequest /\ OnlyTheStoredPairIsSigned
      /\ SignedAfterUnlock
  BY DEF Init, RowsConsistent, OneSignaturePerRequest, OnlyTheStoredPairIsSigned,
         SignedAfterUnlock
<1> QED
  BY <1>1, <1>3, <1>4 DEF IInv

(* Steps that only move a process forward: what it must know at the next   *)
(* step is all there is to show.                                           *)
LEMMA AdvanceKeeps ==
    ASSUME IInv, NEW w \in Workers, worker[w].at \in Steps, NEW step \in Steps,
           step # "sign", Goto(w, step), UNCHANGED <<store, signatures>>,
           Holds(w)'
    PROVE  IInv'
<1>1. RowsKept
  BY DEF RowsKept
<1>2. /\ worker' \in [Workers -> Attempts \union {NotRunning}]
      /\ worker'[w].at = step
      /\ \A v \in Workers \ {w} : worker'[v] = worker[v]
      /\ clock' = clock /\ made' = made
  BY GotoMoves DEF IInv
<1>3. clock' \in Nat /\ clock' >= clock
  BY <1>2 DEF IInv, TypeOK, Times
<1>4. TypeOK'
  BY <1>2 DEF IInv, TypeOK
<1>5. \A v \in Workers \ {w} : Holds(v)'
  BY <1>1, <1>2, <1>3, OthersKeep DEF IInv
<1>6. SignersApart'
  BY <1>2 DEF IInv, SignersApart
<1>7. RowsConsistent'
  BY DEF IInv, RowsConsistent
<1> QED
  BY <1>1, <1>4, <1>5, <1>6, <1>7, SignaturesKeep DEF IInv

(* A process that starts or ends an attempt, and the passing of time, leave *)
(* table and signatures alone; the others keep what they know.             *)
LEMMA QuietKeeps ==
    ASSUME IInv, NEW w \in Workers, UNCHANGED <<store, signatures>>,
           \A v \in Workers \ {w} : worker'[v] = worker[v],
           worker'[w].at # "sign", clock' \in Times, clock' >= clock,
           TypeOK', Holds(w)'
    PROVE  IInv'
<1>1. RowsKept
  BY DEF RowsKept
<1>2. clock' \in Nat
  BY DEF Times
<1>3. \A v \in Workers \ {w} : Holds(v)'
  BY <1>1, <1>2, OthersKeep DEF IInv
<1>4. SignersApart'
  BY DEF IInv, SignersApart
<1>5. RowsConsistent'
  BY DEF IInv, RowsConsistent
<1> QED
  BY <1>1, <1>3, <1>4, <1>5, SignaturesKeep DEF IInv

LEMMA ResumeKeeps ==
    ASSUME IInv, NEW w \in Workers, NEW r \in Requests, NEW intent \in Intents,
           Resume(w, r, intent)
    PROVE  IInv'
<1> DEFINE a == [at |-> "simulate", request |-> r, intent |-> intent,
                 pair |-> store[r].pair, approval |-> None]
<1>1. store[r] \in Rows /\ store[r] # None
  BY DEF IInv, TypeOK, Resume
<1>2. a \in Attempts
  BY <1>1 DEF Rows, Attempts, Steps
<1>3. /\ worker' = [worker EXCEPT ![w] = a]
      /\ UNCHANGED <<store, clock, made, signatures>>
  BY DEF Resume
<1>4. worker' \in [Workers -> Attempts \union {NotRunning}]
  BY <1>2, <1>3 DEF IInv, TypeOK
<1>5. /\ worker'[w] = a
      /\ \A v \in Workers \ {w} : worker'[v] = worker[v]
  BY <1>3 DEF IInv, TypeOK
<1>6. TypeOK'
  BY <1>3, <1>4 DEF IInv, TypeOK
<1>7. Holds(w)'
  BY <1>1, <1>3, <1>5 DEF Holds, Holding, Unlocked, Approved
<1>8. clock' \in Times /\ clock' >= clock
  BY <1>3 DEF IInv, TypeOK, Times
<1> QED
  BY <1>3, <1>5, <1>6, <1>7, <1>8, QuietKeeps

LEMMA BeginKeeps ==
    ASSUME IInv, NEW w \in Workers, NEW r \in Requests, NEW intent \in Intents,
           NEW envelope \in Envelopes, NEW named, Begin(w, r, intent, envelope, named)
    PROVE  IInv'
<1> DEFINE tx == [envelope |-> envelope, proposal_digest |-> named]
           pair == [proposal |-> NewProposal(intent), tx |-> tx]
           a == [at |-> "save", request |-> r, intent |-> intent,
                 pair |-> pair, approval |-> None]
<1>1. made + 1 \in 1..MaxProposals
  BY ConstantsAssumption DEF IInv, TypeOK, Begin
<1>2. Lock(intent) \in 0..Duration
  BY ConstantsAssumption DEF Lock
<1>3. clock + SigningWindow + Lock(intent) \in 0..(MaxTime + Duration + SigningWindow)
  BY <1>2, ConstantsAssumption DEF IInv, TypeOK, Times
<1>4. NewProposal(intent) \in Proposals /\ NewProposal(intent).intent = intent
  BY <1>1, <1>3 DEF IInv, TypeOK, NewProposal, Proposals
<1>5. a \in Attempts
  <2>1. named = NewProposal(intent)
    BY DEF Begin, PairValid, ValidBuilt
  <2>2. pair \in Pairs
    BY <1>4, <2>1 DEF Pairs
  <2> QED
    BY <2>2 DEF Attempts, Steps
<1>6. /\ worker' = [worker EXCEPT ![w] = a]
      /\ made' = made + 1
      /\ UNCHANGED <<store, clock, signatures>>
  BY DEF Begin
<1>7. worker' \in [Workers -> Attempts \union {NotRunning}]
  BY <1>5, <1>6 DEF IInv, TypeOK
<1>8. /\ worker'[w] = a
      /\ \A v \in Workers \ {w} : worker'[v] = worker[v]
  BY <1>6 DEF IInv, TypeOK
<1>9. TypeOK'
  BY <1>1, <1>6, <1>7 DEF IInv, TypeOK
<1>10. Holds(w)'
  BY <1>4, <1>8 DEF Holds, Holding, Unlocked, Approved
<1>11. clock' \in Times /\ clock' >= clock
  BY <1>6 DEF IInv, TypeOK, Times
<1> QED
  BY <1>6, <1>8, <1>9, <1>10, <1>11, QuietKeeps

(* The first row of a request wins; a later one is ignored.                *)
LEMMA SaveKeeps ==
    ASSUME IInv, NEW w \in Workers, Save(w)
    PROVE  IInv'
<1> DEFINE r == worker[w].request
           row == [fingerprint |-> worker[w].intent, pair |-> worker[w].pair,
                   attempted |-> FALSE]
<1>1. worker[w].at \in Steps /\ "reread" \in Steps
  BY DEF Save, Steps
<1>2. /\ r \in Requests /\ row \in Rows /\ row # None
      /\ row.pair.proposal.intent = row.fingerprint
  <2>1. worker[w] \in Attempts
    BY <1>1, AttemptTyped DEF IInv
  <2>2. r \in Requests /\ row \in Rows
    BY <2>1 DEF Attempts, Rows
  <2>3. worker[w].pair.proposal.intent = worker[w].intent
    BY DEF IInv, Holds, Save
  <2> QED
    BY <2>2, <2>3, NoneAssumption
<1>3. /\ store' = [store EXCEPT ![r] = IF store[r] = None THEN row ELSE store[r]]
      /\ Goto(w, "reread") /\ UNCHANGED signatures
  BY DEF Save
<1>4. store' \in [Requests -> Rows \union {None}]
  BY <1>2, <1>3 DEF IInv, TypeOK
<1>5. /\ store'[r] = (IF store[r] = None THEN row ELSE store[r])
      /\ \A q \in Requests \ {r} : store'[q] = store[q]
  BY <1>2, <1>3 DEF IInv, TypeOK
<1>6. RowsKept /\ store'[r] # None
  BY <1>2, <1>5 DEF RowsKept
<1>7. /\ worker' \in [Workers -> Attempts \union {NotRunning}]
      /\ worker'[w].at = "reread" /\ worker'[w].request = r
      /\ \A v \in Workers \ {w} : worker'[v] = worker[v]
      /\ clock' = clock /\ made' = made
  BY <1>1, <1>3, GotoMoves DEF IInv
<1>8. TypeOK'
  BY <1>3, <1>4, <1>7 DEF IInv, TypeOK
<1>9. \A v \in Workers : Holds(v)'
  <2>1. Holds(w)'
    BY <1>6, <1>7 DEF Holds, Holding, Unlocked, Approved
  <2>2. clock' \in Nat /\ clock' >= clock
    BY <1>7 DEF IInv, TypeOK, Times
  <2>3. \A v \in Workers \ {w} : Holds(v)'
    BY <1>3, <1>6, <1>7, <2>2, OthersKeep DEF IInv
  <2> QED
    BY <2>1, <2>3
<1>10. SignersApart'
  BY <1>7 DEF IInv, SignersApart
<1>11. RowsConsistent'
  BY <1>2, <1>5 DEF IInv, RowsConsistent
<1> QED
  BY <1>3, <1>6, <1>8, <1>9, <1>10, <1>11, SignaturesKeep DEF IInv

LEMMA RereadKeeps ==
    ASSUME IInv, NEW w \in Workers, Reread(w)
    PROVE  IInv'
<1> DEFINE r == worker[w].request
           a == [worker[w] EXCEPT !.at = "simulate", !.pair = store[r].pair]
<1>1. worker[w].at \in Steps /\ worker[w].at = "reread"
  BY DEF Reread, Steps
<1>2. worker[w] \in Attempts /\ r \in Requests
  BY <1>1, AttemptTyped DEF IInv, Attempts
<1>3. store[r] # None /\ store[r] \in Rows
  BY <1>1, <1>2 DEF IInv, TypeOK, Holds
<1>4. a \in Attempts /\ a.at = "simulate" /\ a.request = r /\ a.pair = store[r].pair
  BY <1>2, <1>3 DEF Attempts, Rows, Steps
<1>5. /\ worker' = [worker EXCEPT ![w].at = "simulate", ![w].pair = store[r].pair]
      /\ UNCHANGED <<store, clock, made, signatures>>
  BY DEF Reread
<1>6. worker' = [worker EXCEPT ![w] = a]
  BY <1>2, <1>5 DEF IInv, TypeOK, Attempts
<1>7. /\ worker' \in [Workers -> Attempts \union {NotRunning}]
      /\ worker'[w] = a
      /\ \A v \in Workers \ {w} : worker'[v] = worker[v]
  BY <1>4, <1>6 DEF IInv, TypeOK
<1>8. TypeOK'
  BY <1>5, <1>7 DEF IInv, TypeOK
<1>9. Holds(w)'
  BY <1>3, <1>4, <1>5, <1>7 DEF Holds, Holding, Unlocked, Approved
<1>10. clock' \in Times /\ clock' >= clock
  BY <1>5 DEF IInv, TypeOK, Times
<1> QED
  BY <1>4, <1>5, <1>7, <1>8, <1>9, <1>10, QuietKeeps

(* Simulation, timelock and deadline checks.                               *)
LEMMA CheckKeeps ==
    ASSUME IInv, NEW w \in Workers,
           Simulate(w) \/ TimelockReady(w) \/ Resimulate(w) \/ CheckDeadline(w)
    PROVE  IInv'
<1>1. PICK step \in {"timelock", "resimulate", "approve", "claim"} :
          /\ worker[w].at \in {"simulate", "timelock", "resimulate", "deadline"}
          /\ step = "resimulate" => clock >= UnlockAt(worker[w].pair)
          /\ step \in {"approve", "claim"} => worker[w].at \in Unlocked
          /\ step = "claim" => worker[w].at \in Approved
          /\ Goto(w, step) /\ UNCHANGED <<store, signatures>>
  BY DEF Simulate, TimelockReady, Resimulate, CheckDeadline, Unlocked, Approved
<1>2. worker[w].at \in Steps /\ step \in Steps /\ step # "sign"
  BY <1>1 DEF Steps
<1>3. /\ worker'[w].at = step
      /\ worker'[w].request = worker[w].request
      /\ worker'[w].pair = worker[w].pair
      /\ worker'[w].approval = worker[w].approval
      /\ clock' = clock
  BY <1>1, <1>2, GotoMoves DEF IInv
<1>4. Holds(w)
  BY DEF IInv
<1>5. UnlockAt(worker[w].pair)' = UnlockAt(worker'[w].pair)
  BY DEF UnlockAt, Lock
<1>6. Holds(w)'
  BY <1>1, <1>2, <1>3, <1>4, <1>5 DEF Holds, Holding, Unlocked, Approved, Steps
<1> QED
  BY <1>1, <1>2, <1>6, AdvanceKeeps

LEMMA ApproveKeeps ==
    ASSUME IInv, NEW w \in Workers, NEW approved, Approve(w, approved)
    PROVE  IInv'
<1> DEFINE a == [worker[w] EXCEPT !.at = "deadline", !.approval = approved]
<1>1. worker[w].at \in Steps /\ worker[w].at = "approve" /\ approved = worker[w].pair
  BY DEF Approve, BoundTo, Steps
<1>2. worker[w] \in Attempts
  BY <1>1, AttemptTyped DEF IInv
<1>3. /\ a \in Attempts /\ a.at = "deadline" /\ a.request = worker[w].request
      /\ a.pair = worker[w].pair /\ a.approval = a.pair
  BY <1>1, <1>2 DEF Attempts, Steps
<1>4. /\ worker' = [worker EXCEPT ![w].at = "deadline", ![w].approval = approved]
      /\ UNCHANGED <<store, clock, made, signatures>>
  BY DEF Approve, BoundTo
<1>5. worker' = [worker EXCEPT ![w] = a]
  BY <1>2, <1>4 DEF IInv, TypeOK, Attempts
<1>6. /\ worker' \in [Workers -> Attempts \union {NotRunning}]
      /\ worker'[w] = a
      /\ \A v \in Workers \ {w} : worker'[v] = worker[v]
  BY <1>3, <1>5 DEF IInv, TypeOK
<1>7. TypeOK'
  BY <1>4, <1>6 DEF IInv, TypeOK
<1>8. Holds(w)
  BY DEF IInv
<1>9. Holds(w)'
  <2>1. UnlockAt(worker[w].pair)' = UnlockAt(worker'[w].pair)
    BY DEF UnlockAt, Lock
  <2>2. worker'[w].pair = worker[w].pair
    BY <1>3, <1>6
  <2> QED
    BY <1>1, <1>3, <1>4, <1>6, <1>8, <2>1, <2>2 DEF Holds, Holding, Unlocked, Approved, Steps
<1>10. clock' \in Times /\ clock' >= clock
  BY <1>4 DEF IInv, TypeOK, Times
<1> QED
  BY <1>3, <1>4, <1>6, <1>7, <1>9, <1>10, QuietKeeps

(* The claim is granted only while nobody has it: no other process is      *)
(* about to sign for the request and no signature was made.                *)
LEMMA ClaimKeeps ==
    ASSUME IInv, NEW w \in Workers, ClaimSigning(w)
    PROVE  IInv'
<1> DEFINE r == worker[w].request
<1>1. worker[w].at \in Steps /\ worker[w].at = "claim" /\ "sign" \in Steps
  BY DEF ClaimSigning, Steps
<1>2. r \in Requests /\ worker[w].pair \in Pairs
  BY <1>1, AttemptTyped DEF IInv, Attempts
<1>3. Holds(w) /\ store[r] # None /\ store[r] \in Rows
  BY <1>1, <1>2 DEF IInv, TypeOK, Holds
<1>4. /\ ~store[r].attempted
      /\ store' = [store EXCEPT ![r].attempted = TRUE]
      /\ Goto(w, "sign") /\ UNCHANGED signatures
  BY DEF ClaimSigning
<1>5. /\ store'[r] \in Rows
      /\ store'[r].fingerprint = store[r].fingerprint
      /\ store'[r].pair = store[r].pair
      /\ store'[r].attempted
      /\ \A q \in Requests \ {r} : store'[q] = store[q]
  BY <1>2, <1>3, <1>4 DEF IInv, TypeOK, Rows
<1>6. store' \in [Requests -> Rows \union {None}]
  BY <1>4, <1>5 DEF IInv, TypeOK
<1>7. RowsKept
  BY <1>5, NoneAssumption DEF RowsKept
<1>8. /\ worker' \in [Workers -> Attempts \union {NotRunning}]
      /\ worker'[w].at = "sign" /\ worker'[w].request = r
      /\ worker'[w].pair = worker[w].pair /\ worker'[w].approval = worker[w].approval
      /\ \A v \in Workers \ {w} : worker'[v] = worker[v]
      /\ clock' = clock /\ made' = made
  BY <1>1, <1>4, GotoMoves DEF IInv
<1>9. TypeOK'
  BY <1>4, <1>6, <1>8 DEF IInv, TypeOK
<1>10. \A s \in signatures : s.request # r
  BY <1>4 DEF IInv, OnlyTheStoredPairIsSigned
<1>11. \A v \in Workers : Holds(v)'
  <2>1. UnlockAt(worker[w].pair)' = UnlockAt(worker'[w].pair)
    BY DEF UnlockAt, Lock
  <2>2. Holds(w)'
    BY <1>1, <1>3, <1>4, <1>5, <1>8, <1>10, <2>1, NoneAssumption
       DEF Holds, Holding, Unlocked, Approved, Steps
  <2>3. clock' \in Nat /\ clock' >= clock
    BY <1>8 DEF IInv, TypeOK, Times
  <2>4. \A v \in Workers \ {w} : Holds(v)'
    BY <1>4, <1>7, <1>8, <2>3, OthersKeep DEF IInv
  <2> QED
    BY <2>2, <2>4
<1>12. SignersApart'
  <2>1. \A v \in Workers \ {w} : worker[v].at = "sign" => worker[v].request # r
    BY <1>4 DEF IInv, Holds
  <2> QED
    BY <1>8, <2>1 DEF IInv, SignersApart
<1>13. RowsConsistent'
  BY <1>3, <1>5 DEF IInv, RowsConsistent
<1> QED
  BY <1>4, <1>7, <1>9, <1>11, <1>12, <1>13, SignaturesKeep DEF IInv

(* The one signature of the request is made with what the process holds.   *)
LEMMA SignKeeps ==
    ASSUME IInv, NEW w \in Workers, NEW signed, Sign(w, signed)
    PROVE  IInv'
<1> DEFINE t == [by |-> w, request |-> worker[w].request, pair |-> worker[w].pair,
                 approval |-> worker[w].approval,
                 returned |-> Validated(signed, worker[w].pair, None), time |-> clock]
<1>1. worker[w].at \in Steps /\ worker[w].at = "sign"
  BY DEF Sign, Steps
<1>2. worker[w] \in Attempts /\ worker[w].request \in Requests /\ worker[w].pair \in Pairs
  BY <1>1, AttemptTyped DEF IInv, Attempts
<1>3. /\ signatures' = signatures \union {t}
      /\ worker' = [worker EXCEPT ![w] = NotRunning]
      /\ UNCHANGED <<store, clock, made>>
  BY DEF Sign
<1>4. /\ store[t.request] # None
      /\ t.pair = store[t.request].pair
      /\ clock >= UnlockAt(t.pair)
      /\ t.approval = t.pair
      /\ t.returned \in {None, t.pair}
      /\ store[t.request].attempted
      /\ \A s \in signatures : s.request # t.request
  BY <1>1 DEF IInv, Holds, Holding, Unlocked, Approved, Steps, Validated
<1>5. /\ worker'[w] = NotRunning
      /\ \A v \in Workers \ {w} : worker'[v] = worker[v]
      /\ worker' \in [Workers -> Attempts \union {NotRunning}]
  BY <1>3 DEF IInv, TypeOK
<1>6. worker'[w].at = "idle"
  BY <1>5 DEF NotRunning
<1>7. TypeOK'
  <2>1. t \in Signatures
    BY <1>2, <1>4 DEF IInv, TypeOK, Signatures
  <2> QED
    BY <1>3, <1>5, <2>1 DEF IInv, TypeOK
<1>8. RowsKept
  BY <1>3 DEF RowsKept
<1>9. \A v \in Workers : Holds(v)'
  <2>1. Holds(w)'
    BY <1>6 DEF Holds, Holding, Unlocked, Approved, Steps
  <2>2. clock' \in Nat /\ clock' >= clock
    BY <1>3 DEF IInv, TypeOK, Times
  <2>3. ASSUME NEW v \in Workers \ {w} PROVE Holds(v)'
    <3>1. worker[v].at = "sign" => worker[v].request # t.request
      BY <1>1 DEF IInv, SignersApart
    <3>2. \A s \in signatures' :
              s \in signatures \/ worker[v].at # "sign" \/ s.request # worker[v].request
      BY <1>3, <3>1
    <3> QED
      BY <1>5, <1>8, <2>2, <3>2, OthersKeep DEF IInv
  <2> QED
    BY <2>1, <2>3
<1>10. SignersApart'
  BY <1>5, <1>6 DEF IInv, SignersApart
<1>11. RowsConsistent'
  BY <1>3 DEF IInv, RowsConsistent
<1>12. OneSignaturePerRequest'
  BY <1>3, <1>4 DEF IInv, OneSignaturePerRequest
<1>13. OnlyTheStoredPairIsSigned'
  BY <1>2, <1>3, <1>4 DEF IInv, OnlyTheStoredPairIsSigned, RowsConsistent
<1>14. SignedAfterUnlock'
  <2>1. \A s \in signatures' : s.time >= UnlockAt(s.pair)
    BY <1>3, <1>4 DEF IInv, SignedAfterUnlock
  <2> QED
    BY <2>1 DEF SignedAfterUnlock, UnlockAt, Lock
<1> QED
  BY <1>7, <1>9, <1>10, <1>11, <1>12, <1>13, <1>14 DEF IInv

LEMMA EndKeeps ==
    ASSUME IInv, NEW w \in Workers, End(w)
    PROVE  IInv'
<1>1. /\ worker' = [worker EXCEPT ![w] = NotRunning]
      /\ UNCHANGED <<store, clock, made, signatures>>
  BY DEF End
<1>2. /\ worker'[w] = NotRunning
      /\ \A v \in Workers \ {w} : worker'[v] = worker[v]
      /\ worker' \in [Workers -> Attempts \union {NotRunning}]
  BY <1>1 DEF IInv, TypeOK
<1>3. worker'[w].at = "idle"
  BY <1>2 DEF NotRunning
<1>4. Holds(w)'
  BY <1>3 DEF Holds, Holding, Unlocked, Approved, Steps
<1>5. TypeOK'
  BY <1>1, <1>2 DEF IInv, TypeOK
<1>6. clock' \in Times /\ clock' >= clock
  BY <1>1 DEF IInv, TypeOK, Times
<1> QED
  BY <1>1, <1>2, <1>3, <1>4, <1>5, <1>6, QuietKeeps

LEMMA TickKeeps ==
    ASSUME IInv, Tick
    PROVE  IInv'
<1>1. clock' = clock + 1 /\ clock < MaxTime /\ UNCHANGED <<store, worker, made, signatures>>
  BY DEF Tick
<1>2. clock' \in Times /\ clock' \in Nat /\ clock' >= clock
  BY <1>1, ConstantsAssumption DEF IInv, TypeOK, Times
<1>3. TypeOK'
  BY <1>1, <1>2 DEF IInv, TypeOK
<1>4. RowsKept
  BY <1>1 DEF RowsKept
<1>5. \A v \in Workers : Holds(v)'
  BY <1>1, <1>2, <1>4, OthersKeep DEF IInv
<1>6. SignersApart' /\ RowsConsistent'
  BY <1>1 DEF IInv, SignersApart, RowsConsistent
<1> QED
  BY <1>1, <1>3, <1>4, <1>5, <1>6, SignaturesKeep DEF IInv

LEMMA StutterKeeps ==
    ASSUME IInv, UNCHANGED vars
    PROVE  IInv'
<1>1. UNCHANGED <<store, worker, clock, made, signatures>>
  BY DEF vars
<1>2. clock' \in Nat /\ clock' >= clock
  BY <1>1 DEF IInv, TypeOK, Times
<1>3. TypeOK'
  BY <1>1 DEF IInv, TypeOK
<1>4. RowsKept
  BY <1>1 DEF RowsKept
<1>5. \A v \in Workers : Holds(v)'
  BY <1>1, <1>2, <1>4, OthersKeep DEF IInv
<1>6. SignersApart' /\ RowsConsistent'
  BY <1>1 DEF IInv, SignersApart, RowsConsistent
<1> QED
  BY <1>1, <1>3, <1>4, <1>5, <1>6, SignaturesKeep DEF IInv

LEMMA StepKeeps ==
    ASSUME IInv, [Next]_vars
    PROVE  IInv'
<1>1. CASE Tick
  BY <1>1, TickKeeps
<1>2. ASSUME NEW w \in Workers, Execute(w)
      PROVE  IInv'
  <2>1. ASSUME NEW r \in Requests, NEW intent \in Intents, Resume(w, r, intent)
        PROVE  IInv'
    BY <2>1, ResumeKeeps
  <2>2. ASSUME NEW r \in Requests, NEW intent \in Intents, NEW envelope \in Envelopes,
               NEW named, Begin(w, r, intent, envelope, named)
        PROVE  IInv'
    BY <2>2, BeginKeeps
  <2>3. CASE Save(w)
    BY <2>3, SaveKeeps
  <2>4. CASE Reread(w)
    BY <2>4, RereadKeeps
  <2>5. CASE Simulate(w) \/ TimelockReady(w) \/ Resimulate(w) \/ CheckDeadline(w)
    BY <2>5, CheckKeeps
  <2>6. ASSUME NEW approved \in KnownPairs, Approve(w, approved)
        PROVE  IInv'
    BY <2>6, ApproveKeeps
  <2>7. CASE ClaimSigning(w)
    BY <2>7, ClaimKeeps
  <2>8. ASSUME NEW signed, Sign(w, signed)
        PROVE  IInv'
    BY <2>8, SignKeeps
  <2> QED
    BY <1>2, <2>1, <2>2, <2>3, <2>4, <2>5, <2>6, <2>7, <2>8 DEF Execute
<1>3. ASSUME NEW w \in Workers, End(w)
      PROVE  IInv'
  BY <1>3, EndKeeps
<1>4. CASE UNCHANGED vars
  BY <1>4, StutterKeeps
<1> QED
  BY <1>1, <1>2, <1>3, <1>4 DEF Next

LEMMA InvariantHolds ==
    Spec => []IInv
<1>1. Init => IInv
  BY InitInvariant
<1>2. IInv /\ [Next]_vars => IInv'
  BY StepKeeps
<1> QED
  BY <1>1, <1>2, PTL DEF Spec

-----------------------------------------------------------------------------
(* The variables of the pipeline model keep their types.                   *)
THEOREM PipelineTyped ==
    Spec => []TypeOK
<1>1. IInv => TypeOK
  BY DEF IInv
<1> QED
  BY <1>1, InvariantHolds, PTL

(* However many processes race for a request, fail and come back, the      *)
(* signer is called at most once for it (security_boundary/store.py:52-58, *)
(* pipeline.py:171-173).                                                   *)
THEOREM SignedAtMostOnce ==
    Spec => []OneSignaturePerRequest
<1>1. IInv => OneSignaturePerRequest
  BY DEF IInv
<1> QED
  BY <1>1, InvariantHolds, PTL

(* What is signed is the pair first saved for the request, under the       *)
(* intent it was saved for, with an approval of that very pair             *)
(* (pipeline.py:110-113 and 156-160, store.py:44-50).                      *)
THEOREM StoredPairSigned ==
    Spec => []OnlyTheStoredPairIsSigned
<1>1. IInv => OnlyTheStoredPairIsSigned
  BY DEF IInv
<1> QED
  BY <1>1, InvariantHolds, PTL

(* A timelocked trade is not signed before Duration has passed since its   *)
(* proposal was made, whoever resumes it (pipeline.py:131, approval.py).   *)
THEOREM SignedAfterTimelock ==
    Spec => []NoSignatureBeforeUnlock
<1>1. IInv => NoSignatureBeforeUnlock
  <2> SUFFICES ASSUME IInv, NEW s \in signatures, s.pair.proposal.intent \in Large
               PROVE  s.time >= s.pair.proposal.created_at + Duration
    BY DEF NoSignatureBeforeUnlock
  <2>1. s.pair \in Pairs /\ s.time >= UnlockAt(s.pair)
    BY DEF IInv, TypeOK, Signatures, SignedAfterUnlock
  <2> QED
    BY <2>1, UnlockTyped
<1> QED
  BY <1>1, InvariantHolds, PTL

-----------------------------------------------------------------------------
(* Only three steps write to the table or call the signer.                 *)
LEMMA WritingSteps ==
    ASSUME [Next]_vars
    PROVE  \/ UNCHANGED <<store, signatures>>
           \/ \E w \in Workers :
                 Save(w) \/ ClaimSigning(w) \/ \E signed : Sign(w, signed)
<1>1. CASE Tick \/ UNCHANGED vars
  BY <1>1 DEF Tick, vars
<1>2. ASSUME NEW w \in Workers, End(w)
      PROVE  UNCHANGED <<store, signatures>>
  BY <1>2 DEF End
<1>3. ASSUME NEW w \in Workers, Execute(w)
      PROVE  \/ UNCHANGED <<store, signatures>>
             \/ Save(w) \/ ClaimSigning(w) \/ \E signed : Sign(w, signed)
  <2>1. ASSUME NEW r \in Requests, NEW intent \in Intents, Resume(w, r, intent)
        PROVE  UNCHANGED <<store, signatures>>
    BY <2>1 DEF Resume
  <2>2. ASSUME NEW r \in Requests, NEW intent \in Intents, NEW envelope, NEW named,
               Begin(w, r, intent, envelope, named)
        PROVE  UNCHANGED <<store, signatures>>
    BY <2>2 DEF Begin
  <2>3. CASE Reread(w) \/ Simulate(w) \/ TimelockReady(w) \/ Resimulate(w) \/ CheckDeadline(w)
    BY <2>3 DEF Reread, Simulate, TimelockReady, Resimulate, CheckDeadline
  <2>4. ASSUME NEW approved, Approve(w, approved)
        PROVE  UNCHANGED <<store, signatures>>
    BY <2>4 DEF Approve
  <2> QED
    BY <1>3, <2>1, <2>2, <2>3, <2>4 DEF Execute
<1> QED
  BY <1>1, <1>2, <1>3 DEF Next

(* Only saving and claiming touch the table, each only one row.            *)
LEMMA RowsStay ==
    ASSUME IInv, [Next]_vars
    PROVE  RowsKept
<1>1. CASE UNCHANGED store
  BY <1>1 DEF RowsKept
<1>2. ASSUME NEW w \in Workers, Save(w)
      PROVE  RowsKept
  <2>1. worker[w] \in Attempts
    BY <1>2, AttemptTyped DEF IInv, Save, Steps
  <2>2. worker[w].request \in Requests
    BY <2>1 DEF Attempts
  <2> QED
    BY <1>2, <2>2 DEF IInv, TypeOK, Save, RowsKept
<1>3. ASSUME NEW w \in Workers, ClaimSigning(w)
      PROVE  RowsKept
  <2> DEFINE r == worker[w].request
  <2>1. worker[w] \in Attempts /\ worker[w].at = "claim"
    BY <1>3, AttemptTyped DEF IInv, ClaimSigning, Steps
  <2>2. r \in Requests /\ store[r] # None /\ store[r] \in Rows
    BY <2>1 DEF IInv, TypeOK, Holds, Attempts, Steps
  <2>3. store' = [store EXCEPT ![r].attempted = TRUE]
    BY <1>3 DEF ClaimSigning
  <2>4. /\ store'[r] \in Rows
        /\ store'[r].fingerprint = store[r].fingerprint
        /\ store'[r].pair = store[r].pair
        /\ store'[r].attempted
        /\ \A q \in Requests \ {r} : store'[q] = store[q]
    BY <2>2, <2>3 DEF IInv, TypeOK, Rows
  <2> QED
    BY <2>4, NoneAssumption DEF RowsKept
<1>4. ASSUME NEW w \in Workers, NEW signed, Sign(w, signed)
      PROVE  UNCHANGED store
  BY <1>4 DEF Sign
<1> QED
  BY <1>1, <1>2, <1>3, <1>4, WritingSteps

(* A saved row keeps its fingerprint, its pair and its claim whatever any  *)
(* process does (store.py:44-58).                                          *)
THEOREM RowsNeverChange ==
    Spec => RowsAreImmutable
<1>1. IInv /\ [Next]_vars => RowsKept
  BY RowsStay
<1>2. IInv /\ [Next]_vars => [RowsKept]_vars
  BY <1>1
<1> QED
  BY <1>2, InvariantHolds, PTL DEF Spec, RowsAreImmutable, RowsKept

-----------------------------------------------------------------------------
(* The refinement mapping of Boundary, by name.                            *)
SignaturesOf(r) == {s \in signatures : s.request = r}
FixedPairs == [r \in Requests |-> IF store[r] = None THEN None ELSE store[r].pair]
ClaimedRequests == {r \in Requests : store[r] # None /\ store[r].attempted}
IssuedCounts == [r \in Requests |-> Cardinality(SignaturesOf(r))]

LEMMA MappedInit ==
    ASSUME Init
    PROVE  Boundary!Init
<1>1. \A r \in Requests : SignaturesOf(r) = {}
  BY DEF Init, SignaturesOf
<1>2. Cardinality({}) = 0
  BY FS_EmptySet
<1>3. IssuedCounts = [r \in Requests |-> 0]
  BY <1>1, <1>2 DEF IssuedCounts
<1>4. FixedPairs = [r \in Requests |-> None] /\ ClaimedRequests = {}
  BY DEF Init, FixedPairs, ClaimedRequests
<1> QED
  BY <1>3, <1>4 DEF Boundary!Init, IssuedCounts, FixedPairs, ClaimedRequests, SignaturesOf

LEMMA MappedStutter ==
    ASSUME UNCHANGED <<store, signatures>>
    PROVE  UNCHANGED Boundary!vars
  BY DEF Boundary!vars

LEMMA MappedSave ==
    ASSUME IInv, NEW w \in Workers, Save(w)
    PROVE  [Boundary!Next]_(Boundary!vars)
<1> DEFINE row == [fingerprint |-> worker[w].intent, pair |-> worker[w].pair,
                   attempted |-> FALSE]
<1>1. worker[w] \in Attempts
  BY AttemptTyped DEF IInv, Save, Steps
<1> PICK r \in Requests : worker[w].request = r
  BY <1>1 DEF Attempts
<1>2. worker[w].pair \in Pairs /\ row \in Rows /\ row # None
  <2>1. worker[w].pair \in Pairs /\ row \in Rows
    BY <1>1 DEF Attempts, Rows
  <2> QED
    BY <2>1, NoneAssumption
<1>3. CASE store[r] # None
  <2>1. store' = store
    BY <1>2, <1>3 DEF IInv, TypeOK, Save
  <2> QED
    BY <2>1, MappedStutter DEF Save
<1>4. CASE store[r] = None
  <2>1. store' = [store EXCEPT ![r] = row]
    BY <1>4 DEF Save
  <2>2. store'[r] = row /\ \A q \in Requests \ {r} : store'[q] = store[q]
    BY <1>2, <2>1 DEF IInv, TypeOK
  <2>3. FixedPairs[r] = None /\ FixedPairs' = [FixedPairs EXCEPT ![r] = worker[w].pair]
    <3>1. FixedPairs[r] = None /\ FixedPairs'[r] = worker[w].pair
      BY <1>2, <1>4, <2>2 DEF FixedPairs
    <3>2. \A q \in Requests \ {r} : FixedPairs'[q] = FixedPairs[q]
      BY <2>2 DEF FixedPairs
    <3> QED
      BY <3>1, <3>2 DEF FixedPairs
  <2>4. ClaimedRequests' = ClaimedRequests
    BY <1>2, <1>4, <2>2 DEF ClaimedRequests
  <2>5. IssuedCounts' = IssuedCounts
    BY DEF IssuedCounts, SignaturesOf, Save
  <2>6. Boundary!Fix(r)
    BY <1>2, <2>3, <2>4, <2>5
       DEF Boundary!Fix, FixedPairs, ClaimedRequests, IssuedCounts, SignaturesOf
  <2> QED
    BY <2>6 DEF Boundary!Next
<1> QED
  BY <1>3, <1>4

LEMMA MappedClaim ==
    ASSUME IInv, NEW w \in Workers, ClaimSigning(w)
    PROVE  Boundary!Next
<1>1. worker[w] \in Attempts /\ worker[w].at = "claim"
  BY AttemptTyped DEF IInv, ClaimSigning, Steps
<1> PICK r \in Requests : worker[w].request = r
  BY <1>1 DEF Attempts
<1>2. store[r] # None /\ store[r] \in Rows
  BY <1>1 DEF IInv, TypeOK, Holds, Attempts, Steps
<1>3. store' = [store EXCEPT ![r].attempted = TRUE] /\ ~store[r].attempted
  BY DEF ClaimSigning
<1>4. /\ store'[r] \in Rows /\ store'[r].attempted
      /\ store'[r].pair = store[r].pair
      /\ \A q \in Requests \ {r} : store'[q] = store[q]
  BY <1>2, <1>3 DEF IInv, TypeOK, Rows
<1>5. store[r].pair \in Pairs /\ store[r].pair # None /\ store'[r] # None
  BY <1>2, <1>4, NoneAssumption DEF Rows
<1>6. FixedPairs' = FixedPairs /\ FixedPairs[r] # None
  BY <1>2, <1>4, <1>5 DEF FixedPairs
<1>7. r \notin ClaimedRequests /\ ClaimedRequests' = ClaimedRequests \union {r}
  BY <1>2, <1>3, <1>4, <1>5 DEF ClaimedRequests
<1>8. IssuedCounts' = IssuedCounts
  BY DEF IssuedCounts, SignaturesOf, ClaimSigning
<1>9. Boundary!Claim(r)
  BY <1>2, <1>6, <1>7, <1>8
     DEF Boundary!Claim, FixedPairs, ClaimedRequests, IssuedCounts, SignaturesOf
<1> QED
  BY <1>9 DEF Boundary!Next

LEMMA MappedSign ==
    ASSUME IInv, NEW w \in Workers, NEW signed, Sign(w, signed)
    PROVE  Boundary!Next
<1>1. worker[w] \in Attempts /\ worker[w].at = "sign"
  BY AttemptTyped DEF IInv, Sign, Steps
<1> PICK r \in Requests : worker[w].request = r
  BY <1>1 DEF Attempts
<1> DEFINE t == [by |-> w, request |-> r, pair |-> worker[w].pair,
                 approval |-> worker[w].approval,
                 returned |-> Validated(signed, worker[w].pair, None), time |-> clock]
<1>2. /\ store[r] # None /\ store[r].attempted
      /\ \A s \in signatures : s.request # r
  BY <1>1 DEF IInv, Holds, Attempts, Steps
<1>3. signatures' = signatures \union {t} /\ UNCHANGED store
  BY DEF Sign
<1>4. /\ SignaturesOf(r) = {}
      /\ SignaturesOf(r)' = {t}
      /\ \A q \in Requests \ {r} : SignaturesOf(q)' = SignaturesOf(q)
  <2>1. t.request = r /\ signatures' = signatures \union {t}
    BY <1>3
  <2>2. SignaturesOf(r) = {}
    BY <1>2 DEF SignaturesOf
  <2>3. SignaturesOf(r)' = {s \in signatures \union {t} : s.request = r}
    BY <2>1 DEF SignaturesOf
  <2>4. {s \in signatures \union {t} : s.request = r} = {t}
    BY <1>2, <2>1
  <2>5. ASSUME NEW q \in Requests \ {r}
        PROVE  SignaturesOf(q)' = SignaturesOf(q)
    <3>1. {s \in signatures \union {t} : s.request = q} = {s \in signatures : s.request = q}
      BY <2>1
    <3> QED
      BY <2>1, <3>1 DEF SignaturesOf
  <2> QED
    BY <2>2, <2>3, <2>4, <2>5
<1>5. Cardinality({}) = 0 /\ Cardinality({t}) = 1
  BY FS_EmptySet, FS_Singleton
<1>6. IssuedCounts[r] = 0 /\ IssuedCounts' = [IssuedCounts EXCEPT ![r] = 1]
  <2>1. /\ IssuedCounts[r] = Cardinality(SignaturesOf(r))
        /\ IssuedCounts'[r] = Cardinality(SignaturesOf(r)')
    BY <1>2 DEF IssuedCounts
  <2>2. \A q \in Requests \ {r} : IssuedCounts'[q] = IssuedCounts[q]
    BY <1>4 DEF IssuedCounts
  <2>3. IssuedCounts[r] = 0 /\ IssuedCounts'[r] = 1
    BY <1>4, <1>5, <2>1
  <2> QED
    BY <2>2, <2>3 DEF IssuedCounts
<1>7. FixedPairs' = FixedPairs /\ ClaimedRequests' = ClaimedRequests
  BY <1>3 DEF FixedPairs, ClaimedRequests
<1>8. r \in ClaimedRequests
  BY <1>2 DEF ClaimedRequests
<1>9. Boundary!Sign(r)
  BY <1>6, <1>7, <1>8
     DEF Boundary!Sign, FixedPairs, ClaimedRequests, IssuedCounts, SignaturesOf
<1> QED
  BY <1>2, <1>9 DEF Boundary!Next

LEMMA MappedStep ==
    ASSUME IInv, [Next]_vars
    PROVE  [Boundary!Next]_(Boundary!vars)
<1>1. CASE UNCHANGED <<store, signatures>>
  BY <1>1, MappedStutter
<1>2. ASSUME NEW w \in Workers, Save(w)
      PROVE  [Boundary!Next]_(Boundary!vars)
  BY <1>2, MappedSave
<1>3. ASSUME NEW w \in Workers, ClaimSigning(w)
      PROVE  Boundary!Next
  BY <1>3, MappedClaim
<1>4. ASSUME NEW w \in Workers, NEW signed, Sign(w, signed)
      PROVE  Boundary!Next
  BY <1>4, MappedSign
<1> QED
  BY <1>1, <1>2, <1>3, <1>4, WritingSteps

(* BoundaryPipeline.execute over the proposal store implements the promise *)
(* of AtMostOnceSigning: one fixed pair per request, one permission that   *)
(* is never given back, one call of the signer.                            *)
THEOREM PipelineImplementsBoundary ==
    Spec => ImplementsAtMostOnceSigning
<1>1. Init => Boundary!Init
  BY MappedInit
<1>2. IInv /\ [Next]_vars => [Boundary!Next]_(Boundary!vars)
  BY MappedStep
<1> QED
  BY <1>1, <1>2, InvariantHolds, PTL DEF Spec, ImplementsAtMostOnceSigning, Boundary!Spec

-----------------------------------------------------------------------------
(* What the gates and the validation of the router's answer establish.     *)
Acceptable(pair) == pair.proposal.intent \in Admitted /\ PairValid(pair)

(* It holds of every pair from the moment it is made: the pair is stored,  *)
(* reread, resumed and signed as it is.                                    *)
LInv ==
    /\ \A w \in Workers : worker[w].at \in Steps => Acceptable(worker[w].pair)
    /\ \A r \in Requests : store[r] # None => Acceptable(store[r].pair)
    /\ \A s \in signatures : Acceptable(s.pair)

(* An intent the two gates accept, whatever exposure and gas price they    *)
(* were told, is within both position limits (risk.py, policy.py).         *)
LEMMA AdmittedWithinLimits ==
    ASSUME NEW intent \in Admitted
    PROVE  /\ intent.amount > 0 /\ intent.size_bps > 0
           /\ intent.size_bps <= max_position_bps /\ intent.size_bps <= hard_position_bps
<1>1. intent.size_bps \in Sizes /\ intent.amount \in Amounts
  BY ConstantsAssumption DEF Admitted
<1>2. PICK exposed \in Exposures, wei \in GasPrices :
          GatesAccept(intent.size_bps, exposed, wei, intent.amount)
  BY DEF Admitted
<1> QED
  BY <1>1, <1>2, GatesExact DEF GatesMatchLimits, WithinLimits

(* A step that changes the attempt of one process at most, to one with an  *)
(* acceptable pair or to none, and leaves the stored pairs alone.          *)
LEMMA AttemptKeepsLimits ==
    ASSUME LInv, NEW w \in Workers, UNCHANGED <<store, signatures>>,
           \A v \in Workers \ {w} : worker'[v] = worker[v],
           worker'[w].at \in Steps => Acceptable(worker'[w].pair)
    PROVE  LInv'
  BY DEF LInv, Acceptable, PairValid, Admitted

LEMMA SaveKeepsLimits ==
    ASSUME IInv, LInv, NEW w \in Workers, Save(w)
    PROVE  LInv'
<1> DEFINE row == [fingerprint |-> worker[w].intent, pair |-> worker[w].pair,
                   attempted |-> FALSE]
           r == worker[w].request
<1>1. worker[w] \in Attempts /\ worker[w].at \in Steps
  BY AttemptTyped DEF IInv, Save, Steps
<1>2. r \in Requests /\ Acceptable(worker[w].pair)
  BY <1>1 DEF Attempts, LInv
<1>3. Goto(w, "reread") /\ UNCHANGED signatures
  BY DEF Save
<1>4. worker'[w].pair = worker[w].pair /\ \A v \in Workers \ {w} : worker'[v] = worker[v]
  BY <1>1, <1>3, GotoMoves DEF IInv, Steps
<1>5. store'[r] \in {row, store[r]} /\ \A q \in Requests \ {r} : store'[q] = store[q]
  BY <1>2 DEF IInv, TypeOK, Save
<1>6. \A v \in Workers : worker'[v].at \in Steps => Acceptable(worker'[v].pair)
  BY <1>2, <1>4 DEF LInv
<1>7. \A q \in Requests : store'[q] # None => Acceptable(store'[q].pair)
  <2>1. row.pair = worker[w].pair
    OBVIOUS
  <2>2. store'[r] # None => Acceptable(store'[r].pair)
    BY <1>2, <1>5, <2>1 DEF LInv
  <2> QED
    BY <1>5, <2>2 DEF LInv
<1> QED
  BY <1>3, <1>6, <1>7 DEF LInv, Acceptable, PairValid, Admitted

LEMMA ClaimKeepsLimits ==
    ASSUME IInv, LInv, NEW w \in Workers, ClaimSigning(w)
    PROVE  LInv'
<1> DEFINE r == worker[w].request
<1>1. worker[w] \in Attempts /\ worker[w].at = "claim"
  BY AttemptTyped DEF IInv, ClaimSigning, Steps
<1>2. r \in Requests /\ store[r] # None /\ store[r] \in Rows
  BY <1>1 DEF IInv, TypeOK, Holds, Attempts, Steps
<1>3. store' = [store EXCEPT ![r].attempted = TRUE]
      /\ Goto(w, "sign") /\ UNCHANGED signatures
  BY DEF ClaimSigning
<1>4. /\ store'[r].pair = store[r].pair
      /\ \A q \in Requests \ {r} : store'[q] = store[q]
  BY <1>2, <1>3 DEF IInv, TypeOK, Rows
<1>5. worker'[w].pair = worker[w].pair /\ \A v \in Workers \ {w} : worker'[v] = worker[v]
  BY <1>1, <1>3, GotoMoves DEF IInv, Steps
<1>6. \A v \in Workers : worker'[v].at \in Steps => Acceptable(worker'[v].pair)
  BY <1>1, <1>5 DEF LInv, Steps
<1>7. \A q \in Requests : store'[q] # None => Acceptable(store'[q].pair)
  BY <1>2, <1>4 DEF LInv
<1> QED
  BY <1>3, <1>6, <1>7 DEF LInv, Acceptable, PairValid, Admitted

LEMMA SignKeepsLimits ==
    ASSUME IInv, LInv, NEW w \in Workers, NEW signed, Sign(w, signed)
    PROVE  LInv'
<1> DEFINE t == [by |-> w, request |-> worker[w].request, pair |-> worker[w].pair,
                 approval |-> worker[w].approval,
                 returned |-> Validated(signed, worker[w].pair, None), time |-> clock]
<1>1. worker[w].at = "sign" /\ Acceptable(worker[w].pair)
  BY DEF Sign, LInv, Steps
<1>2. /\ signatures' = signatures \union {t} /\ t.pair = worker[w].pair
      /\ worker' = [worker EXCEPT ![w] = NotRunning] /\ UNCHANGED store
  BY DEF Sign
<1>3. /\ worker'[w] = NotRunning /\ worker'[w].at \notin Steps
      /\ \A v \in Workers \ {w} : worker'[v] = worker[v]
  BY <1>2 DEF IInv, TypeOK, NotRunning, Steps
<1>4. \A v \in Workers : worker'[v].at \in Steps => Acceptable(worker'[v].pair)
  BY <1>3 DEF LInv
<1>5. \A s \in signatures' : Acceptable(s.pair)
  BY <1>1, <1>2 DEF LInv
<1> QED
  BY <1>2, <1>4, <1>5 DEF LInv, Acceptable, PairValid, Admitted

(* The steps of execute that only move the process forward.                *)
LEMMA AdvanceKeepsLimits ==
    ASSUME IInv, LInv, NEW w \in Workers, NEW approved,
           Simulate(w) \/ TimelockReady(w) \/ Resimulate(w) \/ CheckDeadline(w)
             \/ Approve(w, approved)
    PROVE  LInv'
<1>1. worker[w] \in Attempts /\ worker[w].at \in Steps
  BY AttemptTyped DEF IInv, Simulate, TimelockReady, Resimulate, CheckDeadline, Approve, Steps
<1>2. Acceptable(worker[w].pair) /\ UNCHANGED <<store, signatures>>
  BY <1>1 DEF LInv, Simulate, TimelockReady, Resimulate, CheckDeadline, Approve
<1>3. /\ worker'[w].pair = worker[w].pair
      /\ \A v \in Workers \ {w} : worker'[v] = worker[v]
  <2>1. CASE Simulate(w) \/ TimelockReady(w) \/ Resimulate(w) \/ CheckDeadline(w)
    <3>1. PICK step \in Steps : Goto(w, step)
      BY <2>1 DEF Simulate, TimelockReady, Resimulate, CheckDeadline, Steps
    <3> QED
      BY <1>1, <3>1, GotoMoves DEF IInv
  <2>2. CASE Approve(w, approved)
    BY <1>1, <2>2 DEF IInv, TypeOK, Approve, Attempts
  <2> QED
    BY <2>1, <2>2
<1> QED
  BY <1>2, <1>3, AttemptKeepsLimits

LEMMA StepKeepsLimits ==
    ASSUME IInv, LInv, [Next]_vars
    PROVE  LInv'
<1>1. CASE Tick \/ UNCHANGED vars
  BY <1>1 DEF Tick, vars, LInv, Acceptable, PairValid, Admitted
<1>2. ASSUME NEW w \in Workers, End(w)
      PROVE  LInv'
  <2>1. worker'[w] = NotRunning /\ worker'[w].at \notin Steps
    BY <1>2 DEF IInv, TypeOK, End, NotRunning, Steps
  <2>2. \A v \in Workers \ {w} : worker'[v] = worker[v]
    BY <1>2 DEF IInv, TypeOK, End
  <2> QED
    BY <1>2, <2>1, <2>2, AttemptKeepsLimits DEF End
<1>3. ASSUME NEW w \in Workers, NEW r \in Requests, NEW intent \in Intents, Resume(w, r, intent)
      PROVE  LInv'
  <2>1. Acceptable(store[r].pair)
    BY <1>3 DEF LInv, Resume
  <2>2. /\ worker'[w].pair = store[r].pair
        /\ \A v \in Workers \ {w} : worker'[v] = worker[v]
    BY <1>3 DEF IInv, TypeOK, Resume
  <2> QED
    BY <1>3, <2>1, <2>2, AttemptKeepsLimits DEF Resume
<1>4. ASSUME NEW w \in Workers, NEW r \in Requests, NEW intent \in Intents, NEW envelope, NEW named,
             Begin(w, r, intent, envelope, named)
      PROVE  LInv'
  <2> DEFINE pair == [proposal |-> NewProposal(intent),
                      tx |-> [envelope |-> envelope, proposal_digest |-> named]]
  <2>1. pair.proposal.intent = intent /\ intent \in Admitted /\ PairValid(pair)
    BY <1>4 DEF Begin, NewProposal
  <2>2. worker'[w].pair = pair /\ \A v \in Workers \ {w} : worker'[v] = worker[v]
    BY <1>4 DEF IInv, TypeOK, Begin
  <2> QED
    BY <1>4, <2>1, <2>2, AttemptKeepsLimits DEF Begin, Acceptable
<1>5. ASSUME NEW w \in Workers, Reread(w)
      PROVE  LInv'
  <2>1. worker[w] \in Attempts /\ worker[w].at = "reread"
    BY <1>5, AttemptTyped DEF IInv, Reread, Steps
  <2>2. Acceptable(store[worker[w].request].pair)
    BY <2>1 DEF IInv, Holds, LInv, Attempts, Steps
  <2>3. /\ worker'[w].pair = store[worker[w].request].pair
        /\ \A v \in Workers \ {w} : worker'[v] = worker[v]
    BY <1>5, <2>1 DEF IInv, TypeOK, Reread, Attempts
  <2> QED
    BY <1>5, <2>2, <2>3, AttemptKeepsLimits DEF Reread
<1>6. ASSUME NEW w \in Workers, Execute(w)
      PROVE  LInv'
  <2>1. CASE \/ Simulate(w) \/ TimelockReady(w) \/ Resimulate(w) \/ CheckDeadline(w)
             \/ \E approved \in KnownPairs : Approve(w, approved)
    BY <2>1, AdvanceKeepsLimits
  <2>2. CASE \E signed \in KnownPairs \union {None} : Sign(w, signed)
    BY <2>2, SignKeepsLimits
  <2> QED
    BY <1>3, <1>4, <1>5, <1>6, <2>1, <2>2, SaveKeepsLimits, ClaimKeepsLimits DEF Execute
<1> QED
  BY <1>1, <1>2, <1>6 DEF Next

(* Whoever saved, reread or resumed a row, what reaches the signer is a    *)
(* trade within the position limits of engine and policy and a transaction *)
(* for that proposal, chain, wallet and router under the allowed gas price *)
(* (pipeline.py:63-77 and 85-113, router.py).                              *)
THEOREM SignedStaysWithinLimits ==
    Spec => []SignedWithinLimits
<1>1. Init => LInv
  BY DEF Init, LInv, NotRunning, Steps
<1>2. IInv /\ LInv /\ [Next]_vars => LInv'
  BY StepKeepsLimits
<1>3. LInv => SignedWithinLimits
  BY AdmittedWithinLimits
     DEF LInv, SignedWithinLimits, Acceptable, PairValid, ValidBuilt, ValidNumbers,
         NormalisesTo, gas_price_limit_wei
<1> QED
  BY <1>1, <1>2, <1>3, InvariantHolds, PTL DEF Spec

(* The gates of the pipeline accept exactly what is within every limit and *)
(* their score is a margin, whatever the limits are.                       *)
THEOREM GatesRightForEveryLimit ==
    Spec => []AcceptedIffWithinLimits
<1>1. AcceptedIffWithinLimits
  BY GatesExact, ScoreIsAMargin DEF AcceptedIffWithinLimits
<1> QED
  BY <1>1, PTL
=============================================================================
