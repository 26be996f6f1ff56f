----------------------------- MODULE RiskPolicy -----------------------------
(***************************************************************************)
(* security_boundary/risk.py and policy.py: the two arithmetic gates in    *)
(* front of the signing pipeline.  RiskEngine.evaluate permits a size      *)
(* under the engine's limits; Policy.authorize accepts the intent only if  *)
(* the size it asks for is the permitted one, and compares it once more    *)
(* with the default limits, whatever limits the engine was given.          *)
(* The gates keep no state: SigningPipeline runs them as the first two     *)
(* steps of execute.  Sizes and exposures are basis points.                *)
(***************************************************************************)
EXTENDS Integers

CONSTANTS
    max_position_bps, max_portfolio_exposure_bps, max_gas_price_gwei,
                    \* RiskEngine.limits
    hard_position_bps,  \* RiskLimits().max_position_bps, used by Policy
    Gwei,           \* wei per gwei
    Scale,          \* 10000, the top of the risk score
    Sizes, Amounts, \* what an intent may ask for
    Exposures,      \* what a caller may report as the portfolio exposure
    GasPrices       \* what simulator.gas_price() may answer, in wei

ASSUME LimitsAssumption ==
    /\ max_position_bps \in Nat /\ max_portfolio_exposure_bps \in Nat
    /\ max_gas_price_gwei \in Nat /\ hard_position_bps \in Nat
    /\ Gwei \in Nat \ {0} /\ Scale \in Nat
    /\ Sizes \subseteq Int /\ Exposures \subseteq Int
    /\ GasPrices \subseteq Nat /\ Amounts \subseteq Int

-----------------------------------------------------------------------------
Smaller(a, b) == IF a <= b THEN a ELSE b
Larger(a, b) == IF a >= b THEN a ELSE b

Reject == [allowed |-> FALSE, permitted_size_bps |-> 0, risk_score_bps |-> Scale]

(* Faulty: the room left in the portfolio is not taken into account.       *)
PermittedAlone(requested, exposed) == Smaller(requested, max_position_bps)

Permitted(requested, exposed) ==
    Smaller(requested,
            Smaller(max_position_bps, max_portfolio_exposure_bps - exposed))

(* Faulty: the score is scaled by the default limit, not by the engine's.  *)
RiskScoreOfDefaults(permitted) == Scale - ((permitted * Scale) \div hard_position_bps)

RiskScore(permitted) ==
    Smaller(Scale, Larger(0, Scale - ((permitted * Scale) \div max_position_bps)))

Evaluate(requested, exposed, gas_gwei) ==
    LET permitted == Permitted(requested, exposed)
    IN  IF \/ requested < 0
           \/ exposed < 0
           \/ gas_gwei > max_gas_price_gwei
           \/ exposed >= max_portfolio_exposure_bps
           \/ permitted <= 0
        THEN Reject
        ELSE [allowed |-> TRUE, permitted_size_bps |-> permitted,
              risk_score_bps |-> RiskScore(permitted)]

(* Policy.authorize; the two directions of the enumeration are always valid. *)
Authorizes(risk, requested, units) ==
    /\ risk.allowed
    /\ units > 0
    /\ requested = risk.permitted_size_bps
    /\ risk.permitted_size_bps <= hard_position_bps

(* Steps 1 and 2 of execute: the gas price is floored to whole gwei.       *)
GatesAccept(requested, exposed, wei, units) ==
    Authorizes(Evaluate(requested, exposed, wei \div Gwei), requested, units)

-----------------------------------------------------------------------------
(* What a reviewer would write down as the limits.                         *)
WithinLimits(requested, exposed, wei, units) ==
    /\ requested > 0 /\ exposed >= 0 /\ units > 0
    /\ requested <= max_position_bps
    /\ requested <= hard_position_bps
    /\ exposed + requested <= max_portfolio_exposure_bps
    /\ wei < (max_gas_price_gwei + 1) * Gwei

(* The two gates together accept an intent exactly when it is within every *)
(* limit: nothing over a limit passes, and nothing within them is turned   *)
(* away or silently cut down.  The gas price is compared in whole gwei, so *)
(* a fraction above the limit passes here; simulation compares it in wei.  *)
GatesMatchLimits ==
    \A requested \in Sizes, exposed \in Exposures, wei \in GasPrices, units \in Amounts :
        GatesAccept(requested, exposed, wei, units) <=>
            WithinLimits(requested, exposed, wei, units)

(* A decision carries a score between 0 and Scale that never rises with    *)
(* the size it permits, and is 0 for the largest position; the risk score  *)
(* becomes part of the proposal that is signed.                            *)
ScoreFallsWithSize ==
    \A requested, other \in Sizes, exposed \in Exposures, gas_gwei \in 0..max_gas_price_gwei :
        LET risk == Evaluate(requested, exposed, gas_gwei)
            larger == Evaluate(other, exposed, gas_gwei)
        IN  /\ risk.risk_score_bps \in 0..Scale
            /\ risk.allowed /\ risk.permitted_size_bps = max_position_bps =>
                   risk.risk_score_bps = 0
            /\ /\ risk.allowed /\ larger.allowed
               /\ risk.permitted_size_bps <= larger.permitted_size_bps
               => risk.risk_score_bps >= larger.risk_score_bps
=============================================================================
