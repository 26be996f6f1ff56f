------------------------- MODULE TransactionChecks --------------------------
(***************************************************************************)
(* security_boundary/router.py, models.py, simulation.py and execution.py: *)
(* what execute asks of a transaction the router built, of a simulation    *)
(* and of what the signer gives back.  The checks keep no state.           *)
(*                                                                         *)
(* A digest is modelled by the thing it is the digest of.  An address is   *)
(* an account and the way it is spelled: normalise_address strips and      *)
(* lower-cases it and refuses what is not forty hexadecimal digits.        *)
(***************************************************************************)
EXTENDS RiskPolicy

CONSTANTS
    chain_id, wallet, router,   \* the Policy; wallet and router are accounts
    Envelopes,      \* what a router may build, without the proposal's digest
    GasEstimates    \* what estimate_gas may answer

Accounts == {wallet, router}
Spellings == {"lower", "mixed", "malformed"}

ASSUME EnvelopesAssumption ==
    /\ Envelopes \subseteq
          [chain_id : Int, from : [account : Accounts, spelling : Spellings],
           to : [account : Accounts, spelling : Spellings], data : {"hex", "malformed"},
           value : Int, gas_limit : Int, gas_price_wei : Int, nonce : Int]
    /\ GasEstimates \subseteq Int

-----------------------------------------------------------------------------
gas_price_limit_wei == max_gas_price_gwei * Gwei

NormalisesTo(address, account) ==
    address.spelling # "malformed" /\ address.account = account

ValidNumbers(e) ==
    /\ e.value >= 0 /\ e.gas_limit > 0 /\ e.gas_price_wei >= 0 /\ e.nonce >= 0
    /\ e.gas_price_wei <= gas_price_limit_wei

(* Faulty: the digest is taken for granted, as the router was given the proposal. *)
BuiltForAnyProposal(proposal, tx) ==
    /\ tx.envelope.chain_id = chain_id
    /\ NormalisesTo(tx.envelope.from, wallet) /\ NormalisesTo(tx.envelope.to, router)
    /\ tx.envelope.data = "hex"
    /\ ValidNumbers(tx.envelope)

(* Faulty: the target is not compared.                                     *)
BuiltForAnyTarget(proposal, tx) ==
    /\ tx.envelope.chain_id = chain_id
    /\ NormalisesTo(tx.envelope.from, wallet)
    /\ tx.proposal_digest = proposal
    /\ tx.envelope.data = "hex"
    /\ ValidNumbers(tx.envelope)

(* validate_built_transaction.                                             *)
ValidBuilt(proposal, tx) ==
    /\ tx.envelope.chain_id = chain_id
    /\ NormalisesTo(tx.envelope.from, wallet)
    /\ NormalisesTo(tx.envelope.to, router)
    /\ tx.proposal_digest = proposal
    /\ tx.envelope.data = "hex"
    /\ ValidNumbers(tx.envelope)

(* simulate passes for some answers of the chain; eth_call did not revert. *)
SimulationPasses(proposal, tx) ==
    /\ ValidBuilt(proposal, tx)
    /\ GasPrices \intersect 0..gas_price_limit_wei # {}
    /\ GasEstimates \intersect 1..tx.envelope.gas_limit # {}

(* Faulty: whatever the signer gives back is handed on.                    *)
ValidatedUnseen(signed, pair, nothing) == signed

(* SignedTransaction.validate: the payload names the digests of proposal   *)
(* and transaction, that is, its pair.  Otherwise the call raises and      *)
(* nothing is returned.                                                    *)
Validated(signed, pair, nothing) == IF signed = pair THEN signed ELSE nothing
=============================================================================
