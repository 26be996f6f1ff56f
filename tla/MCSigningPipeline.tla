------------------------- MODULE MCSigningPipeline --------------------------
(* TLC instance of SigningPipeline; the numbers of processes, requests and *)
(* seconds are in the .cfg files.  The limits are of the same order as the *)
(* inputs, and the engine's position limit is above the policy's.          *)
EXTENDS SigningPipeline, TLC

SizesDef == -1..8
AmountsDef == -1..1
ExposuresDef == -1..11
GasPricesDef == 0..10
GasEstimatesDef == {0, 8, 9}

(* Without a lock, with a lock, above the hard limit, and of no amount.    *)
IntentsDef ==
    {[size_bps |-> s, amount |-> 1] : s \in {2, 5, 6}}
    \union {[size_bps |-> 3, amount |-> 0]}

(* A valid envelope at the limit of the gas price, and one that is wrong   *)
(* in each way validate_built_transaction knows.                           *)
Good ==
    [chain_id |-> 1, from |-> [account |-> wallet, spelling |-> "mixed"],
     to |-> [account |-> router, spelling |-> "lower"], data |-> "hex",
     value |-> 0, gas_limit |-> 8, gas_price_wei |-> 6, nonce |-> 0]

EnvelopesDef ==
    {Good,
     [Good EXCEPT !.chain_id = 2],
     [Good EXCEPT !.from.account = router],
     [Good EXCEPT !.to.account = wallet],
     [Good EXCEPT !.to.spelling = "malformed"],
     [Good EXCEPT !.data = "malformed"],
     [Good EXCEPT !.value = -1],
     [Good EXCEPT !.gas_limit = 0],
     [Good EXCEPT !.gas_price_wei = 7],
     [Good EXCEPT !.nonce = -1]}
=============================================================================
