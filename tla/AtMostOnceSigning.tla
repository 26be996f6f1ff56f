------------------------- MODULE AtMostOnceSigning --------------------------
(***************************************************************************)
(* What the signing boundary promises for each request id: one immutable   *)
(* pair of proposal and transaction, one permission to sign it, never      *)
(* given back, and at most one call of the signer.  A permission may be    *)
(* lost unused: a crash after the claim leaves the request unsigned for    *)
(* good.                                                                   *)
(***************************************************************************)
EXTENDS Naturals

CONSTANTS Requests, Pairs, NoPair

VARIABLES
    fixed,     \* the pair a request stands for, or NoPair
    claimed,   \* the requests whose permission was given out
    issued     \* how often the signer was called for a request

vars == <<fixed, claimed, issued>>

Init ==
    /\ fixed = [r \in Requests |-> NoPair]
    /\ claimed = {}
    /\ issued = [r \in Requests |-> 0]

Fix(r) ==
    /\ fixed[r] = NoPair
    /\ fixed'[r] \in Pairs
    /\ fixed' = [fixed EXCEPT ![r] = fixed'[r]]
    /\ UNCHANGED <<claimed, issued>>

Claim(r) ==
    /\ fixed[r] # NoPair
    /\ r \notin claimed
    /\ claimed' = claimed \union {r}
    /\ UNCHANGED <<fixed, issued>>

Sign(r) ==
    /\ r \in claimed
    /\ issued[r] = 0
    /\ issued' = [issued EXCEPT ![r] = 1]
    /\ UNCHANGED <<fixed, claimed>>

Next == \E r \in Requests : Fix(r) \/ Claim(r) \/ Sign(r)

Spec == Init /\ [][Next]_vars
=============================================================================
