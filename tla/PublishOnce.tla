---------------------------- MODULE PublishOnce ----------------------------
(***************************************************************************)
(* What the router promises for each proposal: at most one post, however   *)
(* often publishing is tried; a verdict of VERIFIED only for a post that   *)
(* was published; and verdicts that are never taken back.                  *)
(***************************************************************************)
CONSTANTS Proposals

VARIABLES
    post,      \* per proposal: "none", "open", "published", "failed",
               \* "cancelled", or "many" when there is more than one
    verdict    \* per proposal: "pending", "VERIFIED" or "REJECTED"

vars == <<post, verdict>>

Init ==
    /\ post = [p \in Proposals |-> "none"]
    /\ verdict = [p \in Proposals |-> "pending"]

Publish(p) ==
    /\ post[p] = "none"
    /\ post' = [post EXCEPT ![p] = "open"]
    /\ UNCHANGED verdict

Settle(p, outcome) ==
    /\ post[p] = "open"
    /\ post' = [post EXCEPT ![p] = outcome]
    /\ UNCHANGED verdict

Verify(p) ==
    /\ verdict[p] = "pending"
    /\ post[p] = "published"
    /\ verdict' = [verdict EXCEPT ![p] = "VERIFIED"]
    /\ UNCHANGED post

(* A proposal can be rejected at any time before it is verified.           *)
Reject(p) ==
    /\ verdict[p] = "pending"
    /\ verdict' = [verdict EXCEPT ![p] = "REJECTED"]
    /\ UNCHANGED post

Next ==
    \E p \in Proposals :
        \/ Publish(p)
        \/ \E outcome \in {"published", "failed", "cancelled"} : Settle(p, outcome)
        \/ Verify(p)
        \/ Reject(p)

Spec == Init /\ [][Next]_vars
=============================================================================
