---------------------------- MODULE ZernioRouter ----------------------------
(***************************************************************************)
(* core/zernio-router-adapter.js on top of PersistentLifecycle, and the    *)
(* external service it talks to.                                           *)
(*                                                                         *)
(* scheduleApproved and executeApproved check the approval, send a request *)
(* and, when the answer comes, record the post.  In between anything may   *)
(* happen: the other of the two may be in flight for the same proposal,    *)
(* the caller may see a network error while the request still arrives, the *)
(* process may die, and webhooks for the new post may come before the      *)
(* answer that names it.                                                   *)
(*                                                                         *)
(* The service is external: it keeps one post per request id and answers a *)
(* repeated id with the existing post (extractPostId reads existingPost),  *)
(* settles a post once, and delivers the webhooks of a post any number of  *)
(* times, in any order.  Drafts, accounts and media touch no state here.   *)
(***************************************************************************)
EXTENDS PersistentLifecycle

CONSTANTS
    expiresAt,     \* of every proposal
    Outcomes,      \* how the service may settle a post
    OtherEvents    \* what its webhooks name besides outcomes: an event of a
                   \* kind that changes no state ("other"), or none ("missing")

VARIABLES
    seen,      \* #processedWebhookIds, in memory
    call,      \* per proposal and method: "none", "sent" or "answered"
    late,      \* requests whose caller is gone, still on their way
    posts      \* the posts of the service

routerVars == <<seen, call, late, posts>>
vars == <<mem, disk, chain, clock, unlock, faults, crashes, seen, call, late, posts>>

Methods == {"schedule", "publish"}

(* What a webhook may report.                                              *)
Events == {"post.published", "post.failed", "post.cancelled", "other", "missing"}

(* The ids that requests, webhooks and status answers are known by are     *)
(* among those that the lifecycle is given.                                *)
ASSUME RouterAssumption ==
    /\ expiresAt \in Nat
    /\ Outcomes \subseteq {"published", "failed", "cancelled"}
    /\ OtherEvents \subseteq {"other", "missing"}
    /\ Proposals \X {"request"} \subseteq Posts
    /\ {"webhook", "status"} \X Posts \X Events \subseteq EventIds

NoCalls == [p \in Proposals |-> [method \in Methods |-> "none"]]

(* Faulty: each method has a request id of its own.                        *)
RequestIdPerMethod(p, method) == <<p, method>>

(* deterministicRequestId: it depends on the proposal hash only.           *)
RequestId(p, method) == <<p, "request">>

PostsOf(p) == {x \in posts : x.proposal = p}

(* The service knows a post by the id of its first request.                *)
Exists(id) == \E x \in posts : x.id = id

-----------------------------------------------------------------------------
(* scheduleApproved and executeApproved.                                   *)

(* #assertApproved, with assertProposal.                                   *)
AssertApproved(p) ==
    /\ In(p, "APPROVED")
    /\ mem[p].approval # None
    /\ TimelockOver(p)
    /\ clock < expiresAt
    /\ mem[p].validationValid = TRUE

Send(p, method) ==
    /\ AssertApproved(p)
    /\ call[p][method] = "none"
    /\ call' = [call EXCEPT ![p][method] = "sent"]
    /\ UNCHANGED <<lifecycleVars, seen, late, posts>>

CreatePost(p, method) ==
    posts' = posts \union
        {[id |-> id, proposal |-> p, status |-> "open"] :
            id \in {i \in {RequestId(p, method)} : ~Exists(i)}}

(* Faulty: extractPostId does not read existingPost.                       *)
ServeWithoutExisting(p, method) ==
    /\ call[p][method] = "sent"
    /\ CreatePost(p, method)
    /\ call' = [call EXCEPT ![p][method] =
                  IF Exists(RequestId(p, method)) THEN "none" ELSE "answered"]
    /\ UNCHANGED <<lifecycleVars, seen, late>>

(* The request reaches the service, and its caller waits for the answer.   *)
Serve(p, method) ==
    /\ call[p][method] = "sent"
    /\ CreatePost(p, method)
    /\ call' = [call EXCEPT ![p][method] = "answered"]
    /\ UNCHANGED <<lifecycleVars, seen, late>>

(* It reaches the service after its caller saw an error or died.           *)
ServeLate(p, method) ==
    /\ <<p, method>> \in late
    /\ CreatePost(p, method)
    /\ late' = late \ {<<p, method>>}
    /\ UNCHANGED <<lifecycleVars, seen, call>>

(* The answer arrives: record the execution.                               *)
Recorded(p, method) ==
    /\ call[p][method] = "answered"
    /\ call' = [call EXCEPT ![p][method] = "none"]
    /\ LET id == RequestId(p, method)
       IN  RecordExternalExecution(p, [postId |-> id, requestId |-> id])
    /\ UNCHANGED <<seen, late, posts>>

(* No post id in the answer, or recordExternalExecution finds the proposal *)
(* no longer approved: recorded already by the other method, which returns *)
(* the record, or rejected meanwhile, which throws.                        *)
AlreadyRecorded(p, method) ==
    /\ call[p][method] = "answered"
    /\ Running /\ ~In(p, "APPROVED")
    /\ call' = [call EXCEPT ![p][method] = "none"]
    /\ UNCHANGED <<lifecycleVars, seen, late, posts>>

(* The caller sees an error; the request may still be on its way.          *)
Fail(p, method) ==
    /\ call[p][method] # "none"
    /\ call' = [call EXCEPT ![p][method] = "none"]
    /\ late' = IF call[p][method] = "sent" THEN late \union {<<p, method>>} ELSE late
    /\ UNCHANGED <<lifecycleVars, seen, posts>>

(* The request of a caller that is gone never arrives.                     *)
Lose(p, method) ==
    /\ <<p, method>> \in late
    /\ late' = late \ {<<p, method>>}
    /\ UNCHANGED <<lifecycleVars, seen, call, posts>>

-----------------------------------------------------------------------------
(* The service settles a post, and tells of it in webhooks.                *)

Settle(x, outcome) ==
    /\ x.status = "open"
    /\ posts' = (posts \ {x}) \union {[x EXCEPT !.status = outcome]}
    /\ UNCHANGED <<lifecycleVars, seen, call, late>>

EventOf(status) ==
    CASE status = "published" -> "post.published"
      [] status = "failed" -> "post.failed"
      [] OTHER -> "post.cancelled"

(* The events the service may report of a post.                            *)
EventsOf(x) ==
    OtherEvents \union {EventOf(status) : status \in {x.status} \ {"open"}}

WebhookEventId(post, event) == <<"webhook", post, event>>
StatusEventId(post, event) == <<"status", post, event>>

(* What the death of the process takes with it: the events it has seen and *)
(* its callers, whose requests may still be on their way.                  *)
RouterDies ==
    /\ seen' = {}
    /\ call' = NoCalls
    /\ late' = late \union {pm \in Proposals \X Methods : call[pm[1]][pm[2]] = "sent"}
    /\ UNCHANGED posts

RouterUnchanged == UNCHANGED routerVars

(* ingestWebhook.  An event that matches no proposal yet is accepted, and  *)
(* dropped when it is delivered again.                                     *)
IngestWebhook(x, event) ==
    LET id == WebhookEventId(x.id, event)
    IN  /\ Running
        /\ id \notin seen
        /\ \/ /\ \E p \in Proposals : RecordWebhook(p, id, event, x.id)
              /\ IF mem' = Down THEN RouterDies
                 ELSE /\ seen' = IF Returned THEN seen \union {id} ELSE seen
                      /\ UNCHANGED <<call, late, posts>>
           \/ /\ \A p \in Proposals : ~Correlated(p, x.id)
              /\ seen' = seen \union {id}
              /\ UNCHANGED <<lifecycleVars, call, late, posts>>

(* getExecutionStatus: it knows no event for a post that is open or        *)
(* cancelled.                                                              *)
Poll(x) ==
    /\ x.status \in {"published", "failed"}
    /\ LET event == EventOf(x.status)
       IN  RecordWebhook(x.proposal, StatusEventId(x.id, event), event, x.id)
    /\ IF mem' = Down THEN RouterDies ELSE RouterUnchanged

-----------------------------------------------------------------------------
(* validatePost records its answer whatever happened meanwhile.            *)
ValidatePost ==
    /\ \E p \in Proposals, valid \in BOOLEAN : RecordValidation(p, valid)
    /\ RouterUnchanged

Init ==
    /\ LifecycleInit
    /\ seen = {}
    /\ call = NoCalls
    /\ late = {}
    /\ posts = {}

RouterCalls ==
    \E p \in Proposals, method \in Methods :
        \/ Send(p, method)
        \/ Serve(p, method)
        \/ ServeLate(p, method)
        \/ Lose(p, method)
        \/ Recorded(p, method)
        \/ AlreadyRecorded(p, method)
        \/ Fail(p, method)

ServiceSteps ==
    \E x \in posts :
        \/ \E outcome \in Outcomes : Settle(x, outcome)
        \/ \E event \in EventsOf(x) : IngestWebhook(x, event)
        \/ Poll(x)

Next ==
    \/ OwnerCalls /\ RouterUnchanged
    \/ ValidatePost
    \/ RouterCalls
    \/ ServiceSteps
    \/ Tick /\ RouterUnchanged
    \/ Crash /\ RouterDies
    \/ Restart /\ RouterUnchanged

Spec == Init /\ [][Next]_vars

(* The process is restarted; the owner publishes again until the execution *)
(* is recorded and then asks for its status, and one of the attempts is    *)
(* served and answered.  Nothing is assumed of the webhooks.               *)
Fairness ==
    /\ WF_vars(Restart /\ RouterUnchanged)
    /\ \A p \in Proposals :
          /\ SF_vars(Send(p, "publish"))
          /\ SF_vars(Serve(p, "publish"))
          /\ SF_vars(Recorded(p, "publish"))
          /\ SF_vars(\E x \in PostsOf(p) : Poll(x))

FairSpec == Spec /\ Fairness

-----------------------------------------------------------------------------
TypeOK ==
    /\ LifecycleTypeOK
    /\ seen \subseteq EventIds
    /\ call \in [Proposals -> [Methods -> {"none", "sent", "answered"}]]
    /\ late \subseteq Proposals \X Methods
    /\ posts \subseteq [id : Posts, proposal : Proposals,
                        status : {"open", "published", "failed", "cancelled"}]

(* No request leaves before the end of the timelock that startTimelock     *)
(* returned for its proposal, whatever else its owner calls: resimulation, *)
(* approval and #assertApproved read timelockUntil, also after a restart   *)
(* that had to rebuild it from the audit file.                             *)
NothingSentBeforeUnlock ==
    \A p \in Proposals, method \in Methods :
        call[p][method] # "none" => unlock[p] = None \/ clock >= unlock[p]

Verdict(p) ==
    IF disk[p] # None /\ disk[p].state \in Final THEN disk[p].state ELSE "pending"

PostStatus(p) ==
    CASE PostsOf(p) = {} -> "none"
      [] Cardinality(PostsOf(p)) > 1 -> "many"
      [] OTHER -> (CHOOSE x \in PostsOf(p) : TRUE).status

Promise ==
    INSTANCE PublishOnce
        WITH post <- [p \in Proposals |-> PostStatus(p)],
             verdict <- [p \in Proposals |-> Verdict(p)]

(* The router implements its promise: scheduling and publishing, retried   *)
(* after errors and crashes and both in flight at once, make one post; the *)
(* audit file says VERIFIED only of a published post; no verdict changes.  *)
ImplementsPublishOnce == Promise!Spec

InFlight(p) == disk[p] # None /\ disk[p].state \in {"BROADCAST", "CONFIRMED"}

(* The process died inside recordWebhook for a status answer: the event id *)
(* is in the file and what followed from it is not, so every later status  *)
(* answer is a duplicate.                                                  *)
CutShort(p) ==
    /\ crashes > 0
    /\ InFlight(p)
    /\ \E x \in PostsOf(p) :
          StatusEventId(x.id, EventOf(x.status)) \in disk[p].processedWebhookIds

(* The process is down and its constructor refuses the file for ever,      *)
(* because a line was written without a field it was hashed with.          *)
ShutOut == ~Running /\ chain = "tampered"

(* A published or failed post whose execution is in the audit file is      *)
(* judged once its status is asked for, however its webhooks arrive:       *)
(* before the answer that names the post, after it, twice, or cut short by *)
(* the death of the process; only a status answer that is itself cut short *)
(* is not made up, and a process that is shut out answers nothing.         *)
SettledIsJudged ==
    \A p \in Proposals :
        (InFlight(p) /\ \E x \in PostsOf(p) : x.status \in {"published", "failed"})
        ~> (Verdict(p) # "pending" \/ CutShort(p) \/ ShutOut \/ faults > 0)

(* A post that was made is recorded by a retry, unless the proposal is     *)
(* rejected, expires or fails validation first, a restart has lost its     *)
(* approval because that was given without an id, or the process is shut   *)
(* out.                                                                    *)
PostIsRecorded ==
    \A p \in Proposals :
        (PostsOf(p) # {})
        ~> \/ disk[p] # None
              /\ \/ disk[p].externalExecution # None
                 \/ disk[p].state = "REJECTED"
                 \/ disk[p].validationValid # TRUE
           \/ clock >= expiresAt
           \/ In(p, "APPROVED") /\ mem[p].approval = None
           \/ ShutOut
           \/ faults > 0
=============================================================================
