--------------------------- MODULE AlertDelivery ----------------------------
(***************************************************************************)
(* tools/monitoring/integrated_alerts.py, IntegratedAlertPipeline, and     *)
(* webhook.py: an alert is offered to every sink in turn.  A sink that took *)
(* it is not offered the same alert again for the length of a cooldown; a  *)
(* sink that failed is.  Rules keep their cooldowns in a dictionary,       *)
(* security observations in a bounded cache.                               *)
(*                                                                         *)
(* The pipeline has one thread, but time passes while a sink takes its     *)
(* alert, so every purge, check and outcome is a step of its own.  `work'  *)
(* is what the loops of ingest and dispatch_observation have left to do.   *)
(* A webhook may fail after its receiver has the alert: the answer is lost, *)
(* late or an error.                                                       *)
(***************************************************************************)
EXTENDS PythonLibrary, FiniteSets

CONSTANTS
    Sinks,      \* the sinks, a sequence
    Rules,      \* the rules, a sequence of [name, metric, condition, threshold, cooldown]
    observation_cooldown,   \* the 30 seconds of integrated_alerts.py:274
    observation_capacity

ASSUME DeliveryAssumption ==
    /\ Sinks \in Seq(ToSet(Sinks)) /\ IsInjective(Sinks)
    /\ Rules \in Seq(ToSet(Rules)) /\ IsInjective(Rules)
    /\ \A i \in DOMAIN Rules : Rules[i].cooldown \in Nat
    /\ observation_cooldown \in Nat \ {0} /\ observation_capacity \in Nat \ {0}

VARIABLES
    observation_delivered,  \* _observation_delivered: [key, until]
    last_delivered,         \* _last_delivered: [key, at]
    work,       \* what is left to do, a sequence of tasks
    began,      \* when the emit under way began, or None
    offers      \* history: what came of every task, [task, outcome, began, at, evicted]

deliveryVars == <<observation_delivered, last_delivered, work, began, offers>>

-----------------------------------------------------------------------------
Compares(condition, value, threshold) ==
    CASE condition = ">"  -> value > threshold
      [] condition = ">=" -> value >= threshold
      [] condition = "<"  -> value < threshold
      [] condition = "<=" -> value <= threshold
      [] condition = "==" -> value = threshold

(* AlertRule.evaluate; the category is part of the metric.                 *)
Breaches(rule, event) ==
    rule.metric = event.metric /\ Compares(rule.condition, event.value, rule.threshold)

(* Faulty: an observation is told apart by its source alone.               *)
KeyBySource(task) ==
    <<IF task.via = "rule" THEN task.subject.name ELSE task.subject.ip, task.sink>>

(* What a cooldown is kept for.                                            *)
Key(task) ==
    LET a == task.subject
    IN  IF task.via = "rule" THEN <<a, task.sink>>
        ELSE <<a.type, a.ip, a.resource, a.metric, task.sink>>

(* The loops over rules and sinks of ingest.                               *)
RuleTasks(event) ==
    FlattenSeq([r \in DOMAIN Rules |->
        IF Breaches(Rules[r], event)
        THEN [s \in DOMAIN Sinks |->
                [via |-> "rule", subject |-> Rules[r], sink |-> Sinks[s]]]
        ELSE <<>>])

(* dispatch_observation: purge the cache, then the loop over the sinks.    *)
ObservationTasks(alert) ==
    <<[via |-> "purge", subject |-> alert, sink |-> None]>>
    \o [s \in DOMAIN Sinks |->
          [via |-> "observation", subject |-> alert, sink |-> Sinks[s]]]

-----------------------------------------------------------------------------
Idle == work = <<>>
Ready == work # <<>> /\ began = None
Emitting == began # None

Cooling(task) ==
    IF task.via = "rule"
    THEN /\ HasKey(last_delivered, Key(task))
         /\ clock - Lookup(last_delivered, Key(task)).at < task.subject.cooldown
    ELSE /\ HasKey(observation_delivered, Key(task))
         /\ Lookup(observation_delivered, Key(task)).until > clock

Outcome(name, evicted) ==
    offers' = Append(offers, [task |-> Head(work), outcome |-> name,
                              began |-> IF Emitting THEN began ELSE clock,
                              at |-> clock, evicted |-> evicted])

Purge ==
    /\ Ready /\ Head(work).via = "purge"
    /\ observation_delivered' =
          Kept(observation_delivered,
               {i \in DOMAIN observation_delivered : observation_delivered[i].until > clock})
    /\ work' = Tail(work)
    /\ UNCHANGED <<last_delivered, began, offers>>

Suppress ==
    /\ Ready /\ Head(work).via # "purge"
    /\ Cooling(Head(work))
    /\ Outcome("suppressed", {})
    /\ work' = Tail(work)
    /\ UNCHANGED <<observation_delivered, last_delivered, began>>

(* sink.emit is called.                                                    *)
Emit ==
    /\ Ready /\ Head(work).via # "purge"
    /\ ~Cooling(Head(work))
    /\ began' = clock
    /\ UNCHANGED <<observation_delivered, last_delivered, work, offers>>

(* Faulty: a renewed entry keeps its old place in the cache.               *)
StampedInPlace(key) ==
    Assign(observation_delivered, [key |-> key, until |-> clock + observation_cooldown])

(* Faulty: the cooldown runs from the start of the delivery.               *)
StampedFromStart(key) ==
    MoveToEnd(Assign(observation_delivered,
                     [key |-> key, until |-> began + observation_cooldown]), key)

Stamped(key) ==
    MoveToEnd(Assign(observation_delivered,
                     [key |-> key, until |-> clock + observation_cooldown]), key)

Bounded(d) == IF Len(d) > observation_capacity THEN PopFirst(d) ELSE d
KeysOf(d) == {d[i].key : i \in DOMAIN d}

(* emit returned: the cooldown begins.                                     *)
Delivered ==
    /\ Emitting
    /\ began' = None /\ work' = Tail(work)
    /\ LET key == Key(Head(work))
       IN  IF Head(work).via = "rule"
           THEN /\ last_delivered' = Assign(last_delivered, [key |-> key, at |-> clock])
                /\ Outcome("delivered", {})
                /\ UNCHANGED observation_delivered
           ELSE /\ observation_delivered' = Bounded(Stamped(key))
                /\ Outcome("delivered", KeysOf(Stamped(key)) \ KeysOf(Bounded(Stamped(key))))
                /\ UNCHANGED last_delivered

(* Faulty: an attempt uses up the cooldown of a rule, whatever comes of it. *)
FailedStamping(outcome) ==
    /\ Emitting
    /\ began' = None /\ work' = Tail(work)
    /\ Outcome(outcome, {})
    /\ last_delivered' = IF Head(work).via = "rule"
                         THEN Assign(last_delivered, [key |-> Key(Head(work)), at |-> clock])
                         ELSE last_delivered
    /\ UNCHANGED observation_delivered

(* emit raised: the receiver refused the alert, never got it, or has it    *)
(* and its answer did not arrive as a success.                             *)
Failed(outcome) ==
    /\ Emitting
    /\ began' = None /\ work' = Tail(work)
    /\ Outcome(outcome, {})
    /\ UNCHANGED <<observation_delivered, last_delivered>>

Failures == {"refused", "unconfirmed"}

DeliveryInit ==
    /\ observation_delivered = <<>> /\ last_delivered = <<>>
    /\ work = <<>> /\ began = None /\ offers = <<>>

-----------------------------------------------------------------------------
(* Properties.                                                             *)

CooldownOf(task) ==
    IF task.via = "rule" THEN task.subject.cooldown ELSE observation_cooldown
(* The same alert for the same sink, as a reader of alerts would say it.   *)
SameAlert(s, t) ==
    /\ s.via = t.via /\ s.sink = t.sink
    /\ IF s.via = "rule" THEN s.subject = t.subject
       ELSE /\ s.subject.type = t.subject.type /\ s.subject.ip = t.subject.ip
            /\ s.subject.resource = t.subject.resource
            /\ s.subject.metric = t.subject.metric

(* A receiver gets an alert twice within its cooldown only if the pipeline *)
(* was told that the first one failed, or the bounded cache gave the entry *)
(* up in between, however long the emits take (integrated_alerts.py        *)
(* 142-192, webhook.py emit).                                              *)
NoRepeatWithinCooldown ==
    LET j == Len(offers)
    IN  \A i \in 1..(j - 1) :
            /\ offers[j].outcome \in {"delivered", "unconfirmed"}
            /\ offers[i].outcome = "delivered"
            /\ SameAlert(offers[i].task, offers[j].task)
            /\ \A k \in i..j : Key(offers[i].task) \notin offers[k].evicted
            => offers[j].began - offers[i].at >= CooldownOf(offers[j].task)

(* "Successful deliveries alone consume sink cooldowns": an alert is held  *)
(* back only from a sink that took the same alert, of the same kind, for   *)
(* the same source and metric, less than a cooldown ago.  A burst does not *)
(* hold back the spray it grows into.                                      *)
SuppressedOnlyAfterSuccess ==
    \A j \in {Len(offers)} \ {0} :
        offers[j].outcome = "suppressed" =>
            \E i \in 1..(j - 1) :
                /\ SameAlert(offers[i].task, offers[j].task)
                /\ offers[i].outcome = "delivered"
                /\ offers[j].at - offers[i].at < CooldownOf(offers[j].task)

(* A cooldown follows a success, all of it, and nothing else: the two      *)
(* parts above.                                                            *)
CooldownsAreKept == NoRepeatWithinCooldown /\ SuppressedOnlyAfterSuccess

(* A step that has the cache give up an entry gives up the soonest.        *)
GivesUpSoonest ==
    \A i \in DOMAIN observation_delivered :
        LET old == observation_delivered[i]
        IN  Len(offers') > Len(offers) /\ old.key \in offers'[Len(offers')].evicted =>
              \A j \in DOMAIN observation_delivered' :
                  old.until <= observation_delivered'[j].until

(* At its capacity the cache gives up the entry that would have expired    *)
(* first, so that what it forgets early it forgets by as little as can be, *)
(* although an entry may expire and be renewed between purge and check.    *)
EvictsSoonestToExpire == [][GivesUpSoonest]_deliveryVars
=============================================================================
