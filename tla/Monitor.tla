------------------------------ MODULE Monitor -------------------------------
(***************************************************************************)
(* tools/monitoring/integrated_alerts.py: run_watch and main around        *)
(* SystemAnalyzerEngine.  A cycle measures the disk, reads the new lines   *)
(* of a file and adds what came of it to the totals; the exit status says  *)
(* whether anything went wrong.  Lines are security logs, given to the     *)
(* engine of SecurityDetector, or plain metrics; alerts are delivered as   *)
(* in AlertDelivery.  One-shot mode is a single cycle.                     *)
(*                                                                         *)
(* A scenario bounds what the surroundings do in a behaviour: the lines    *)
(* they may write, one after the other, the readings of the disk, what     *)
(* sinks answer, whether they take time, the number of cycles, and time.   *)
(***************************************************************************)
EXTENDS SecurityDetector, AlertDelivery

CONSTANT Scenarios  \* of [security, lines, disk, spoiled, outcomes, slow, cycles, time];
                    \* `lines' is a sequence of sets, the choices for each line

(* The lines of a security log as the digester finds them, every field     *)
(* filled in, and those of plain metrics.                                  *)
Plausible(line, security) ==
    IF security
    THEN /\ line = [f \in Labels \union {"format"} |-> line[f]]
         /\ \A f \in {"lat_ms", "bytes"} : line[f] \in {Absent, Malformed} \/ line[f] \in Int
    ELSE line.format = "plain"

ASSUME ScenarioAssumption ==
    \A s \in Scenarios :
        /\ s.spoiled \subseteq Nat /\ s.cycles \in Nat \ {0}
        /\ \A n \in DOMAIN s.lines : \A line \in s.lines[n] : Plausible(line, s.security)

VARIABLES
    scenario,
    phase,      \* "disk", "stream" or "done"
    cycle,      \* cycles completed
    report,     \* the AnalysisReports of this cycle, added up
    total,      \* the AnalysisReport of run_watch
    readings    \* history: the readings of the disk, and Malformed for whatever the
                \* follower or the input spoiled, in order

vars == <<scenario, phase, cycle, report, total, readings, clock, sources, series, log,
          observation_delivered, last_delivered, work, began, offers>>

-----------------------------------------------------------------------------
NoReport == [events |-> 0, errors |-> 0, delivered |-> 0, delivery_failures |-> 0]
Reports == [DOMAIN NoReport -> Nat]

(* Faulty: delivery failures are not added to the totals.                  *)
PlusButFailures(r, s) ==
    [f \in DOMAIN r |-> IF f = "delivery_failures" THEN r[f] ELSE r[f] + s[f]]

Plus(r, s) == [f \in DOMAIN r |-> r[f] + s[f]]

Init ==
    /\ scenario \in Scenarios
    /\ phase = "disk" /\ cycle = 0 /\ clock = 0
    /\ report = NoReport /\ total = NoReport /\ readings = <<>>
    /\ DetectorInit /\ DeliveryInit

(* analyze_disk_usage, for one path; other paths are other rules.          *)
AnalyzeDisk(reading) ==
    /\ phase = "disk"
    /\ phase' = "stream"
    /\ readings' = Append(readings, reading)
    /\ IF reading = Malformed
       THEN report' = [report EXCEPT !.errors = @ + 1] /\ UNCHANGED work
       ELSE /\ report' = [report EXCEPT !.events = @ + 1]
            /\ work' = RuleTasks([metric |-> "disk_used_percent", value |-> reading])
    /\ UNCHANGED <<scenario, cycle, total, sources, series, log,
                   observation_delivered, last_delivered, began, offers>>

(* _parse_security_stream, one line.                                       *)
SecurityLine(line) ==
    /\ IngestRawLog(line)
    /\ work' = FlattenSeq([i \in DOMAIN Last(log').alerts |->
                              ObservationTasks(Last(log').alerts[i])])
    /\ report' = IF line.format # "blank" /\ Rejected(line)
                 THEN [report EXCEPT !.errors = @ + 1]
                 ELSE IF line.format # "blank" THEN [report EXCEPT !.events = @ + 1]
                 ELSE report

PlainMetrics == <<"lat_ms", "mem_mb">>
Usable(line, m) == line[m] \notin {Absent, Malformed}

(* Faulty: the first bad value ends the line.                              *)
ValidUntilBad(line) ==
    Kept(PlainMetrics, {i \in DOMAIN PlainMetrics :
                           line.lat_ms # Malformed /\ Usable(line, PlainMetrics[i])})

Valid(line) ==
    Kept(PlainMetrics, {i \in DOMAIN PlainMetrics : Usable(line, PlainMetrics[i])})

(* parse_and_analyze_stream without a security engine, one line: a bad     *)
(* value is an error and does not keep the other from being used.          *)
PlainLine(line) ==
    /\ log' = Ingested(line, <<>>)
    /\ work' = FlattenSeq([i \in DOMAIN Valid(line) |->
                  RuleTasks([metric |-> Valid(line)[i], value |-> line[Valid(line)[i]]])])
    /\ report' = [report EXCEPT
                    !.events = @ + Len(Valid(line)),
                    !.errors = @ + Cardinality({m \in ToSet(PlainMetrics) : line[m] = Malformed})]
    /\ UNCHANGED <<sources, series>>

IngestLine(line) ==
    /\ phase = "stream"
    /\ Idle
    /\ IF scenario.security THEN SecurityLine(line) ELSE PlainLine(line)
    /\ UNCHANGED <<scenario, phase, cycle, total, readings,
                   observation_delivered, last_delivered, began, offers>>

(* The batch is used up; `spoiled' counts the lines the follower could not *)
(* use and a failed read of the input, which ends it.                      *)
EndCycle(spoiled) ==
    /\ phase = "stream"
    /\ Idle
    /\ total' = Plus(total, [report EXCEPT !.errors = @ + spoiled])
    /\ report' = NoReport
    /\ cycle' = cycle + 1
    /\ phase' = IF cycle + 1 < scenario.cycles THEN "disk" ELSE "done"
    /\ readings' = readings \o [i \in 1..spoiled |-> Malformed]
    /\ UNCHANGED <<scenario, sources, series, log,
                   observation_delivered, last_delivered, work, began, offers>>

(* One task of the pipeline; the reports of delivery count its outcomes.   *)
Deliver ==
    /\ \/ Purge \/ Suppress \/ Emit
       \/ ("delivered" \in scenario.outcomes /\ Delivered)
       \/ \E outcome \in Failures \intersect scenario.outcomes : Failed(outcome)
    /\ report' = LET last == Last(offers')
                 IN  IF Len(offers') = Len(offers) THEN report
                     ELSE IF last.outcome = "delivered" THEN [report EXCEPT !.delivered = @ + 1]
                     ELSE IF last.outcome \in Failures
                          THEN [report EXCEPT !.delivery_failures = @ + 1]
                     ELSE report
    /\ UNCHANGED <<scenario, phase, cycle, total, readings, sources, series, log>>

(* The choices for the n-th line, none after the last.                     *)
NextLines(lines, n) == IF n \in DOMAIN lines THEN lines[n] ELSE {}

Step ==
    \/ \E reading \in scenario.disk : AnalyzeDisk(reading)
    \/ \E line \in NextLines(scenario.lines, Len(log) + 1) : IngestLine(line)
    \/ \E spoiled \in scenario.spoiled : EndCycle(spoiled)
    \/ Deliver

TimePasses ==
    /\ phase # "done" /\ clock < scenario.time
    /\ Idle \/ scenario.slow
    /\ Tick
    /\ UNCHANGED <<scenario, phase, cycle, report, total, readings, sources, series, log,
                   observation_delivered, last_delivered, work, began, offers>>

Next == (Step /\ UNCHANGED clock) \/ TimePasses

Spec == Init /\ [][Next]_vars

ExitStatus == IF total.errors > 0 \/ total.delivery_failures > 0 THEN 1 ELSE 0

-----------------------------------------------------------------------------
(* Properties.                                                             *)

(* Types and the bounds of every table.                                    *)
TypeOK ==
    /\ scenario \in Scenarios
    /\ phase \in {"disk", "stream", "done"} /\ cycle \in 0..scenario.cycles
    /\ report \in Reports /\ total \in Reports
    /\ clock \in 0..MaxTime
    /\ Len(sources) <= max_sources /\ Cardinality(KeysOf(sources)) = Len(sources)
    /\ \A st \in ToSet(sources) :
          /\ st.last_seen <= clock /\ Len(st.failures) <= max_failures
          /\ st.truncated_until <= clock + Window
    /\ Len(series) <= max_series /\ Cardinality(KeysOf(series)) = Len(series)
    /\ \A b \in ToSet(series) : b.count >= 1 /\ b.variance >= 0 /\ b.last_seen <= clock
    /\ Len(observation_delivered) <= observation_capacity
    /\ Cardinality(KeysOf(observation_delivered)) = Len(observation_delivered)
    /\ Cardinality(KeysOf(last_delivered)) = Len(last_delivered)
    /\ began # None => began \in 0..clock /\ work # <<>>

(* What went wrong in a line, and in all of them.                          *)
FaultsIn(line) ==
    IF scenario.security
    THEN {f \in {"format"} : line.format # "blank" /\ Rejected(line)}
    ELSE {m \in {"lat_ms", "mem_mb"} : line[m] = Malformed}
Faults == UNION {{i} \X FaultsIn(log[i].line) : i \in DOMAIN log}

Alerts == UNION {{i} \X DOMAIN log[i].alerts : i \in DOMAIN log}
OutcomesIn(S) == Cardinality({i \in DOMAIN offers : offers[i].outcome \in S})

(* Whatever fails along the way is told at the end, and nothing it failed  *)
(* beside is lost: the totals count each rejected value, each failed       *)
(* reading and each failed delivery once, every sink gets its turn with    *)
(* every alert, and the exit status is 0 only if nothing went wrong.       *)
NothingGoesUncounted ==
    LET sum == Plus(total, report)
    IN  /\ sum.errors = Cardinality({i \in DOMAIN readings : readings[i] = Malformed})
                        + Cardinality(Faults)
        /\ sum.delivered = OutcomesIn({"delivered"})
        /\ sum.delivery_failures = OutcomesIn(Failures)
        /\ Idle => Cardinality({i \in DOMAIN offers : offers[i].task.via = "observation"})
                   = Len(Sinks) * Cardinality(Alerts)
        /\ phase = "done" /\ ExitStatus = 0 =>
              /\ OutcomesIn(Failures) = 0
              /\ Faults = {}
              /\ \A i \in DOMAIN readings : readings[i] # Malformed

(* A metric that breaches a rule is offered to every sink, once each time, *)
(* whatever else is wrong with its line or with the sinks before.          *)
EveryBreachIsOffered ==
    Idle /\ ~scenario.security =>
        \A r \in DOMAIN Rules, s \in DOMAIN Sinks :
            Cardinality({i \in DOMAIN offers :
                            offers[i].task = [via |-> "rule", subject |-> Rules[r],
                                              sink |-> Sinks[s]]})
            = Cardinality({i \in DOMAIN log :
                            /\ Rules[r].metric \in {"lat_ms", "mem_mb"}
                            /\ log[i].line[Rules[r].metric] \notin {Absent, Malformed}
                            /\ Compares(Rules[r].condition, log[i].line[Rules[r].metric],
                                        Rules[r].threshold)})
              + Cardinality({i \in DOMAIN readings :
                            /\ Rules[r].metric = "disk_used_percent"
                            /\ readings[i] # Malformed
                            /\ Compares(Rules[r].condition, readings[i], Rules[r].threshold)})

(* A failure of one sink, value, line or cycle hides nothing of the others *)
(* and is itself reported: the two parts above (integrated_alerts.py       *)
(* 142-342, 397-405).                                                      *)
FailuresHideNothing == NothingGoesUncounted /\ EveryBreachIsOffered
=============================================================================
