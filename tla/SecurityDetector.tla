-------------------------- MODULE SecurityDetector --------------------------
(***************************************************************************)
(* tools/monitoring/security_events.py and security_detector.py: lines of  *)
(* several log formats are reduced to events (LogDigester.parse), and      *)
(* UnifiedSecurityEngine.ingest_raw_log remembers recent failures per      *)
(* source address and a moving average per metric, in tables of bounded    *)
(* size, and raises suspected observations.                                *)
(*                                                                         *)
(* Abstraction.  A line is a record: the format the digester recognizes    *)
(* and the fields it finds, each Absent, Malformed or a value.  The line's *)
(* place in the log stands for its content hash.  Time is the monotonic    *)
(* receipt clock.  The average is exact: with alpha = alpha_num/alpha_den, *)
(* after n samples the mean is kept as a multiple of alpha_den^-(n-1) and  *)
(* the variance as one of its square, so a score is compared with the      *)
(* threshold without rounding.                                             *)
(***************************************************************************)
EXTENDS PythonLibrary, FiniteSets

CONSTANTS
    Window,         \* window_seconds
    Ttl,            \* state_ttl_sec
    max_sources, max_failures, max_series,
    min_samples, z_threshold,
    alpha_num, alpha_den,   \* alpha
    MaxMetric,      \* MAX_METRIC
    Absent, Malformed, Unspecified  \* values of fields

(* The constructor accepts nothing less; a source outlives its window, as  *)
(* with the default values, the only ones in use.                          *)
ASSUME DetectorAssumption ==
    /\ Window \in Nat \ {0} /\ Ttl \in Nat /\ Ttl >= Window
    /\ max_sources \in Nat \ {0} /\ max_series \in Nat \ {0} /\ max_failures \in Nat
    /\ max_failures >= 4
    /\ min_samples \in Nat \ {0} /\ z_threshold \in Nat \ {0}
    /\ alpha_num \in Nat \ {0} /\ alpha_den \in Nat /\ alpha_num < alpha_den

VARIABLES
    sources,    \* _sources: [key (an address), last_seen, failures, truncated_until]
    series,     \* anomaly_detector._state: [key, count, mean, variance, last_seen]
    log         \* history: the lines ingested, [line, at, alerts]

-----------------------------------------------------------------------------
(* LogDigester.parse.                                                      *)

(* What the format fixes, whatever else the line says.                     *)
Fields(line) ==
    CASE line.format = "sshd" ->
           [line EXCEPT !.action = "LOGIN_FAILED", !.resource = "/ssh",
                        !.lat_ms = Absent, !.bytes = Absent]
      [] line.format = "access" ->
           [line EXCEPT !.action = "WEB_ACCESS", !.lat_ms = Absent]
      [] OTHER -> line

Labels == {"ip", "user", "action", "resource", "status", "lat_ms", "bytes"}
InRange(value) == value = Absent \/ (value >= 0 /\ value <= MaxMetric)

(* ParseError: no known format, a field that is not of its kind, or a      *)
(* measurement out of range.                                               *)
Rejected(line) ==
    \/ line.format = "unsupported"
    \/ \E f \in Labels : Fields(line)[f] = Malformed
    \/ ~InRange(Fields(line).lat_ms) \/ ~InRange(Fields(line).bytes)

Upper(action) == IF action = "login_failed" THEN "LOGIN_FAILED" ELSE action
Default(value, other) == IF value = Absent THEN other ELSE value
Measurement(name, value) ==
    IF value = Absent THEN <<>> ELSE <<[name |-> name, value |-> value]>>

NormalizedEvent(line) ==
    LET data == Fields(line)
    IN  [ip |-> IF data.ip \in {Absent, Unspecified} THEN None ELSE data.ip,
         user |-> Default(data.user, None),
         action |-> Upper(Default(data.action, "API_REQUEST")),
         resource |-> Default(data.resource, "/"),
         metrics |-> Measurement("latency_ms", data.lat_ms)
                     \o Measurement("response_bytes", data.bytes)]

(* Lines for the stream of plain metrics are not for this engine.          *)
IsEvent(line) == line.format \notin {"blank", "plain"} /\ ~Rejected(line)
IsFailure(event) == event.action \in {"LOGIN_FAILED", "AUTH_FAILED"}

-----------------------------------------------------------------------------
(* EWMAAnomalyDetector.                                                    *)

Larger(a, b) == IF a >= b THEN a ELSE b
Alive(d) == Kept(d, {i \in DOMAIN d : clock - d[i].last_seen < Ttl})

(* Faulty: the limit itself is one entry too late.                         *)
RoomOneLate(d, key, limit) ==
    IF HasKey(d, key) \/ Len(d) <= limit THEN d ELSE PopFirst(d)

(* Make room for a key: the entry longest unused goes.                     *)
RoomFor(d, key, limit) ==
    IF HasKey(d, key) \/ Len(d) < limit THEN d ELSE PopFirst(d)

(* b to the n, and the sum of f[1] to f[n].                                *)
Power(b, n) ==
    LET p[i \in 0..n] == IF i = 0 THEN 1 ELSE b * p[i - 1]
    IN  p[n]
Total(f, n) ==
    LET t[i \in 0..n] == IF i = 0 THEN 0 ELSE t[i - 1] + f[i]
    IN  t[n]

Scale(count) == Power(alpha_den, count - 1)
Delta(st, val) == val * Scale(st.count) - st.mean

(* |z| >= z_threshold, with at least one unit of deviation.                *)
Hit(st, val) ==
    /\ st.count >= min_samples
    /\ Delta(st, val) * Delta(st, val) >=
          z_threshold * z_threshold * Larger(st.variance, Scale(st.count) * Scale(st.count))

(* Faulty: an outlier trains the baseline like any other sample.           *)
TrainedByAll(st, val) ==
    [st EXCEPT !.last_seen = clock, !.count = @ + 1,
               !.mean = alpha_den * @ + alpha_num * Delta(st, val),
               !.variance = (alpha_den - alpha_num)
                            * (alpha_den * @ + alpha_num * Delta(st, val) * Delta(st, val))]

Trained(st, val) ==
    IF Hit(st, val) THEN [st EXCEPT !.last_seen = clock]
    ELSE [st EXCEPT !.last_seen = clock, !.count = @ + 1,
                    !.mean = alpha_den * @ + alpha_num * Delta(st, val),
                    !.variance = (alpha_den - alpha_num)
                                 * (alpha_den * @ + alpha_num * Delta(st, val) * Delta(st, val))]

Baseline(key, val) ==
    [key |-> key, count |-> 1, mean |-> val, variance |-> 0, last_seen |-> clock]

(* process: the table after the sample.                                    *)
Processed(table, key, val) ==
    IF HasKey(table, key)
    THEN MoveToEnd(Assign(table, Trained(Lookup(table, key), val)), key)
    ELSE Append(RoomFor(table, key, max_series), Baseline(key, val))

SeriesKey(event, m) == <<event.ip, event.resource, m.name>>

(* The loop over the metrics of an event: table and outliers found.        *)
Score(event, acc, m) ==
    LET key == SeriesKey(event, m)
    IN  [table |-> Processed(acc.table, key, m.value),
         outliers |-> IF HasKey(acc.table, key) /\ Hit(Lookup(acc.table, key), m.value)
                      THEN Append(acc.outliers, m.name) ELSE acc.outliers]

Scored(event, table) ==
    FoldLeft(LAMBDA acc, m : Score(event, acc, m),
             [table |-> table, outliers |-> <<>>], event.metrics)

-----------------------------------------------------------------------------
(* UnifiedSecurityEngine.                                                  *)

(* Faulty: a failure is kept one tick too long.                            *)
PrunedLate(d) ==
    [i \in DOMAIN Alive(d) |->
        [Alive(d)[i] EXCEPT
            !.failures = Kept(@, {k \in DOMAIN @ : clock - @[k].at <= Window})]]

(* _prune, for the sources.                                                *)
Pruned(d) ==
    [i \in DOMAIN Alive(d) |->
        [Alive(d)[i] EXCEPT
            !.failures = Kept(@, {k \in DOMAIN @ : clock - @[k].at < Window})]]

Fresh(ip) ==
    [key |-> ip, last_seen |-> clock, failures |-> <<>>, truncated_until |-> 0]

(* Faulty: the source table evicts by arrival, not by use.                 *)
SeenInPlace(d, ip) ==
    IF HasKey(d, ip) THEN Assign(d, [Lookup(d, ip) EXCEPT !.last_seen = clock])
    ELSE Append(RoomFor(d, ip, max_sources), Fresh(ip))

(* The source of an event, made if need be, is the last one used.          *)
Seen(d, ip) ==
    IF HasKey(d, ip)
    THEN MoveToEnd(Assign(d, [Lookup(d, ip) EXCEPT !.last_seen = clock]), ip)
    ELSE Append(RoomFor(d, ip, max_sources), Fresh(ip))

(* Faulty: the oldest failure is given up silently.                        *)
RememberedSilently(st, user) ==
    [st EXCEPT !.failures = Append(IF Len(@) >= max_failures THEN Tail(@) ELSE @,
                                   [at |-> clock, user |-> user])]

(* A failure is remembered; at the limit the oldest one is given up.       *)
Remembered(st, user) ==
    IF Len(st.failures) >= max_failures
    THEN [st EXCEPT !.failures = Append(Tail(@), [at |-> clock, user |-> user]),
                    !.truncated_until = clock + Window]
    ELSE [st EXCEPT !.failures = Append(@, [at |-> clock, user |-> user])]

KnownUsers(failures) == {failures[i].user : i \in DOMAIN failures} \ {None}

FailureAlert(st, event) ==
    LET users == KnownUsers(st.failures)
    IN  [type |-> IF Cardinality(users) >= 3 THEN "SUSPECTED_PASSWORD_SPRAY"
                  ELSE "SUSPECTED_AUTH_FAILURE_BURST",
         ip |-> event.ip, resource |-> event.resource, metric |-> None,
         evidence_count |-> Len(st.failures), targets |-> users,
         evidence_truncated |-> clock < st.truncated_until]

OutlierAlert(event, metric) ==
    [type |-> "SUSPECTED_METRIC_OUTLIER", ip |-> event.ip, resource |-> event.resource,
     metric |-> metric, evidence_count |-> 1, targets |-> {event.resource},
     evidence_truncated |-> FALSE]

Ingested(line, alerts) == Append(log, [line |-> line, at |-> clock, alerts |-> alerts])

(* ingest_raw_log of an event from a known address.                        *)
IngestEvent(line) ==
    LET event == NormalizedEvent(line)
        seen == Seen(Pruned(sources), event.ip)
        scored == Scored(event, Alive(series))
        st == IF IsFailure(event) THEN Remembered(Last(seen), event.user) ELSE Last(seen)
        bursts == IF IsFailure(event) /\ Len(st.failures) >= 4
                  THEN <<FailureAlert(st, event)>> ELSE <<>>
        outliers == [i \in DOMAIN scored.outliers |-> OutlierAlert(event, scored.outliers[i])]
    IN  /\ IsEvent(line) /\ event.ip # None
        /\ sources' = Assign(seen, st)
        /\ series' = scored.table
        /\ log' = Ingested(line, bursts \o outliers)

(* ingest_raw_log of anything else only forgets what is too old.           *)
IngestOther(line) ==
    /\ ~(IsEvent(line) /\ NormalizedEvent(line).ip # None)
    /\ sources' = Pruned(sources)
    /\ series' = Alive(series)
    /\ log' = Ingested(line, <<>>)

IngestRawLog(line) == IngestEvent(line) \/ IngestOther(line)

DetectorInit == sources = <<>> /\ series = <<>> /\ log = <<>>

-----------------------------------------------------------------------------
(* Properties.  They compare the last line of the log with the log alone.  *)

Events == {i \in DOMAIN log : IsEvent(log[i].line) /\ NormalizedEvent(log[i].line).ip # None}
EventAt(i) == NormalizedEvent(log[i].line)
EventsUpTo(n) == {i \in Events : i <= n}

(* The failures of the source of line n that count when it comes.  A       *)
(* source is forgotten when as many others as the table holds were used    *)
(* between two of its events.                                              *)
FailuresFor(n) ==
    LET ip == [i \in EventsUpTo(n) |-> EventAt(i).ip]
        mine == {i \in DOMAIN ip : ip[i] = ip[n]}
        Between(k) == {m \in DOMAIN ip : m < k /\ \A j \in mine : j < k => j < m}
        losses == {k \in mine :
                      Cardinality({ip[m] : m \in Between(k)}) >= max_sources}
    IN  {i \in mine : /\ log[n].at - log[i].at < Window
                      /\ IsFailure(EventAt(i))
                      /\ \A k \in losses : k <= i}

(* The latest of them, as many as are kept.                                *)
Latest(failures) ==
    {i \in failures : Cardinality({j \in failures : j > i}) < max_failures}

FailureAlerts(n) == {a \in ToSet(log[n].alerts) : a.type # "SUSPECTED_METRIC_OUTLIER"}

(* A failed login raises an observation exactly when it is the fourth or a *)
(* later failure of its source within the window, counting every failure   *)
(* the bounded tables still know; the observation counts the failures kept *)
(* and is a spray exactly when they name three users (security_detector.py *)
(* 150-158, 192-206).                                                      *)
BurstIffFourInWindow ==
    \A n \in Events \intersect {Len(log)} :
        LET failures == FailuresFor(n)
            kept == Latest(failures)
            users == {EventAt(i).user : i \in kept} \ {None}
        IN  /\ (FailureAlerts(n) # {}) <=> (IsFailure(EventAt(n)) /\ Cardinality(failures) >= 4)
            /\ \A alert \in FailureAlerts(n) :
                  /\ alert.evidence_count = Cardinality(kept)
                  /\ alert.targets = users
                  /\ (alert.type = "SUSPECTED_PASSWORD_SPRAY") <=> (Cardinality(users) >= 3)

(* An observation says that its evidence is truncated when it is not every *)
(* failure of the window, and otherwise only if one was given up less than *)
(* a window ago (security_detector.py 193-195 and 205).                    *)
TruncationIsTold ==
    \A n \in Events \intersect {Len(log)} : \A alert \in FailureAlerts(n) :
        /\ Cardinality(FailuresFor(n)) > alert.evidence_count => alert.evidence_truncated
        /\ alert.evidence_truncated =>
              \E i \in EventsUpTo(n) :
                  /\ EventAt(i).ip = alert.ip /\ IsFailure(EventAt(i))
                  /\ log[n].at - log[i].at < Window
                  /\ Cardinality(FailuresFor(i)) > max_failures

(* What the engine raises follows from the log, whatever the bounded       *)
(* tables had to give up: the two parts above.                             *)
ObservationsFollowTheLog == BurstIffFourInWindow /\ TruncationIsTold

(* The samples of a series that trained it: those not reported as outliers. *)
Samples(key) ==
    {i \in Events : \E m \in ToSet(EventAt(i).metrics) :
        /\ SeriesKey(EventAt(i), m) = key
        /\ \A a \in ToSet(log[i].alerts) :
              a.type = "SUSPECTED_METRIC_OUTLIER" => a.metric # m.name}

SampleAt(i, key) ==
    (CHOOSE m \in ToSet(EventAt(i).metrics) : SeriesKey(EventAt(i), m) = key).value

(* The weight of the i-th of n samples in an exponentially weighted mean,  *)
(* in units of alpha_den^-(n-1).                                           *)
Weight(i, n) ==
    IF i = 1 THEN Power(alpha_den - alpha_num, n - 1)
    ELSE alpha_num * Power(alpha_den - alpha_num, n - i) * Power(alpha_den, i - 2)

(* The place in S with r later ones, and the values of the last n samples. *)
Nth(S, r) == CHOOSE k \in {k \in S : Cardinality({j \in S : j > k}) = r} : TRUE
Recent(key, n) == [i \in 1..n |-> SampleAt(Nth(Samples(key), n - i), key)]

(* The baseline of a series is the exponentially weighted mean and         *)
(* variance of its latest samples, and no outlier ever entered it          *)
(* (security_detector.py 70-94).                                           *)
BaselineIsWeighted ==
    \A b \in ToSet(series) :
        LET n == b.count
            x == Recent(b.key, n)
            off == [i \in 1..n |-> x[i] * Scale(n) - b.mean]
        IN  /\ n <= Cardinality(Samples(b.key))
            /\ b.mean = Total([i \in 1..n |-> Weight(i, n) * x[i]], n)
            /\ b.variance * Scale(n) = Total([i \in 1..n |-> Weight(i, n) * off[i] * off[i]], n)
=============================================================================
