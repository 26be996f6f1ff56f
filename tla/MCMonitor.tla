------------------------------ MODULE MCMonitor -----------------------------
(* TLC instance of Monitor: a handful of scenarios, each of which drives   *)
(* one part of the monitor to its limits.                                  *)
EXTENDS Monitor

CONSTANTS u1, u2, u3, ip1, ip2, ip3

SinksDef == <<"console", "webhook">>
RulesDef ==
    <<[name |-> "High Disk Usage", metric |-> "disk_used_percent", condition |-> ">",
       threshold |-> 80, cooldown |-> 2],
      [name |-> "API High Latency", metric |-> "lat_ms", condition |-> ">",
       threshold |-> 500, cooldown |-> 1],
      [name |-> "High Memory", metric |-> "mem_mb", condition |-> ">",
       threshold |-> 300, cooldown |-> 1]>>

Line(format, ip, user) ==
    [format |-> format, ip |-> ip, user |-> user, action |-> Absent, resource |-> Absent,
     status |-> Absent, lat_ms |-> Absent, bytes |-> Absent]
Failure(ip, user) == Line("sshd", ip, user)
Sample(ip, lat) == [Line("kv", ip, Absent) EXCEPT !.lat_ms = lat]
Plain(lat, mem) == [format |-> "plain", lat_ms |-> lat, mem_mb |-> mem]

Quiet ==
    [security |-> TRUE, lines |-> <<>>, disk |-> {50}, spoiled |-> {0},
     outcomes |-> {"delivered"}, slow |-> FALSE, cycles |-> 1, time |-> 0]
Times(n, lines) == [i \in 1..n |-> lines]

(* One source fails for users known and unknown, more often than is kept.  *)
Bursts ==
    [Quiet EXCEPT !.lines = Times(3, {Failure(ip1, u1), Failure(ip1, u2)})
                            \o Times(2, {Failure(ip1, u2), Failure(ip1, u3), Failure(ip1, Absent)}),
                  !.time = 3]

(* Three sources for a table of two.                                       *)
Crowd == [Quiet EXCEPT !.lines = Times(6, {Failure(ip, u1) : ip \in {ip1, ip2, ip3}}), !.time = 1]

(* Latencies and sizes with outliers, of two sources.                      *)
Outliers ==
    [Quiet EXCEPT
        !.lines = <<{Sample(ip1, 10), Sample(ip2, 10)}, {Sample(ip1, 10), Sample(ip1, 13)}>>
                  \o Times(3, {Sample(ip1, 13), Sample(ip2, 10),
                               [Sample(ip1, 90) EXCEPT !.bytes = 10, !.format = "json"],
                               [Line("access", ip1, u1) EXCEPT !.bytes = 90]}),
        !.time = 3]

(* Lines that are rejected in every way, among some that are not.          *)
Spoiled ==
    [Quiet EXCEPT
        !.lines = Times(2,
                  {Line("unsupported", Absent, Absent), Line("blank", Absent, Absent),
                   Failure(Malformed, u1), Failure(Unspecified, u1), Failure(ip1, Malformed),
                   Sample(ip1, Malformed), Sample(ip1, -1), Sample(ip1, MaxMetric + 1),
                   Sample(Absent, 10),
                   [Line("json", ip1, u1) EXCEPT !.action = "login_failed"],
                   [Line("json", ip1, u1) EXCEPT !.action = "AUTH_FAILED", !.status = Malformed],
                   [Line("kv", ip1, u1) EXCEPT !.action = "GET", !.resource = Malformed]}),
        !.spoiled = {0, 1}, !.disk = {50, Malformed}, !.cycles = 2]

(* A burst that grows into a spray while sinks fail and take their time.   *)
Failing ==
    [Quiet EXCEPT !.lines = Times(2, {Failure(ip1, u1)}) \o Times(2, {Failure(ip1, u2)})
                            \o <<{Failure(ip1, u2), Failure(ip1, u3)}, {Failure(ip1, u3)}>>,
                  !.outcomes = {"delivered", "unconfirmed"},
                  !.slow = TRUE, !.time = 2]

(* Plain metrics, good and bad, while sinks fail.                          *)
PlainMetricsWatched ==
    [Quiet EXCEPT !.security = FALSE,
                  !.lines = Times(2, {Plain(l, m) : l \in {600, Malformed}, m \in {Absent, 200, 400}}),
                  !.outcomes = {"delivered", "refused"}, !.slow = TRUE, !.time = 1]

(* A disk that fills up or cannot be read.                                 *)
DiskWatched ==
    [Quiet EXCEPT !.security = FALSE, !.disk = {50, 90, Malformed}, !.spoiled = {0, 2},
                  !.outcomes = {"delivered", "unconfirmed"}, !.cycles = 3, !.time = 3]

ScenariosDef ==
    {Bursts, Crowd, Outliers, Spoiled, Failing, PlainMetricsWatched, DiskWatched}
=============================================================================
