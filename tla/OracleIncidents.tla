-------------------------- MODULE OracleIncidents --------------------------
(***************************************************************************)
(* The reliability monitor: OracleScheduler's cron on every replica of the *)
(* API, OracleMonitoringService, and the table of OracleIncidentRepository *)
(* with its two-statement recordDetection, next to operators who           *)
(* acknowledge and resolve incidents.                                      *)
(*                                                                         *)
(* Time is the age of the last verified report, which matters up to the    *)
(* longest deadline only; so do occurrence counts, up to the last          *)
(* threshold.  Both stop counting there.                                   *)
(***************************************************************************)
EXTENDS Integers, Sequences, FiniteSets, FiniteSetsExt, SequencesExt

CONSTANTS
  Watched, Provider,
  ReportsBy,          \* of every project: "satellite", "iot" or "other"
  Replica,            \* API processes
  DefaultCadence, SatelliteCadence, IotCadence, Grace,
  RawThresholds,      \* ORACLE_INCIDENT_ESCALATION_THRESHOLDS, split at commas
  DefaultThreshold,   \* occurrences in DEFAULT_ESCALATION_THRESHOLDS
  MaxRows,            \* bound: incidents
  MaxLost             \* bound: failed reads, statements and crashed replicas

Subject == Watched \cup Provider
OracleIncidentSeverity == {"warning", "critical"}

ASSUME IncidentAssumption ==
  /\ ReportsBy \in [Watched -> {"satellite", "iot", "other"}]
  /\ {DefaultCadence, SatelliteCadence, IotCadence, DefaultThreshold} \subseteq Nat \ {0}
  /\ {Grace, MaxRows, MaxLost} \subseteq Nat

\* Entries that make no sense are skipped; without any left the default holds.
parseEscalationThresholds ==
  LET parsed == SelectSeq(RawThresholds, LAMBDA t : t.occurrences > 0 /\ t.severity \in OracleIncidentSeverity)
  IN IF parsed = <<>> THEN <<[occurrences |-> DefaultThreshold, severity |-> "critical"]>>
     ELSE SortSeq(parsed, LAMBDA a, b : a.occurrences < b.occurrences)

MaxCount == Last(parseEscalationThresholds).occurrences + 1

severityForOccurrenceCount ==
  [n \in 1..MaxCount |->
     LET reached == SelectSeq(parseEscalationThresholds, LAMBDA t : n >= t.occurrences)
     IN IF reached = <<>> THEN "warning" ELSE Last(reached).severity]

\* The thresholds never take an escalation back.  The code accepts others,
\* "3:critical,5:warning" for one; an incident would then become critical and
\* a warning again.
ASSUME ThresholdAssumption ==
  /\ MaxCount \in Nat \ {0} /\ severityForOccurrenceCount \in [1..MaxCount -> OracleIncidentSeverity]
  /\ \A m, n \in 1..MaxCount : m <= n /\ severityForOccurrenceCount[m] = "critical"
                                   => severityForOccurrenceCount[n] = "critical"

cadenceForMethodology(p) ==
  CASE ReportsBy[p] = "satellite" -> SatelliteCadence
    [] ReportsBy[p] = "iot" -> IotCadence
    [] OTHER -> DefaultCadence

MaxAge == Max({DefaultCadence, SatelliteCadence, IotCadence}) + Grace + 1

VARIABLES
  age,      \* per project: time since its last verified report, or its creation
  created,  \* per project: time since its creation
  by,       \* per project: who reported last
  rows,     \* table oracle_incidents
  cycle,    \* per replica: the cron's run
  lost

incidentVars == <<age, created, by, rows, cycle, lost>>

Resting == [pc |-> "idle", todo |-> {}, row |-> 0, severity |-> "warning"]

IncidentInit ==
  /\ age = [p \in Watched |-> 0] /\ created = age /\ by = [p \in Watched |-> "nobody"]
  /\ rows = <<>> /\ cycle = [r \in Replica |-> Resting] /\ lost = 0

Loses == lost < MaxLost /\ lost' = lost + 1
-----------------------------------------------------------------------------
(* The world. *)

Older(n) == IF n < MaxAge THEN n + 1 ELSE n

TimePasses == /\ age' = [p \in Watched |-> Older(age[p])]
              /\ created' = [p \in Watched |-> Older(created[p])]
              /\ UNCHANGED <<by, rows, cycle, lost>>

ReportVerified(p, v) == /\ age' = [age EXCEPT ![p] = 0] /\ by' = [by EXCEPT ![p] = v]
                        /\ UNCHANGED <<created, rows, cycle, lost>>
-----------------------------------------------------------------------------
(* Staleness. *)

buildProjectMetric(baseline, cadence) == baseline > cadence + Grace

\* A provider is as fresh as the latest report that is known to be his, on
\* the default cadence whatever his projects' methodologies are.
aggregateProviderStaleness(v, read) ==
  LET own == {p \in read : by[p] = v}
  IN own # {} /\ \A p \in own : age[p] > DefaultCadence + Grace

\* A project whose reports cannot be read is judged by its creation.
computeStaleness(read) ==
  {p \in Watched : buildProjectMetric(IF p \in read THEN age[p] ELSE created[p], cadenceForMethodology(p))}
    \cup {v \in Provider : aggregateProviderStaleness(v, read)}

\* The cron fires: the metrics of one moment, to be recorded one by one.
syncIncidents(r) ==
  /\ cycle[r].pc = "idle"
  /\ \E read \in {Watched} \cup {Watched \ {p} : p \in Watched} :
       /\ IF read = Watched THEN UNCHANGED lost ELSE Loses
       /\ computeStaleness(read) # {}
       /\ cycle' = [cycle EXCEPT ![r] = [Resting EXCEPT !.pc = "record", !.todo = computeStaleness(read)]]
  /\ UNCHANGED <<age, created, by, rows>>
-----------------------------------------------------------------------------
(* recordDetection. *)

\* The unique index: the row that an insertion runs into.
Conflicts(i, s) == rows[i].subject = s /\ rows[i].status # "resolved"

Open(s) == {i \in DOMAIN rows : Conflicts(i, s)}

Carry(r, q) == [cycle EXCEPT ![r] = IF q.todo = {} THEN Resting ELSE q]

NeedsEscalation_AtThreshold(row) ==
  row.severity = "warning" /\ \E i \in DOMAIN parseEscalationThresholds :
    parseEscalationThresholds[i].occurrences = row.count /\ parseEscalationThresholds[i].severity = "critical"

NeedsEscalation(row) == severityForOccurrenceCount[row.count] # row.severity

\* First statement: insert, or count one more occurrence.
recordDetection(r, s) ==
  LET q == cycle[r]
      rest == [q EXCEPT !.todo = @ \ {s}]
      fresh == [subject |-> s, status |-> "active", severity |-> "warning", count |-> 1]
      i == IF Open(s) = {} THEN Len(rows) + 1 ELSE CHOOSE j \in Open(s) : TRUE
      row == IF Open(s) = {} THEN fresh ELSE [rows[i] EXCEPT !.count = IF @ < MaxCount THEN @ + 1 ELSE @] IN
  /\ q.pc = "record" /\ s \in q.todo
  /\ s \in Provider => q.todo \cap Watched = {}
  /\ rows' = IF Open(s) = {} THEN Append(rows, fresh) ELSE [rows EXCEPT ![i] = row]
  /\ cycle' = IF NeedsEscalation(row)
              THEN [cycle EXCEPT ![r] = [rest EXCEPT !.pc = "escalate", !.row = i,
                                                     !.severity = severityForOccurrenceCount[row.count]]]
              ELSE Carry(r, rest)
  /\ UNCHANGED <<age, created, by, lost>>

Escalated_BySubject(i, severity) ==
  [j \in DOMAIN rows |-> IF Conflicts(j, rows[i].subject)
                         THEN [rows[j] EXCEPT !.severity = severity] ELSE rows[j]]

\* Second statement: by id, whatever has happened to the row meanwhile.
Escalated(i, severity) == [rows EXCEPT ![i].severity = severity]

Escalate(r) ==
  /\ cycle[r].pc = "escalate"
  /\ rows' = Escalated(cycle[r].row, cycle[r].severity)
  /\ cycle' = Carry(r, [cycle[r] EXCEPT !.pc = "record", !.row = 0, !.severity = "warning"])
  /\ UNCHANGED <<age, created, by, lost>>

\* A statement fails, or the replica stops: the run ends where it is.
monitorProviderReliability(r) ==
  /\ cycle[r].pc # "idle" /\ Loses
  /\ cycle' = [cycle EXCEPT ![r] = Resting]
  /\ UNCHANGED <<age, created, by, rows>>
-----------------------------------------------------------------------------
(* Operators. *)

acknowledge(i) == /\ rows[i].status = "active"
                  /\ rows' = [rows EXCEPT ![i].status = "acknowledged"]
                  /\ UNCHANGED <<age, created, by, cycle, lost>>

resolve(i) == /\ rows[i].status # "resolved" /\ Len(rows) < MaxRows
              /\ rows' = [rows EXCEPT ![i].status = "resolved"]
              /\ UNCHANGED <<age, created, by, cycle, lost>>
-----------------------------------------------------------------------------
MonitorStep(r) == syncIncidents(r) \/ (\E s \in Subject : recordDetection(r, s)) \/ Escalate(r)

IncidentNext ==
  \/ TimePasses \/ (\E p \in Watched, v \in Provider : ReportVerified(p, v))
  \/ \E r \in Replica : MonitorStep(r) \/ monitorProviderReliability(r)
  \/ \E i \in DOMAIN rows : acknowledge(i) \/ resolve(i)

IncidentSpec == IncidentInit /\ [][IncidentNext]_incidentVars
-----------------------------------------------------------------------------
\* An escalation is earned by the incident that has it: however the second
\* statement of a detection is delayed, past a resolution and a recurrence
\* even, it never marks an incident that was not seen often enough.
EscalationIsEarned ==
  \A i \in DOMAIN rows : rows[i].severity = "critical" => severityForOccurrenceCount[rows[i].count] = "critical"

Overdue(s) == s \in computeStaleness(Watched)

Behind(row) ==
  /\ row.status # "resolved" /\ Overdue(row.subject)
  /\ severityForOccurrenceCount[row.count] # row.severity

SomeBehind == \E i \in DOMAIN rows : Behind(rows[i])

\* Incidents that were seen often enough are critical in the end, even if the
\* replica that counted the decisive occurrence stopped before escalating.
EscalationIsDelivered == SomeBehind ~> ~SomeBehind
=============================================================================
