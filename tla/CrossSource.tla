---------------------------- MODULE CrossSource ----------------------------
(***************************************************************************)
(* Do the sources of a project and period agree?  The detector of the      *)
(* standalone monitor (oracle/anomaly.ts) and the one of the API           *)
(* (api/src/oracle/anomaly.detector.ts).                                   *)
(*                                                                         *)
(* A methodology is the set of words that the alias patterns look for;     *)
(* tolerances are percentages, and a median is kept doubled, so that the   *)
(* comparison with a deviation is exact.  What a filter keeps of a list is *)
(* numbered as in the list, so that the order is the same.                 *)
(***************************************************************************)
EXTENDS Integers, Sequences, SequencesExt, FiniteSets

METHODOLOGY_TOLERANCE ==
  [family \in {"VERRA-VCS", "REMOTE-SENSING", "IOT-SENSORS", "BLUE-CARBON", "UNKNOWN"} |->
     CASE family = "VERRA-VCS" -> 15 [] family = "REMOTE-SENSING" -> 25
       [] family = "IOT-SENSORS" -> 35 [] OTHER -> 30]

\* The first family with a matching pattern wins.
FAMILY_ALIASES ==
  << [family |-> "VERRA-VCS", patterns |-> {"verra", "vcs"}],
     [family |-> "REMOTE-SENSING", patterns |-> {"remote", "satellite", "sentinel", "landsat"}],
     [family |-> "IOT-SENSORS", patterns |-> {"iot", "sensor"}],
     [family |-> "BLUE-CARBON", patterns |-> {"blue-carbon", "mangrove", "seagrass", "saltmarsh"}] >>

normalizeMethodology(words) ==
  LET i == SelectInSeq(FAMILY_ALIASES, LAMBDA a : a.patterns \cap words # {})
  IN IF i = 0 THEN "UNKNOWN" ELSE FAMILY_ALIASES[i].family

\* The two programs have a copy each of these tables, which agree.
toleranceFor(words) == METHODOLOGY_TOLERANCE[normalizeMethodology(words)]

median_Unsorted(carbon) ==
  LET ids == DOMAIN carbon
      at(k) == carbon[CHOOSE i \in ids : Cardinality({j \in ids : j <= i}) = k]
      n == Cardinality(ids)
      mid == n \div 2
  IN IF n = 0 THEN 0 ELSE IF n % 2 # 0 THEN 2 * at(mid + 1) ELSE at(mid) + at(mid + 1)

\* Twice the median.  In ascending order the k-th value is the one that fewer
\* than k values are below, and at least k are not above.
median(carbon) ==
  LET ids == DOMAIN carbon
      sorted(k) == CHOOSE v \in {carbon[i] : i \in ids} :
                     /\ Cardinality({i \in ids : carbon[i] < v}) < k
                     /\ k <= Cardinality({i \in ids : carbon[i] <= v})
      n == Cardinality(ids)
      mid == n \div 2
  IN IF n = 0 THEN 0 ELSE IF n % 2 # 0 THEN 2 * sorted(mid + 1) ELSE sorted(mid) + sorted(mid + 1)

\* relativeDeviation(value, median) > percent; infinite at a median of zero.
DeviatesBeyond(value, med, percent) ==
  IF med = 0 THEN value # 0
  ELSE 100 * (IF 2 * value > med THEN 2 * value - med ELSE med - 2 * value) > percent * med

\* The tolerance is that of the first source's family.
assessCrossSourceAnomaly(values) ==
  LET tolerance == toleranceFor(values[Min(DOMAIN values)].methodology)
      med == median([i \in DOMAIN values |-> values[i].carbon])
      beyond(percent) == {i \in DOMAIN values : DeviatesBeyond(values[i].carbon, med, percent)}
      outliers == beyond(tolerance)
  IN CASE Cardinality(DOMAIN values) < 2 -> [kind |-> "missing_source", severity |-> "info", outliers |-> {}]
       [] Cardinality(DOMAIN values) >= 2 /\ outliers = {} ->
            [kind |-> "normal", severity |-> "info", outliers |-> {}]
       [] OTHER -> [kind |-> IF Cardinality(outliers) = 1 THEN "outlier" ELSE "conflicting_sources",
                    severity |-> IF beyond(2 * tolerance) = {} THEN "warning" ELSE "critical",
                    outliers |-> {values[i].source : i \in outliers}]

PeriodKey(r) == <<r.project, r.period>>

\* POST /anomaly of the standalone monitor: whatever reports it is sent.
groupAndAssess(list) ==
  [key \in {PeriodKey(list[i]) : i \in DOMAIN list} |->
     assessCrossSourceAnomaly(Restrict(list, {i \in DOMAIN list : PeriodKey(list[i]) = key}))]

isVerified(r) == r.status = "Verified"

assessCluster(cluster) == assessCrossSourceAnomaly(cluster)

\* The API's detector: the verified reports of every project and period.
computeCrossSourceAnomalies(list) ==
  LET verified == Restrict(list, {i \in DOMAIN list : isVerified(list[i])}) IN
  [key \in {PeriodKey(verified[i]) : i \in DOMAIN verified} |->
     assessCluster(Restrict(verified, {i \in DOMAIN verified : PeriodKey(verified[i]) = key}))]
-----------------------------------------------------------------------------
CONSTANTS
  Feed, Words, Amount, Interval,   \* providers, methodologies, values, periods
  MaxListed                        \* bound: reports

ASSUME CrossAssumption == Amount \subseteq Nat

VARIABLE listed   \* the reports of a project, as getProjectReports gives them

CrossInit == listed = <<>>

FileReport(source, words, carbon, period) ==
  /\ Len(listed) < MaxListed
  /\ listed' = Append(listed, [project |-> "p", period |-> period, source |-> source,
                               methodology |-> words, carbon |-> carbon, status |-> "Pending"])

\* The contract's verdicts.
SettleReport(i, status) ==
  /\ listed[i].status = "Pending"
  /\ listed' = [listed EXCEPT ![i].status = status]

CrossNext ==
  \/ \E s \in Feed, w \in Words, c \in Amount, p \in Interval : FileReport(s, w, c, p)
  \/ \E i \in DOMAIN listed, status \in {"Verified", "Rejected"} : SettleReport(i, status)

CrossSpec == CrossInit /\ [][CrossNext]_listed
-----------------------------------------------------------------------------
\* Among at least three verified reports of a period of which all but one say
\* the same, the one that is off by more than the tolerance is named, and no
\* other, by the API's detector and by the monitor when it is sent the same
\* reports, whatever reports are pending, rejected or of other periods.
LoneDissenterIsNamed ==
  \A i \in DOMAIN listed :
    LET key == PeriodKey(listed[i])
        peers == {j \in DOMAIN listed : PeriodKey(listed[j]) = key /\ listed[j].status = "Verified"}
        first == CHOOSE j \in peers : \A k \in peers : j <= k
        percent == toleranceFor(listed[first].methodology)
        verified == Restrict(listed, {j \in DOMAIN listed : isVerified(listed[j])})
    IN (/\ i \in peers /\ Cardinality(peers) >= 3
        /\ \A j, k \in peers \ {i} : listed[j].carbon = listed[k].carbon
        /\ \A j \in peers \ {i} : DeviatesBeyond(listed[i].carbon, 2 * listed[j].carbon, percent)) =>
         \A verdict \in {computeCrossSourceAnomalies(listed)[key], groupAndAssess(verified)[key]} :
           verdict.kind = "outlier" /\ verdict.outliers = {listed[i].source}
=============================================================================
