--------------------------- MODULE OracleAdapters ---------------------------
(***************************************************************************)
(* The oracle scripts (src/oracle): four adapters that ask an upstream for *)
(* measurements and turn them into a signed report, the pre-flight check   *)
(* for the contract.                                                       *)
(*                                                                         *)
(* Dates are day numbers.  Conversion factors are whole numbers and carbon *)
(* is a quotient, so that means are exact.                                 *)
(***************************************************************************)
EXTENDS Evidence, FiniteSets, FiniteSetsExt

CONSTANTS
  Client,        \* "axios" or "file" (FileHttpClient of run.ts)
  Item,          \* per adapter: what the upstream may send, in any order
  Site,          \* per adapter: project configurations
  Season,        \* periods asked for, [start, end]
  Null,          \* JSON null
  NdviOne,       \* 1.0 on the scale of NDVI values
  MaxCloudCover,
  SymbolicName,  \* methodologies that are valid Soroban symbols
  KG_CO2E_PER_HA_PER_PPM, BiomassFactor, StockFactor,
  MaxItems       \* bound: items in an answer

\* The schema accepts readings with a time only.
ASSUME ReadingAssumption == \A x \in Item["iot"] : x.at \in Int

\* Periods lie between 1970 and the day whose seconds look like milliseconds.
ASSUME SeasonAssumption ==
  \A period \in Season : {period.start, period.end} \subseteq Nat /\ period.end * DaySeconds < MsFrom

VARIABLE job   \* the adapter run in progress
adapterVars == <<job>>

Adapter == {"verra", "satellite", "iot", "blue-carbon"}
Idle == [adapter |-> "none", client |-> "none", project |-> Null, period |-> Null, items |-> <<>>,
          error |-> "none", report |-> Null]

NaN == [num |-> 0, den |-> 0]
-----------------------------------------------------------------------------
(* HTTP. *)

\* axios throws for every status but 2xx, the fixture client never does.
Get(client, status) ==
  IF status = "timeout" \/ (client = "axios" /\ status # "2xx") THEN "thrown" ELSE status

\* Schemas (schemas.ts): the ranges of what each upstream sends.
ValidItem(adapter, x) ==
  CASE adapter = "verra" -> x.kg >= 0
    [] adapter = "satellite" -> x.cloud \in 0..100 /\ x.ndvi \in -NdviOne..NdviOne
    [] adapter = "iot" -> x.ppm = Null \/ x.ppm >= 0
    [] adapter = "blue-carbon" -> x.above >= 0 /\ x.below >= 0 /\ x.soil >= 0

ValidProject(adapter, p) ==
  CASE adapter = "verra" -> p.known
    [] adapter = "satellite" -> p.area > 0 /\ p.baseline \in -NdviOne..NdviOne
    [] adapter = "iot" -> p.area > 0
    [] adapter = "blue-carbon" -> p.area > 0 /\ p.baseline >= 0 /\ p.ratio > 0
-----------------------------------------------------------------------------
(* What the adapters keep of an answer, each item at its place in it, and   *)
(* the carbon they find.                                                    *)

filterVerifiedReports(s, period) ==
  Restrict(s, {i \in DOMAIN s : s[i].status = "VERIFIED" /\ s[i].start >= period.start /\ s[i].end <= period.end})

withinPeriod(date, period) == date >= period.start /\ date <= period.end

Usable(adapter, s, period) ==
  CASE adapter = "verra" -> filterVerifiedReports(s, period)
    [] adapter = "satellite" ->
         Restrict(s, {i \in DOMAIN s : s[i].cloud <= MaxCloudCover /\ withinPeriod(s[i].date, period)})
    [] adapter = "iot" -> Restrict(s, {i \in DOMAIN s : s[i].ppm # Null \/ s[i].water # Null})
    [] adapter = "blue-carbon" -> Restrict(s, {i \in DOMAIN s : withinPeriod(s[i].date, period)})

VerraCarbon(s) == [num |-> SumFunction([i \in DOMAIN s |-> s[i].kg]), den |-> 1]

\* (current - baseline) / (1 - baseline), at least 0; a baseline of 1 divides
\* by zero: 0/0 is NaN, and minus infinity becomes 0.
calculateBiomassChange(baseline, sum, n) ==
  LET num == sum - n * baseline
      den == n * (NdviOne - baseline)
  IN IF den = 0 THEN (IF num = 0 THEN NaN ELSE [num |-> 0, den |-> 1])
     ELSE [num |-> IF num < 0 THEN 0 ELSE num, den |-> den]

estimateCarbonSequestration(area, change) == [change EXCEPT !.num = @ * area * BiomassFactor]

ByTime_AsDelivered(s, places) ==
  [k \in 1..Cardinality(places) |-> CHOOSE i \in places : Cardinality({j \in places : j <= i}) = k]

\* The stable sort of readings by time.
NoLater(s, j, i) == s[j].at < s[i].at \/ (s[j].at = s[i].at /\ j <= i)

ByTime(s, places) ==
  [k \in 1..Cardinality(places) |-> CHOOSE i \in places : Cardinality({j \in places : NoLater(s, j, i)}) = k]

\* Last minus first reading of every device that has two, summed and counted.
meanSoilCarbonDeltaPpm(s) ==
  LET own(d) == {i \in DOMAIN s : s[i].device = d /\ s[i].ppm # Null}
      paired == {d \in {s[i].device : i \in DOMAIN s} : Cardinality(own(d)) >= 2}
      sorted(d) == ByTime(s, own(d))
      delta == [d \in paired |-> s[sorted(d)[Cardinality(own(d))]].ppm - s[sorted(d)[1]].ppm]
  IN [num |-> SumFunction(delta), den |-> Cardinality(paired)]

\* A season of losses counts as zero.
Floored(delta) == IF delta.num < 0 THEN [delta EXCEPT !.num = 0] ELSE delta

meanCarbonStockTonnesPerHa(s, ratio) ==
  [num |-> SumFunction([i \in DOMAIN s |-> s[i].above + s[i].above * ratio + s[i].below + s[i].soil]),
   den |-> Cardinality(DOMAIN s)]

carbonSequesteredKg(stock, baseline, area) ==
  LET delta == stock.num - baseline * stock.den
  IN IF delta < 0 THEN [num |-> 0, den |-> 1] ELSE [num |-> delta * area * StockFactor, den |-> stock.den]

CarbonOf(adapter, p, s) ==
  CASE adapter = "verra" -> VerraCarbon(s)
    [] adapter = "satellite" ->
         estimateCarbonSequestration(p.area,
           calculateBiomassChange(p.baseline, SumFunction([i \in DOMAIN s |-> s[i].ndvi]),
                                  Cardinality(DOMAIN s)))
    [] adapter = "iot" ->
         LET delta == Floored(meanSoilCarbonDeltaPpm(s))
         IN [delta EXCEPT !.num = @ * p.area * KG_CO2E_PER_HA_PER_PPM]
    [] adapter = "blue-carbon" ->
         carbonSequesteredKg(meanCarbonStockTonnesPerHa(s, p.ratio), p.baseline, p.area)

MethodologyOf(adapter, p) ==
  CASE adapter = "verra" -> IF p.methodologies = <<>> THEN "VERRA_VCS" ELSE Head(p.methodologies)
    [] adapter = "satellite" -> "REMOTE_SENSING" [] adapter = "iot" -> "IOT_SENSORS"
    [] adapter = "blue-carbon" -> "BLUE_CARBON"
-----------------------------------------------------------------------------
(* Reports. *)

validateForOnChain(r) ==
  /\ r.period_end > r.period_start
  /\ NonNegative(r.carbon_sequestered)
  /\ r.methodology \in SymbolicName
  /\ r.ipfs_evidence_hash.form = "cidv0"

\* sha256 is the digest of the payload, generated_at the moment of signing.
buildOracleReport(input, sha256, generated_at) ==
  LET report == With(With(input, "manifest", createSignedManifest(input, generated_at)),
                     "ipfs_evidence_hash", ipfsCidV0FromBytes(sha256))
  IN IF EvidenceManifestSchema(report.manifest) /\ validateForOnChain(report)
     THEN report ELSE Null

\* The upstream's project record, which only the Verra adapter asks for.
fetchVerraProject(status) ==
  CASE job.adapter # "verra" -> "ok"
    [] Get(job.client, status) = "thrown" -> "HttpError"
    [] Get(job.client, status) = "404" -> "VerraNotFoundError"
    [] Get(job.client, status) = "5xx" -> "VerraAdapterError"
    [] OTHER -> IF job.project.known THEN "ok" ELSE "VerraSchemaError"

\* An answer without a list, such as the body of an error, fails the schema;
\* the Verra adapter alone does not look at the status.
ListError(status) ==
  CASE Get(job.client, status) = "thrown" -> "HttpError"
    [] status # "2xx" -> IF job.adapter = "verra" THEN "SchemaError" ELSE "AdapterError"
    [] OTHER -> IF \A i \in DOMAIN job.items : ValidItem(job.adapter, job.items[i])
                THEN "ok" ELSE "SchemaError"

\* Why an adapter gives up before it has a value to report, or "none".
Failure(first, second) ==
  LET usable == Usable(job.adapter, job.items, job.period)
  IN CASE job.adapter # "verra" /\ ~ValidProject(job.adapter, job.project) -> "ZodError"
       [] fetchVerraProject(first) # "ok" -> fetchVerraProject(first)
       [] ListError(second) # "ok" -> ListError(second)
       [] DOMAIN usable = {} -> "NoUsableDataError"
       [] job.adapter = "iot" /\ meanSoilCarbonDeltaPpm(usable).den = 0 -> "IotNoSoilCarbonDeltaError"
       [] OTHER -> "none"

ReportInput ==
  LET usable == Usable(job.adapter, job.items, job.period)
  IN [project_id |-> job.project.id, provider |-> job.adapter,
      methodology |-> MethodologyOf(job.adapter, job.project),
      period_start |-> job.period.start, period_end |-> job.period.end,
      carbon_sequestered |-> CarbonOf(job.adapter, job.project, usable),
      raw_observations |-> usable, mean_ndwi |-> Undefined]
-----------------------------------------------------------------------------
AdapterInit == job = Idle

Ask(adapter, client, p, period) ==
  /\ job = Idle
  /\ job' = [Idle EXCEPT !.adapter = adapter, !.client = client, !.project = p, !.period = period]

Running == job # Idle /\ job.error = "none" /\ job.report = Null

\* The answer grows by one item.
Deliver(x) ==
  /\ Running /\ Len(job.items) < MaxItems
  /\ job' = [job EXCEPT !.items = Append(@, x)]

Status == {"2xx", "404", "5xx", "timeout"}

\* pollVerraProject, ingestSatelliteMeasurement, aggregateIotProject and
\* aggregateBlueCarbonProject, from the answers to the report.
Answer(first, second, sha256) ==
  /\ Running
  /\ first # "2xx" => job.adapter = "verra" /\ second = "2xx"
  /\ LET report == IF Failure(first, second) = "none" THEN buildOracleReport(ReportInput, sha256, 0) ELSE Null
         error == IF Failure(first, second) # "none" THEN Failure(first, second)
                  ELSE IF report = Null THEN "OracleValidationError" ELSE "none"
     IN job' = [job EXCEPT !.report = report, !.error = error]

Again == job # Idle /\ ~Running /\ job' = Idle

AdapterNext ==
  \/ \E a \in Adapter, c \in Client, period \in Season : \E p \in Site[a] : Ask(a, c, p, period)
  \/ \E x \in UNION {Item[a] : a \in Adapter \cap {job.adapter}} : Deliver(x)
  \/ \E first, second \in Status, d \in Digest : Answer(first, second, d)
  \/ Again

AdapterSpec == AdapterInit /\ [][AdapterNext]_adapterVars
-----------------------------------------------------------------------------
(***************************************************************************)
(* Properties                                                              *)
(***************************************************************************)
\* Reference: the first and the last reading of a device are found by time.
Extremes(d) ==
  LET mine == {i \in DOMAIN job.items : job.items[i].device = d /\ job.items[i].ppm # Null}
      at(i) == job.items[i].at
      first == {i \in mine : \A j \in mine : at(i) <= at(j)}
      last == {i \in mine : \A j \in mine : at(j) <= at(i)}
  IN IF Cardinality(mine) < 2 THEN {}
     ELSE {job.items[l].ppm - job.items[f].ppm : f \in first, l \in last}

Devices == {job.items[i].device : i \in DOMAIN job.items}

\* Readings may arrive in any order: the carbon of a report is the mean change
\* between the earliest and the latest reading of the devices that have two
\* (meanSoilCarbonDeltaPpm), no matter which came first over the wire.
CarbonIgnoresArrivalOrder ==
  job.report # Null /\ job.adapter = "iot" =>
    LET paired == {d \in Devices : Extremes(d) # {}}
    IN \E pick \in [paired -> UNION {Extremes(d) : d \in paired}] :
         /\ \A d \in paired : pick[d] \in Extremes(d)
         /\ job.report.carbon_sequestered =
              [num |-> (IF SumFunction(pick) < 0 THEN 0 ELSE SumFunction(pick))
                         * job.project.area * KG_CO2E_PER_HA_PER_PPM,
               den |-> Cardinality(paired)]

\* The API, with copies of its own of the code, accepts what the scripts sign:
\* the manifest of every report verifies after its trip as JSON and matches
\* the report with the dates in seconds, and the evidence reference has the
\* digest that the scripts read in it.
SignedReportsAreAccepted ==
  job.report # Null =>
    LET r == job.report
        dto == [r EXCEPT !.period_start = @ * DaySeconds, !.period_end = @ * DaySeconds]
    IN /\ verifyManifest(Received(r.manifest))
       /\ verifyManifestMatchesReport(r.manifest, dto)
       /\ isValidEvidenceHash(r.ipfs_evidence_hash)
       /\ encodeCid(r.ipfs_evidence_hash) = decodeCidV0(r.ipfs_evidence_hash)
=============================================================================
