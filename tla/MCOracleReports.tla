--------------------------- MODULE MCOracleReports ---------------------------
(* Small instances of OracleReports, OracleAdapters and CrossSource: the    *)
(* service, the scripts before it and the detector behind it, one at a time. *)
EXTENDS OracleReports, OracleAdapters, CrossSource, TLC

CONSTANTS M1, M2, S1
VARIABLE part

MCPrefix == <<2, 3>>
MCKeyOf == [s \in Spelling |-> CHOOSE p \in Project : TRUE]
MCSymmetry == Permutations(Address)

\* Submissions: with a manifest that fits, without one, with a manifest of
\* another methodology, with a fraction, with a malformed reference and with
\* a manifest that was tampered with.
Of(n, d) == [num |-> n, den |-> d]
Signed == createSignedManifest([project_id |-> S1, methodology |-> M1, period_start |-> 1, period_end |-> 2,
                                carbon_sequestered |-> Of(2, 1)], 0)
Submission(methodology, start, carbon, evidence, manifest) ==
  [methodology |-> methodology, period_start |-> start, period_end |-> start + 2,
   carbon_sequestered |-> carbon, evidence |-> evidence, manifest |-> manifest]
MCDto == {Submission(M1, 2, Of(2, 1), NoEvidence, Signed), Submission(M1, 4, Of(2, 1), Hex(<<1>>), NoManifest),
          Submission(M2, 2, Of(2, 1), NoEvidence, Signed), Submission(M1, 4, Of(1, 2), CidOf(<<3>>), NoManifest),
          Submission(M1, 4, Of(2, 1), NotText, NoManifest),
          Submission(M1, 2, Of(2, 1), NoEvidence, [Signed EXCEPT !.generated_at = 1])}

\* What the four upstreams send: with and without status, cloud, values that
\* the schemas refuse, and days inside and outside the period.
MCItem == [a \in Adapter |->
  CASE a = "verra" -> [status : {"VERIFIED", "PENDING"}, start : {1}, end : {2, 3}, kg : {-1, 2}]
    [] a = "satellite" -> [date : {1, 3}, cloud : {10, 60}, ndvi : {1, 3, 5}]
    [] a = "iot" -> [device : {"d1", "d2"}, at : {1, 2}, ppm : {Null, 1, 3}, water : {Null}]
    [] a = "blue-carbon" -> [date : {1, 3}, above : {1, 2}, below : {0}, soil : {-1, 1}]]
MCSite == [a \in Adapter |->
  CASE a = "verra" -> [id : {"p"}, known : BOOLEAN, methodologies : {<<>>, <<"VM-1">>}]
    [] a = "satellite" -> [id : {"p"}, area : {0, 2}, baseline : {2, 4}]
    [] a = "iot" -> [id : {"p"}, area : {2}]
    [] a = "blue-carbon" -> [id : {"p"}, area : {2}, baseline : {3}, ratio : {1}]]
MCSeason == {[start |-> 1, end |-> 2], [start |-> 1, end |-> 1]}
MCSymbolic == {"VERRA_VCS", "REMOTE_SENSING", "IOT_SENSORS", "BLUE_CARBON"}

MCWords == {{"verra"}, {"iot"}}

Init == part \in {"service", "scripts", "detector"} /\ ReportsInit /\ AdapterInit /\ CrossInit
Next ==
  \/ part = "service" /\ ReportsNext /\ UNCHANGED <<part, adapterVars, listed>>
  \/ part = "scripts" /\ AdapterNext /\ UNCHANGED <<part, reportVars, listed>>
  \/ part = "detector" /\ CrossNext /\ UNCHANGED <<part, reportVars, adapterVars>>

Spec == Init /\ [][Next]_<<part, reportVars, adapterVars, listed>>
=============================================================================
