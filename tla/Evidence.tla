------------------------------ MODULE Evidence ------------------------------
(***************************************************************************)
(* Evidence references and signed manifests: ipfs/evidence.ts and          *)
(* oracle/manifest.ts on the side of the oracle scripts, and the copies    *)
(* that the API keeps (cid.util.ts, oracle/manifest-verification.ts).      *)
(*                                                                         *)
(* SHA-256 and HMAC are taken as free of collisions: a signature is the    *)
(* secret together with the text it was made from.  A carbon value is a    *)
(* quotient [num, den]; den = 0 is JavaScript's NaN.                       *)
(***************************************************************************)
EXTENDS CidEncoding

CONSTANTS
  Undefined,   \* JavaScript's undefined
  DaySeconds, Milli,
  MsFrom       \* period values from here on count as milliseconds (1e11)

ASSUME EvidenceAssumption == {DaySeconds, Milli, MsFrom} \subseteq Nat \ {0}
-----------------------------------------------------------------------------
(* References: base 58 is written a second time in the scripts, alike. *)

encodeBase58btc(bytes) == base58Encode(bytes)
decodeBase58btc(text) == base58Decode(text)

ipfsCidV0FromBytes(sha256) == Cid(encodeBase58btc(CIDV0_PREFIX \o sha256))

\* The digest behind a CIDv0, NoDigest where the code throws.
decodeCidV0(ref) ==
  LET decoded == IF ref.form = "cidv0" THEN decodeBase58btc(ref.text) ELSE <<>> IN
  IF Len(decoded) = DigestLength + 2 /\ SubSeq(decoded, 1, 2) = CIDV0_PREFIX
  THEN SubSeq(decoded, 3, Len(decoded)) ELSE NoDigest

isValidEvidenceHash(ref) ==
  (ref.form = "hex" /\ Len(ref.text) = DigestLength) \/ decodeCidV0(ref) # NoDigest
-----------------------------------------------------------------------------
(* Manifests. *)

\* Canonical text: keys in one order, undefined values left out.
canonicalJson(record) ==
  LET kept == {k \in DOMAIN record : record[k] # Undefined} IN [k \in kept |-> record[k]]

\* What arrives when a record is sent as JSON.
Received(record) == canonicalJson(record)

signEvidence(payload, secret) == [secret |-> secret, text |-> canonicalJson(payload)]

NonNegative(carbon) == carbon.den > 0 /\ carbon.num >= 0

\* Values that the schema does not accept; dates are day numbers.
EvidenceManifestSchema(m) == /\ {m.project_id, m.methodology} \cap {Undefined} = {}
                             /\ NonNegative(m.carbon_sequestered)

With(record, key, value) == [k \in DOMAIN record \cup {key} |-> IF k = key THEN value ELSE record[k]]

DEFAULT_MANIFEST_SECRET == "ecomint-oracle-provider-secret-key"

createSignedManifest_Unstamped(input, generated_at) ==
  With(With(input, "generated_at", generated_at), "signature", signEvidence(input, DEFAULT_MANIFEST_SECRET))

\* The schema is checked by the caller: the code throws if it fails.
createSignedManifest(input, generated_at) ==
  LET payload == With(input, "generated_at", generated_at)
  IN With(payload, "signature", signEvidence(payload, DEFAULT_MANIFEST_SECRET))

verifyManifest(m) ==
  /\ EvidenceManifestSchema(m)
  /\ m.signature = signEvidence([k \in DOMAIN m \ {"signature"} |-> m[k]], DEFAULT_MANIFEST_SECRET)

\* The day of a period value: seconds, or milliseconds if it is large.
DateOf(t) == (IF t < MsFrom THEN t ELSE t \div Milli) \div DaySeconds

verifyManifestMatchesReport_AnyMethodology(m, dto) ==
  /\ m.project_id = dto.project_id
  /\ m.period_start = DateOf(dto.period_start) /\ m.period_end = DateOf(dto.period_end)
  /\ m.carbon_sequestered = dto.carbon_sequestered

verifyManifestMatchesReport(m, dto) ==
  /\ m.project_id = dto.project_id /\ m.methodology = dto.methodology
  /\ m.period_start = DateOf(dto.period_start) /\ m.period_end = DateOf(dto.period_end)
  /\ m.carbon_sequestered = dto.carbon_sequestered
=============================================================================
