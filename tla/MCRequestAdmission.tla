------------------------- MODULE MCRequestAdmission -------------------------
(* Small instances of Admission, Idempotency and KycRecords, what a request *)
(* passes through before the service it is for, one at a time.              *)
EXTENDS Admission, Idempotency, KycRecords, TLC

CONSTANTS T1, T2, R1, R2, R3, J1, J2

VARIABLE part

RequestInit ==
  /\ part \in {"admission", "key", "kyc"} /\ AdmInit /\ Init /\ KycInit
  /\ part # "key" => \A r \in Request : req[r].payload = "p1"

RequestNext ==
  \/ part = "admission" /\ AdmNext /\ UNCHANGED <<part, idemVars, kycVars>>
  \/ part = "key" /\ Next /\ UNCHANGED <<part, admVars, kycVars>>
  \/ part = "kyc" /\ KycNext /\ UNCHANGED <<part, admVars, idemVars>>

RequestSpec == RequestInit /\ [][RequestNext]_<<part, admVars, idemVars, kycVars>>
=============================================================================
