----------------------------- MODULE KycRecords -----------------------------
(***************************************************************************)
(* KYC records of the API: KycStoreService (memory, a snapshot file and an *)
(* append-only audit log), KycService (a Redis copy of each record, lazy   *)
(* expiry) and the requests that go through them: status changes, KycGuard *)
(* and the lookups of login and profile.                                   *)
(*                                                                         *)
(* One process, one Redis connection: commands take effect in the order in *)
(* which they are issued.  Everything between two awaits is one step.  A   *)
(* record is its status, its expiry and the change that made it, numbered  *)
(* like the audit entries (source, actor and reason are left out).         *)
(***************************************************************************)
EXTENDS Naturals, Sequences, FiniteSets, FiniteSetsExt

CONSTANTS
  Applicant,    \* addresses
  Job,        \* requests served at the same time
  Assigned,   \* statuses that requests assign, a subset of KycStatus
  ExpiresAt,  \* expiry times that requests give, 0 for none
  CacheTtl,   \* CACHE_TTL_SECONDS, in ticks
  KycFaults,  \* the faults that may happen, a subset of KycFault
  MaxKycFaults, MaxKycTime, MaxChanges  \* bounds: faults, clock, changes made

KycFault == {"redis",   \* a Redis call fails; RedisService swallows it
             "disk",    \* a file cannot be written or read
             "crash"}   \* the process dies and is started again

KycStatus == {"NONE", "PENDING", "REJECTED", "EXPIRED", "VERIFIED", "ACCREDITED"}

ASSUME KycAssumption ==
  /\ Assigned \subseteq KycStatus /\ ExpiresAt \subseteq Nat
  /\ CacheTtl \in Nat \ {0} /\ KycFaults \subseteq KycFault
  /\ {MaxKycFaults, MaxKycTime, MaxChanges} \subseteq Nat

VARIABLES
  time,       \* Date.now()
  records,    \* KycStoreService.records
  snapshot,   \* kyc-records.json: none or one set of records
  audit,      \* kyc-audit.log.jsonl
  writeLock,  \* changes waiting to be persisted, the first one in progress
  writing,    \* the first one: the records it saves, and what it has written
  cache,      \* Redis kyc:<address>: none or one record, and the ticks it has left
  job,        \* the requests in progress
  changes,    \* changes made so far
  answered,   \* history: per account, the last change that was answered
  refused,    \* history: per account, since when an answered change refuses it, 0 if none
  unsaved,    \* history: whether a file could not be written or read
  kycFaults   \* faults so far

kycVars == <<time, records, snapshot, audit, writeLock, writing, cache, job, changes,
             answered, refused, unsaved, kycFaults>>

NoRecord == [status |-> "NONE", expiresAt |-> 0, change |-> 0]
Idle == [pc |-> "idle", op |-> "none", account |-> CHOOSE a \in Applicant : TRUE, rec |-> NoRecord,
         at |-> 0, verdict |-> "none"]
NotWriting == [on |-> FALSE, records |-> [a \in Applicant |-> NoRecord], line |-> FALSE, file |-> FALSE]

KycInit ==
  /\ time = 1 /\ changes = 0 /\ kycFaults = 0 /\ unsaved = FALSE
  /\ records = [a \in Applicant |-> NoRecord]
  /\ snapshot = {} /\ audit = <<>> /\ writeLock = <<>> /\ writing = NotWriting
  /\ cache = [a \in Applicant |-> {}]
  /\ job = [j \in Job |-> Idle]
  /\ answered = [a \in Applicant |-> 0] /\ refused = [a \in Applicant |-> 0]

Fails(fault) == fault \in KycFaults /\ kycFaults < MaxKycFaults /\ kycFaults' = kycFaults + 1

Exists(a) == records[a].change # 0
-----------------------------------------------------------------------------
isExpired(rec) == rec.expiresAt # 0 /\ rec.expiresAt <= time

resolveEffectiveStatus(rec) ==
  IF isExpired(rec) /\ rec.status \in {"VERIFIED", "ACCREDITED"} THEN "EXPIRED" ELSE rec.status

STATUS_ORDER == <<"NONE", "PENDING", "REJECTED", "EXPIRED", "VERIFIED", "ACCREDITED">>

\* Where an unknown status would rank, indexOf gives -1; every status is known.
compareStatus(actual, required) ==
  \E i, k \in 1..Len(STATUS_ORDER) :
    STATUS_ORDER[i] = actual /\ STATUS_ORDER[k] = required /\ i >= k

\* Statuses that no date makes eligible.
Refuses(status) == ~compareStatus(status, "VERIFIED")

Eligible(rec) == compareStatus(resolveEffectiveStatus(rec), "VERIFIED")
-----------------------------------------------------------------------------
(* KycStoreService *)

\* No expiry in the change leaves the one there was.
Changed(old, status, e) ==
  [status |-> status, expiresAt |-> IF e = 0 THEN old.expiresAt ELSE e, change |-> changes + 1]

IsNoChange(a, status, e) == Exists(a) /\ records[a].status = status /\ records[a].expiresAt = e

\* applyTransition up to its first await: memory is changed at once, the files
\* later.  A change to what the record says already is answered at once.
applyTransition(j, a, status, e) ==
  IF IsNoChange(a, status, e)
  THEN /\ job' = [job EXCEPT ![j] = Idle]
       /\ UNCHANGED <<records, writeLock, changes, refused>>
  ELSE /\ changes < MaxChanges
       /\ LET rec == Changed(records[a], status, e)
          IN  /\ records' = [records EXCEPT ![a] = rec]
              /\ writeLock' = Append(writeLock, [job |-> j, address |-> a, status |-> status,
                                                 expiresAt |-> e, change |-> rec.change])
              /\ job' = [job EXCEPT ![j].pc = "persist", ![j].account = a, ![j].rec = rec,
                                         ![j].verdict = "none"]
              /\ refused' = [refused EXCEPT ![a] = IF Refuses(status) THEN @ ELSE 0]
       /\ changes' = changes + 1

\* The lock is free: the records of this moment go into the snapshot.
Persist ==
  /\ writeLock # <<>> /\ ~writing.on
  /\ writing' = [NotWriting EXCEPT !.on = TRUE, !.records = records]
  /\ UNCHANGED <<time, records, snapshot, audit, writeLock, cache, job, changes, answered,
                 refused, unsaved, kycFaults>>

appendAuditLine ==
  /\ writing.on /\ ~writing.line
  /\ audit' = Append(audit, Head(writeLock))
  /\ writing' = [writing EXCEPT !.line = TRUE]
  /\ UNCHANGED <<time, records, snapshot, writeLock, cache, job, changes, answered, refused,
                 unsaved, kycFaults>>

\* Written beside the old file and renamed over it.
writeSnapshot ==
  /\ writing.on /\ ~writing.file
  /\ snapshot' = {writing.records}
  /\ writing' = [writing EXCEPT !.file = TRUE]
  /\ UNCHANGED <<time, records, audit, writeLock, cache, job, changes, answered, refused,
                 unsaved, kycFaults>>

Written_AnyOf == writing.line \/ writing.file

Written == writing.line /\ writing.file

\* Both writes are done, or one has failed, which is logged and forgotten.
PersistEnds ==
  /\ writing.on
  /\ \/ Written /\ UNCHANGED <<unsaved, kycFaults>>
     \/ ~Written /\ Fails("disk") /\ unsaved' = TRUE
  /\ job' = [job EXCEPT ![Head(writeLock).job].pc = "cache"]
  /\ writeLock' = Tail(writeLock) /\ writing' = NotWriting
  /\ UNCHANGED <<time, records, snapshot, audit, cache, changes, answered, refused>>

Lines(a) == {i \in DOMAIN audit : audit[i].address = a}

Dated(a) == {i \in Lines(a) : audit[i].expiresAt # 0}

\* Every line is applied to the records loaded, the oldest line first.
replayAudit(from) ==
  [a \in Applicant |->
     IF Lines(a) = {} THEN from[a]
     ELSE [status |-> audit[Max(Lines(a))].status, change |-> audit[Max(Lines(a))].change,
           expiresAt |-> IF Dated(a) = {} THEN from[a].expiresAt ELSE audit[Max(Dated(a))].expiresAt]]

\* Without a snapshot file the store starts out empty; an unreadable one is
\* taken for empty and the log is replayed.
loadSnapshot(readable) ==
  records' = IF snapshot = {} THEN [a \in Applicant |-> NoRecord]
             ELSE replayAudit(IF readable THEN CHOOSE s \in snapshot : TRUE
                              ELSE [a \in Applicant |-> NoRecord])

\* The process dies, whatever it was doing, and comes back with its files.
onModuleInit ==
  /\ Fails("crash")
  /\ \E readable \in BOOLEAN :
       /\ readable \/ "disk" \in KycFaults
       /\ loadSnapshot(readable)
       /\ unsaved' = (unsaved \/ ~readable)
  /\ writeLock' = <<>> /\ writing' = NotWriting
  /\ job' = [j \in Job |-> Idle]
  /\ UNCHANGED <<time, snapshot, audit, cache, changes, answered, refused>>
-----------------------------------------------------------------------------
(* KycService *)

\* A status is changed: by an administrator, the provider, or on rejection.
transitionStatus(j, a, status, e) ==
  /\ job[j].pc = "idle"
  /\ applyTransition(j, a, status, e)
  /\ UNCHANGED <<time, snapshot, audit, writing, cache, answered, unsaved, kycFaults>>

Cached_Overlong(rec) == {[rec |-> rec, left |-> CacheTtl + 1]}

Cached(rec) == {[rec |-> rec, left |-> CacheTtl]}

\* SET kyc:<address>, with the record the request holds.
writeThroughCache(a, rec) ==
  \/ cache' = [cache EXCEPT ![a] = Cached(rec)] /\ UNCHANGED kycFaults
  \/ Fails("redis") /\ UNCHANGED cache

\* DEL and SET; a failure of both leaves the copy there was.
invalidateCache(a, rec) ==
  \/ writeThroughCache(a, rec)
  \/ Fails("redis") /\ cache' = [cache EXCEPT ![a] = {}]

\* Saved: the change is cached and the request answered.  Changes get here in
\* the order of writeLock, and their commands leave on one connection.
AnswerChange(j) ==
  /\ job[j].pc = "cache"
  /\ \A i \in Job : job[i].pc = "cache" => job[i].rec.change >= job[j].rec.change
  /\ LET a == job[j].account
     IN  /\ invalidateCache(a, job[j].rec)
         /\ answered' = [answered EXCEPT ![a] = IF @ < job[j].rec.change THEN job[j].rec.change ELSE @]
         /\ refused' = [refused EXCEPT ![a] = IF @ = 0 /\ records[a].change = job[j].rec.change
                                                /\ Refuses(records[a].status) THEN time ELSE @]
  /\ job' = [job EXCEPT ![j] = Idle]
  /\ UNCHANGED <<time, records, snapshot, audit, writeLock, writing, changes, unsaved>>

\* getRecord: GET kyc:<address>; nothing is found when the call fails.
getRecord(j, op, a) ==
  /\ job[j].pc = "idle"
  /\ \E found \in {cache[a], {}} :
       /\ IF found = cache[a] THEN UNCHANGED kycFaults ELSE Fails("redis")
       /\ job' = [job EXCEPT ![j] =
            [pc |-> IF found = {} THEN "fetch" ELSE "judge", op |-> op, account |-> a,
             rec |-> IF found = {} THEN NoRecord ELSE (CHOOSE c \in found : TRUE).rec,
             at |-> time, verdict |-> "none"]]
  /\ UNCHANGED <<time, records, snapshot, audit, writeLock, writing, cache, changes, answered,
                 refused, unsaved>>

\* Not cached: from the store into the cache; an unknown account is recorded
\* as PENDING.
Fetch(j) ==
  /\ job[j].pc = "fetch"
  /\ LET a == job[j].account
     IN  IF Exists(a)
         THEN /\ writeThroughCache(a, records[a])
              /\ job' = [job EXCEPT ![j].pc = "judge", ![j].rec = records[a], ![j].at = time]
              /\ UNCHANGED <<records, writeLock, changes, refused>>
         ELSE applyTransition(j, a, "PENDING", 0) /\ UNCHANGED <<cache, kycFaults>>
  /\ UNCHANGED <<time, snapshot, audit, writing, answered, unsaved>>

\* getFullStatus: a verification found expired is recorded as EXPIRED, which
\* getStatus only reports.
Judge(j) ==
  /\ job[j].pc = "judge"
  /\ IF job[j].op = "full" /\ resolveEffectiveStatus(job[j].rec) # job[j].rec.status
     THEN applyTransition(j, job[j].account, "EXPIRED", job[j].rec.expiresAt)
     ELSE /\ job' = [job EXCEPT ![j] = IF Eligible(job[j].rec)
                                    THEN [Idle EXCEPT !.account = job[j].account,
                                            !.at = job[j].at, !.verdict = "eligible"]
                                    ELSE Idle]
          /\ UNCHANGED <<records, writeLock, changes, refused>>
  /\ UNCHANGED <<time, snapshot, audit, writing, cache, answered, unsaved, kycFaults>>

\* A tick; what is cached for CacheTtl ticks is gone.
KycTick ==
  /\ time < MaxKycTime /\ time' = time + 1
  /\ cache' = [a \in Applicant |-> {[c EXCEPT !.left = @ - 1] : c \in {d \in cache[a] : d.left > 1}}]
  /\ UNCHANGED <<records, snapshot, audit, writeLock, writing, job, changes, answered, refused,
                 unsaved, kycFaults>>

\* Who goes through the service: KycGuard and the KYC endpoints read the full
\* status, login reads the status, an administrator or the provider changes it.
KycGuard(j, a) == getRecord(j, "full", a)

getProfile(j, a) == getRecord(j, "status", a)

updateKyc(j, a, status, e) == transitionStatus(j, a, status, e)

KycNext ==
  \/ \E j \in Job :
       \/ \E a \in Applicant :
            \/ \E status \in Assigned, e \in ExpiresAt : updateKyc(j, a, status, e)
            \/ KycGuard(j, a) \/ getProfile(j, a)
       \/ AnswerChange(j) \/ Fetch(j) \/ Judge(j)
  \/ Persist \/ appendAuditLine \/ writeSnapshot \/ PersistEnds \/ onModuleInit \/ KycTick

KycSpec == KycInit /\ [][KycNext]_kycVars
-----------------------------------------------------------------------------
\* A change of status that was answered is not undone by a crash, whatever was
\* being written when it happened, as long as the files could be written.
AnsweredChangesSurvive ==
  unsaved \/ \A a \in Applicant : records[a].change >= answered[a]

\* Once a change to a status that refuses an account is answered, KycGuard and
\* login stop letting it through within the life of a cached copy, whatever
\* Redis calls fail, crashes lose and however the requests interleave.
RefusalIsHonoured ==
  unsaved \/ \A j \in Job :
    job[j].pc = "idle" /\ job[j].verdict = "eligible" =>
      LET since == refused[job[j].account] IN since = 0 \/ job[j].at < since + CacheTtl
=============================================================================
