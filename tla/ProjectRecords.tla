--------------------------- MODULE ProjectRecords ---------------------------
(***************************************************************************)
(* What a project keeps off the ledger: metadata and documents on IPFS     *)
(* (IpfsService, IpfsUploadPolicy), the digest of the metadata in the      *)
(* registry, and the list of documents in Redis (ProjectsService).         *)
(* Requests run side by side; the pinning service and Redis may fail.      *)
(***************************************************************************)
EXTENDS CidEncoding, FiniteSets, SequencesExt

CONSTANTS
  Uploader,     \* requests that can be in progress at once
  File,         \* files: records of size, ext, mime, content and safe
  Batch,        \* the batches that are uploaded, sequences of files
  MaxFileBytes, ScanEnabled,
  Boundary,     \* boundaries of registrations
  MaxFaults     \* bound: failures

ASSUME RecordsAssumption ==
  /\ MaxFileBytes \in Nat /\ ScanEnabled \in BOOLEAN /\ MaxFaults \in Nat
  /\ \A b \in Batch : b \in Seq(File)

VARIABLES
  documents,  \* Redis project:<id>:documents
  upload,     \* requests in progress
  kept,       \* history: files of uploads that were alone and went well
  metadata,   \* the reference under which the metadata was pinned
  digest,     \* the registry's metadata_ipfs_hash
  trouble     \* failures so far

recordVars == <<documents, upload, kept, metadata, digest, trouble>>

NoUpload == [pc |-> "none", batch |-> <<>>, done |-> 0, read |-> {}, alone |-> TRUE]

RecordsInit ==
  /\ documents = {} /\ kept = {} /\ upload = [u \in Uploader |-> NoUpload]
  /\ metadata = NotText /\ digest = NoDigest /\ trouble = 0

Trouble == trouble < MaxFaults /\ trouble' = trouble + 1
Ranged(s) == {s[i] : i \in DOMAIN s}
-----------------------------------------------------------------------------
(* Uploads. *)

ALLOWED_MIME_TYPES ==
  [mime \in {"pdf", "json", "bin", "text", "png", "jpeg", "svg"} |->
     CASE mime = "bin" -> {"ser", "bin"} [] mime = "text" -> {"txt", "md"}
       [] mime = "jpeg" -> {"jpg", "jpeg"} [] OTHER -> {mime}]

blockedExtensions == {"exe", "dll", "sh", "bat", "cmd", "msi", "js", "jar", "apk"}

\* A file without a declared type counts as bytes.
allowedMimeFor(mime) == IF mime \in DOMAIN ALLOWED_MIME_TYPES THEN mime
                        ELSE IF mime = "" THEN "bin" ELSE "none"

\* The type that the first bytes give away, if any.
sniffMime(f) == IF f.content \in {"pdf", "png", "jpeg", "svg", "json"} THEN f.content ELSE "none"

validate(f) ==
  LET allowed == allowedMimeFor(f.mime) IN
  /\ f.size > 0 /\ f.size <= MaxFileBytes
  /\ f.ext \notin blockedExtensions
  /\ allowed # "none"
  /\ allowed = "bin" \/ f.ext \in ALLOWED_MIME_TYPES[allowed]
  /\ allowed = "bin" \/ sniffMime(f) \in {"none", allowed}
  /\ ScanEnabled => f.safe

Others(u) == {w \in Uploader \ {u} : upload[w].pc = "write"}

uploadDocuments(u, batch) ==
  /\ upload[u].pc = "none"
  /\ upload' = [upload EXCEPT ![u] = [NoUpload EXCEPT !.pc = "pin", !.batch = batch]]
  /\ UNCHANGED <<documents, kept, metadata, digest, trouble>>

\* One file: checked and pinned.  A refusal or a failure ends the request;
\* the files before it stay pinned.
uploadFile(u) ==
  LET q == upload[u]
      f == q.batch[q.done + 1] IN
  /\ q.pc = "pin" /\ q.done < Len(q.batch)
  /\ \/ /\ validate(f)
        /\ upload' = [upload EXCEPT ![u].done = @ + 1] /\ UNCHANGED trouble
     \/ /\ IF validate(f) THEN Trouble ELSE UNCHANGED trouble
        /\ upload' = [upload EXCEPT ![u] = NoUpload]
  /\ UNCHANGED <<documents, kept, metadata, digest>>

\* The list is read; a failed read looks like an empty list.
ReadDocuments(u) ==
  /\ upload[u].pc = "pin" /\ upload[u].done = Len(upload[u].batch)
  /\ \E read \in {documents, {}} :
       /\ IF read = documents THEN UNCHANGED trouble ELSE Trouble
       /\ upload' = [w \in Uploader |->
            IF w = u THEN [upload[u] EXCEPT !.pc = "write", !.read = read, !.alone = Others(u) = {}]
            ELSE IF w \in Others(u) THEN [upload[w] EXCEPT !.alone = FALSE] ELSE upload[w]]
       /\ kept' = IF read = documents THEN kept ELSE {}
  /\ UNCHANGED <<documents, metadata, digest>>

Merged_Replacing(read, new) == new

Merged(read, new) == read \cup new

\* The list is written back, unless Redis fails, which goes unnoticed.
WriteDocuments(u) ==
  LET q == upload[u] IN
  /\ q.pc = "write"
  /\ \/ /\ documents' = Merged(q.read, Ranged(q.batch)) /\ UNCHANGED trouble
        /\ kept' = IF q.alone THEN kept \cup Ranged(q.batch) ELSE kept
     \/ Trouble /\ UNCHANGED <<documents, kept>>
  /\ upload' = [upload EXCEPT ![u] = NoUpload]
  /\ UNCHANGED <<metadata, digest>>
-----------------------------------------------------------------------------
(* Metadata. *)

\* The outer ring of a polygon less its holes, but not less than nothing.
calculateGeometryAreaHa(polygons) ==
  LET positive(n) == IF n > 0 THEN n ELSE 0
      net(polygon) == FoldLeft(LAMBDA area, hole : area - hole.area, Head(polygon).area, Tail(polygon))
  IN  FoldLeft(LAMBDA area, polygon : area + positive(net(polygon)), 0, polygons)

\* A boundary: type, closed rings of enough points in range, and an area that
\* is within a tenth of the declared one.
validateGeoJsonBoundary(b) ==
  /\ b.type \in {"Polygon", "MultiPolygon"}
  /\ b.polygons # <<>>
  /\ \A polygon \in Ranged(b.polygons) :
       polygon # <<>> /\ \A r \in Ranged(polygon) : r.points >= 4 /\ r.inRange /\ r.closed
  /\ LET area == calculateGeometryAreaHa(b.polygons) IN
     b.declared > 0 => 10 * (IF area > b.declared THEN area - b.declared ELSE b.declared - area)
                         <= b.declared

\* ProjectsService.register: check, pin, register the digest; encodeCid throws if it finds
\* none.  A failure on the way leaves no project behind.
registerProject(b, d) ==
  /\ metadata = NotText /\ validateGeoJsonBoundary(b)
  /\ \/ metadata' = CidOf(d) /\ digest' = encodeCid(CidOf(d)) /\ UNCHANGED trouble
     \/ Trouble /\ UNCHANGED <<metadata, digest>>
  /\ UNCHANGED <<documents, upload, kept>>

\* buildProjectResponse and exportProject look the metadata up under this.
metadataIpfsHash == decodeCid(digest)

RecordsNext ==
  \/ \E u \in Uploader : \/ \E b \in Batch : uploadDocuments(u, b)
                         \/ uploadFile(u) \/ ReadDocuments(u) \/ WriteDocuments(u)
  \/ \E b \in Boundary, d \in Digest : registerProject(b, d)

RecordsSpec == RecordsInit /\ [][RecordsNext]_recordVars
-----------------------------------------------------------------------------
\* A document that was added while no other list was being written stays in
\* the list, whatever is uploaded, refused or left unpinned afterwards, short
\* of a list that Redis could not read.
DocumentsAreKept == kept \subseteq documents

\* decodeCid "Returns the original CIDv0 (base58)" (cid.util.ts): a project's
\* metadata is looked up where it was pinned.
MetadataIsFound == digest # NoDigest => metadataIpfsHash = metadata
=============================================================================
