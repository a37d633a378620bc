------------------------------ MODULE Evidence -------------------------------
(***************************************************************************)
(* Files an endpoint uploads as evidence (open_edr_mdr_agent/api/          *)
(* evidence.py: build_agent_evidence; object_storage.py: LocalObjectStore; *)
(* store.py: store_agent_evidence, _insert_raw_evidence, get_raw_evidence).*)
(*                                                                         *)
(* The object of an upload is a file named after the endpoint, the path    *)
(* with its special characters replaced, and the hash of the content.  It  *)
(* is overwritten in place, outside the database transaction; the row is   *)
(* inserted afterwards and, if there is one, ignored.  So the row keeps    *)
(* the metadata of the first upload and the object that of the last.       *)
(*                                                                         *)
(* Definitions named X_Y are mutants: X as a plausible slip would have it. *)
(***************************************************************************)
EXTENDS Naturals, FiniteSets

CONSTANTS
    Paths, Segment,   \* paths on the endpoint, and _safe_segment of each
    Contents,         \* contents a file may have; they stand for their hash
    Purposes,         \* metadata: the reason and the case of a collection
    NoPurpose,        \* metadata without a reason or without a case
    Uploaders,        \* threads that serve uploads
    NoFile, Torn,     \* no object, and an object that is not whole
    MaxUploads, MaxFailures   \* bounds

ASSUME EvidenceAssumption ==
    /\ DOMAIN Segment = Paths /\ NoPurpose \notin Purposes
    /\ MaxUploads \in Nat /\ MaxFailures \in Nat

VARIABLES
    files,      \* objects on disk, by key
    rows,       \* rows of raw_evidence, by key
    upload,     \* what each thread is in the middle of
    disturbed,  \* history: keys an interrupted or overlapping write has hit
    again,      \* history: keys written more than once
    uploads, failures   \* history: how many

evidenceVars == <<files, rows, upload, disturbed, again, uploads, failures>>

-----------------------------------------------------------------------------
Request == [kind : {"file", "memory"}, path : Paths, content : Contents,
            purpose : Purposes \cup {NoPurpose}, declared : Contents]
Keys == {"file", "memory"} \X {Segment[p] : p \in Paths} \X Contents
\* No object, and half of one: not what anybody uploaded.
ASSUME ObjectsAssumption == NoFile # Torn /\ {NoFile, Torn} \cap Request = {}

NoUpload == [pc |-> "idle", req |-> NoFile]

\* _object_key and object_id: kind, path and hash; two paths may share a segment.
Key_PathOnly(req) == <<req.kind, Segment[req.path], CHOOSE c \in Contents : TRUE>>
Key(req) == <<req.kind, Segment[req.path], req.content>>

Uploading(k) == {u \in Uploaders : upload[u].pc = "write" /\ Key(upload[u].req) = k}

EvidenceInit ==
    /\ files = [k \in Keys |-> NoFile] /\ rows = [k \in Keys |-> NoFile]
    /\ upload = [u \in Uploaders |-> NoUpload]
    /\ disturbed = {} /\ again = {} /\ uploads = 0 /\ failures = 0

\* build_agent_evidence: the checks before anything is stored.  A refused
\* upload (400) changes nothing.
Acceptable(req) ==
    /\ req.kind = "file" => req.purpose # NoPurpose
    /\ req.declared = req.content

Receive(u, req) ==
    /\ upload[u] = NoUpload /\ uploads < MaxUploads /\ Acceptable(req)
    /\ upload' = [upload EXCEPT ![u] = [pc |-> "open", req |-> req]]
    /\ uploads' = uploads + 1
    /\ UNCHANGED <<files, rows, disturbed, again, failures>>

\* put_json, write_bytes: the file is truncated, then written.
Open(u) ==
    LET k == Key(upload[u].req) IN
    /\ upload[u].pc = "open"
    /\ again' = IF files[k] = NoFile THEN again ELSE again \cup {k}
    /\ files' = [files EXCEPT ![k] = Torn]
    /\ disturbed' = IF Uploading(k) = {} THEN disturbed \ {k} ELSE disturbed \cup {k}
    /\ upload' = [upload EXCEPT ![u].pc = "write"]
    /\ UNCHANGED <<rows, uploads, failures>>

\* Of two writers that had the file open together, the longer may leave a tail.
Write(u) ==
    LET k == Key(upload[u].req) IN
    /\ upload[u].pc = "write"
    /\ \E whole \in IF k \in disturbed THEN BOOLEAN ELSE {TRUE} :
          files' = [files EXCEPT ![k] = IF whole THEN upload[u].req ELSE Torn]
    /\ upload' = [upload EXCEPT ![u].pc = "commit"]
    /\ UNCHANGED <<rows, disturbed, again, uploads, failures>>

\* insert or ignore into raw_evidence, and the commit.
Record(old, req) == IF old = NoFile THEN req ELSE old

Commit(u) ==
    LET k == Key(upload[u].req) IN
    /\ upload[u].pc = "commit"
    /\ rows' = [rows EXCEPT ![k] = Record(@, upload[u].req)]
    /\ upload' = [upload EXCEPT ![u] = NoUpload]
    /\ UNCHANGED <<files, disturbed, again, uploads, failures>>

\* A full disk, a locked database, the end of the process: what is on disk stays.
Interrupt(u) ==
    /\ upload[u] # NoUpload /\ failures < MaxFailures
    /\ disturbed' = IF upload[u].pc = "write" THEN disturbed \cup {Key(upload[u].req)}
                                              ELSE disturbed
    /\ upload' = [upload EXCEPT ![u] = NoUpload]
    /\ failures' = failures + 1
    /\ UNCHANGED <<files, rows, again, uploads>>

EvidenceNext ==
    \E u \in Uploaders :
        \/ \E req \in Request : Receive(u, req)
        \/ Open(u)
        \/ Write(u)
        \/ Commit(u)
        \/ Interrupt(u)

EvidenceSpec == EvidenceInit /\ [][EvidenceNext]_evidenceVars

-----------------------------------------------------------------------------
EvidenceTypeOK ==
    /\ files \in [Keys -> Request \cup {NoFile, Torn}]
    /\ rows \in [Keys -> Request \cup {NoFile}]
    /\ upload \in [Uploaders -> [pc : {"open", "write", "commit"}, req : Request]
                                \cup {NoUpload}]
    /\ disturbed \subseteq Keys /\ again \subseteq Keys
    /\ uploads \in 0..MaxUploads /\ failures \in 0..MaxFailures

\* A row of evidence always has its object, with the content the row's hash
\* names.  The object is unreadable only while an upload of the same evidence is
\* being written, or after one was interrupted or overlapped; and what the
\* object says of reason, case and path is what the row says, unless the same
\* evidence was uploaded again.
EvidenceHolds ==
    \A k \in Keys :
        rows[k] # NoFile =>
            /\ files[k] # NoFile
            /\ files[k] = Torn => k \in disturbed \/ Uploading(k) # {}
            /\ files[k] # Torn =>
                  /\ files[k].content = rows[k].content
                  /\ files[k] = rows[k] \/ k \in again
            /\ rows[k].kind = "file" => rows[k].purpose # NoPurpose
=============================================================================
