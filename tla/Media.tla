-------------------------------- MODULE Media --------------------------------
(***************************************************************************)
(* Uploads of the Media service: media_file rows, shared objects with a    *)
(* reference count per content hash (media_blob_ref), the quota of a user, *)
(* and the clean-up worker.                                                *)
(*                                                                         *)
(* An upload is applied for (ApplyUpload, InitMultipartUpload), put into   *)
(* the object store by the client, and completed.  Files with the same     *)
(* hash share one object.  Handlers run on several threads, and every      *)
(* MySQL transaction and every call of the object store is a step of its   *)
(* own.  A request that the whitelist, the hash format or the ownership    *)
(* test refuses changes nothing and is not in the model.                   *)
(*                                                                         *)
(* File ids are Snowflake ids: they are drawn in increasing order, which   *)
(* is also the order of uploaded_at.                                       *)
(***************************************************************************)
EXTENDS Integers, FiniteSets

CONSTANTS
    MaxFiles,   \* bound: uploads applied for
    User,
    Hash,       \* content hashes
    Purpose,    \* purposes and, for chat files, days: what a key has besides the hash
    Size,       \* file sizes, in units of the quota
    Length,     \* lengths an object may get
    Multi,      \* whether uploads may be single (FALSE), multipart (TRUE)
    Quota,      \* quota_bytes
    Proc,       \* handler threads
    FaultKinds, \* the faults this instance explores
    MaxFaults,  \* bound: how many faults a behaviour contains
    None        \* no object key, no file

File == 1..MaxFiles
Key == Purpose \X Hash

ASSUME MediaAssumption ==
    /\ MaxFiles \in Nat
    /\ Size \subseteq Length /\ Length \subseteq Nat \ {0}
    /\ Multi \subseteq BOOLEAN
    /\ Quota \in Nat
    /\ FaultKinds \subseteq {"s3", "db", "crash"}
    /\ MaxFaults \in Nat
    /\ None \notin Key

VARIABLES
    status,   \* media_file: the status; "none" and "draft" rows do not exist
    file,     \* media_file: owner, hash, size and whether it has an upload_id
    place,    \* media_file: bucket and object_key
    late,     \* files older than the cut-off of the clean-up tasks
    url,      \* files whose presigned PUT has been handed out and not used
    object,   \* the object store: length of the object, 0 if there is none
    uploads,  \* open multipart uploads of the object store
    blob,     \* media_blob_ref: the key, None if there is no row
    ref,      \* media_blob_ref: ref_count
    total,    \* media_blob_ref: total_size
    aged,     \* media_blob_ref: rows with last_decremented_at 7 days ago
    used,     \* media_user_quota: used_bytes
    pc,       \* where handler p is
    job,      \* its file, the key it read in the row, the blob's key, used_bytes
    wpc,      \* where the clean-up worker is
    todo,     \* the rows of its list: <<file, key, status>>, or <<hash, key, "blob">>
    cur,      \* the row it works on
    cursor,   \* magic_sniff: the last uploaded_at it has seen
    faults,   \* number of faults so far
    torn,     \* ghost: hashes whose row a fault left without its reference
    loose     \* ghost: users whose requests overlapped, were checked without
              \* their used_bytes or were charged for a row still pending

rowVars == <<status, file, place, late>>
storeVars == <<url, object, uploads>>
blobVars == <<blob, ref, total, aged>>
jobVars == <<pc, job>>
workVars == <<wpc, todo, cur, cursor>>
vars == <<rowVars, storeVars, blobVars, used, jobVars, workVars, faults, torn, loose>>

NoFile == [owner |-> None, hash |-> None, size |-> 0, multi |-> FALSE]
Upload == [owner : User, hash : Hash, size : Size, multi : BOOLEAN]
Step == {"idle", "quota", "dedup", "insert", "join", "head", "check", "purge", "drop",
         "blob", "rekey", "move", "upsert", "ref", "commit", "charge"}
Job == [f : File \cup {None}, key : Key \cup {None}, to : Key \cup {None}, used : Nat]
NewJob(f, k, n) == [f |-> f, key |-> k, to |-> None, used |-> n]
NoJob == NewJob(None, None, 0)

RowTypes ==
    /\ status \in [File -> {"none", "draft", "refused", "PENDING", "COMMITTED",
                            "DELETED", "QUARANTINED"}]
    /\ file \in [File -> Upload \cup {NoFile}]
    /\ place \in [File -> Key \cup {None}]
    /\ late \subseteq File

StoreTypes ==
    /\ url \subseteq File /\ uploads \subseteq File
    /\ object \in [Key -> Length \cup {0}]

BlobTypes ==
    /\ blob \in [Hash -> Key \cup {None}]
    /\ ref \in [Hash -> Nat]
    /\ total \in [Hash -> Size \cup {0}]
    /\ aged \subseteq Hash

JobTypes == pc \in [Proc -> Step] /\ job \in [Proc -> Job]

WorkTypes ==
    /\ wpc \in {"idle", "blob", "delete", "abort", "mark", "orphan",
                "row", "unref", "refund", "erase", "sniff", "taint"}
    /\ cursor \in 0..MaxFiles

GhostTypes ==
    /\ faults \in Nat
    /\ torn \subseteq Hash
    /\ loose \subseteq User

\* The types of the variables.
TypeOK ==
    /\ RowTypes /\ StoreTypes /\ BlobTypes /\ JobTypes /\ WorkTypes /\ GhostTypes
    /\ used \in [User -> Nat]

Init ==
    /\ status = [f \in File |-> "none"]
    /\ file = [f \in File |-> NoFile]
    /\ place = [f \in File |-> None]
    /\ late = {} /\ url = {} /\ uploads = {}
    /\ object = [k \in Key |-> 0]
    /\ blob = [h \in Hash |-> None]
    /\ ref = [h \in Hash |-> 0]
    /\ total = [h \in Hash |-> 0]
    /\ aged = {}
    /\ used = [u \in User |-> 0]
    /\ pc = [p \in Proc |-> "idle"]
    /\ job = [p \in Proc |-> NoJob]
    /\ wpc = "idle" /\ todo = {} /\ cur = None /\ cursor = 0
    /\ faults = 0
    /\ torn = {} /\ loose = {}

Fault(kind) ==
    /\ kind \in FaultKinds
    /\ faults < MaxFaults
    /\ faults' = faults + 1

NoFault == faults' = faults

Goto(p, l) == pc' = [pc EXCEPT ![p] = l] /\ UNCHANGED job
Finish(p) == pc' = [pc EXCEPT ![p] = "idle"] /\ job' = [job EXCEPT ![p] = NoJob]

SetStatus(f, s) == status' = [status EXCEPT ![f] = s]
SetObject(k, n) == object' = [object EXCEPT ![k] = n]

\* delete_object, whose exception is caught.
TryDelete(k) ==
    \/ SetObject(k, 0) /\ NoFault
    \/ UNCHANGED object /\ Fault("s3")

\* update_status, whose result nobody tests.
TryStatus(f, s) ==
    \/ SetStatus(f, s) /\ NoFault
    \/ UNCHANGED status /\ Fault("db")

FileOf(p) == file[job[p].f]

\* u is served by p, maybe beside another request of the same user.
Serve(p, u) ==
    loose' = IF \E q \in Proc \ {p} : pc[q] # "idle" /\ FileOf(q).owner = u
             THEN loose \cup {u} ELSE loose

-----------------------------------------------------------------------------
(* ApplyUpload and InitMultipartUpload *)

\* The request and its first transaction, ensure(): used_bytes, or a default
\* row when the query fails.
ApplyEnsure(p, f, u, h, pu, n, m) ==
    /\ pc[p] = "idle"
    /\ status[f] = "none" /\ \A g \in 1..(f - 1) : status[g] # "none"
    /\ SetStatus(f, "draft")
    /\ file' = [file EXCEPT ![f] = [owner |-> u, hash |-> h, size |-> n, multi |-> m]]
    /\ place' = [place EXCEPT ![f] = <<pu, h>>]
    /\ pc' = [pc EXCEPT ![p] = "quota"]
    /\ \/ /\ job' = [job EXCEPT ![p] = NewJob(f, None, used[u])]
          /\ Serve(p, u)
          /\ NoFault
       \/ /\ job' = [job EXCEPT ![p] = NewJob(f, None, 0)]
          /\ loose' = loose \cup {u}
          /\ Fault("db")
    /\ UNCHANGED <<late, storeVars, blobVars, used, workVars, torn>>

\* The bytes of some files, each told apart by its file and its offset.
Bytes(fs) == UNION {{f} \X (1..file[f].size) : f \in fs}

\* pending_bytes_of_owner: the sum of the sizes is the number of bytes.
PendingBytes(u) ==
    Cardinality(Bytes({f \in File : status[f] = "PENDING" /\ file[f].owner = u}))

\* Mutant of QuotaTest: pending uploads are not counted.
QuotaTestNoPending(f, seen) == seen + file[f].size <= Quota

QuotaTest(f, seen) == seen + file[f].size + PendingBytes(file[f].owner) <= Quota

\* The second transaction and the quota test; a query that fails counts no
\* pending bytes.
CheckQuota(p) ==
    LET f == job[p].f
    IN  /\ pc[p] = "quota"
        /\ \/ QuotaTest(f, job[p].used) /\ Goto(p, "dedup") /\ UNCHANGED <<status, loose>> /\ NoFault
           \/ /\ ~QuotaTest(f, job[p].used)
              /\ Finish(p) /\ SetStatus(f, "refused") /\ UNCHANGED loose /\ NoFault
           \/ /\ job[p].used + file[f].size <= Quota /\ Fault("db")
              /\ Goto(p, "dedup") /\ UNCHANGED status /\ loose' = loose \cup {file[f].owner}
        /\ UNCHANGED <<file, place, late, storeVars, blobVars, used, workVars, torn>>

\* A hash with a referenced blob shares its object; otherwise, or when the query
\* fails, the key is built from purpose and hash, and a multipart upload is
\* opened in the object store.
Dedup(p) ==
    LET f == job[p].f
        h == file[f].hash
        shared == blob[h] # None /\ ref[h] > 0
    IN  /\ pc[p] = "dedup"
        /\ \/ /\ shared
              /\ place' = [place EXCEPT ![f] = blob[h]]
              /\ file' = [file EXCEPT ![f].multi = FALSE]
              /\ Goto(p, "insert") /\ NoFault
              /\ UNCHANGED <<status, storeVars>>
           \/ /\ (~shared /\ NoFault) \/ (shared /\ Fault("db"))
              /\ IF file[f].multi
                 THEN uploads' = uploads \cup {f} /\ UNCHANGED url
                 ELSE url' = url \cup {f} /\ UNCHANGED uploads
              /\ Goto(p, "insert")
              /\ UNCHANGED <<status, file, place, object>>
           \/ /\ ~shared /\ file[f].multi
              /\ Finish(p) /\ SetStatus(f, "refused") /\ Fault("s3")
              /\ UNCHANGED <<file, place, storeVars>>
        /\ UNCHANGED <<late, blobVars, used, workVars, torn, loose>>

\* insert(); if it fails the multipart upload is aborted, if that succeeds, and
\* the client gets no URL.
Insert(p) ==
    LET f == job[p].f
    IN  /\ pc[p] = "insert"
        /\ Finish(p)
        /\ \/ /\ SetStatus(f, "PENDING") /\ NoFault
              /\ UNCHANGED <<url, uploads>>
           \/ /\ SetStatus(f, "refused") /\ Fault("db")
              /\ url' = url \ {f}
              /\ uploads' \in {uploads, uploads \ {f}}
        /\ UNCHANGED <<file, place, late, object, blobVars, used, workVars, torn, loose>>

\* The client puts the file through its URL, here once.
ClientPut(f, n) ==
    /\ f \in url /\ status[f] # "draft"
    /\ url' = url \ {f}
    /\ SetObject(place[f], n)
    /\ UNCHANGED <<rowVars, uploads, blobVars, used, jobVars, workVars, faults, torn, loose>>

-----------------------------------------------------------------------------
(* CompleteUpload, CompleteMultipartUpload and AbortMultipartUpload *)

\* select_by_file_id or select_by_upload_id; a row that is not pending is
\* answered without any change.
CompleteStart(p, f, l) ==
    /\ pc[p] = "idle"
    /\ status[f] = "PENDING"
    /\ l = "join" => file[f].multi
    /\ pc' = [pc EXCEPT ![p] = l]
    /\ job' = [job EXCEPT ![p] = NewJob(f, place[f], 0)]
    /\ Serve(p, file[f].owner)
    /\ UNCHANGED <<rowVars, storeVars, blobVars, used, workVars, faults, torn>>

\* complete_multipart: the parts become the object.  It throws if the upload was
\* completed or aborted, and the row stays pending.
Join(p) ==
    LET f == job[p].f
    IN  /\ pc[p] = "join"
        /\ \/ /\ f \in uploads
              /\ uploads' = uploads \ {f}
              /\ \E n \in Length : SetObject(job[p].key, n)
              /\ Goto(p, "check") /\ NoFault
           \/ /\ f \notin uploads
              /\ Finish(p) /\ NoFault
              /\ UNCHANGED <<object, uploads>>
           \/ Finish(p) /\ Fault("s3") /\ UNCHANGED <<object, uploads>>
        /\ UNCHANGED <<rowVars, url, blobVars, used, workVars, torn, loose>>

\* head_object and the comparison of lengths.  A missing object ends a single
\* upload ("head") and is only an error of a multipart one ("check").
Head(p) ==
    LET n == object[job[p].key]
    IN  /\ pc[p] \in {"head", "check"}
        /\ \/ n = FileOf(p).size /\ Goto(p, "blob") /\ NoFault
           \/ n # 0 /\ n # FileOf(p).size /\ Goto(p, "purge") /\ NoFault
           \/ /\ (n = 0 /\ NoFault) \/ Fault("s3")
              /\ IF pc[p] = "head" THEN Goto(p, "drop") ELSE Finish(p)
        /\ UNCHANGED <<rowVars, storeVars, blobVars, used, workVars, torn, loose>>

\* The lengths differ: the object is deleted, the row marked.
Purge(p) ==
    /\ pc[p] = "purge"
    /\ TryDelete(job[p].key)
    /\ Goto(p, "drop")
    /\ UNCHANGED <<rowVars, url, uploads, blobVars, used, workVars, torn, loose>>

Drop(p) ==
    /\ pc[p] = "drop"
    /\ TryStatus(job[p].f, "DELETED")
    /\ Finish(p)
    /\ UNCHANGED <<file, place, late, storeVars, blobVars, used, workVars, torn, loose>>

\* Mutant of SelectBlob: a blob that has the key already gets no reference.
SelectBlobNoRef(p) ==
    LET k == blob[FileOf(p).hash]
    IN  /\ pc[p] = "blob"
        /\ \/ k = None /\ Goto(p, "upsert")
           \/ k # None /\ k = job[p].key /\ Goto(p, "commit")
           \/ /\ k # None /\ k # job[p].key
              /\ pc' = [pc EXCEPT ![p] = "rekey"]
              /\ job' = [job EXCEPT ![p].to = k]
        /\ UNCHANGED <<rowVars, storeVars, blobVars, used, workVars, faults, torn, loose>>

\* select_by_hash: a blob with another key means that the same content was
\* uploaded twice, and this copy goes.  A query that fails finds no blob.
SelectBlob(p) ==
    LET k == blob[FileOf(p).hash]
    IN  /\ pc[p] = "blob"
        /\ \/ ((k = None /\ NoFault) \/ (k # None /\ Fault("db"))) /\ Goto(p, "upsert")
           \/ k # None /\ k = job[p].key /\ Goto(p, "ref") /\ NoFault
           \/ /\ k # None /\ k # job[p].key /\ NoFault
              /\ pc' = [pc EXCEPT ![p] = "rekey"]
              /\ job' = [job EXCEPT ![p].to = k]
        /\ UNCHANGED <<rowVars, storeVars, blobVars, used, workVars, torn, loose>>

Rekey(p) ==
    /\ pc[p] = "rekey"
    /\ TryDelete(job[p].key)
    /\ Goto(p, "move")
    /\ UNCHANGED <<rowVars, url, uploads, blobVars, used, workVars, torn, loose>>

\* update_bucket_key
Move(p) ==
    /\ pc[p] = "move"
    /\ Goto(p, "ref")
    /\ \/ place' = [place EXCEPT ![job[p].f] = job[p].to] /\ NoFault
       \/ UNCHANGED place /\ Fault("db")
    /\ UNCHANGED <<status, file, late, storeVars, blobVars, used, workVars, torn, loose>>

\* upsert: inserts a row without references, unless another handler was first.
Upsert(p) ==
    LET h == FileOf(p).hash
    IN  /\ pc[p] = "upsert"
        /\ Goto(p, "ref")
        /\ \/ /\ blob[h] = None
              /\ blob' = [blob EXCEPT ![h] = job[p].key]
              /\ ref' = [ref EXCEPT ![h] = 0]
              /\ total' = [total EXCEPT ![h] = FileOf(p).size]
              /\ aged' = aged \ {h}
              /\ UNCHANGED torn /\ NoFault
           \/ blob[h] # None /\ UNCHANGED <<blobVars, torn>> /\ NoFault
           \/ UNCHANGED blobVars /\ torn' = torn \cup {h} /\ Fault("db")
        /\ UNCHANGED <<rowVars, storeVars, used, workVars, loose>>

\* inc_ref; nobody tests its result.
IncRef(p) ==
    LET h == FileOf(p).hash
    IN  /\ pc[p] = "ref"
        /\ Goto(p, "commit")
        /\ \/ /\ ref' = IF blob[h] # None THEN [ref EXCEPT ![h] = @ + 1] ELSE ref
              /\ UNCHANGED torn /\ NoFault
           \/ UNCHANGED ref /\ torn' = torn \cup {h} /\ Fault("db")
        /\ UNCHANGED <<rowVars, storeVars, blob, total, aged, used, workVars, loose>>

\* The row is committed, or, if that fails, stays as it is and is charged for.
Commit(p) ==
    /\ pc[p] = "commit"
    /\ Goto(p, "charge")
    /\ \/ SetStatus(job[p].f, "COMMITTED") /\ NoFault /\ UNCHANGED loose
       \/ UNCHANGED status /\ Fault("db") /\ loose' = loose \cup {FileOf(p).owner}
    /\ UNCHANGED <<file, place, late, storeVars, blobVars, used, workVars, torn>>

\* inc_used
Charge(p) ==
    /\ pc[p] = "charge"
    /\ Finish(p)
    /\ \/ used' = [used EXCEPT ![FileOf(p).owner] = @ + FileOf(p).size] /\ NoFault
       \/ UNCHANGED used /\ Fault("db")
    /\ UNCHANGED <<rowVars, storeVars, blobVars, workVars, torn, loose>>

\* abort(): whatever the status of the row is, the upload is aborted and then
\* the row marked; an exception of the object store is caught.
AbortStart(p, f) ==
    /\ pc[p] = "idle"
    /\ file[f].multi /\ status[f] \in {"PENDING", "COMMITTED", "QUARANTINED"}
    /\ pc' = [pc EXCEPT ![p] = "drop"]
    /\ job' = [job EXCEPT ![p] = NewJob(f, None, 0)]
    /\ Serve(p, file[f].owner)
    /\ \/ uploads' = uploads \ {f} /\ NoFault
       \/ UNCHANGED uploads /\ Fault("s3")
    /\ UNCHANGED <<rowVars, url, object, blobVars, used, workVars, torn>>

\* The process dies under handler p.
Crash(p) ==
    /\ pc[p] # "idle"
    /\ Fault("crash")
    /\ Finish(p)
    /\ torn' = IF pc[p] = "ref" THEN torn \cup {FileOf(p).hash} ELSE torn
    /\ IF pc[p] \in {"quota", "dedup", "insert"}
       THEN SetStatus(job[p].f, "refused") /\ url' = url \ {job[p].f}
       ELSE UNCHANGED <<status, url>>
    /\ UNCHANGED <<file, place, late, object, uploads, blobVars, used, workVars, loose>>

-----------------------------------------------------------------------------
(* The clean-up worker.  One thread runs its tasks one after the other.      *)

\* A file gets older than the quarter of an hour its URL is signed for and than
\* the hour, the day or the seven days of the tasks, if any of them waits for it.
Age(f) ==
    /\ status[f] \in {"PENDING", "QUARANTINED"} \/ f \in uploads \cup url
    /\ status[f] # "draft" /\ f \notin late
    /\ late' = late \cup {f}
    /\ url' = url \ {f}
    /\ UNCHANGED <<status, file, place, object, uploads, blobVars, used, jobVars, workVars, faults, torn, loose>>

\* Seven days pass since a blob row was made that has got no reference.  No
\* handler lasts that long.
AgeBlob(h) ==
    /\ blob[h] # None /\ ref[h] = 0 /\ h \notin aged
    /\ \A p \in Proc : pc[p] = "ref" => FileOf(p).hash # h
    /\ aged' = aged \cup {h}
    /\ UNCHANGED <<rowVars, storeVars, blob, ref, total, used, jobVars, workVars, faults, torn, loose>>

\* The worker moves to l without leaving its list.
WGoto(l) == wpc' = l /\ UNCHANGED <<todo, cur, cursor>>

\* Where the handling of row r of a list begins.
Entry(r) ==
    CASE r[3] = "PENDING" -> "blob"
      [] r[3] = "QUARANTINED" -> "delete"
      [] r[3] = "upload" -> "orphan"
      [] r[3] = "blob" -> "unref"
      [] r[3] = "COMMITTED" -> "sniff"

\* The worker takes a row of the list, if there is one; magic_sniff takes them by
\* uploaded_at.
Take(list) ==
    \/ /\ list = {}
       /\ wpc' = "idle" /\ todo' = {} /\ cur' = None
    \/ \E r \in list :
          /\ r[3] = "COMMITTED" => \A s \in list : r[1] <= s[1]
          /\ wpc' = Entry(r) /\ todo' = list \ {r} /\ cur' = r

WNext == Take(todo)

Rows(s) == {<<f, place[f], s>> : f \in {g \in late : status[g] = s}}

\* list_pending_older_than, list_quarantined_older_than and
\* list_multipart_uploads with its age test.
ListRows(list) ==
    /\ wpc = "idle"
    /\ list # {}
    /\ Take(list)
    /\ UNCHANGED <<cursor, rowVars, storeVars, blobVars, used, jobVars, faults, torn, loose>>

ListPending == ListRows(Rows("PENDING"))
ListQuarantined == ListRows(Rows("QUARANTINED"))

\* Mutant of ListUploads: uploads whose row is not pending are passed over.
ListUploadsOfPending ==
    ListRows({<<f, place[f], "upload">> : f \in {g \in uploads \cap late : status[g] = "PENDING"}})

ListUploads == ListRows({<<f, place[f], "upload">> : f \in uploads \cap late})

\* list_zero_ref_older_than, and list_committed_after the cursor.
ListUnref ==
    ListRows({<<h, blob[h], "blob">> : h \in {g \in aged : blob[g] # None /\ ref[g] = 0}})
ListCommitted ==
    ListRows({<<f, place[f], "COMMITTED">> : f \in {g \in File : status[g] = "COMMITTED" /\ g > cursor}})

\* task_pending_timeout: is the content referenced?  A query that fails says no.
WorkerBlob ==
    LET h == file[cur[1]].hash
        shared == blob[h] # None /\ ref[h] # 0
    IN  /\ wpc = "blob"
        /\ \/ shared /\ WGoto("abort") /\ NoFault
           \/ ((~shared /\ NoFault) \/ (shared /\ Fault("db"))) /\ WGoto("delete")
        /\ UNCHANGED <<rowVars, storeVars, blobVars, used, jobVars, torn, loose>>

\* delete_object with the key of the list; a quarantined row goes on to its mark.
WorkerDelete ==
    /\ wpc = "delete"
    /\ TryDelete(cur[2])
    /\ WGoto(IF cur[3] = "PENDING" THEN "abort" ELSE "mark")
    /\ UNCHANGED <<rowVars, url, uploads, blobVars, used, jobVars, torn, loose>>

\* abort_multipart of a pending row, if it has an upload_id; exceptions, also of
\* an upload that is gone, are caught.
WorkerAbort ==
    /\ wpc = "abort"
    /\ WGoto("mark")
    /\ \/ uploads' = uploads \ {cur[1]} /\ NoFault
       \/ cur[1] \in uploads /\ UNCHANGED uploads /\ Fault("s3")
    /\ UNCHANGED <<rowVars, url, object, blobVars, used, jobVars, torn, loose>>

WorkerMark ==
    /\ wpc = "mark"
    /\ TryStatus(cur[1], "DELETED")
    /\ WNext
    /\ UNCHANGED <<cursor, file, place, late, storeVars, blobVars, used, jobVars, torn, loose>>

\* task_multipart_orphan: abort, then look at the row.
WorkerOrphan ==
    /\ wpc = "orphan"
    /\ WGoto("row")
    /\ \/ uploads' = uploads \ {cur[1]} /\ NoFault
       \/ UNCHANGED uploads /\ Fault("s3")
    /\ UNCHANGED <<rowVars, url, object, blobVars, used, jobVars, torn, loose>>

WorkerRow ==
    /\ wpc = "row"
    /\ \/ status[cur[1]] = "PENDING" /\ WGoto("mark") /\ NoFault
       \/ /\ (status[cur[1]] # "PENDING" /\ NoFault) \/ Fault("db")
          /\ WNext /\ UNCHANGED cursor
    /\ UNCHANGED <<rowVars, storeVars, blobVars, used, jobVars, torn, loose>>

\* task_unref_blob_gc: the object goes first; if that fails the blob is skipped.
WorkerUnref ==
    /\ wpc = "unref"
    /\ \/ SetObject(cur[2], 0) /\ NoFault /\ WGoto("refund")
       \/ UNCHANGED object /\ Fault("s3") /\ WNext /\ UNCHANGED cursor
    /\ UNCHANGED <<rowVars, url, uploads, blobVars, used, jobVars, torn, loose>>

\* Mutant of Refund: the update has no condition.
RefundUnchecked(u, n) == used[u] - n

\* dec_used, which stops at zero.
Refund(u, n) == IF used[u] >= n THEN used[u] - n ELSE 0

Dead(u, h) == {f \in File : /\ status[f] \in {"DELETED", "QUARANTINED"}
                            /\ file[f].owner = u /\ file[f].hash = h}

\* The owners of dead files of the content get its size back, once per file,
\* unless the query of the files or an update fails.
WorkerRefund ==
    LET h == cur[1]
    IN  /\ wpc = "refund"
        /\ \/ /\ used' = [u \in User |-> Refund(u, total[h] * Cardinality(Dead(u, h)))]
              /\ NoFault
           \/ /\ \E dead \in [User -> 0..MaxFiles] :
                    /\ \A u \in User : dead[u] <= Cardinality(Dead(u, h))
                    /\ used' = [u \in User |-> Refund(u, total[h] * dead[u])]
              /\ Fault("db")
        /\ WGoto("erase")
        /\ UNCHANGED <<rowVars, storeVars, blobVars, jobVars, torn, loose>>

\* The blob row goes, whatever its reference count is by now.
WorkerErase ==
    LET h == cur[1]
    IN  /\ wpc = "erase"
        /\ \/ /\ blob' = [blob EXCEPT ![h] = None]
              /\ ref' = [ref EXCEPT ![h] = 0]
              /\ total' = [total EXCEPT ![h] = 0]
              /\ aged' = aged \ {h}
              /\ NoFault
           \/ UNCHANGED blobVars /\ Fault("db")
        /\ WNext
        /\ UNCHANGED <<cursor, rowVars, storeVars, used, jobVars, torn, loose>>

\* task_magic_sniff: the first bytes contradict the mime type, or not, or cannot
\* be read; the cursor moves in any case.
WorkerSniff ==
    /\ wpc = "sniff"
    /\ \/ object[cur[2]] # 0 /\ WGoto("taint")
       \/ WNext /\ cursor' = cur[1]
    /\ UNCHANGED <<rowVars, storeVars, blobVars, used, jobVars, faults, torn, loose>>

WorkerTaint ==
    /\ wpc = "taint"
    /\ TryStatus(cur[1], "QUARANTINED")
    /\ WNext /\ cursor' = cur[1]
    /\ UNCHANGED <<file, place, late, storeVars, blobVars, used, jobVars, torn, loose>>

\* The process of the worker dies; the next one starts ten minutes back.
WorkerCrash ==
    /\ wpc # "idle"
    /\ Fault("crash")
    /\ wpc' = "idle" /\ todo' = {} /\ cur' = None
    /\ cursor' \in {0, cursor}
    /\ UNCHANGED <<rowVars, storeVars, blobVars, used, jobVars, torn, loose>>

-----------------------------------------------------------------------------

Request(p) ==
    \/ \E f \in File, u \in User, h \in Hash, pu \in Purpose, n \in Size, m \in Multi :
          ApplyEnsure(p, f, u, h, pu, n, m)
    \/ \E f \in File : AbortStart(p, f) \/ \E l \in {"head", "join"} : CompleteStart(p, f, l)

Handle(p) ==
    \/ CheckQuota(p) \/ Dedup(p) \/ Insert(p)
    \/ Join(p) \/ Head(p) \/ Purge(p) \/ Drop(p) \/ SelectBlob(p) \/ Rekey(p) \/ Move(p)
    \/ Upsert(p) \/ IncRef(p) \/ Commit(p) \/ Charge(p)

Clean ==
    \/ ListPending \/ ListQuarantined \/ ListUploads \/ ListUnref \/ ListCommitted
    \/ WorkerBlob \/ WorkerDelete \/ WorkerAbort \/ WorkerMark \/ WorkerOrphan
    \/ WorkerRow \/ WorkerUnref \/ WorkerRefund \/ WorkerErase \/ WorkerSniff \/ WorkerTaint

Next ==
    \/ \E p \in Proc : Request(p) \/ Handle(p) \/ Crash(p)
    \/ \E f \in File : Age(f) \/ \E n \in Length : ClientPut(f, n)
    \/ \E h \in Hash : AgeBlob(h)
    \/ Clean \/ WorkerCrash

Spec == Init /\ [][Next]_vars

\* Time passes, handlers run on and the worker's loop comes round to every task
\* again; no client has to complete, put or abort anything.
Fairness ==
    /\ WF_vars(Clean)
    /\ \A p \in Proc : WF_vars(Handle(p))
    /\ \A f \in File : WF_vars(Age(f))
FairSpec == Spec /\ Fairness

-----------------------------------------------------------------------------
(* Properties *)

Counted(h) == {f \in File : file[f].hash = h /\ status[f] \in {"COMMITTED", "QUARANTINED"}}

\* Every committed file is counted in the references of its content, however
\* uploads of the same content and retries of one CompleteUpload overlap and
\* whatever the clean-up deletes meanwhile, unless a fault cut off the very
\* upsert or inc_ref of that content: ref_count reaches zero, and the content
\* may be collected, only when no committed file is left
\* (mysql_media_blob_ref.hpp, upsert and inc_ref; cleanup_worker.hpp,
\* task_unref_blob_gc).
ReferencesCoverFiles ==
    \A h \in Hash \ torn :
        /\ Cardinality(Counted(h)) <= ref[h]
        /\ Counted(h) # {} => blob[h] # None

\* The space a user has taken and applied for never exceeds the quota, whatever
\* the clean-up does meanwhile and wherever a request is cut off, for users
\* whose requests do not overlap, unless the database failed to read their
\* used_bytes or to commit a row (upload_handler.hpp, step 3 of apply).
QuotaKept == \A u \in User \ loose : used[u] + PendingBytes(u) <= Quota

\* No upload stays open: again and again the row of a file is not pending and the
\* object store has no parts of it, although no client need complete or abort
\* anything, a row may be refused or marked while the abort of its parts fails,
\* and any deletion, abort or update of the clean-up may fail once
\* (cleanup_worker.hpp, task_pending_timeout and task_multipart_orphan).
UploadsEnd == \A f \in File : []<>(status[f] # "PENDING" /\ f \notin uploads)
=============================================================================
