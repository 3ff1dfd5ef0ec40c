------------------------------ MODULE Storage ------------------------------
(* Files in the bucket and the bytes a company is charged for them: uploads  *)
(* that reserve quota first (media.service, documents.service,               *)
(* whatsapp-media-send), the download of a customer's media                  *)
(* (whatsapp-media-ingest), deletion through the purge outbox                *)
(* (storage-purge), and the two crons that repair what a crash leaves.       *)
(* A file weighs one unit per object it has in the bucket.                   *)
EXTENDS Integers, SequencesExt

CONSTANTS
  Photos,       \* property_media rows: an original and a thumbnail
  Docs,         \* property_documents rows
  Sent,         \* media of outbound WhatsApp messages
  Inbound,      \* media of customers' WhatsApp messages
  Workers,      \* requests of BullMQ workers that may run one media job
  Quotas,       \* the quotas the plan and its seats may give
  Cases,        \* bound: the sets of files that take part in one behaviour
  MaxAttempts,  \* STORAGE_PURGE_MAX_ATTEMPTS, and the attempts of a media job
  MaxPurges,    \* bound: times one file can be purged
  MaxFaults     \* bound: failed calls, crashes and stalled jobs

Uploaded == Photos \cup Docs \cup Sent
OnUnit == Photos \cup Docs
Messages == Sent \cup Inbound
Files == Uploaded \cup Inbound

ASSUME FileAssumption == /\ IsFiniteSet(Files) /\ Quotas \subseteq Nat /\ Quotas # {}
                         /\ Photos \cap Docs = {} /\ OnUnit \cap Messages = {} /\ Sent \cap Inbound = {}
                         /\ "idle" \notin Files
ASSUME StorageBoundAssumption == /\ Cases \subseteq SUBSET Files /\ MaxFaults \in Nat
                                 /\ MaxAttempts \in Nat \ {0} /\ MaxPurges \in Nat \ {0}

VARIABLES
  used,       \* companies.storage_used_bytes
  unit,       \* the unit the photos and documents belong to
  removing,   \* removeUnit's transaction: the files it found, or idle
  row,        \* the row of each file
  objects,    \* keys present in the buckets
  outbox,     \* storage_purge_jobs: id -> status and attempts
  queue,      \* the purge queue: id -> attempts made and the worker's step
  purges,     \* times each file has been purged
  up,         \* the upload request of each file
  editing,    \* files read by an edit that has not saved yet
  job, ingest, revoked, connected,  \* the download of inbound media
  overlapped, \* files on which two steps overlapped that nothing orders, or whose committed row was undone
  faults

uploads == <<unit, removing, up, editing>>
download == <<job, ingest, revoked, connected>>
bucket == <<objects, outbox, queue, purges>>
vars == <<used, row, uploads, download, bucket, overlapped, faults>>

Parts(f) == IF f \in Photos THEN {"file", "thumb"} ELSE {"file"}
Keys(f) == {f} \X Parts(f)
Bytes(S) == Cardinality(UNION {Keys(f) : f \in S})
Stored == {f \in Files : row[f] = "stored"}
KeyOf(id) == <<id[1], id[2]>>
Idle == {"idle"}
NoUpload == [pc |-> "done", todo |-> << >>]
NoJob == [state |-> "none", made |-> 0]

Init ==
  /\ used = 0 /\ unit = "live" /\ removing = Idle
  /\ objects = {} /\ outbox = << >> /\ queue = << >> /\ purges = [f \in Files |-> 0]
  /\ editing = {} /\ overlapped = {} /\ faults = 0 /\ connected = TRUE
  /\ \E S \in Cases :
       /\ up = [f \in Uploaded |-> IF f \in S THEN [NoUpload EXCEPT !.pc = "new"] ELSE NoUpload]
       /\ row = [f \in Files |-> IF f \in S \cap Inbound THEN "pending" ELSE "none"]
       /\ job = [f \in Inbound |-> IF f \in S THEN [NoJob EXCEPT !.state = "queued"] ELSE NoJob]
  /\ ingest = [f \in Inbound |-> [w \in Workers |-> "idle"]]
  /\ revoked = [f \in Inbound |-> "no"]

Fault == faults < MaxFaults /\ faults' = faults + 1
NoFault == UNCHANGED faults

-----------------------------------------------------------------------------
(* The counter.                                                              *)

Release(n) == used' = IF used > n THEN used - n ELSE 0

\* Mutant: the reservation is not conditional.
Fits_Always(f, q) == TRUE

\* The WHERE of reserveStorage's UPDATE.
Fits(f, q) == used + Bytes({f}) <= q

GotoUp(f, pc) == up' = [up EXCEPT ![f].pc = pc]

\* The quota was read before the UPDATE; the tier and the seats may change at
\* any time, so it is any of Quotas.
Reserve(f) ==
  /\ up[f].pc = "new"
  /\ \E q \in Quotas :
       \/ /\ Fits(f, q) /\ used' = used + Bytes({f})
          /\ \/ NoFault /\ GotoUp(f, "put")
             \/ Fault /\ GotoUp(f, "done") \* the answer is lost, and the bytes stay reserved
       \/ ~Fits(f, q) /\ NoFault /\ UNCHANGED used /\ GotoUp(f, "done")
  /\ UNCHANGED <<unit, removing, editing, row, download, bucket, overlapped>>

-----------------------------------------------------------------------------
(* Uploads.                                                                  *)

UndoFrom(f, todo) ==
  up' = [up EXCEPT ![f].pc = IF todo = << >> THEN "done" ELSE "undo", ![f].todo = todo]

Put(f, part, next, todo) ==
  \/ /\ NoFault /\ objects' = objects \cup {<<f, part>>} /\ GotoUp(f, next)
  \/ \* The call fails; it may have stored the object.
     /\ Fault /\ objects' \in {objects, objects \cup {<<f, part>>}} /\ UndoFrom(f, todo)

PutFile(f) ==
  /\ up[f].pc = "put"
  /\ Put(f, "file", IF f \in Photos THEN "thumb" ELSE "save", <<"release">>)
  /\ UNCHANGED <<used, unit, removing, editing, row, download, outbox, queue, purges, overlapped>>

PutThumb(f) ==
  /\ up[f].pc = "thumb"
  /\ Put(f, "thumb", "save", <<"delete file", "release">>)
  /\ UNCHANGED <<used, unit, removing, editing, row, download, outbox, queue, purges, overlapped>>

\* What is undone when the row cannot be saved: a document leaves its bytes and
\* object behind, and so does a file that Meta has already taken.
UndoSave(f) ==
  CASE f \in Photos -> {<<"release", "delete file", "delete thumb">>}
    [] f \in Docs -> {<< >>}
    [] OTHER -> {<<"release">>, << >>}

\* The unit is read FOR SHARE in the transaction that saves the row, which is
\* refused when the unit is gone or archived, as it may be at any time.
UnitUnlocked == removing = Idle

\* A save that fails may have committed; its upload is undone all the same.
SaveRow(f) ==
  /\ up[f].pc = "save" /\ (f \in OnUnit => UnitUnlocked)
  /\ \/ /\ f \in OnUnit => unit = "live"
        /\ row' = [row EXCEPT ![f] = "stored"]
        /\ \/ NoFault /\ GotoUp(f, "done") /\ UNCHANGED overlapped
           \/ /\ Fault
              /\ \E todo \in UndoSave(f) :
                   /\ UndoFrom(f, todo)
                   /\ overlapped' = IF todo = << >> THEN overlapped ELSE overlapped \cup {f}
     \/ /\ \/ Fault
           \/ NoFault /\ f \in OnUnit
        /\ \E todo \in UndoSave(f) : UndoFrom(f, todo)
        /\ UNCHANGED <<row, overlapped>>
  /\ UNCHANGED <<used, unit, removing, editing, download, bucket>>

\* One step of an undo; its own failure is logged and the next one runs.
Undo(f) ==
  /\ up[f].pc = "undo"
  /\ UndoFrom(f, Tail(up[f].todo))
  /\ \/ /\ NoFault
        /\ \/ Head(up[f].todo) = "release" /\ Release(Bytes({f})) /\ UNCHANGED objects
           \/ /\ Head(up[f].todo) = "delete file" /\ objects' = objects \ {<<f, "file">>}
              /\ UNCHANGED used
           \/ /\ Head(up[f].todo) = "delete thumb" /\ objects' = objects \ {<<f, "thumb">>}
              /\ UNCHANGED used
     \/ Fault /\ UNCHANGED <<used, objects>>
  /\ UNCHANGED <<unit, removing, editing, row, download, outbox, queue, purges, overlapped>>

-----------------------------------------------------------------------------
(* Deletion: the outbox rows, the rows and the counter in one transaction.   *)

NewIds(S) == {<<k[1], k[2], purges[k[1]] + 1>> : k \in UNION {Keys(f) : f \in S}}

With(g, ids, r) == [id \in ids \cup DOMAIN g |-> IF id \in ids THEN r ELSE g[id]]

NewJob == [made |-> 0, pc |-> "wait"]

PurgeRows(S) == outbox' = With(outbox, NewIds(S), [status |-> "pending", attempts |-> 0])

\* Enqueues after the commit; a failure or a crash before it is only logged.
Dispatch(S) ==
  \/ NoFault /\ queue' = With(queue, NewIds(S), NewJob)
  \/ Fault /\ UNCHANGED queue

Purge(S) ==
  /\ \A f \in S : purges[f] < MaxPurges
  /\ purges' = [f \in Files |-> IF f \in S THEN purges[f] + 1 ELSE purges[f]]
  /\ PurgeRows(S) /\ Dispatch(S)

\* deleteMedia and remove lock the row; a message keeps its row.
Delete(f) ==
  /\ row[f] = "stored"
  /\ row' = [row EXCEPT ![f] = IF f \in Messages THEN "deleted" ELSE "none"]
  /\ Purge({f}) /\ Release(Bytes({f}))
  /\ UNCHANGED <<uploads, download, objects, overlapped>>

\* removeUnit locks the unit, then reads the files' rows without locking them.
FindUnitFiles ==
  /\ UnitUnlocked /\ unit # "gone"
  /\ removing' = Stored \cap OnUnit
  /\ UNCHANGED <<used, unit, up, editing, row, download, bucket, overlapped, faults>>

\* A file deleted since is purged, and its bytes released, a second time.
RemoveUnit ==
  /\ ~UnitUnlocked
  /\ unit' = "gone" /\ removing' = Idle
  /\ row' = [f \in Files |-> IF f \in removing THEN "none" ELSE row[f]]
  /\ Purge(removing) /\ Release(Bytes(removing))
  /\ overlapped' = overlapped \cup (removing \ Stored)
  /\ UNCHANGED <<up, editing, download, objects>>

\* setPrimary and a document's update read the row outside their transaction.
ReadForEdit(f) ==
  /\ row[f] = "stored" /\ f \notin editing
  /\ editing' = editing \cup {f}
  /\ UNCHANGED <<used, unit, removing, up, row, download, bucket, overlapped, faults>>

\* repo.save inserts the row again when it was deleted in between.
SaveEdit(f) ==
  /\ f \in editing /\ UnitUnlocked
  /\ editing' = editing \ {f}
  /\ \/ /\ unit = "live" /\ row' = [row EXCEPT ![f] = "stored"]
        /\ overlapped' = overlapped \cup ({f} \ Stored)
     \/ UNCHANGED <<row, overlapped>>
  /\ UNCHANGED <<used, unit, removing, up, download, bucket, faults>>

-----------------------------------------------------------------------------
(* The purge queue.                                                          *)

Without(g, id) == Restrict(g, DOMAIN g \ {id})

\* One more attempt of the job, or none left: it is removed.
RetryJob(id) ==
  queue' = IF queue[id].made + 1 >= MaxAttempts THEN Without(queue, id)
           ELSE [queue EXCEPT ![id] = [made |-> @.made + 1, pc |-> "wait"]]

\* process: no row, nothing to do; an object that is already gone is a success.
PurgeObject(id) ==
  /\ id \in DOMAIN queue /\ queue[id].pc = "wait"
  /\ IF id \in DOMAIN outbox
     THEN objects' = objects \ {KeyOf(id)} /\ queue' = [queue EXCEPT ![id].pc = "delete row"]
     ELSE queue' = Without(queue, id) /\ UNCHANGED objects
  /\ UNCHANGED <<used, row, uploads, download, outbox, purges, overlapped, faults>>

\* Mutant: the row of a failed delete is dropped.
GiveUp_DropsRow(id) == Without(outbox, id)

GiveUp(id) == [outbox EXCEPT ![id] = [status |-> "failed", attempts |-> @.attempts + 1]]

\* The delete fails, although it may have taken effect, and is counted, unless
\* that update fails too.
PurgeFails(id) ==
  /\ id \in DOMAIN queue /\ queue[id].pc = "wait" /\ id \in DOMAIN outbox
  /\ Fault
  /\ objects' \in {objects, objects \ {KeyOf(id)}}
  /\ \/ IF outbox[id].attempts + 1 >= MaxAttempts \/ queue[id].made + 1 >= MaxAttempts
        THEN outbox' = GiveUp(id) /\ queue' = Without(queue, id)
        ELSE outbox' = [outbox EXCEPT ![id].attempts = @ + 1] /\ RetryJob(id)
     \/ UNCHANGED outbox /\ RetryJob(id)
  /\ UNCHANGED <<used, row, uploads, download, purges, overlapped>>

PurgeRow(id) ==
  /\ id \in DOMAIN queue /\ queue[id].pc = "delete row"
  /\ \/ NoFault /\ outbox' = Without(outbox, id) /\ queue' = Without(queue, id)
     \/ Fault /\ outbox' \in {outbox, Without(outbox, id)} /\ RetryJob(id)
  /\ UNCHANGED <<used, row, uploads, download, objects, purges, overlapped>>


\* The cron's query; the job id makes a second dispatch a no-op.
Requeues(id) == outbox[id].status = "pending" /\ id \notin DOMAIN queue

Requeue(id) ==
  /\ id \in DOMAIN outbox /\ Requeues(id)
  /\ queue' = With(queue, {id}, NewJob)
  /\ UNCHANGED <<used, row, uploads, download, objects, outbox, purges, overlapped, faults>>

-----------------------------------------------------------------------------
(* Customers' media.                                                         *)

Pending(f) == row[f] = "pending"

GotoIngest(f, w, pc) == ingest' = [ingest EXCEPT ![f][w] = pc]

\* Mutant: a job whose row is settled downloads again.
Settled_Never(f) == FALSE

Settled(f) == ~Pending(f)

\* The job reads its row: a settled one is done, a revoked one is closed, and one
\* without a connection stops.  A job whose lock is lost runs once more at once.
StartIngest(f, w) ==
  /\ job[f].state = "queued" /\ ingest[f][w] = "idle"
  /\ IF \E v \in Workers : ingest[f][v] # "idle"
     THEN Fault /\ overlapped' = overlapped \cup {f}
     ELSE NoFault /\ UNCHANGED overlapped
  /\ \/ Settled(f) /\ GotoIngest(f, w, "finish") /\ UNCHANGED row
     \/ /\ ~Settled(f) /\ revoked[f] # "no" /\ GotoIngest(f, w, "finish")
        /\ row' = IF Pending(f) THEN [row EXCEPT ![f] = "deleted"] ELSE row
     \/ /\ ~Settled(f) /\ revoked[f] = "no"
        /\ GotoIngest(f, w, IF connected THEN "upload" ELSE "park") /\ UNCHANGED row
  /\ UNCHANGED <<used, uploads, bucket, job, revoked, connected>>

EndJob(f, w, state) == GotoIngest(f, w, "idle") /\ job' = [job EXCEPT ![f].state = state]

\* WaMediaAwaitingConnectionError cannot be retried: the job stays failed in the
\* queue, and is stranded there when the agent has connected since it looked.
FinishIngest(f, w) ==
  /\ ingest[f][w] \in {"finish", "park"}
  /\ EndJob(f, w, IF ingest[f][w] = "finish" THEN "none"
                  ELSE IF connected THEN "stranded" ELSE "failed")
  /\ UNCHANGED <<used, row, uploads, bucket, revoked, connected, overlapped, faults>>

Again(f, w) ==
  job[f].made + 1 < MaxAttempts /\ GotoIngest(f, w, "idle") /\ job' = [job EXCEPT ![f].made = @ + 1]

\* Mutant: the last attempt leaves its row as it is.
Closed_Never(f) == row

\* markPendingMediaFailed.
Closed(f) == IF Pending(f) THEN [row EXCEPT ![f] = "failed"] ELSE row

\* An attempt throws: the job runs again or, after the last attempt or an
\* UnrecoverableError, stays failed with its row; it is stranded when that update
\* fails, too.
AttemptFails(f, w) ==
  \/ Again(f, w) /\ UNCHANGED row
  \/ EndJob(f, w, "failed") /\ row' = Closed(f)
  \/ EndJob(f, w, "stranded") /\ UNCHANGED row

UploadInbound(f, w) ==
  /\ ingest[f][w] = "upload"
  /\ \/ /\ NoFault /\ objects' = objects \cup {<<f, "file">>}
        /\ GotoIngest(f, w, "finalise") /\ UNCHANGED <<job, row>>
     \/ \* The download or the upload fails, maybe after storing the object, or the
        \* hash differs and the object is deleted.
        /\ Fault /\ AttemptFails(f, w)
        /\ objects' \in {objects, objects \cup {<<f, "file">>}, objects \ {<<f, "file">>}}
  /\ UNCHANGED <<used, uploads, outbox, queue, purges, revoked, connected, overlapped>>

AddStorageUsage(n) == used' = used + n

\* finalise's transaction, under the row's lock: STORED and the bytes together,
\* or the upload is purged.
Finalised(f) ==
  IF Pending(f) /\ revoked[f] = "no"
  THEN /\ row' = [row EXCEPT ![f] = "stored"] /\ AddStorageUsage(Bytes({f}))
       /\ UNCHANGED <<outbox, queue, purges>>
  ELSE /\ row' = IF Pending(f) THEN [row EXCEPT ![f] = "deleted"] ELSE row
       /\ Purge({f}) /\ UNCHANGED used

Finalise(f, w) ==
  /\ ingest[f][w] = "finalise" /\ GotoIngest(f, w, "finish")
  /\ Pending(f) /\ revoked[f] = "no" => NoFault
  /\ Finalised(f)
  /\ UNCHANGED <<uploads, objects, job, revoked, connected, overlapped>>

\* It throws, and may have committed.
FinaliseFails(f, w) ==
  /\ ingest[f][w] = "finalise" /\ Fault
  /\ \/ AttemptFails(f, w) /\ UNCHANGED <<used, outbox, queue, purges>>
     \/ Finalised(f) /\ (Again(f, w) \/ EndJob(f, w, "failed"))
  /\ UNCHANGED <<uploads, objects, revoked, connected, overlapped>>

\* The customer revokes the message: the row is marked, then its media deleted.
Revoke(f) ==
  /\ revoked[f] = "no" /\ row[f] # "none"
  /\ revoked' = [revoked EXCEPT ![f] = "marked"]
  /\ UNCHANGED <<used, row, uploads, bucket, job, ingest, connected, overlapped, faults>>

RevokeMedia(f) ==
  /\ revoked[f] = "marked"
  /\ revoked' = [revoked EXCEPT ![f] = "done"]
  /\ \/ /\ row[f] = "stored" /\ row' = [row EXCEPT ![f] = "deleted"]
        /\ Purge({f}) /\ Release(Bytes({f}))
     \/ /\ row[f] # "stored" /\ NoFault /\ UNCHANGED <<used, outbox, queue, purges>>
        /\ row' = IF Pending(f) THEN [row EXCEPT ![f] = "deleted"] ELSE row
     \/ Fault /\ UNCHANGED <<used, row, outbox, queue, purges>>
  /\ UNCHANGED <<uploads, objects, job, ingest, connected, overlapped>>

Disconnect ==
  /\ connected /\ Fault /\ connected' = FALSE
  /\ UNCHANGED <<used, row, uploads, bucket, job, ingest, revoked, overlapped>>

\* The agent reconnects: resumePendingMedia queues what is not queued or running.
Reconnect ==
  /\ ~connected /\ connected' = TRUE
  /\ job' = [f \in Inbound |-> IF Pending(f) /\ job[f].state # "queued"
                               THEN [state |-> "queued", made |-> 0] ELSE job[f]]
  /\ UNCHANGED <<used, row, uploads, bucket, ingest, revoked, overlapped, faults>>

-----------------------------------------------------------------------------
Reserved(f) == up[f].pc \in {"put", "thumb", "save"} \/ Contains(up[f].todo, "release")

\* Mutant: the daily sum leaves out the thumbnails.
RowBytes_NoThumbs == Cardinality(Stored)

RowBytes == Bytes(Stored)

\* The daily cron sums the rows in one statement; it erases the reservations of
\* the uploads in flight.
Reconcile ==
  /\ used # RowBytes
  /\ used' = RowBytes
  /\ overlapped' = overlapped \cup {f \in Uploaded : Reserved(f)}
  /\ UNCHANGED <<row, uploads, download, bucket, faults>>

\* The process dies: its requests are lost, its jobs are delivered again.
Crash ==
  /\ Fault
  /\ up' = [f \in Uploaded |-> IF up[f].pc = "new" THEN up[f] ELSE NoUpload]
  /\ removing' = Idle /\ editing' = {}
  /\ queue' = [id \in DOMAIN queue |-> [queue[id] EXCEPT !.pc = "wait"]]
  /\ ingest' = [f \in Inbound |-> [w \in Workers |-> "idle"]]
  /\ revoked' = [f \in Inbound |-> IF revoked[f] = "marked" THEN "done" ELSE revoked[f]]
  /\ UNCHANGED <<used, unit, row, objects, outbox, purges, job, connected, overlapped>>

UploadStep(f) ==
  Reserve(f) \/ PutFile(f) \/ PutThumb(f) \/ SaveRow(f) \/ Undo(f)

PurgeStep(id) == PurgeObject(id) \/ PurgeRow(id) \/ PurgeFails(id)

IngestStep(f, w) ==
  \/ StartIngest(f, w) \/ UploadInbound(f, w) \/ FinishIngest(f, w)
  \/ Finalise(f, w) \/ FinaliseFails(f, w)

PurgeIds == {<<k[1], k[2], n>> : k \in UNION {Keys(f) : f \in Files}, n \in 1 .. MaxPurges}

Next ==
  \/ \E f \in Uploaded : UploadStep(f)
  \/ \E f \in Files : Delete(f)
  \/ \E f \in OnUnit : ReadForEdit(f) \/ SaveEdit(f)
  \/ \E f \in Inbound : Revoke(f) \/ RevokeMedia(f)
  \/ \E f \in Inbound, w \in Workers : IngestStep(f, w)
  \/ \E id \in PurgeIds : PurgeStep(id) \/ Requeue(id)
  \/ FindUnitFiles \/ RemoveUnit
  \/ Disconnect \/ Reconnect \/ Reconcile \/ Crash

Spec == Init /\ [][Next]_vars

\* BullMQ's workers take what is queued; the crons run every ten minutes and
\* every day.  Nothing obliges a user, a request or an agent to go on.
FairSpec ==
  /\ Spec
  /\ WF_vars(\E id \in PurgeIds : PurgeStep(id)) /\ WF_vars(\E id \in PurgeIds : Requeue(id))
  /\ \A f \in Inbound : WF_vars(\E w \in Workers : IngestStep(f, w))
  /\ WF_vars(Reconcile)

-----------------------------------------------------------------------------
\* What is left of an undo.
Todos == {<< >>, <<"release">>, <<"delete file", "release">>, <<"release", "delete file", "delete thumb">>,
          <<"delete file", "delete thumb">>, <<"delete thumb">>}

TypeOK ==
  /\ used \in Nat /\ unit \in {"live", "gone"} /\ connected \in BOOLEAN
  /\ removing = Idle \/ removing \subseteq OnUnit
  /\ row \in [Files -> {"none", "pending", "stored", "failed", "deleted"}]
  /\ objects \subseteq UNION {Keys(f) : f \in Files}
  /\ DOMAIN outbox \subseteq PurgeIds /\ DOMAIN queue \subseteq PurgeIds
  /\ outbox \in [DOMAIN outbox -> [status : {"pending", "failed"}, attempts : 0 .. MaxAttempts]]
  /\ queue \in [DOMAIN queue -> [made : 0 .. MaxAttempts - 1, pc : {"wait", "delete row"}]]
  /\ purges \in [Files -> 0 .. MaxPurges] /\ editing \subseteq OnUnit /\ overlapped \subseteq Files
  /\ up \in [Uploaded -> [pc : {"new", "put", "thumb", "save", "undo", "done"}, todo : Todos]]
  /\ job \in [Inbound -> [state : {"none", "queued", "failed", "stranded"}, made : 0 .. MaxAttempts - 1]]
  /\ ingest \in [Inbound -> [Workers -> {"idle", "upload", "finalise", "finish", "park"}]]
  /\ revoked \in [Inbound -> {"no", "marked", "done"}]

\* A file its row offers is in the bucket: no undo, failed download, revoke,
\* repeated purge or crash deletes the object of a stored row.  Except a file that
\* an edit brought back after its deletion, that a media job run twice at once
\* purged, or whose row committed unheard and was then undone (media.service.ts:405);
\* nothing is said of a file the recount met in its upload.
StoredHasFile == \A f \in Stored \ overlapped : Keys(f) \subseteq objects

Working(f) == f \in Inbound /\ \E w \in Workers : ingest[f][w] # "idle"

\* A deletion strands nothing: every object of a purged file is gone or still has
\* its outbox row, whatever failed, was lost or crashed since (storage-purge).
PurgedIsTracked ==
  \A f \in Files : purges[f] > 0 /\ row[f] # "stored" /\ ~Working(f) =>
    \A k \in Keys(f) \cap objects : f \in overlapped \/ \E id \in DOMAIN outbox : KeyOf(id) = k

\* Every stored byte is counted: no retry, undo, double delete or crash gives back
\* bytes that a row still holds, while no two steps overlap on a file unordered and
\* no committed row is undone.
UsageCovers ==
  overlapped = {} =>
    Bytes(Stored) + Bytes({f \in Uploaded : up[f].pc \in {"put", "thumb", "save"}}) <= used

\* Uploads at the same time, on a quota read before, never take the company past
\* every quota it had; customers' media may (reserveStorage).
QuotaHolds ==
  overlapped = {} => \E q \in Quotas :
    Bytes(Stored \cap Uploaded) + Bytes({f \in Uploaded : up[f].pc \in {"put", "thumb", "save"}}) <= q

\* The outbox drains: every row is deleted with its object or given up, and none
\* is forgotten when its dispatch was lost or its job was dropped
\* (StoragePurgeRequeueCron); the files are purged a bounded number of times.
PurgesEnd == []<>(\A id \in DOMAIN outbox : outbox[id].status = "failed")

\* The counter ends at what the rows weigh (StorageQuotaReconcileCron).
UsageConverges == <>[](used = Bytes(Stored))

\* A customer's media is stored, closed or given up while its agent is connected.
\* Two ways leave it pending, and only the next connection ends them: its job found
\* no connection and fails after the agent is back (resumePendingMedia cannot
\* queue a job that is still active), or the update to FAILED fails, too.
InboundSettles == \A f \in Inbound :
  row[f] = "pending" ~> (row[f] # "pending" \/ ~connected \/ job[f].state = "stranded")

\* The counter is sound: what the rows weigh is counted, and uploads stay within a
\* quota the company had (reserveStorage, releaseStorage).
CounterHolds == TypeOK /\ UsageCovers /\ QuotaHolds

=============================================================================
