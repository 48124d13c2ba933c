------------------------------ MODULE DeletionJob ------------------------------
(***************************************************************************)
(* One job that deletes a selection of addresses in the background: its      *)
(* record in the database, the worker that owns it and the administrator's   *)
(* request (httpserver/admin_alias_delete_jobs.go,                           *)
(* store/alias_deletion_job.go). The deletions themselves are AliasDeletion. *)
(* The worker keeps a copy of the record and replaces the row after every    *)
(* result; a write may fail, or fail and yet be done. Rotating all           *)
(* credentials excludes jobs, and requests by a read-write lock.             *)
(***************************************************************************)
EXTENDS Integers, Sequences

CONSTANTS
    Alias,
    Selection    \* the addresses the administrator has selected

ASSUME JobConstants == Selection \in Seq(Alias) \ {<<>>}

VARIABLES
    call,         \* the request that starts it: "none", "checked" (it holds the read lock)
    job,          \* the worker: its next step, "none" when there is none
    record,       \* the row: [status, items], items are "open", "deleted", "failed"
    held,         \* the worker's copy
    broken,       \* a result could not be saved
    over,         \* the worker's context has ended
    audits,       \* the audit events of each item
    rotation,     \* of all credentials: "none", "pending", "held" (it has the write lock)
    authority,    \* the session and the password the administrator came with are good
    killed        \* ghost: what the job has deleted at Apple

workerVars == <<job, held, broken, over>>
recordVars == <<record, audits, killed>>
jobVars == <<call, rotation, authority, workerVars, recordVars>>

Items == {Selection[i] : i \in DOMAIN Selection}
Nothing == [a \in Items |-> "open"]
NoJob == [status |-> "none", items |-> Nothing]
Unfinished == {"queued", "running"}

JobInit ==
    /\ call = "none" /\ job = "none" /\ record = NoJob /\ held = NoJob /\ broken = FALSE /\ over = FALSE
    /\ audits = [a \in Items |-> 0] /\ rotation = "none" /\ authority = TRUE
    /\ killed = {}

(* SaveAliasDeletionJob: only a job that has not ended is replaced. A failure  *)
(* may hide a commit.                                                        *)
ReplacedAlways(j) == j    \* mutant: whatever became of the row
ReplacedBy(j) == IF record.status \in Unfinished THEN j ELSE record
Save(j, ok) ==
    /\ ok => record.status \in Unfinished
    /\ record' \in {ReplacedBy(j)} \cup (IF ok THEN {} ELSE {record})

-----------------------------------------------------------------------------
(* The request. It is let in by a read lock on credentials and looks at the  *)
(* selection; then the runtime's mutex admits it or not, and the row is       *)
(* inserted under the mutex, whatever becomes of the connection.              *)

CheckSelection ==
    /\ call = "none" /\ rotation # "held" /\ authority /\ record.status = "none"
    /\ call' = "checked"
    /\ UNCHANGED <<rotation, authority, workerVars, recordVars>>

Admits == rotation = "none"
Admit ==
    /\ call = "checked" /\ call' = "none"
    /\ \/ ~Admits /\ UNCHANGED <<workerVars, recordVars>>
       \/ LET queued == [status |-> "queued", items |-> Nothing] IN
          /\ Admits
          /\ \/ record' = queued /\ job' = "waiting" /\ held' = queued
             \/ record' \in {record, queued} /\ UNCHANGED <<job, held>>
          /\ UNCHANGED <<broken, over, audits, killed>>
    /\ UNCHANGED <<rotation, authority>>

-----------------------------------------------------------------------------
(* The worker, runAliasDeletionJob.                                          *)

Guarded ==
    /\ job = "waiting"
    /\ IF over THEN job' = "last" ELSE rotation = "none" /\ job' = "guarded"
    /\ UNCHANGED <<call, rotation, authority, held, broken, over, recordVars>>

(* What authorized the request must still be good.                           *)
Authorize ==
    /\ job = "guarded"
    /\ \/ job' = "last" /\ UNCHANGED <<held, record>>    \* over, not authority, or not to be read
       \/ /\ ~over /\ authority
          /\ held' = [held EXCEPT !.status = "running"]
          /\ \E ok \in BOOLEAN : Save(held', ok) /\ job' = IF ok THEN "begin" ELSE "last"
    /\ UNCHANGED <<call, rotation, authority, broken, over, audits, killed>>

(* report: results arrive in this order and each is saved with its audit       *)
(* event, or not at all; after a failure none is taken any more.              *)
AnyResult(a) == TRUE    \* mutant: results that were reported before
Unreported(a) == held.items[a] = "open"
With(items, told, result) == [a \in Items |-> IF a \in told THEN result ELSE items[a]]
Counted(told) == [a \in Items |-> audits[a] + IF a \in told THEN 1 ELSE 0]
Report(finished, result) ==
    LET new == {i \in DOMAIN finished : Unreported(finished[i])}
        First(k) == {finished[i] : i \in {j \in new : j <= k}}
        Told(k) == [held EXCEPT !.items = With(held.items, First(k), result)]
    IN  IF broken THEN UNCHANGED <<record, held, audits, broken>>
        ELSE \E k \in 0 .. Len(finished) :
                /\ held' = Told(k) /\ broken' = (\E i \in new : i > k)
                /\ \E n \in k .. Len(finished) :    \* the save that failed may be done
                      /\ \A i, j \in {l \in new : k < l /\ l <= n} : i = j
                      /\ record' = ReplacedBy(Told(n)) /\ audits' = Counted(First(n))

(* No item is begun after a result that could not be saved.                   *)
Halts == over \/ broken

(* The service has returned: its results are folded once more, and the job is  *)
(* complete if nothing cut it short.                                         *)
Return ==
    /\ job = "works"
    /\ LET verdict == IF ~broken /\ ~over /\ \A a \in Items : held.items[a] # "open" THEN "completed" ELSE "interrupted"
       IN \E ok \in BOOLEAN, status \in {verdict, "interrupted"} :
             /\ Save([held EXCEPT !.status = status], ok)
             /\ held' = [held EXCEPT !.status = IF ok THEN status ELSE "running"]
             /\ job' = IF ok THEN "leaves" ELSE "last"
    /\ audits' = IF broken THEN audits ELSE Counted({a \in Items : Unreported(a)})
    /\ UNCHANGED <<call, rotation, authority, broken, over, killed>>

(* The deferred finalizer tries once more to close the record.                *)
Last ==
    /\ job = "last" /\ job' = "leaves"
    /\ held' = [held EXCEPT !.status = "interrupted"]
    /\ \E ok \in BOOLEAN : Save(held', ok)
    /\ UNCHANGED <<call, rotation, authority, broken, over, audits, killed>>

LeavesJob ==
    /\ job = "leaves" /\ job' = "none" /\ held' = NoJob /\ broken' = FALSE /\ over' = FALSE
    /\ UNCHANGED <<call, rotation, authority, recordVars>>

(* Two hours are over, or the process stops.                                  *)
EndsEarly ==
    /\ job \notin {"none", "leaves"} /\ ~over /\ over' = TRUE
    /\ UNCHANGED <<call, rotation, authority, job, held, broken, recordVars>>

WorkerSteps == Guarded \/ Authorize \/ Last \/ LeavesJob \/ EndsEarly

-----------------------------------------------------------------------------
(* Rotating all credentials, and the administrator's session.                 *)

BeginRotation ==
    /\ rotation = "none" /\ authority /\ job = "none" /\ rotation' = "pending"
    /\ UNCHANGED <<call, authority, workerVars, recordVars>>
HoldRotation(readers) ==
    /\ rotation = "pending" /\ call = "none" /\ ~readers /\ rotation' = "held"
    /\ UNCHANGED <<call, authority, workerVars, recordVars>>
EndRotation ==    \* every session ends with a rotation that was committed
    /\ rotation = "held" /\ rotation' = "none" /\ authority' \in {authority, FALSE}
    /\ UNCHANGED <<call, workerVars, recordVars>>
SessionEnds ==
    /\ authority /\ authority' = FALSE
    /\ UNCHANGED <<call, rotation, workerVars, recordVars>>
AdministratorReturns ==    \* with a new session, which is no use to the old job
    /\ ~authority /\ job = "none" /\ rotation # "held" /\ authority' = TRUE
    /\ UNCHANGED <<call, rotation, workerVars, recordVars>>

Rotation(readers) == BeginRotation \/ HoldRotation(readers) \/ EndRotation \/ SessionEnds \/ AdministratorReturns

(* The process starts: jobs that were cut off are never taken up again.        *)
Interrupted == [record EXCEPT !.status = IF @ \in Unfinished THEN "interrupted" ELSE @]
JobRestarts ==
    /\ call' = "none" /\ job' = "none" /\ held' = NoJob /\ broken' = FALSE /\ over' = FALSE
    /\ rotation' = "none" /\ record' = Interrupted
    /\ UNCHANGED <<authority, audits, killed>>

-----------------------------------------------------------------------------
(* A result in the record has exactly one audit event, and no address has two, *)
(* also where a save failed that was done and where the service's results are  *)
(* folded in a second time (admin_alias_delete_jobs.go:497).                  *)
ResultsAudited == \A a \in Items : audits[a] <= 1 /\ (record.items[a] # "open" => audits[a] = 1)

(* At most one address is gone at Apple with the record still open about it,    *)
(* whatever failed and whenever the process died: a failed save stops the      *)
(* group before its next deletion (admin_alias_delete_jobs.go:530).           *)
OneUnrecorded == \A a, b \in {x \in killed : record.items[x] = "open"} : a = b

(* A record that has ended is never written again: not by the finalizer of a    *)
(* worker whose last save was done but reported as failed                     *)
(* (store/alias_deletion_job.go:107).                                        *)
EndedForGood == [][record.status \in {"completed", "interrupted"} => record' = record]_record
=============================================================================
