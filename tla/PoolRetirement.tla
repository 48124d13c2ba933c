--------------------------- MODULE PoolRetirement ---------------------------
(***************************************************************************)
(* Retiring used pool addresses: a project asks for addresses it has used  *)
(* to be deleted at Apple.  The request is a durable job with one item per *)
(* lease (internal/store/pool_retirement.go, pool_retirement_reconcile.go, *)
(* pool_retirement_recovery.go), executed by one goroutine per operation   *)
(* (internal/httpserver/pool_alias_retirement.go and                       *)
(* pool_alias_retirement_reconcile.go) that calls the Apple service        *)
(* without holding the pool lock.  Composes with Pool: leases, membership, *)
(* aliases and accounts are Pool's, and every pool operation interleaves   *)
(* with the jobs.                                                          *)
(*                                                                         *)
(* An item's snapshot of alias, account and address is not kept: a lease's *)
(* alias_id only ever changes to NULL and alias ids are never reused, so   *)
(* the snapshot still matches exactly when leaseAlias is not 0.            *)
(***************************************************************************)
EXTENDS Pool

CONSTANT Op     \* operation ids the projects send

JobStatus == {"none", "queued", "running", "completed", "review", "interrupted"}
ItemState == {"none", "retiring", "review", "used", "retired"}
Evidence == {"none", "gone", "kept", "unknown"}

\* What the goroutine of an operation is doing.
Phase == {"idle", "starting", "deleting", "recording", "closing", "reading", "applying"}

VARIABLES
    job,        \* pool_alias_retirement_jobs.status
    jobClient,  \* pool_alias_retirement_jobs.client_id
    item,       \* pool_alias_retirement_job_items.state, by operation and lease
    phase,      \* runtime.active and the program counter of the goroutine
    resume,     \* runtime.reconcileResume
    todo,       \* items of this round still without a recorded result
    evidence,   \* Apple outcome or directory observation of an item
    broken,     \* the Apple call returned an error or the context ended
    prepared,   \* toResume: some item may be deleted after all
    verdict,    \* the final status computed and not yet written
    apple       \* addresses that exist at Apple

jobVars == <<job, jobClient, item>>
workVars == <<phase, resume, todo, evidence, broken, prepared, verdict>>
retireVars == <<jobVars, workVars, apple>>
allVars == <<vars, retireVars>>

Items(op) == {l \in LeaseId : item[op][l] # "none"}
Unresolved(op, l) == item[op][l] \in {"retiring", "review"}
Active == {"queued", "running"}

\* Mutant: attempts of other operations are not looked for.
AnyOwner(op, l) == TRUE

\* poolAliasRetirementOtherOwnerTx finds no other unresolved attempt.
SoleOwner(op, l) ==
    \A o \in Op \ {op} : item[o][l] \in {"none", "retired"}
                          \/ (item[o][l] = "used" /\ job[o] = "completed")

\* poolAliasRetirementReconcileBindingTx.
Bound(op, l) ==
    IF item[op][l] = "retired"
    THEN leaseState[l] = "retired" /\ leaseAlias[l] = 0
    ELSE leaseState[l] \in {"retiring", "used"}

\* The end state of a job: completed unless an item is unresolved.
Outcome(op) == IF \E l \in LeaseId : Unresolved(op, l) THEN "review" ELSE "completed"

-----------------------------------------------------------------------------
(***************************************************************************)
(* Item transactions.                                                      *)
(***************************************************************************)

UnchangedPool == UNCHANGED <<accountVars, aliasVars, holders, memberVars, clientOn, request,
                             leaseVars, claim>>

SetItem(op, l, s) == item' = [item EXCEPT ![op][l] = s]

\* RecordPoolAliasRetirementReconcileReview: an unresolved item of a running
\* job of an enabled project goes to review; otherwise nothing is written.
CanReview(op, l) ==
    /\ clientOn[jobClient[op]] /\ job[op] = "running" /\ Bound(op, l)
    /\ Unresolved(op, l) /\ leaseState[l] = "retiring"

RecordReview(op, l) ==
    /\ SetItem(op, l, IF CanReview(op, l) THEN "review" ELSE item[op][l])
    /\ UnchangedPool

\* The lease is closed for good, its alias (if it is still there) deleted.
RetireLease(op, l) ==
    /\ SetItem(op, l, "retired")
    /\ leaseState' = [leaseState EXCEPT ![l] = "retired"]
    /\ DropAliases({leaseAlias[l]} \ {0})
    /\ UNCHANGED <<accountVars, clientOn, request, leaseKeys, ttl, claim>>

CanFinalize(op, l) ==
    item[op][l] = "retiring" /\ leaseState[l] = "retiring" /\ leaseAlias[l] # 0

\* FinalizePoolAliasRetirement, and the review if it fails.
Finalize(op, l) ==
    \/ item[op][l] = "retired" /\ UNCHANGED item /\ UnchangedPool
    \/ CanFinalize(op, l) /\ RetireLease(op, l)
    \/ item[op][l] # "retired" /\ ~CanFinalize(op, l) /\ RecordReview(op, l)

CanRestore(op, l) == CanFinalize(op, l) /\ PoolRow(leaseAlias[l]) # "none"

\* RestorePoolAliasRetirement, and the review if it fails.
Restore(op, l) ==
    \/ item[op][l] = "used" /\ UNCHANGED item /\ UnchangedPool
    \/ /\ CanRestore(op, l)
       /\ SetItem(op, l, "used")
       /\ leaseState' = [leaseState EXCEPT ![l] = "used"]
       /\ WriteMembers({leaseAlias[l]}, "used")
       /\ UNCHANGED <<accountVars, aliasVars, holders, clientOn, request, leaseAlias,
                      leaseKeys, ttl, claim>>
    \/ item[op][l] # "used" /\ ~CanRestore(op, l) /\ RecordReview(op, l)

CanFinalizeReconciled(op, l) ==
    /\ clientOn[jobClient[op]] /\ item[op][l] # "retired" /\ SoleOwner(op, l) /\ Bound(op, l)
    /\ leaseState[l] = (IF item[op][l] = "used" THEN "used" ELSE "retiring")

\* FinalizeReconciledPoolAliasRetirement, and the review if it fails.
FinalizeReconciled(op, l) ==
    \/ CanFinalizeReconciled(op, l) /\ RetireLease(op, l)
    \/ ~CanFinalizeReconciled(op, l) /\ RecordReview(op, l)

CanPrepare(op, l) ==
    /\ clientOn[jobClient[op]] /\ job[op] = "running"
    /\ item[op][l] \in {"review", "used", "retiring"}
    /\ SoleOwner(op, l) /\ Bound(op, l)
    /\ leaseAlias[l] # 0 /\ PoolRow(leaseAlias[l]) \in {"used", "paused"}

\* PreparePoolAliasRetirementResume: the lease is closed again and its member
\* paused before any remote write.
PrepareResume(op, l) ==
    /\ SetItem(op, l, "retiring")
    /\ leaseState' = [leaseState EXCEPT ![l] = "retiring"]
    /\ WriteMembers({leaseAlias[l]}, "paused")
    /\ UNCHANGED <<accountVars, aliasVars, holders, clientOn, request, leaseAlias,
                   leaseKeys, ttl, claim>>

-----------------------------------------------------------------------------
(***************************************************************************)
(* Requests.                                                               *)
(***************************************************************************)

\* StartPoolAliasRetirement by an enabled project, for leases it has used.
\* An operation id already known is answered with the stored job.
StartRetirement(k, op, S) ==
    /\ PoolLockFree
    /\ job[op] = "none" /\ S # {} /\ clientOn[k]
    /\ \A l \in S : /\ leaseClient[l] = k /\ leaseState[l] = "used" /\ leaseAlias[l] # 0
                    /\ aliasOn[leaseAlias[l]] /\ AccountOn(leaseAlias[l])
                    /\ member[leaseAlias[l]] = "used"
                    /\ \A m \in LeaseId \ {l} : Live(m) => leaseAlias[m] # leaseAlias[l]
    /\ job' = [job EXCEPT ![op] = "queued"]
    /\ jobClient' = [jobClient EXCEPT ![op] = k]
    /\ item' = [item EXCEPT ![op] = [l \in LeaseId |-> IF l \in S THEN "retiring" ELSE "none"]]
    /\ leaseState' = [l \in LeaseId |-> IF l \in S THEN "retiring" ELSE leaseState[l]]
    /\ phase' = [phase EXCEPT ![op] = "starting"]
    /\ UNCHANGED <<accountVars, aliasVars, holders, memberVars, clientOn, request, leaseAlias,
                   leaseKeys, ttl, claim, resume, todo, evidence, broken, prepared, verdict, apple>>

\* The reconcile request: check only (res = FALSE) or resume the deletion.
\* A running goroutine of the operation answers instead of a new one.
AcquireReconcile(op, res) ==
    /\ PoolLockFree
    /\ phase[op] = "idle"
    /\ job[op] \in {"review", "interrupted", "completed"}
    /\ ~(job[op] = "completed" /\ \A l \in Items(op) : item[op][l] = "retired")
    /\ clientOn[jobClient[op]]
    /\ \A l \in Items(op) : (item[op][l] # "retired" => SoleOwner(op, l)) /\ Bound(op, l)
    /\ job' = [job EXCEPT ![op] = "running"]
    /\ phase' = [phase EXCEPT ![op] = "reading"]
    /\ resume' = [resume EXCEPT ![op] = res]
    /\ todo' = [todo EXCEPT ![op] = {l \in Items(op) : item[op][l] # "retired"}]
    /\ UNCHANGED <<vars, jobClient, item, evidence, broken, prepared, verdict, apple>>

\* RecoverPoolAliasRetirementSnapshot: an operator rebuilds the job of a used
\* lease whose alias row is gone.
RecoverSnapshot(op, l) ==
    /\ PoolLockFree
    /\ job[op] = "none" /\ clientOn[leaseClient[l]]
    /\ leaseState[l] = "used" /\ leaseAlias[l] = 0
    /\ \E c \in Account : account[c] # "absent"
    /\ \A a \in AliasId : Exists(a) => addr[a] # leaseAddr[l]
    /\ \A m \in LeaseId \ {l} : Live(m) => leaseAddr[m] # leaseAddr[l]
    /\ \A o \in Op : \A m \in Items(o) : leaseAddr[m] # leaseAddr[l]
    /\ job' = [job EXCEPT ![op] = "review"]
    /\ jobClient' = [jobClient EXCEPT ![op] = leaseClient[l]]
    /\ SetItem(op, l, "review")
    /\ leaseState' = [leaseState EXCEPT ![l] = "retiring"]
    /\ UNCHANGED <<accountVars, aliasVars, holders, memberVars, clientOn, request, leaseAlias,
                   leaseKeys, ttl, claim, workVars, apple>>

-----------------------------------------------------------------------------
(***************************************************************************)
(* runPoolAliasRetirementJob: delete at Apple, then publish each outcome.  *)
(***************************************************************************)

GoTo(op, p) == phase' = [phase EXCEPT ![op] = p]

BeginDelete(op) ==
    /\ phase[op] = "starting"
    /\ job' = [job EXCEPT ![op] = "running"]
    /\ todo' = [todo EXCEPT ![op] = {l \in Items(op) : item[op][l] = "retiring"}]
    /\ GoTo(op, "deleting")
    /\ UNCHANGED <<vars, jobClient, item, resume, evidence, broken, prepared, verdict, apple>>

\* One item of Service.DeleteAliases.  Its contract: success means the address
\* is gone, a definite failure means this attempt removed nothing, anything
\* else leaves the result unknown.
AppleDelete(op, l) ==
    /\ phase[op] = "deleting" /\ l \in todo[op] /\ evidence[op][l] = "none"
    /\ \/ /\ apple' = apple \ {leaseAddr[l]}
          /\ \E e \in {"gone", "unknown"} : evidence' = [evidence EXCEPT ![op][l] = e]
       \/ /\ apple' = apple
          /\ \E e \in {"kept", "unknown"} : evidence' = [evidence EXCEPT ![op][l] = e]
    /\ UNCHANGED <<vars, jobVars, phase, resume, todo, broken, prepared, verdict>>

\* DeleteAliases returns; if it was cut short some items have no outcome.
DeleteReturns(op, cut) ==
    /\ phase[op] = "deleting"
    /\ cut \/ \A l \in todo[op] : evidence[op][l] # "none"
    /\ broken' = [broken EXCEPT ![op] = cut]
    /\ GoTo(op, "recording")
    /\ UNCHANGED <<vars, jobVars, resume, todo, evidence, prepared, verdict, apple>>

Done(op, l) == /\ todo' = [todo EXCEPT ![op] = @ \ {l}]
               /\ evidence' = [evidence EXCEPT ![op][l] = "none"]

RecordOutcome(op, l) ==
    /\ PoolLockFree
    /\ phase[op] = "recording" /\ l \in todo[op]
    /\ \/ evidence[op][l] = "gone" /\ Finalize(op, l)
       \/ evidence[op][l] = "kept" /\ Restore(op, l)
       \/ evidence[op][l] = "unknown" /\ RecordReview(op, l)
    /\ Done(op, l)
    /\ UNCHANGED <<job, jobClient, phase, resume, broken, prepared, verdict, apple>>

Rest(op) == /\ phase' = [phase EXCEPT ![op] = "idle"]
            /\ resume' = [resume EXCEPT ![op] = FALSE]
            /\ todo' = [todo EXCEPT ![op] = {}]
            /\ evidence' = [evidence EXCEPT ![op] = [l \in LeaseId |-> "none"]]
            /\ broken' = [broken EXCEPT ![op] = FALSE]
            /\ prepared' = [prepared EXCEPT ![op] = FALSE]
            /\ verdict' = [verdict EXCEPT ![op] = "none"]

\* Mutant: the items go to review and the job's status is not written.
InterruptItemsOnly(op) ==
    /\ PoolLockFree
    /\ item' = [item EXCEPT ![op] = [l \in LeaseId |->
          IF item[op][l] = "retiring" /\ CanReview(op, l) THEN "review" ELSE item[op][l]]]
    /\ Rest(op)
    /\ UNCHANGED <<vars, job, jobClient, apple>>

\* interruptPoolAliasRetirementJob.
Interrupt(op) ==
    /\ PoolLockFree
    /\ item' = [item EXCEPT ![op] = [l \in LeaseId |->
          IF item[op][l] = "retiring" /\ CanReview(op, l) THEN "review" ELSE item[op][l]]]
    /\ job' = [job EXCEPT ![op] = "interrupted"]
    /\ Rest(op)
    /\ UNCHANGED <<vars, jobClient, apple>>

Recorded(op) == \A l \in todo[op] : evidence[op][l] = "none"

InterruptDelete(op) ==
    /\ phase[op] = "recording" /\ Recorded(op) /\ broken[op]
    /\ Interrupt(op)

\* The final status is computed from one read and written by a later,
\* unconditional update.
ComputeVerdict(op) ==
    /\ phase[op] = "recording" /\ Recorded(op) /\ ~broken[op]
    /\ verdict' = [verdict EXCEPT ![op] = Outcome(op)]
    /\ GoTo(op, "closing")
    /\ UNCHANGED <<vars, jobVars, resume, todo, evidence, broken, prepared, apple>>

WriteVerdict(op) ==
    /\ phase[op] = "closing"
    /\ job' = [job EXCEPT ![op] = verdict[op]]
    /\ Rest(op)
    /\ UNCHANGED <<vars, jobClient, item, apple>>

-----------------------------------------------------------------------------
(***************************************************************************)
(* runPoolAliasRetirementReconcile: read the directory, apply what it says.*)
(***************************************************************************)

\* Mutant: an address missing from an unreliable answer counts as gone.
ReadDirectoryTrusting(op, unsure) ==
    /\ phase[op] = "reading"
    /\ unsure \subseteq todo[op]
    /\ evidence' = [evidence EXCEPT ![op] = [l \in LeaseId |->
          IF l \notin todo[op] THEN "none"
          ELSE IF leaseAddr[l] \in apple /\ l \notin unsure THEN "kept" ELSE "gone"]]
    /\ GoTo(op, "applying")
    /\ UNCHANGED <<vars, jobVars, resume, todo, broken, prepared, verdict, apple>>

\* ReconcileRetirementAliases: a fresh directory read, or no answer (unsure).
ReadDirectory(op, unsure) ==
    /\ phase[op] = "reading"
    /\ unsure \subseteq todo[op]
    /\ evidence' = [evidence EXCEPT ![op] = [l \in LeaseId |->
          IF l \notin todo[op] THEN "none"
          ELSE IF l \in unsure THEN "unknown"
          ELSE IF leaseAddr[l] \in apple THEN "kept" ELSE "gone"]]
    /\ GoTo(op, "applying")
    /\ UNCHANGED <<vars, jobVars, resume, todo, broken, prepared, verdict, apple>>

ApplyObservation(op, l) ==
    /\ PoolLockFree
    /\ phase[op] = "applying" /\ l \in todo[op]
    /\ \/ /\ evidence[op][l] = "gone"
          /\ FinalizeReconciled(op, l) /\ UNCHANGED prepared
       \/ /\ evidence[op][l] = "unknown" \/ (evidence[op][l] = "kept" /\ ~resume[op])
          /\ RecordReview(op, l) /\ UNCHANGED prepared
       \/ /\ evidence[op][l] = "kept" /\ resume[op] /\ CanPrepare(op, l)
          /\ PrepareResume(op, l)
          /\ prepared' = [prepared EXCEPT ![op] = TRUE]
       \/ /\ evidence[op][l] = "kept" /\ resume[op] /\ ~CanPrepare(op, l)
          /\ RecordReview(op, l) /\ UNCHANGED prepared
    /\ Done(op, l)
    /\ UNCHANGED <<job, jobClient, phase, resume, broken, verdict, apple>>

\* Something was prepared: the deletion job runs again in this goroutine.
ContinueDelete(op) ==
    /\ phase[op] = "applying" /\ todo[op] = {} /\ prepared[op]
    /\ prepared' = [prepared EXCEPT ![op] = FALSE]
    /\ GoTo(op, "starting")
    /\ UNCHANGED <<vars, jobVars, resume, todo, evidence, broken, verdict, apple>>

\* CompletePoolAliasRetirementReconcile needs an enabled project and a job
\* that is running or already has the computed status.
CanComplete(op) == clientOn[jobClient[op]] /\ job[op] \in {"running", Outcome(op)}

CompleteReconcile(op) ==
    /\ PoolLockFree
    /\ phase[op] = "applying" /\ todo[op] = {} /\ ~prepared[op]
    /\ CanComplete(op)
    /\ job' = [job EXCEPT ![op] = Outcome(op)]
    /\ Rest(op)
    /\ UNCHANGED <<vars, jobClient, item, apple>>

\* The context ended, or completion was refused.
InterruptReconcile(op) ==
    /\ phase[op] \in {"reading", "applying"}
    /\ Interrupt(op)

-----------------------------------------------------------------------------
(***************************************************************************)
(* The process and the world around it.                                    *)
(***************************************************************************)

\* The process dies; InterruptPoolAliasRetirementJobs runs at the next start.
CrashRestart ==
    /\ \E op \in Op : phase[op] # "idle"
    /\ item' = [op \in Op |-> [l \in LeaseId |->
          IF job[op] \in Active /\ item[op][l] = "retiring" THEN "review" ELSE item[op][l]]]
    /\ job' = [op \in Op |-> IF job[op] \in Active THEN "interrupted" ELSE job[op]]
    /\ phase' = [op \in Op |-> "idle"]
    /\ resume' = [op \in Op |-> FALSE]
    /\ todo' = [op \in Op |-> {}]
    /\ evidence' = [op \in Op |-> [l \in LeaseId |-> "none"]]
    /\ broken' = [op \in Op |-> FALSE]
    /\ prepared' = [op \in Op |-> FALSE]
    /\ verdict' = [op \in Op |-> "none"]
    /\ claim' = NoClaim
    /\ UNCHANGED <<accountVars, aliasVars, holders, memberVars, clientOn, request, leaseVars,
                   jobClient, apple>>

\* The owner deletes the address in Apple's own settings.
OwnerDeletes(x) ==
    /\ x \in apple
    /\ apple' = apple \ {x}
    /\ UNCHANGED <<vars, jobVars, workVars>>

\* ReconcileAppleDirectory also settles the items of the aliases that are
\* gone, and completes jobs left without an open item.
DirectorySettles(c, gone) ==
    /\ \A a \in gone : addr[a] \notin apple
    /\ ReconcileAppleDirectory(c, gone)
    /\ LET settled(op, l) == leaseAlias[l] \in gone /\ item[op][l] # "none"
       IN  /\ item' = [op \in Op |-> [l \in LeaseId |->
                 IF settled(op, l) THEN "retired" ELSE item[op][l]]]
           /\ job' = [op \in Op |->
                 IF /\ \E l \in LeaseId : settled(op, l)
                    /\ \A l \in Items(op) : settled(op, l) \/ item[op][l] = "retired"
                 THEN "completed" ELSE job[op]]
    /\ UNCHANGED <<jobClient, workVars, apple>>

\* Every pool operation but the directory reconciliation leaves jobs alone.
PoolStep ==
    /\ \/ \E c \in Account :
             \/ CreateAccount(c) \/ DeleteAccount(c) \/ DisableAccount(c) \/ EnableAccount(c)
             \/ \E auto \in BOOLEAN : SetPoolAccount(c, auto)
             \/ \E x \in Address, on \in BOOLEAN : CreateAlias(c, x, on)
       \/ AliasNext
       \/ ClaimNext
       \/ LeaseNext
       \/ RefreshEnroll
       \/ \E S \in SUBSET AliasId : EnrollPoolAliases(S)
       \/ \E k \in Client, on \in BOOLEAN : UpdatePoolClient(k, on)
    /\ UNCHANGED retireVars

WorkerStep(op) ==
    \/ BeginDelete(op)
    \/ \E l \in LeaseId : AppleDelete(op, l) \/ RecordOutcome(op, l) \/ ApplyObservation(op, l)
    \/ \E cut \in BOOLEAN : DeleteReturns(op, cut)
    \/ InterruptDelete(op) \/ ComputeVerdict(op) \/ WriteVerdict(op)
    \/ \E unsure \in SUBSET LeaseId : ReadDirectory(op, unsure)
    \/ ContinueDelete(op) \/ CompleteReconcile(op) \/ InterruptReconcile(op)

RetireInitWith(existing) ==
    /\ job = [op \in Op |-> "none"]
    /\ jobClient = [op \in Op |-> CHOOSE k \in Client : TRUE]
    /\ item = [op \in Op |-> [l \in LeaseId |-> "none"]]
    /\ phase = [op \in Op |-> "idle"]
    /\ resume = [op \in Op |-> FALSE]
    /\ todo = [op \in Op |-> {}]
    /\ evidence = [op \in Op |-> [l \in LeaseId |-> "none"]]
    /\ broken = [op \in Op |-> FALSE]
    /\ prepared = [op \in Op |-> FALSE]
    /\ verdict = [op \in Op |-> "none"]
    /\ apple = existing

RetireInit == RetireInitWith(Address)
RInit == Init /\ RetireInit

RNext ==
    \/ PoolStep
    \/ \E k \in Client, op \in Op, S \in SUBSET LeaseId : StartRetirement(k, op, S)
    \/ \E op \in Op : WorkerStep(op)
    \/ \E op \in Op, res \in BOOLEAN : AcquireReconcile(op, res)
    \/ \E op \in Op, l \in LeaseId : RecoverSnapshot(op, l)
    \/ CrashRestart
    \/ \E x \in Address : OwnerDeletes(x)
    \/ \E c \in Account, gone \in SUBSET AliasId : DirectorySettles(c, gone)

\* A goroutine keeps running, every Apple call has a deadline, and the pool
\* lock is granted to whoever keeps asking.
RFairness ==
    /\ WF_allVars(PoolStep /\ (ClaimCommit \/ ClaimAbort))
    /\ \A op \in Op : SF_allVars(WorkerStep(op))

RSpec == RInit /\ [][RNext]_allVars /\ RFairness

-----------------------------------------------------------------------------
(***************************************************************************)
(* Properties.                                                             *)
(***************************************************************************)

\* A lease is recorded as retired only when its address no longer exists at
\* Apple, whichever of the three paths retired it: the deletion job, the
\* reconciliation of an old job, or the directory reconciliation.
RetiredGone == \A l \in LeaseId : leaseState[l] = "retired" => leaseAddr[l] \notin apple

\* Jobs and leases agree, through crashes, cancelled calls, second jobs and rounds
\* that end beside a directory reconciliation: a closed (retiring) lease belongs to
\* exactly one unresolved item of one job and an unresolved item keeps its lease
\* closed; a job that is queued or running has a goroutine working on it, one that
\* is completed has no unresolved item.
JobsHonest ==
    /\ \A l \in LeaseId :
          /\ leaseState[l] = "retiring" <=> \E op \in Op : Unresolved(op, l)
          /\ \A o1, o2 \in Op : Unresolved(o1, l) /\ Unresolved(o2, l) => o1 = o2
    /\ \A op \in Op :
          /\ job[op] \in Active => phase[op] # "idle"
          /\ job[op] = "completed" => \A l \in LeaseId : ~Unresolved(op, l)

\* Every accepted or resumed job reaches a final status.
JobEnds == \A op \in Op : job[op] \in Active ~> job[op] \notin Active
=============================================================================
