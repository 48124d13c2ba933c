---------------------------- MODULE SyncManager -----------------------------
(***************************************************************************)
(* The mailbox manager (internal/syncer/manager.go) and everybody who      *)
(* shares its locks: the rounds of the automatic loop, manual jobs,        *)
(* notifications, the worker that marks mail as seen upstream, and         *)
(* operations that change an account. Mail is read under the lock of the   *)
(* mailbox and one of a few connection slots, configuration changes under  *)
(* the lock of the account; both maps of locks are the one of              *)
(* AccountLocks, whose keys and callers are those below. What a read        *)
(* publishes is the subject of MailSync.                                    *)
(***************************************************************************)
EXTENDS AccountLocks

CONSTANTS
    Account,
    Worker,        \* <<kind, account>>: who may run
    Crews,         \* sets of workers: who takes part in a behaviour
    Slots,         \* IMAP connections at a time
    MaxBatches,    \* batches of one manual job, continuations of one round (128, 127 in the code)
    MaxRetries,    \* automatic retries in a retry window (2 in the code)
    MaxSource,     \* bound: upstream mailboxes an account is moved through
    Validity       \* upstream mailbox -> its UIDVALIDITY

VARIABLES
    crew,        \* the workers of this behaviour
    slots,       \* workers with a connection
    pc,          \* worker -> "idle", "run", or "done": giving back what it holds
    progress,    \* account -> the trigger of the run shown to the administrator
    row,         \* account -> "idle", "pending", "paused", "disabled"
    source,      \* account -> the upstream mailbox it is configured with
    tasks,       \* account -> a message of which mailbox is to be marked, 0: none
    listed,      \* account -> the task the seen worker has read
    jobs,        \* accounts with a manual job
    batch,       \* account -> batches of its manual job that left more
    more,        \* accounts whose manual job goes on
    manualDone,  \* the channel Run waits at is closed
    stopping, cancelled,    \* BeginShutdown was called; the worker context is cancelled
    loop,        \* the automatic loop
    cont,        \* accounts the round continues with; none: all of them
    patient,     \* accounts whose turn waits for the lock
    pending, retryable,     \* results of the round
    retryQueue, window, attempt, rounds

runVars == <<loop, cont, patient, pending, retryable, retryQueue, window, attempt, rounds>>
jobVars == <<jobs, batch, more, manualDone, stopping, cancelled>>
rowVars == <<row, source, tasks, listed>>
vars == <<crew, lockVars, slots, pc, progress, rowVars, jobVars, runVars>>

Kind(w) == w[1]
Of(w) == w[2]
Mail == {w \in Worker : Kind(w) # "admin"}    \* those who use a connection
Managed == {w \in Worker : Kind(w) \in {"seen", "admin"}}
Acc(w) == <<"locks", w>>         \* what w does at the lock of its account
Imap(w) == <<"imapLocks", w>>    \* and at the lock of its mailbox
Claims == {Acc(w) : w \in Managed} \cup {Imap(w) : w \in Mail}
ClaimsOf(w) == {c \in {Acc(w), Imap(w)} : c \in Claims}
KeyOf(c) == <<c[1], Of(c[2])>>

LockKeys == {"locks", "imapLocks"} \X Account

ASSUME ManagerConstants ==
    /\ Proc = Claims /\ Key = LockKeys
    /\ Crews \subseteq SUBSET Worker
    /\ Worker \subseteq {"auto", "manual", "notice", "seen", "admin"} \X Account
    /\ {Slots, MaxBatches, MaxRetries, MaxSource} \subseteq Nat \ {0}
    /\ None \notin {"automatic", "manual", "notification"}    \* the triggers below

AutoTurn(a) == <<"auto", a>>
Trigger == [auto |-> "automatic", manual |-> "manual", notice |-> "notification"]

Init ==
    /\ crew \in Crews
    /\ want = [c \in Claims |-> KeyOf(c)]
    /\ LocksInit
    /\ slots = {} /\ pc = [w \in Worker |-> "idle"]
    /\ progress = [a \in Account |-> None]
    /\ row = [a \in Account |-> "pending"] /\ source = [a \in Account |-> 1]
    /\ tasks = [a \in Account |-> 0] /\ listed = [a \in Account |-> 0]
    /\ jobs = {} /\ batch = [a \in Account |-> 0] /\ more = {}
    /\ manualDone = FALSE /\ stopping = FALSE /\ cancelled = FALSE
    /\ loop = IF \E a \in Account : AutoTurn(a) \in crew THEN "list" ELSE "parked"    \* parked: onDemandOnly
    /\ cont = {} /\ patient = {} /\ pending = {} /\ retryable = {}
    /\ retryQueue = {} /\ window = "closed" /\ attempt = 0 /\ rounds = 0

-----------------------------------------------------------------------------
(* The progress shown for an account: one run per account, named by its     *)
(* trigger.                                                                 *)

Ensured(a, t) == [progress EXCEPT ![a] = IF @ = None THEN t ELSE @]
Begun(a, t) == [progress EXCEPT ![a] = t]
Finished(A, t) == [a \in Account |-> IF a \in A /\ progress[a] = t THEN None ELSE progress[a]]

TriggerOf(w) == Trigger[Kind(w)]
Shown(w) == IF Kind(w) \in DOMAIN Trigger THEN Ensured(Of(w), TriggerOf(w)) ELSE progress

-----------------------------------------------------------------------------
(* Who starts.                                                              *)

(* QueueAccountSync: one job per account, none once the service stops.      *)
AcceptsAlways(a) == a \notin jobs /\ ~cancelled    \* a job accepted after BeginShutdown
Accepts(a) == ~stopping /\ a \notin jobs /\ ~cancelled
QueueAccountSync(a) ==
    LET w == <<"manual", a>> IN
    /\ w \in crew /\ Accepts(a)
    /\ jobs' = jobs \cup {a}
    /\ pc' = [pc EXCEPT ![w] = "run"]
    /\ progress' = Ensured(a, "manual")
    /\ UNCHANGED <<lockVars, slots, rowVars, batch, more, manualDone, stopping, cancelled, runVars>>

(* A mail notification, or a waiting reader, asks for a read.               *)
Notify(a) ==
    LET w == <<"notice", a>> IN
    /\ w \in crew /\ pc[w] = "idle" /\ ~cancelled
    /\ pc' = [pc EXCEPT ![w] = "run"]
    /\ progress' = Ensured(a, "notification")
    /\ UNCHANGED <<lockVars, slots, rowVars, jobVars, runVars>>

(* ConsumeLatestMessage: a reader took the message; it is to be marked.      *)
Consume(a) ==
    /\ <<"seen", a>> \in crew /\ row[a] # "disabled"
    /\ tasks' = [tasks EXCEPT ![a] = source[a]]
    /\ UNCHANGED <<lockVars, slots, pc, progress, row, source, listed, jobVars, runVars>>

(* processPending: the tasks are read before any lock is taken.              *)
ListSeenTasks(a) ==
    LET w == <<"seen", a>> IN
    /\ w \in crew /\ pc[w] = "idle" /\ ~cancelled /\ tasks[a] # 0
    /\ listed' = [listed EXCEPT ![a] = tasks[a]]
    /\ pc' = [pc EXCEPT ![w] = "run"]
    /\ UNCHANGED <<lockVars, slots, progress, row, source, tasks, jobVars, runVars>>

Administer(a) ==
    LET w == <<"admin", a>> IN
    /\ w \in crew /\ pc[w] = "idle"
    /\ pc' = [pc EXCEPT ![w] = "run"]
    /\ UNCHANGED <<lockVars, slots, progress, rowVars, jobVars, runVars>>

-----------------------------------------------------------------------------
(* Getting and giving back the locks and the slot.                          *)

Holds(c) == use[c] = "hold"

EnterAccount(w) ==
    /\ w \in Managed /\ pc[w] = "run" /\ use[Acc(w)] = "none"
    /\ Enter(Acc(w), KeyOf(Acc(w)))
    /\ UNCHANGED <<slots, pc, progress, rowVars, jobVars, runVars>>

EnterMailbox(w) ==
    /\ w \in Mail /\ pc[w] = "run" /\ use[Imap(w)] = "none"
    /\ Kind(w) = "seen" => Holds(Acc(w))
    /\ Kind(w) = "auto" => Of(w) \in patient
    /\ Enter(Imap(w), KeyOf(Imap(w)))
    /\ progress' = Shown(w)
    /\ UNCHANGED <<slots, pc, rowVars, jobVars, runVars>>

(* A turn of the round that continues nothing passes by a busy mailbox.     *)
TryMailbox(w) ==
    /\ Kind(w) = "auto" /\ pc[w] = "run" /\ use[Imap(w)] = "none" /\ Of(w) \notin patient
    /\ \/ Try(Imap(w), KeyOf(Imap(w))) /\ progress' = Shown(w) /\ UNCHANGED pc
       \/ entry[KeyOf(Imap(w))] # None /\ pc' = [pc EXCEPT ![w] = "idle"] /\ UNCHANGED <<lockVars, progress>>
    /\ UNCHANGED <<slots, rowVars, jobVars, runVars>>

TakeLock(c) ==
    /\ Take(c)
    /\ progress' = IF c = Imap(c[2]) THEN Shown(c[2]) ELSE progress
    /\ UNCHANGED <<slots, pc, rowVars, jobVars, runVars>>

(* A slot is asked for by those who have their mailbox only.                *)
SlotFirst(w) == use[Imap(w)] \in {"wait", "hold"}    \* the slot is taken first
SlotTurn(w) == Holds(Imap(w))
TakeSlot(w) ==
    /\ w \in Mail /\ pc[w] = "run" /\ w \notin slots /\ SlotTurn(w)
    /\ Cardinality(slots) < Slots
    /\ slots' = slots \cup {w}
    /\ progress' = IF Kind(w) = "seen" THEN progress ELSE Begun(Of(w), TriggerOf(w))
    /\ UNCHANGED <<lockVars, pc, rowVars, jobVars, runVars>>

(* The wait of a manual job ends with the service; the others run into a    *)
(* timeout, or the end of the retry window.                                 *)
MayGiveUp(w) == Kind(w) = "manual" => cancelled
Quit(w) ==
    /\ pc' = [pc EXCEPT ![w] = "done"]
    /\ progress' = IF Kind(w) = "auto" THEN Finished({Of(w)}, "automatic") ELSE progress
    /\ UNCHANGED <<slots, rowVars, jobVars, runVars>>
Withdraw(w) ==
    /\ pc[w] = "run" /\ MayGiveUp(w)
    /\ \/ \E c \in ClaimsOf(w) : GiveUp(c)
       \/ w \in Mail \ slots /\ Holds(Imap(w)) /\ UNCHANGED lockVars
    /\ Quit(w)

(* What was taken last is given back first.                                 *)
Returning(c) ==
    /\ pc[c[2]] = "done" /\ c[2] \notin slots
    /\ c[1] = "locks" => \A d \in ClaimsOf(c[2]) \ {c} : use[d] = "none"
GiveBack(c) ==
    /\ Returning(c)
    /\ Unlock(c) \/ Leave(c)
    /\ UNCHANGED <<slots, pc, progress, rowVars, jobVars, runVars>>

Returned(w) == pc[w] = "done" /\ \A c \in ClaimsOf(w) : use[c] = "none"

(* runQueuedAccountSync, finishManualJob: the job goes on while batches     *)
(* leave more.                                                              *)
Return(w) ==
    LET a == Of(w)
        again == Kind(w) = "manual" /\ a \in more /\ batch[a] < MaxBatches IN
    /\ Returned(w)
    /\ pc' = [pc EXCEPT ![w] = IF again THEN "run" ELSE "idle"]
    /\ more' = IF Kind(w) = "manual" THEN more \ {a} ELSE more
    /\ jobs' = IF Kind(w) = "manual" /\ ~again THEN jobs \ {a} ELSE jobs
    /\ manualDone' = (manualDone \/ (stopping /\ jobs' = {}))
    /\ batch' = IF again THEN batch ELSE [batch EXCEPT ![a] = IF Kind(w) = "manual" THEN 0 ELSE @]
    /\ progress' = CASE again -> Ensured(a, "manual")
                     [] ~again /\ Kind(w) \in {"manual", "notice"} -> Finished({a}, TriggerOf(w))
                     [] OTHER -> progress
    /\ patient' = IF Kind(w) = "auto" THEN patient \ {a} ELSE patient
    /\ listed' = IF Kind(w) = "seen" THEN [listed EXCEPT ![a] = 0] ELSE listed
    /\ UNCHANGED <<lockVars, slots, row, source, tasks, stopping, cancelled, loop, cont,
                   pending, retryable, retryQueue, window, attempt, rounds>>

-----------------------------------------------------------------------------
(* What they do while they hold it.                                         *)

Working(w) == pc[w] = "run" /\ w \in slots /\ Holds(Imap(w))

(* syncAccountLocked: what it may come to is the subject of MailSync.        *)
Outcome(a) ==
    IF row[a] \in {"disabled", "paused"} THEN {"failed"}
    ELSE {"ok", "more", "transient", "paused", "failed"}
Unrecorded(r) == r = "failed" \/ (stopping /\ r \in {"transient", "paused"})    \* failureRecorder.record
Status == [ok |-> "idle", more |-> "pending", transient |-> "idle", paused |-> "paused"]

Sync(w) ==
    LET a == Of(w) IN
    /\ Kind(w) \in DOMAIN Trigger /\ Working(w)
    /\ slots' = slots \ {w}
    /\ pc' = [pc EXCEPT ![w] = "done"]
    /\ \E r \in Outcome(a) :
         /\ row' = IF Unrecorded(r) THEN row ELSE [row EXCEPT ![a] = Status[r]]
         /\ pending' = IF Kind(w) = "auto" /\ r = "more" THEN pending \cup {a} ELSE pending
         /\ retryable' = IF Kind(w) = "auto" /\ r = "transient" THEN retryable \cup {a} ELSE retryable
         /\ more' = IF Kind(w) = "manual" /\ r = "more" THEN more \cup {a} ELSE more
         /\ batch' = IF Kind(w) = "manual" /\ r = "more" THEN [batch EXCEPT ![a] = @ + 1] ELSE batch
         /\ progress' = IF Kind(w) = "auto" /\ r # "more" THEN Finished({a}, "automatic") ELSE progress
    /\ UNCHANGED <<lockVars, source, tasks, listed, jobs, manualDone, stopping, cancelled, loop, cont, patient,
                   retryQueue, window, attempt, rounds>>

(* processAccountIMAP: the marking succeeds or fails; a mailbox that was    *)
(* renumbered has the task dropped without any marking.                     *)
Renumbered(a) == Validity[listed[a]] # Validity[source[a]]
MarkSeen(w) ==
    LET a == Of(w) IN
    /\ Kind(w) = "seen" /\ Working(w)
    /\ slots' = slots \ {w}
    /\ pc' = [pc EXCEPT ![w] = "done"]
    /\ \/ UNCHANGED <<row, tasks>>
       \/ /\ row[a] \notin {"disabled", "paused"}
          /\ \/ /\ tasks' = [tasks EXCEPT ![a] =
                       IF @ # 0 /\ Validity[@] = Validity[listed[a]] THEN 0 ELSE @]
                /\ UNCHANGED row
             \/ row' = [row EXCEPT ![a] = "paused"] /\ UNCHANGED tasks
    /\ UNCHANGED <<lockVars, progress, source, listed, jobVars, runVars>>

(* UpdateAccount and SetAccountEnabled under the lock of the account: a new *)
(* mailbox drops the tasks of the one before.                               *)
Reconfigure(w) ==
    LET a == Of(w) IN
    /\ Kind(w) = "admin" /\ pc[w] = "run" /\ Holds(Acc(w))
    /\ pc' = [pc EXCEPT ![w] = "done"]
    /\ \/ row' = [row EXCEPT ![a] = IF @ = "disabled" THEN "idle" ELSE "disabled"]
          /\ UNCHANGED <<source, tasks>>
       \/ row[a] = "paused" /\ row' = [row EXCEPT ![a] = "idle"] /\ UNCHANGED <<source, tasks>>
       \/ /\ source[a] < MaxSource
          /\ source' = [source EXCEPT ![a] = @ + 1]
          /\ tasks' = [tasks EXCEPT ![a] = 0]
          /\ row' = [row EXCEPT ![a] = IF @ = "disabled" THEN @ ELSE "idle"]
    /\ UNCHANGED <<lockVars, slots, progress, listed, jobVars, runVars>>

-----------------------------------------------------------------------------
(* The automatic loop: Run, syncAllRoundDetailedWithContexts.               *)

Enabled(a) == row[a] # "disabled"

(* A continuation that will have no turn takes its progress with it.         *)
PassedPaused(a) == row[a] = "paused"    \* a disabled account keeps its progress
Passed(a) == ~Enabled(a) \/ row[a] = "paused"
StartRound ==
    LET turn == {a \in Account : AutoTurn(a) \in crew /\ Enabled(a) /\ row[a] # "paused"
                                 /\ (cont # {} => a \in cont)} IN
    /\ loop = "list"
    /\ loop' = "round"
    /\ pc' = [w \in Worker |-> IF w \in {AutoTurn(a) : a \in turn} THEN "run" ELSE pc[w]]
    /\ patient' = IF cont # {} THEN cont \cap turn ELSE {a \in turn : row[a] = "pending"}
    /\ progress' = Finished({a \in cont : Passed(a)}, "automatic")
    /\ cont' = {} /\ pending' = {} /\ retryable' = {}
    /\ UNCHANGED <<lockVars, slots, rowVars, jobVars, retryQueue, window, attempt, rounds>>

(* The accounts cannot be listed.                                           *)
ListFails ==
    /\ loop = "list"
    /\ loop' = "round"
    /\ progress' = Finished(cont, "automatic")
    /\ cont' = {} /\ pending' = {} /\ retryable' = {}
    /\ UNCHANGED <<lockVars, slots, pc, rowVars, jobVars, patient, retryQueue, window, attempt, rounds>>

RoundOver == loop = "round" /\ \A a \in Account : AutoTurn(a) \in crew => pc[AutoTurn(a)] = "idle"

(* After a round: go on with what left more, then retry what failed, then   *)
(* sleep until the next interval.                                           *)
Decide ==
    LET queue == retryQueue \cup retryable
        open == window # "elapsed"
        go == pending # {} /\ open /\ rounds < MaxBatches
        retry == ~go /\ open /\ queue # {} /\ attempt < MaxRetries IN
    /\ RoundOver /\ ~cancelled
    /\ cont' = IF go THEN pending ELSE {}
    /\ rounds' = IF go THEN rounds + 1 ELSE rounds
    /\ progress' = IF go THEN progress ELSE Finished(pending, "automatic")
    /\ loop' = IF go THEN "list" ELSE IF retry THEN "backoff" ELSE "interval"
    /\ retryQueue' = IF go \/ retry THEN queue ELSE {}
    /\ window' = CASE go -> window [] retry -> "open" [] OTHER -> "closed"
    /\ attempt' = IF go \/ retry THEN attempt ELSE 0
    /\ pending' = {} /\ retryable' = {}
    /\ UNCHANGED <<lockVars, slots, pc, rowVars, jobVars, patient>>

(* The delay before a retry is over, or the retry window is.                *)
Retry ==
    /\ loop = "backoff" /\ ~cancelled
    /\ \/ /\ loop' = "list" /\ cont' = retryQueue /\ retryQueue' = {} /\ attempt' = attempt + 1
          /\ UNCHANGED window
       \/ /\ window = "elapsed" /\ loop' = "interval" /\ retryQueue' = {} /\ attempt' = 0
          /\ window' = "closed" /\ UNCHANGED cont
    /\ UNCHANGED <<lockVars, slots, pc, progress, rowVars, jobVars, patient, pending, retryable, rounds>>

WindowElapses ==
    /\ window = "open" /\ window' = "elapsed"
    /\ UNCHANGED <<lockVars, slots, pc, progress, rowVars, jobVars, loop, cont, patient, pending,
                   retryable, retryQueue, attempt, rounds>>

Interval ==
    /\ loop = "interval" /\ ~cancelled
    /\ loop' = "list" /\ rounds' = 0
    /\ UNCHANGED <<lockVars, slots, pc, progress, rowVars, jobVars, cont, patient, pending, retryable,
                   retryQueue, window, attempt>>

(* The deferred calls of Run: progress is cleared, manual jobs are awaited. *)
Leaves ==
    /\ cancelled /\ (RoundOver \/ loop \in {"parked", "backoff", "interval"})
    /\ loop' = "leaving"
    /\ progress' = Finished(Account, "automatic")
    /\ cont' = {} /\ pending' = {} /\ retryable' = {} /\ retryQueue' = {} /\ window' = "closed" /\ attempt' = 0
    /\ UNCHANGED <<lockVars, slots, pc, rowVars, jobVars, patient, rounds>>

WaitForManualJobs ==
    /\ loop = "leaving" /\ (stopping => manualDone)
    /\ loop' = "returned"
    /\ UNCHANGED <<lockVars, slots, pc, progress, rowVars, jobVars, cont, patient, pending, retryable,
                   retryQueue, window, attempt, rounds>>

BeginShutdown ==
    /\ ~stopping /\ stopping' = TRUE /\ manualDone' = (jobs = {})
    /\ UNCHANGED <<lockVars, slots, pc, progress, rowVars, jobs, batch, more, cancelled, runVars>>

CancelWorkers ==
    /\ stopping /\ ~cancelled /\ cancelled' = TRUE
    /\ UNCHANGED <<lockVars, slots, pc, progress, rowVars, jobs, batch, more, manualDone, stopping, runVars>>

-----------------------------------------------------------------------------
Start(a) == QueueAccountSync(a) \/ Notify(a) \/ Consume(a) \/ ListSeenTasks(a) \/ Administer(a)
Work(w) ==
    \/ EnterAccount(w) \/ EnterMailbox(w) \/ TryMailbox(w) \/ Return(w)
    \/ Sync(w) \/ MarkSeen(w) \/ Reconfigure(w)
    \/ \E c \in ClaimsOf(w) : GiveBack(c)
Served(w) == TakeSlot(w) \/ \E c \in ClaimsOf(w) : TakeLock(c)
Run == StartRound \/ ListFails \/ Decide \/ Retry \/ Interval \/ Leaves \/ WaitForManualJobs

Step ==
    \/ \E a \in Account : Start(a)
    \/ \E w \in Worker : Work(w) \/ Served(w) \/ Withdraw(w)
    \/ Run \/ WindowElapses \/ BeginShutdown \/ CancelWorkers

Next == Step /\ UNCHANGED crew

Spec == Init /\ [][Next]_vars

(* Goroutines run on; those that wait at a channel are served in the order  *)
(* they came. Nothing is assumed of timeouts, requests and notifications.   *)
Fairness ==
    /\ \A w \in Worker : WF_vars(Work(w) /\ UNCHANGED crew) /\ SF_vars(Served(w) /\ UNCHANGED crew)
    /\ WF_vars(Run /\ UNCHANGED crew)

FairSpec == Spec /\ Fairness

-----------------------------------------------------------------------------
TypeOK ==
    /\ LocksTypeOK
    /\ slots \subseteq Mail /\ pc \in [Worker -> {"idle", "run", "done"}]
    /\ progress \in [Account -> {None} \cup {Trigger[k] : k \in DOMAIN Trigger}]
    /\ row \in [Account -> {"idle", "pending", "paused", "disabled"}]
    /\ source \in [Account -> 1..MaxSource] /\ tasks \in [Account -> 0..MaxSource]
    /\ listed \in [Account -> 0..MaxSource]
    /\ jobs \subseteq Account /\ batch \in [Account -> 0..MaxBatches] /\ more \subseteq jobs
    /\ {manualDone, stopping, cancelled} \subseteq BOOLEAN
    /\ loop \in {"list", "parked", "round", "backoff", "interval", "leaving", "returned"}
    /\ cont \cup patient \cup pending \cup retryable \cup retryQueue \subseteq Account
    /\ window \in {"closed", "open", "elapsed"} /\ attempt \in 0..MaxRetries /\ rounds \in 0..MaxBatches

(* A run that is shown to the administrator will be taken down by somebody: *)
(* the turn or continuation of the automatic loop, the manual job or the    *)
(* notification it belongs to still exists (ensureProgress, beginProgress,  *)
(* finishProgress, deferContinuations).                                     *)
ProgressHonest == \A a \in Account :
    /\ progress[a] = "automatic" =>
         AutoTurn(a) \in crew /\ (pc[AutoTurn(a)] # "idle" \/ a \in pending \cup cont)
    /\ progress[a] = "manual" => a \in jobs
    /\ progress[a] = "notification" => pc[<<"notice", a>>] # "idle"

(* When Run returns after BeginShutdown, and the database is closed next,   *)
(* no manual job is left (QueueAccountSync, waitForManualJobs).             *)
StopsClean == loop = "returned" => jobs = {} /\ \A w \in Worker :
    Kind(w) \in {"auto", "manual"} => pc[w] = "idle"

(* Why it holds: work belongs to a registered job or to a round, and the     *)
(* channel Run waits at is closed when no job is left and none can come.     *)
StopInv ==
    /\ pc \in [Worker -> {"idle", "run", "done"}]
    /\ crew \subseteq Worker
    /\ cancelled => stopping
    /\ manualDone => stopping /\ jobs = {}
    /\ loop \in {"leaving", "returned"} => cancelled
    /\ loop = "returned" => manualDone
    /\ \A w \in Worker : Kind(w) = "manual" /\ pc[w] # "idle" => Of(w) \in jobs
    /\ \A w \in Worker : Kind(w) = "auto" /\ pc[w] # "idle" => loop = "round" /\ w \in crew

(* A queued manual job ends, and so does Run once its context is cancelled, *)
(* without the help of any timeout: the account lock comes before the lock  *)
(* of the mailbox, and that before the slot (WithAccountIMAPSlot,           *)
(* SeenWorker.processAccount).                                              *)
JobsEnd ==
    /\ \A w \in {v \in Worker : Kind(v) = "manual"} : Of(w) \in jobs ~> Of(w) \notin jobs
    /\ cancelled ~> loop = "returned"

(* The tasks of one upstream mailbox are not replayed against another:      *)
(* UpdateAccount deletes them, and the worker holds the lock of the account *)
(* while it marks (internal/store/account.go, SeenWorker.processAccount).   *)
Marks(w) == Kind(w) = "seen" /\ Working(w) /\ row[Of(w)] \notin {"disabled", "paused"} /\ ~Renumbered(Of(w))
SeenMarksOwnSource == \A w \in Worker : Marks(w) => listed[Of(w)] = source[Of(w)]
=============================================================================
