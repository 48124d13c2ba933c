--------------------------- MODULE ActiveReceiver ----------------------------
(***************************************************************************)
(* The shared receiver of one account (internal/syncer/active_receiver.go) *)
(* and the pickups that wait for it: readers of the public API and         *)
(* requests for the next code of a pool lease, which may wait for up to 15 *)
(* seconds (poolLeaseCode in internal/httpserver/pool.go). A worker is     *)
(* started by the first pickup, reads the mailbox when a notification or a *)
(* pickup asks for it, and sleeps again after ten idle minutes.            *)
(*                                                                         *)
(* The generation counts from the last read that was committed: pickups    *)
(* and the read in flight are renumbered with it.                          *)
(***************************************************************************)
EXTENDS Integers, FiniteSets

CONSTANTS
    Reader,
    Long,          \* those that wait for a code (wait_seconds > 0)
    MaxMail,       \* bound: messages that arrive
    MaxGeneration  \* bound: notifications during one read

ASSUME ReceiverConstants ==
    Long \subseteq Reader /\ {MaxMail, MaxGeneration} \subseteq Nat \ {0} /\ MaxGeneration > 1

VARIABLES
    mail, announced, stored,  \* messages upstream, told by IDLE, archived
    listed,                   \* what the read in flight has seen
    alive, cancelled, worker, \* the worker: in the map, its context, what it does
    generation, captured,     \* since the last commit; that of the read in flight
    synced, old, oldRead,     \* a read was committed; it, or the one in flight, began over 5 seconds ago
    failure,                  \* "none", "backoff", "due"
    idle,                     \* no pickup for ten minutes
    moved,                    \* the account differs from what the worker was started with
    closed,                   \* Close was called
    pc, required, chan,       \* reader: where, its generation, the changed channel it waits at
    want, known               \* reader: the code it waits for; ghost: mail it must have seen

mailVars == <<mail, announced, stored, listed>>
workVars == <<alive, cancelled, worker, generation, captured, synced, old, oldRead, failure, idle, moved, closed>>
readVars == <<pc, required, chan, want, known>>
vars == <<mailVars, workVars, readVars>>

Reading == worker \in {"read", "listed", "archived"}

Init ==
    /\ mail = 0 /\ announced = 0 /\ stored = 0 /\ listed = 0
    /\ alive = FALSE /\ cancelled = FALSE /\ worker = "none"
    /\ generation = 0 /\ captured = 0
    /\ synced = FALSE /\ old = FALSE /\ oldRead = FALSE
    /\ failure = "none" /\ idle = FALSE /\ moved = FALSE /\ closed = FALSE
    /\ pc = [r \in Reader |-> "start"] /\ required = [r \in Reader |-> 0]
    /\ chan = [r \in Reader |-> "none"]
    /\ want = [r \in Reader |-> 0] /\ known = [r \in Reader |-> 0]

-----------------------------------------------------------------------------
(* SyncAlias. What follows the lock is done before it is given up: admit,   *)
(* ask the worker, and look at once whether anything is to be waited for.   *)

(* A new worker has everything to read.                                     *)
Fresh == [generation |-> 1, synced |-> FALSE, failure |-> "none"]
Existing == [generation |-> generation, synced |-> synced, failure |-> failure]
Worker == IF alive THEN Existing ELSE Fresh

(* A read is asked for unless one is, or the last is recent and later than   *)
(* the alias.                                                               *)
Refreshed(w, newer) ==
    IF w.generation = 0 /\ (~w.synced \/ old \/ newer) THEN [w EXCEPT !.generation = 1] ELSE w

(* What a pickup must come to see: what was announced, and, unless it finds  *)
(* a read in flight or a recent one, all that is in the mailbox.            *)
MustSee(newer) == IF Reading \/ (alive /\ synced /\ ~old /\ ~newer) THEN announced ELSE mail

(* The loop at the end of SyncAlias.                                        *)
Verdict(w, target) ==
    IF w.failure = "backoff" THEN "start"    \* the error is the answer
    ELSE IF w.failure = "none" /\ target = 0 /\ w.synced THEN "synced"
    ELSE "wait"

(* The answer is written; the reader may come again.                        *)
Answer(r, at) ==
    /\ pc' = [pc EXCEPT ![r] = at] /\ chan' = [chan EXCEPT ![r] = "none"] /\ required' = [required EXCEPT ![r] = 0]
    /\ want' = [want EXCEPT ![r] = IF at = "start" THEN 0 ELSE @] /\ known' = [known EXCEPT ![r] = 0]

SyncAlias(r, from) ==
    /\ pc[r] = from
    /\ \/ /\ closed \/ (alive /\ moved)
          /\ cancelled' = (cancelled \/ alive)
          /\ Answer(r, "start")
          /\ UNCHANGED <<alive, worker, generation, captured, synced, old, oldRead, failure, idle, moved, closed>>
       \/ \E newer \in BOOLEAN :
             LET w == Refreshed(Worker, newer)
                 v == Verdict(w, w.generation) IN
             /\ ~closed /\ (alive => ~moved)
             /\ alive' = TRUE /\ idle' = FALSE
             /\ generation' = w.generation /\ synced' = w.synced /\ failure' = w.failure
             /\ IF v = "start" THEN Answer(r, v)
                ELSE /\ pc' = [pc EXCEPT ![r] = v]
                     /\ required' = [required EXCEPT ![r] = IF v = "wait" THEN w.generation ELSE 0]
                     /\ chan' = [chan EXCEPT ![r] = IF v = "wait" THEN "open" ELSE "none"]
                     /\ want' = [want EXCEPT ![r] = IF from = "start" THEN stored + 1 ELSE @]
                     /\ known' = [known EXCEPT ![r] = MustSee(newer)]
             /\ worker' = IF alive THEN worker ELSE "loop"
             /\ moved' = (alive /\ moved) /\ cancelled' = (alive /\ cancelled)
             /\ UNCHANGED <<captured, old, oldRead, closed>>
    /\ UNCHANGED mailVars

Begin(r) == SyncAlias(r, "start")
Again(r) == SyncAlias(r, "again")

(* The channel was closed by a commit, or with the worker.                  *)
Woken(r) ==
    /\ pc[r] = "wait" /\ chan[r] = "closed"
    /\ LET v == Verdict(Existing, required[r]) IN
         IF v = "start" THEN Answer(r, v)
         ELSE /\ pc' = [pc EXCEPT ![r] = v]
              /\ chan' = [chan EXCEPT ![r] = IF v = "wait" THEN "open" ELSE "none"]
              /\ UNCHANGED <<required, want, known>>
    /\ UNCHANGED <<mailVars, workVars>>

Deferred(r) ==
    /\ pc[r] = "wait" /\ (chan[r] = "gone" \/ cancelled)
    /\ Answer(r, "start")
    /\ UNCHANGED <<mailVars, workVars>>

(* A client goes away at any time; the time of a long pickup runs out.       *)
Cancel(r) ==
    /\ pc[r] \in {"wait", "sleep"}
    /\ Answer(r, IF r \in Long THEN "last" ELSE "start")
    /\ UNCHANGED <<mailVars, workVars>>

-----------------------------------------------------------------------------
(* poolLeaseCode after the first read: subscribe, look into the archive,    *)
(* sleep until a commit, the next check or the end of the time.             *)

(* MailboxChanges: the channel of a worker that is there to close it.       *)
Channel(r) == IF r \in Long /\ alive /\ ~cancelled /\ ~closed THEN "open" ELSE "none"
Subscribe(r) ==
    /\ pc[r] = "synced"
    /\ chan' = [chan EXCEPT ![r] = Channel(r)] /\ pc' = [pc EXCEPT ![r] = "look"]
    /\ known' = [known EXCEPT ![r] = 0]
    /\ UNCHANGED <<mailVars, workVars, required, want>>

Ready(r) == stored >= want[r]
Look(r) ==
    /\ pc[r] \in {"look", "last"}
    /\ IF Ready(r) \/ chan[r] = "none" THEN Answer(r, "start")
       ELSE pc' = [pc EXCEPT ![r] = "empty"] /\ UNCHANGED <<required, chan, want, known>>
    /\ UNCHANGED <<mailVars, workVars>>

Sleep(r) ==
    /\ pc[r] = "empty" /\ pc' = [pc EXCEPT ![r] = "sleep"]
    /\ UNCHANGED <<mailVars, workVars, required, chan, want, known>>

NextCheck(r) ==
    /\ pc[r] = "sleep"
    /\ Answer(r, "again")
    /\ UNCHANGED <<mailVars, workVars>>

-----------------------------------------------------------------------------
(* The worker: run.                                                         *)

Keep == UNCHANGED <<mail, announced, moved, closed, want, known, idle>>
ClosedForSleepers(how) ==      \* a bug: who is about to sleep is not woken
    [r \in Reader |-> IF pc[r] \in {"wait", "sleep"} /\ chan[r] = "open" THEN how ELSE chan[r]]
ClosedFor(how) == [r \in Reader |-> IF chan[r] = "open" THEN how ELSE chan[r]]

Pending == generation # 0
Read ==
    /\ worker = "loop" /\ ~idle /\ Pending /\ failure # "backoff"
    /\ worker' = "read" /\ captured' = generation /\ oldRead' = FALSE
    /\ Keep /\ UNCHANGED <<stored, listed, alive, cancelled, generation, synced, old, failure, pc, required, chan>>

List ==
    /\ worker = "read" /\ ~cancelled
    /\ worker' = "listed" /\ listed' = mail
    /\ Keep /\ UNCHANGED <<stored, alive, cancelled, generation, captured, synced, old, oldRead, failure, pc, required, chan>>

Archive ==
    /\ worker = "listed"
    /\ worker' = "archived" /\ stored' = listed
    /\ Keep /\ UNCHANGED <<listed, alive, cancelled, generation, captured, synced, old, oldRead, failure, pc, required, chan>>

(* Notifications that came during the read are left for the next one.       *)
AllSeen == generation     \* a bug: what came during the read counts as seen
Seen == captured
Commit ==
    /\ worker = "archived"
    /\ worker' = "loop"
    /\ generation' = generation - Seen
    /\ required' = [r \in Reader |-> IF pc[r] = "wait" /\ required[r] > Seen THEN required[r] - Seen ELSE 0]
    /\ captured' = 0 /\ synced' = TRUE /\ old' = oldRead /\ oldRead' = FALSE
    /\ failure' = "none"
    /\ chan' = ClosedFor("closed")
    /\ listed' = 0
    /\ Keep /\ UNCHANGED <<stored, alive, cancelled, pc>>

(* An error of the read; it may have stored messages before.                *)
Fail ==
    /\ Reading
    /\ worker' = "loop" /\ failure' = "backoff" /\ captured' = 0 /\ oldRead' = FALSE
    /\ chan' = ClosedFor("closed")
    /\ listed' = 0
    /\ Keep /\ UNCHANGED <<stored, alive, cancelled, generation, synced, old, pc, required>>

(* Nothing is to be read now: the select, until a token, the timer, the     *)
(* ticker (every 15 seconds, if a token were lost).                         *)
Rest ==
    /\ worker = "loop" /\ ~idle /\ (~Pending \/ failure = "backoff")
    /\ worker' = "rest"
    /\ Keep /\ UNCHANGED <<stored, listed, alive, cancelled, generation, captured, synced, old, oldRead, failure, pc, required, chan>>

Stir ==
    /\ worker = "rest"
    /\ worker' = "loop"
    /\ Keep /\ UNCHANGED <<stored, listed, alive, cancelled, generation, captured, synced, old, oldRead, failure, pc, required, chan>>

(* The worker ends: unused for ten minutes, cancelled, or found by the      *)
(* ticker to serve an account that has changed.                             *)
Ends ==
    \/ worker = "loop" /\ idle
    \/ worker = "rest" /\ (cancelled \/ moved)
Quit ==
    /\ Ends
    /\ worker' = "leaving" /\ cancelled' = TRUE
    /\ Keep /\ UNCHANGED <<stored, listed, alive, generation, captured, synced, old, oldRead, failure, pc, required, chan>>

GoneFor == [r \in Reader |-> IF chan[r] # "none" THEN "gone" ELSE chan[r]]
Silent == chan     \* a bug: nobody is told
Told == GoneFor
Gone ==
    /\ worker = "leaving"
    /\ worker' = "none" /\ alive' = FALSE /\ cancelled' = FALSE
    /\ chan' = Told
    /\ generation' = 0 /\ synced' = FALSE /\ old' = FALSE /\ failure' = "none"
    /\ moved' = FALSE /\ idle' = FALSE
    /\ UNCHANGED <<mailVars, captured, oldRead, closed, pc, required, want, known>>

-----------------------------------------------------------------------------
(* What happens outside.                                                    *)

Outside == UNCHANGED <<stored, listed, alive, worker, captured, synced, pc, required, chan, want, known>>

Arrive ==
    /\ mail < MaxMail /\ mail' = mail + 1
    /\ Outside /\ UNCHANGED <<announced, cancelled, generation, old, oldRead, failure, idle, moved, closed>>

(* notify: IDLE tells of mail, or the connection is lost.                   *)
Notify ==
    /\ alive /\ ~cancelled /\ worker # "leaving" /\ generation < MaxGeneration
    /\ announced' \in {announced, mail}
    /\ generation' = generation + 1
    /\ Outside /\ UNCHANGED <<mail, cancelled, old, oldRead, failure, idle, moved, closed>>

(* Five seconds since the last read, or the one in flight, began.           *)
Ages ==
    /\ alive /\ ((synced /\ ~old) \/ (Reading /\ ~oldRead))
    /\ old' = synced /\ oldRead' = Reading
    /\ Outside /\ UNCHANGED <<mail, announced, cancelled, generation, failure, idle, moved, closed>>

(* Two to thirty seconds after a failure the next read is due.               *)
Backoff ==
    /\ failure = "backoff"
    /\ failure' = "due"
    /\ Outside /\ UNCHANGED <<mail, announced, cancelled, generation, old, oldRead, idle, moved, closed>>

TenMinutes ==
    /\ alive /\ ~idle /\ idle' = TRUE
    /\ Outside /\ UNCHANGED <<mail, announced, cancelled, generation, old, oldRead, failure, moved, closed>>

(* The credentials or addresses of the account change, or it is disabled.   *)
Reconfigure ==
    /\ alive /\ ~moved /\ moved' = TRUE
    /\ Outside /\ UNCHANGED <<mail, announced, cancelled, generation, old, oldRead, failure, idle, closed>>

Close ==
    /\ ~closed /\ closed' = TRUE /\ cancelled' = (cancelled \/ alive)
    /\ Outside /\ UNCHANGED <<mail, announced, generation, old, oldRead, failure, idle, moved>>

-----------------------------------------------------------------------------
Resume(r) == Woken(r) \/ Deferred(r) \/ Subscribe(r) \/ Look(r) \/ Sleep(r) \/ Again(r)
Reads == Read \/ List \/ Archive \/ Commit \/ Fail \/ Rest \/ Stir \/ Quit \/ Gone

Next ==
    \/ \E r \in Reader : Begin(r) \/ Resume(r) \/ NextCheck(r) \/ Cancel(r)
    \/ Reads
    \/ Arrive \/ Notify \/ Ages \/ Backoff \/ TenMinutes \/ Reconfigure \/ Close

Spec == Init /\ [][Next]_vars

-----------------------------------------------------------------------------
TypeOK ==
    /\ {mail, announced, stored, listed} \subseteq 0..MaxMail
    /\ {alive, cancelled, synced, old, oldRead, idle, moved, closed} \subseteq BOOLEAN
    /\ worker \in {"none", "loop", "read", "listed", "archived", "rest", "leaving"}
    /\ generation \in 0..MaxGeneration /\ captured \in 0..generation
    /\ failure \in {"none", "backoff", "due"}
    /\ pc \in [Reader -> {"start", "again", "wait", "synced", "look", "last", "empty", "sleep"}]
    /\ required \in [Reader -> 0..MaxGeneration]
    /\ chan \in [Reader -> {"none", "open", "closed", "gone"}]

(* A pickup that is told the mailbox was read has before it all mail that    *)
(* was announced when it came, though the read it waited for may have been   *)
(* shared; and all mail there was, unless it joined a read in flight or came *)
(* within five seconds of the last (SyncAlias, run).                         *)
SeenBeforeAnswer == \A r \in Reader : pc[r] = "synced" => stored >= known[r]

(* A long pickup does not sleep past its code: when the archive has it, the  *)
(* channel it sleeps at is closed, or the worker is about to close it        *)
(* (poolLeaseCode subscribes before it looks).                               *)
NoLostCommit == \A r \in Reader :
    pc[r] = "sleep" /\ Ready(r) => chan[r] # "open" \/ worker = "archived"

(* Nobody waits for a worker that will not answer: while the channel is open *)
(* the worker is there to close it and has a read to do, though it may have  *)
(* failed, have been cancelled or be falling asleep since the pickup was     *)
(* admitted (SyncAlias, run).                                                *)
Attended == \A r \in Reader :
    pc[r] = "wait" /\ chan[r] = "open" => alive /\ Pending
=============================================================================
