---------------------------- MODULE AliasDeletion -----------------------------
(***************************************************************************)
(* Deleting addresses of one account at Apple and then here: DeleteAlias   *)
(* and DeleteAliases of internal/hmesync, one group of a batch             *)
(* (alias_delete_batch.go, alias_delete_throttle.go). The group holds the  *)
(* operation lock of the account throughout and the account lock while it  *)
(* works, but gives the latter up whenever it waits for Apple. It deletes  *)
(* by what a directory of the account says that may be older than the item *)
(* it works on, with a session every answer of Apple may replace.          *)
(***************************************************************************)
EXTENDS Integers, Sequences, FiniteSets

CONSTANTS
    Alias,
    Batches,        \* sequences of addresses: what is asked for
    MaxRecoveries,  \* throttled requests a group waits out (3 in the code)
    MaxBatches,     \* bound: batches begun
    MaxChanges,     \* bound: changes the owner makes on a device
    MaxSession      \* bound: sessions Apple issues

VARIABLES
    op, lock,     \* holder of the operation lock; of the account lock, for more than one step
    web,          \* the stored session: its number, whether it serves, whether its time has passed
    stamp,        \* it is the record an automatic login in progress has looked at
    issued,       \* the last session Apple issued; they are counted within a batch
    row,          \* alias -> "row", "pending" (confirmation), "none"
    dir,          \* Apple's directory: alias -> "active", "off", "none"
    pc, items, pos,    \* the group: its next step, its addresses, the one it works on
    resume,       \* the step after the wait for Apple
    recover,      \* it waits out throttles (jobs do, single requests do not)
    ready, session,    \* a session was validated; the one in memory
    stopped,      \* the account takes no more requests
    valid, cache, \* the directory it has read
    tries,        \* throttles waited out
    hinted,       \* Apple asked for a pause before the next request
    cancelled,    \* its context
    absent,       \* ghost: the directory lacked the item since the account lock was last taken
    batches, changes

shared == <<op, lock, web, stamp, issued>>
group == <<pc, items, pos, resume, recover, ready, session, stopped, valid, cache, tries, hinted,
           cancelled, absent, batches>>
vars == <<shared, row, dir, group, changes>>

NoSession == [num |-> 0, auth |-> FALSE, lapsed |-> FALSE]
Session(n) == [num |-> n, auth |-> TRUE, lapsed |-> FALSE]
Item == items[pos]
Mine == lock = "batch"
Reads == {"list", "confirmOff", "confirmGone"}    \* requests for the directory
Sends == Reads \cup {"validate", "off", "gone"}

GroupInit ==
    /\ row \in [Alias -> {"row", "pending"}] /\ dir \in [Alias -> {"active", "none"}]
    /\ pc = "idle" /\ items = <<>> /\ pos = 1 /\ resume = "item" /\ recover = FALSE
    /\ ready = FALSE /\ session = 0 /\ stopped = FALSE
    /\ valid = FALSE /\ cache = [a \in Alias |-> "none"] /\ tries = 0 /\ hinted = FALSE /\ cancelled = FALSE
    /\ absent = FALSE /\ batches = 0 /\ changes = 0 /\ issued = 1

-----------------------------------------------------------------------------
(* withAliasDeletionAccount: the operation lock first, for the whole group. *)

Begin(batch, retries) ==
    /\ pc = "idle" /\ op = "free" /\ batches < MaxBatches
    /\ op' = "batch" /\ batches' = batches + 1 /\ recover' = retries
    /\ pc' = "away" /\ resume' = "item" /\ items' = batch
    /\ UNCHANGED <<lock, web, stamp, issued, row, dir, pos, ready, session, stopped, valid, cache, tries, hinted, cancelled,
                   absent, changes>>

(* Then the account lock, now and after every wait.                         *)
Enter ==
    /\ pc = "away" /\ lock = "free" /\ ~cancelled
    /\ lock' = "batch" /\ pc' = resume
    /\ absent' = (dir[Item] = "none")
    /\ UNCHANGED <<op, web, stamp, issued, row, dir, items, pos, resume, recover, ready, session, stopped, valid, cache,
                   tries, hinted, cancelled, batches, changes>>

(* The item has its answer, the next one follows.                           *)
Completed(d) ==
    IF pos = Len(items)
    THEN pc' = "end" /\ absent' = FALSE /\ UNCHANGED <<op, lock, pos>>
    ELSE /\ pc' = "item" /\ pos' = pos + 1 /\ UNCHANGED <<op, lock>>
         /\ absent' = (d[items[pos + 1]] = "none")

(* The group is done: both locks are given back and what it knew goes.       *)
Forget ==
    /\ pc' = "idle" /\ items' = <<>> /\ pos' = 1 /\ resume' = "item" /\ recover' = FALSE
    /\ ready' = FALSE /\ session' = 0 /\ stopped' = FALSE
    /\ valid' = FALSE /\ cache' = [a \in Alias |-> "none"] /\ tries' = 0 /\ hinted' = FALSE
    /\ cancelled' = FALSE /\ absent' = FALSE
    /\ web' = [web EXCEPT !.num = IF web.auth THEN 1 ELSE 0] /\ issued' = 1
End ==
    /\ pc = "end" /\ op' = "free" /\ lock' = "free" /\ Forget
    /\ UNCHANGED <<stamp, row, dir, batches, changes>>

(* Nobody waits any more: the items that are left fail one after the other.  *)
Leave ==
    /\ pc = "away" /\ cancelled
    /\ op' = "free" /\ Forget
    /\ UNCHANGED <<lock, stamp, row, dir, batches, changes>>

(* An address the directory knows is deactivated, an inactive one deleted;   *)
(* one it lacks is gone.                                                     *)
After(state) == CASE state = "active" -> "off" [] state = "off" -> "gone" [] OTHER -> "local"

(* What a valid directory knows is taken from it; what it lacks is looked up *)
(* again.                                                                    *)
LookedOnce(a) == IF ~valid THEN "list" ELSE After(cache[a])    \* mutant: the old directory is evidence
Looked(a) == IF ~valid \/ cache[a] = "none" THEN "list" ELSE After(cache[a])

(* The checks at the head of delete. The first item loads the session.       *)
Refused(a) == cancelled \/ row[a] # "row" \/ stopped
Start ==
    /\ pc = "item"
    /\ IF Refused(Item) \/ (~ready /\ ~web.auth)
       THEN /\ Completed(dir)
            /\ stopped' = (stopped \/ (row[Item] = "row" /\ ~cancelled))
            /\ UNCHANGED session
       ELSE /\ IF ready THEN /\ pc' = Looked(Item) /\ UNCHANGED session
               ELSE /\ pc' = "validate" /\ session' = web.num
            /\ UNCHANGED <<op, lock, pos, absent, stopped>>
    /\ UNCHANGED <<web, stamp, issued, row, dir, items, resume, recover, ready, valid, cache, tries, hinted, cancelled, batches, changes>>

-----------------------------------------------------------------------------
(* Requests. With recovery each is preceded by a second look at the account *)
(* and the alias (beforeRequest); a read that confirms a mutation is sent   *)
(* although the caller has gone.                                            *)

BlockedByCaller(a) == cancelled /\ (hinted \/ pc \notin {"confirmOff", "confirmGone"})    \* mutant: no second look
Blocked(a) == (cancelled /\ (hinted \/ pc \notin {"confirmOff", "confirmGone"})) \/ (recover /\ row[a] # "row")
Abandon ==
    /\ pc \in Sends /\ Blocked(Item) /\ Completed(dir)
    /\ stopped' = (stopped \/ pc = "validate")
    /\ UNCHANGED <<web, stamp, issued, row, dir, items, resume, recover, ready, session, valid, cache,
                   tries, hinted, cancelled, batches, changes>>

(* A mutation that is not confirmed may have been done all the same.         *)
Mutated(a) == [dir EXCEPT ![a] = IF pc = "off" THEN "off" ELSE "none"]
Effects(a, answer) ==
    IF pc \notin {"off", "gone"} \/ dir[a] = "none" THEN {dir}
    ELSE IF answer = "ok" THEN {Mutated(a)} ELSE {dir, Mutated(a)}

(* acceptResponse: the session of every answer is kept in memory and stored,  *)
(* an expired one is given up; what stops the account, and what ends the item  *)
(* at once.                                                                  *)
Stops(answer, saved) == ~saved \/ answer \in {"expired", "blocked"} \/ (answer = "limited" /\ ~recover)
Fatal(answer, saved) == ~saved \/ answer = "expired"
KeepOfSuccess(answer, stored, number) ==    \* mutant: only successes are checkpointed
    /\ issued' = IF number > issued THEN number ELSE issued
    /\ stamp' = (stamp /\ ~stored)
    /\ IF answer = "expired" THEN session' = 0 /\ web' = IF stored THEN NoSession ELSE web
       ELSE /\ session' = number
            /\ web' = IF ~stored \/ answer # "ok" THEN web ELSE [Session(number) EXCEPT !.lapsed = web.lapsed /\ number = web.num]
Keep(answer, stored, number) ==
    /\ issued' = IF number > issued THEN number ELSE issued
    /\ stamp' = (stamp /\ ~stored)
    /\ IF answer = "expired" THEN session' = 0 /\ web' = IF stored THEN NoSession ELSE web
       ELSE /\ session' = number
            /\ web' = IF ~stored THEN web ELSE [Session(number) EXCEPT !.lapsed = web.lapsed /\ number = web.num]

(* What follows an answer that was not ok.                                   *)
WaitsOut(answer, saved) == recover /\ answer = "limited" /\ saved /\ ~stopped
Confirming == IF pc = "off" THEN "confirmOff" ELSE "confirmGone"
GoAway(to) == pc' = "away" /\ resume' = to /\ lock' = "free" /\ absent' = FALSE /\ UNCHANGED <<op, pos>>
Failed(answer, saved, hint) ==
    /\ valid' = FALSE /\ UNCHANGED <<ready, cache>>
    /\ hinted' = (hint /\ ~(WaitsOut(answer, saved) /\ tries < MaxRecoveries))
    /\ IF WaitsOut(answer, saved) /\ tries < MaxRecoveries
       THEN /\ tries' = tries + 1 /\ GoAway(IF pc \in {"off", "gone"} THEN "item" ELSE pc)
            /\ stopped' = stopped
       ELSE /\ UNCHANGED tries
            /\ stopped' = (stopped \/ Stops(answer, saved) \/ WaitsOut(answer, saved) \/ pc = "validate")
            /\ IF Fatal(answer, saved) \/ WaitsOut(answer, saved) \/ pc \notin {"off", "gone"}
               THEN Completed(dir') /\ UNCHANGED resume
               ELSE pc' = Confirming /\ UNCHANGED <<resume, op, lock, pos, absent>>

(* What follows an answer that was.                                          *)
Answered(saved) ==
    /\ hinted' = FALSE /\ UNCHANGED <<tries, resume>>
    /\ stopped' = (stopped \/ ~saved)
    /\ ready' = (ready \/ (saved /\ pc = "validate"))
    /\ valid' = CASE ~saved -> FALSE [] pc \in Reads -> TRUE [] OTHER -> valid
    /\ cache' = IF pc \in Reads THEN dir ELSE IF pc = "validate" THEN cache ELSE [cache EXCEPT ![Item] = dir'[Item]]
    /\ IF \/ ~saved
          \/ pc = "confirmOff" /\ dir[Item] # "none" /\ (dir[Item] = "active" \/ stopped)
          \/ pc = "confirmGone" /\ dir[Item] # "none"
       THEN Completed(dir')
       ELSE /\ pc' = CASE pc = "validate" -> "list" [] pc \in Reads -> After(dir[Item])
                       [] pc = "off" -> "gone" [] OTHER -> "local"
            /\ absent' = (absent \/ dir'[Item] = "none")
            /\ UNCHANGED <<op, lock, pos>>

(* A pause Apple asked for is taken before the next request.                 *)
Pause ==
    /\ pc \in Sends /\ hinted /\ ~cancelled
    /\ hinted' = FALSE /\ GoAway(pc)
    /\ UNCHANGED <<web, stamp, issued, row, dir, items, recover, ready, session, stopped, valid, cache, tries,
                   cancelled, batches, changes>>

Request ==
    /\ pc \in Sends /\ ~hinted /\ ~Blocked(Item)
    /\ \E answer \in {"ok", "error", "limited", "blocked", "expired"}, rolled, stored, saved, hint \in BOOLEAN :
          /\ answer = "expired" => ~rolled
          /\ saved => stored    \* a save that is reported as failed may be done
          /\ rolled => issued < MaxSession
          /\ hint => recover /\ saved
          /\ dir' \in Effects(Item, answer)
          /\ Keep(answer, stored, IF rolled THEN issued + 1 ELSE session)
          /\ IF answer = "ok" THEN Answered(saved) ELSE Failed(answer, saved, hint)
    /\ UNCHANGED <<row, items, recover, cancelled, batches, changes>>

(* deleteLocalAliasAfterApple: whatever became of the caller.                *)
Removed(a) == [row EXCEPT ![a] = IF @ = "row" THEN "none" ELSE @]
RemoveRow ==
    /\ pc = "local"
    /\ row' \in {row, Removed(Item)}
    /\ UNCHANGED dir /\ Completed(dir)
    /\ UNCHANGED <<web, stamp, issued, items, resume, recover, ready, session, stopped, valid, cache, tries, hinted, cancelled, batches, changes>>

Work == Enter \/ End \/ Leave \/ Start \/ Abandon \/ Pause \/ Request \/ RemoveRow

-----------------------------------------------------------------------------
(* Everybody else.                                                           *)

(* The caller goes, the two hours of a job are over, or an item panicked.    *)
Cancel ==
    /\ pc \notin {"idle", "end"} /\ ~cancelled /\ cancelled' = TRUE
    /\ UNCHANGED <<shared, row, dir, pc, items, pos, resume, recover, ready, session, stopped, valid, cache, tries, hinted,
                   absent, batches, changes>>

(* The process stops; the locks go with it.                                  *)
Crashed == lock' = "free" /\ Forget /\ UNCHANGED <<row, dir, batches, changes>>

(* The owner changes an address on a device; one that was missing is listed.  *)
OwnerChanges(a) ==
    /\ changes < MaxChanges /\ changes' = changes + 1
    /\ dir' \in {[dir EXCEPT ![a] = s] : s \in {"active", "off", "none"} \ {dir[a]}}
    /\ absent' = (Mine /\ pc # "end" /\ (absent \/ dir'[Item] = "none"))
    /\ UNCHANGED <<shared, row, pc, items, pos, resume, recover, ready, session, stopped, valid, cache, tries, hinted,
                   cancelled, batches>>

(* A pickup reads mail on the web with the stored session, under the account  *)
(* lock alone, and stores the one it gets.                                   *)
ReadWebMail ==
    /\ lock = "free" /\ web.auth
    /\ IF pc = "idle" THEN UNCHANGED issued ELSE issued < MaxSession /\ issued' = issued + 1
    /\ web' = Session(issued') /\ stamp' = FALSE
    /\ UNCHANGED <<op, lock, row, dir, group, changes>>

(* An administrator deletes the account, under the account lock alone.        *)
DeleteAccount ==
    /\ lock = "free" /\ \E a \in Alias : row[a] # "none"
    /\ row' = [a \in Alias |-> "none"] /\ web' = NoSession /\ stamp' = FALSE
    /\ UNCHANGED <<op, lock, issued, dir, group, changes>>

DeletionNext ==
    \/ \E batch \in Batches, retries \in BOOLEAN : Begin(batch, retries)
    \/ Work \/ Cancel \/ \E a \in Alias : OwnerChanges(a)

-----------------------------------------------------------------------------
(* A row goes only after Apple's directory lacked its address at some time    *)
(* since the group last took the account's lock: neither the directory an     *)
(* earlier item had read nor an answer that was lost or refused is enough     *)
(* (alias_delete_batch.go:374, :288).                                        *)
GoneForCause == [][\A a \in Alias : pc = "local" /\ row[a] = "row" /\ row'[a] = "none" => absent]_vars

(* Apple is told to delete an address only while the row that asked for it is *)
(* there, also after a wait in which the account's lock was anybody's         *)
(* (beforeRequest, alias_delete_throttle.go:113).                            *)
OnlyWanted == [][\A a \in Alias : pc = "gone" /\ dir[a] # "none" /\ dir'[a] = "none" /\ a = Item /\ changes' = changes
                    => row[a] = "row"]_vars

(* No request is sent while an earlier answer's session is known to be        *)
(* unstored: a checkpoint that failed stops the account, so a stop of the     *)
(* process loses at most the session of the answer in flight                  *)
(* (acceptResponse, alias_delete_batch.go:496).                              *)
SessionKept == pc \in Sends /\ Mine /\ ~Blocked(Item) => web.num >= session
=============================================================================
