------------------------------- MODULE AppleOps -------------------------------
(***************************************************************************)
(* What works at Apple for one account, together: the deletion of          *)
(* addresses (AliasDeletion), by requests and by a job (DeletionJob),      *)
(* automatic logins and the operator (AutoLogin), web pickups, and a job    *)
(* that makes addresses (CreationJob). Deletions, logins and pickups share  *)
(* the operation lock, the account lock and the stored session; the jobs    *)
(* share the lock that keeps them apart from a rotation of all credentials. *)
(***************************************************************************)
EXTENDS AutoLogin, DeletionJob, CreationJob

CONSTANTS
    Batches, MaxRecoveries, MaxBatches, MaxChanges, MaxSession,    \* see AliasDeletion
    Alongside    \* the requests that are made beside automatic logins

ASSUME OpsConstants ==
    /\ Batches \subseteq Seq(Alias) \ {<<>>} /\ Alongside \subseteq Batches
    /\ {MaxRecoveries, MaxBatches, MaxChanges, MaxSession} \subseteq Nat

VARIABLES
    scene,    \* what goes on in this behaviour
    issued, row, dir, pc, items, pos, resume, recover, ready, session, stopped, valid, cache, tries,
    hinted, cancelled, absent, batches, changes    \* see AliasDeletion

D == INSTANCE AliasDeletion
deletionVars == <<issued, row, dir, pc, items, pos, resume, recover, ready, session, stopped, valid, cache,
                  tries, hinted, cancelled, absent, batches, changes>>
vars == <<scene, shared, loginVars, deletionVars, jobVars, creationVars>>

(* Bounds of the scenes. "plain": deletion requests, web pickups, changes on    *)
(* devices. "login": automatic logins and the operator beside single deletions. *)
(* that nobody cancels. "delete": a deletion job. "create": a creation job. But  *)
(* for the first the account starts as it lists itself.                      *)
Quiet == row = [a \in Alias |-> "row"] /\ dir = [a \in Alias |-> "active"]

Init ==
    /\ op = "free" /\ lock = "free" /\ stamp = FALSE
    /\ web \in [num : {1}, auth : {TRUE}, lapsed : BOOLEAN]
    /\ D!GroupInit
    /\ scene \in {"plain", "login", "delete", "create"} /\ LoginInit(scene = "login")
    /\ JobInit /\ CreationInit
    /\ scene # "plain" => Quiet
    /\ scene # "login" => ~web.lapsed

(* The deletion stores sessions and gives them up; both tell the loop, but for a *)
(* save that fails, which stops the group.                                   *)
Replaced == stamp' # stamp \/ web'.auth # web.auth \/ web'.lapsed # web.lapsed
Deletion ==
    /\ scene \in {"plain", "login"} /\ D!DeletionNext
    /\ scene = "login" => changes' = 0 /\ ~recover' /\ ~cancelled' /\ items' \in Alongside \cup {<<>>}
    /\ Notified(Replaced, TRUE, ~stopped')
    /\ UNCHANGED <<jobVars, creationVars>>

Logins == scene = "login" /\ LoginNext /\ UNCHANGED <<deletionVars, jobVars, creationVars>>

(* The preflight of a job: every address is there, and a session.              *)
SelectionFits == web.auth /\ \A a \in Items : row[a] = "row"
Request ==
    /\ scene = "delete"
    /\ (CheckSelection /\ SelectionFits) \/ Admit \/ WorkerSteps \/ (Return /\ pc = "idle")
    /\ UNCHANGED <<shared, loginVars, deletionVars, creationVars>>

(* A job hands its selection to the service and is told of each item; an end of *)
(* its context is seen before anything else is done.                         *)
BeginGroup ==
    /\ scene = "delete" /\ job = "begin" /\ job' = "works" /\ D!Begin(Selection, TRUE)
    /\ UNCHANGED <<loginVars, call, rotation, authority, held, broken, over, recordVars, creationVars>>
Finished ==
    IF pc = "away" /\ pc' = "idle" THEN SubSeq(items, pos, Len(items))
    ELSE IF pos' > pos \/ (pc' = "end" /\ pc # "end") THEN <<items[pos]>> ELSE <<>>
Result == IF pc = "local" /\ row' # row THEN "deleted" ELSE "failed"
GroupWorks ==
    /\ scene = "delete" /\ job = "works"
    /\ \/ Halts /\ D!Cancel /\ UNCHANGED <<held, broken, recordVars>>
       \/ /\ Halts /\ pc # "end" => cancelled
          /\ D!Work /\ issued' = 1
          /\ Report(Finished, Result)
          /\ killed' = killed \cup {a \in Items : pc = "gone" /\ dir'[a] # dir[a]}
    /\ Notified(Replaced, TRUE, ~stopped')
    /\ UNCHANGED <<call, rotation, authority, job, over, creationVars>>

Creation ==
    /\ scene = "create" /\ CreationNext(rotation = "none")
    /\ UNCHANGED <<shared, loginVars, deletionVars, jobVars>>
Credentials ==
    /\ scene \in {"delete", "create"} /\ Rotation(maker = "probing")
    /\ UNCHANGED <<shared, loginVars, deletionVars, creationVars>>

ReadWebMail ==
    /\ scene \in {"plain", "login"} /\ D!ReadWebMail /\ account.ver > 0 /\ Notified(TRUE, FALSE, FALSE)
    /\ UNCHANGED <<jobVars, creationVars>>
DeleteAccount ==
    /\ scene # "create" /\ D!DeleteAccount /\ Deleted
    /\ UNCHANGED <<jobVars, creationVars>>

(* The process stops and starts again.                                       *)
Restart == op' = "free" /\ stamp' = FALSE /\ D!Crashed /\ Restarted /\ JobRestarts /\ CreationRestarts

Next ==
    /\ \/ Deletion \/ Logins \/ Request \/ BeginGroup \/ GroupWorks \/ Creation \/ Credentials
       \/ ReadWebMail \/ DeleteAccount \/ Restart
    /\ UNCHANGED scene
Spec == Init /\ [][Next]_vars

-----------------------------------------------------------------------------
(* Properties of the parts, under everything that happens to the account.     *)

(* No local row goes without evidence from Apple; see AliasDeletion.          *)
GoneForCause == D!GoneForCause

(* Apple deletes only what a local row still asks for; see AliasDeletion.     *)
OnlyWanted == D!OnlyWanted

(* A group never works on with a session it failed to store; see AliasDeletion. *)
SessionKept == D!SessionKept

(* What a job has done at Apple and its record lacks is explained, whatever     *)
(* failed and whenever the process died: a deletion job lacks at most the one    *)
(* address it lost with a failed save, a creation job the addresses that plain   *)
(* limits hid and at most one more that it made without seeing it.             *)
LossesExplained == OneUnrecorded /\ MissingExplained

(* The record of a job that has ended is not written again, by a finalizer, a    *)
(* worker or a stop that comes late; see DeletionJob and CreationJob.          *)
JobsEndForGood == EndedForGood /\ CreationEnded
=============================================================================
