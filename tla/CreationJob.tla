------------------------------ MODULE CreationJob ------------------------------
(***************************************************************************)
(* A job that makes a number of addresses for one account, one after the     *)
(* other and waiting out Apple's limits for up to seven days                 *)
(* (httpserver/alias_creation_jobs.go, store/alias_creation_jobs.go). Making *)
(* one is AliasCreation; here only what its caller is told matters, and what *)
(* it may have made without saying so: an unclear failure may hide an        *)
(* address, and so may a plain limit. A checkpoint may fail, or fail and     *)
(* yet be done.                                                             *)
(***************************************************************************)
EXTENDS Integers

CONSTANTS
    Target,     \* the addresses asked for (up to 100)
    MaxJobs,    \* bound: jobs started
    MaxDropped  \* bound: addresses of a job that Apple hides behind a plain limit

ASSUME CreationConstants == Target \in Nat \ {0} /\ {MaxJobs, MaxDropped} \subseteq Nat

VARIABLES
    maker,      \* the worker: its next step, "none" when the account is free
    entry,      \* the latest row of the account: [status, count]
    copy,       \* the worker's copy
    halt,       \* its waiting context has ended
    made,       \* ghost: the addresses it has made, or taken over from an unconfirmed creation
    dropped,    \* ghost: those of them that Apple hid behind a plain limit
    makers      \* jobs started

creationVars == <<maker, entry, copy, halt, made, dropped, makers>>

NoEntry == [status |-> "none", count |-> 0]
Running == {"running", "waiting"}

CreationInit ==
    maker = "none" /\ entry = NoEntry /\ copy = NoEntry /\ halt = FALSE
    /\ made = 0 /\ dropped = 0 /\ makers = 0

(* SaveAliasCreationJob replaces the row of the job, whatever its status.     *)
Checkpoint(j, ok) == copy' = j /\ entry' \in {j} \cup (IF ok THEN {} ELSE {entry})

(* The row is inserted with the request's context: a client that leaves may    *)
(* leave it behind without a worker.                                         *)
StartCreation ==
    /\ maker = "none" /\ entry.status \notin Running /\ makers < MaxJobs
    /\ LET j == [status |-> "running", count |-> 0] IN
       \/ maker' = "loop" /\ entry' = j /\ copy' = j
       \/ entry' = j /\ UNCHANGED <<maker, copy>>
    /\ made' = 0 /\ dropped' = 0 /\ makers' = makers + 1 /\ UNCHANGED halt

BeginRound ==
    /\ maker = "loop" /\ ~halt
    /\ \E ok \in BOOLEAN : /\ Checkpoint([copy EXCEPT !.status = "running"], ok)
                          /\ maker' = IF ok THEN "reserve" ELSE "leaving"
    /\ UNCHANGED <<halt, made, dropped, makers>>

(* Each address is made under the read lock on credentials; a stop that comes   *)
(* now does not end it.                                                      *)
Reserve(free) ==
    /\ maker = "reserve" /\ free /\ maker' = "probing"
    /\ UNCHANGED <<entry, copy, halt, made, dropped, makers>>

(* What a round has made when it returns. A completion answered 5xx and then,    *)
(* at its replay, by a limit has dropped an address that may be there; a failure *)
(* may have made one too, and an address that does not fit, or is listed, is one. *)
Makes(result) == IF result = "ok" THEN {1} ELSE {0, 1}
Drops(result, n) == IF result = "limited" THEN n ELSE 0
Next_(status) == [copy EXCEPT !.status = status]

(* A limit is waited out unless it is marked: as one of a creation to be         *)
(* confirmed, or after a possible effect. The replay's limit has no mark.      *)
WaitsForAny(result) == result \in {"limited", "unclearLimit"}    \* mutant: any limit
Waits(result) == result = "limited"
Probed ==
    /\ maker = "probing"
    /\ \E result \in {"ok", "limited", "unclearLimit", "failed"}, ok \in BOOLEAN :
          /\ \E n \in Makes(result) : /\ dropped + Drops(result, n) <= MaxDropped
                                      /\ made' = made + n /\ dropped' = dropped + Drops(result, n)
          /\ IF Waits(result)
             THEN Checkpoint(Next_("waiting"), ok) /\ maker' = IF ok THEN "cooling" ELSE "leaving"
             ELSE IF result # "ok" THEN Checkpoint(Next_("failed"), ok) /\ maker' = "leaving"
             ELSE LET done == copy.count + 1 = Target IN
                  /\ Checkpoint([status |-> IF done THEN "completed" ELSE "running", count |-> copy.count + 1], ok)
                  /\ maker' = IF done \/ ~ok THEN "leaving" ELSE "loop"
    /\ UNCHANGED <<halt, makers>>

Cooled ==
    /\ maker = "cooling" /\ ~halt /\ maker' = "loop"
    /\ UNCHANGED <<entry, copy, halt, made, dropped, makers>>

(* Stopped by the administrator, by the process or after seven days.          *)
CloseCreation ==
    /\ maker \in {"loop", "cooling"} /\ halt /\ maker' = "leaving"
    /\ \E ok \in BOOLEAN, status \in {"stopped", "interrupted"} : Checkpoint(Next_(status), ok)
    /\ UNCHANGED <<halt, made, dropped, makers>>

(* First nobody can cancel it any more, then the account is free.              *)
LeaveCreation ==
    \/ maker = "leaving" /\ maker' = "left" /\ UNCHANGED <<entry, copy, halt, made, dropped, makers>>
    \/ maker = "left" /\ maker' = "none" /\ copy' = NoEntry /\ halt' = FALSE /\ UNCHANGED <<entry, made, dropped, makers>>

(* The administrator stops the worker, or releases a row nobody works on.      *)
Cancelable == maker \notin {"none", "left"}
StopCreation ==
    /\ IF Cancelable THEN halt' = TRUE /\ UNCHANGED entry
       ELSE /\ entry' = [entry EXCEPT !.status = IF @ \in Running THEN "stopped" ELSE @]
            /\ UNCHANGED halt
    /\ UNCHANGED <<maker, copy, made, dropped, makers>>

HaltsCreation ==
    /\ maker \notin {"none", "left"} /\ ~halt /\ halt' = TRUE
    /\ UNCHANGED <<maker, entry, copy, made, dropped, makers>>

(* The process stops; at its start no row is active.                           *)
CreationRestarts ==
    /\ maker' = "none" /\ copy' = NoEntry /\ halt' = FALSE
    /\ made' \in IF maker = "probing" THEN {made, made + 1} ELSE {made}
    /\ entry' = [entry EXCEPT !.status = IF @ \in Running THEN "interrupted" ELSE @]
    /\ UNCHANGED <<dropped, makers>>

CreationNext(free) ==
    \/ StartCreation \/ BeginRound \/ Reserve(free) \/ Probed \/ Cooled
    \/ CloseCreation \/ LeaveCreation \/ StopCreation \/ HaltsCreation

-----------------------------------------------------------------------------
(* Missing from a job's record are only the addresses that Apple's replay hid    *)
(* behind a plain limit, which the job takes for one that made nothing and waits *)
(* out, and at most one more, whatever failed: a marked limit, any other         *)
(* failure and a failed checkpoint end the job, and no later one goes on with    *)
(* its row (alias_creation_jobs.go:271).                                      *)
MissingExplained == made <= entry.count + dropped + 1 /\ entry.count <= made

(* A record that has ended stays as it is until the next job of the account:     *)
(* neither its worker nor an administrator's stop writes to it any more,        *)
(* although no save looks at the status it replaces                           *)
(* (store/alias_creation_jobs.go:84, alias_creation_jobs.go:170).              *)
CreationEnded == [][entry.status \notin Running /\ makers' = makers => entry' = entry]_<<entry, makers>>
=============================================================================
