------------------------------ MODULE AutoLogin -------------------------------
(***************************************************************************)
(* Logging one account in again at Apple (automatic_login_events.go and    *)
(* automatic_login_attempt.go of internal/hmesync), and the operator who   *)
(* may log in, out or change the account at any time. An attempt takes the *)
(* operation lock three times: to prepare, to submit the password and to   *)
(* submit the code it has waited for, up to four minutes later. The event  *)
(* loop is told of changes and keeps one deadline; it never looks for      *)
(* accounts by itself.                                                     *)
(*                                                                         *)
(* One of the two channels is modelled, the iCloud web session.            *)
(***************************************************************************)
EXTENDS Integers

CONSTANTS
    MaxSettings,    \* bound: changes of the account by the operator
    MaxLogins       \* bound: logins, logouts and failures of the operator

ASSUME LoginConstants == {MaxSettings, MaxLogins} \subseteq Nat

VARIABLES
    op, lock, web, stamp,    \* see AliasDeletion
    config,       \* [on, rev]: the automatic login as configured
    account,      \* [on, ver]: it is enabled; version of its mailbox configuration, 0: deleted
    state,        \* the retry state: [rev, status, next], next is "none", "later", "now"
    challenge,    \* the operator was asked for a code
    generation,   \* of the operator's logins
    event, deadline, active,    \* the loop: told, has a deadline, a task runs
    untold,       \* ghost: what it knows is older than a commit that was reported as failed
    task,         \* the revision the task runs for
    step,         \* the attempt: its next step
    attempt,      \* what it was prepared with: [rev, ver, gen]
    result,       \* "ok", "retry", "action"
    touched,      \* ghost: the operator acted, or a session was stored, since it was prepared
    logins

loopVars == <<event, untold, deadline, active, task>>
attemptVars == <<step, attempt, result, touched>>
rowVars == <<config, account, state>>
loginVars == <<rowVars, challenge, generation, loopVars, attemptVars, logins>>
shared == <<op, lock, web, stamp>>

Fresh == [num |-> 1, auth |-> TRUE, lapsed |-> FALSE]
NoSession == [num |-> 0, auth |-> FALSE, lapsed |-> FALSE]
NoState == [rev |-> 0, status |-> "none", next |-> "none"]
NoAttempt == [rev |-> 0, ver |-> 0, gen |-> 0]
Healthy == web.auth /\ ~web.lapsed
Eligible == config.on /\ account.on

LoginInit(on) ==
    /\ config = [on |-> on, rev |-> 1] /\ account = [on |-> TRUE, ver |-> 1]
    /\ state = NoState /\ challenge = FALSE /\ generation = 0
    /\ event = TRUE /\ untold = FALSE /\ deadline = FALSE /\ active = FALSE /\ task = 0
    /\ step = "none" /\ attempt = NoAttempt /\ result = "ok" /\ touched = FALSE /\ logins = 0

(* Who has stored something tells the loop, unless the store says that it      *)
(* failed: a commit may be done all the same, and then the loop only learns of  *)
(* it if it has to look at the account anyway.                                *)
Announced(told) ==
    /\ event' = (event \/ told)
    /\ untold' = (~told /\ (untold \/ ~(event \/ active)))

-----------------------------------------------------------------------------
(* The retry state (store/auto_login.go). It is saved only for the           *)
(* configuration it was taken under, and goes with it.                       *)

StateSavedAnyhow(s) == Eligible    \* mutant: whatever configuration it was taken under
StateSaved(s) == Eligible /\ config.rev = s.rev
Saved(s) == IF StateSaved(s) THEN s ELSE state

(* automaticChannelDue, but for the deadline: may this channel be tried?      *)
Open == state = NoState \/ (state.rev = config.rev /\ state.status # "action")
Observed == IF Eligible /\ Healthy /\ state # NoState /\ state.rev = config.rev
            THEN {state, [state EXCEPT !.status = "done", !.next = "none"]} ELSE {state}

(* nextAutomaticLogin: "never", "now", or the time of an expiry, of a retry    *)
(* or of the end of the operator's login.                                    *)
NextLoginUnasked ==    \* mutant: a login of the operator is not waited for
    IF ~Eligible THEN "never"
    ELSE IF Healthy THEN "later"
    ELSE IF ~Open \/ challenge THEN "never"
    ELSE IF state.next = "later" THEN "later" ELSE "now"
NextLogin ==
    IF ~Eligible THEN "never"
    ELSE IF Healthy THEN "later"
    ELSE IF ~Open THEN "never"
    ELSE IF state.next = "later" \/ challenge THEN "later" ELSE "now"

(* reconcile. A task that has just ended without a reservation is not begun   *)
(* again at once; a read that failed is tried again in five minutes.          *)
Reconcile(done, running) ==
    IF running THEN UNCHANGED <<untold, deadline, active, task, step, state>>
    ELSE /\ untold' = FALSE
         /\ \/ /\ state' \in Observed
               /\ LET now == NextLogin = "now" /\ done # config.rev IN
                  /\ active' = now /\ deadline' = (NextLogin # "never" /\ ~now)
                  /\ task' = IF now THEN config.rev ELSE 0
                  /\ step' = IF now THEN "prepare" ELSE "none"
            \/ /\ deadline' = TRUE /\ active' = FALSE /\ task' = 0 /\ step' = "none"
               /\ UNCHANGED state

Told ==
    /\ event /\ event' = FALSE /\ Reconcile(0, active)
    /\ UNCHANGED <<shared, config, account, challenge, generation, attempt, result, touched, logins>>

Fires ==
    /\ deadline /\ Reconcile(0, active)
    /\ UNCHANGED <<shared, config, account, challenge, generation, event, attempt, result, touched, logins>>

Complete ==
    /\ active /\ step = "done" /\ Reconcile(task, FALSE)
    /\ attempt' = NoAttempt /\ result' = "ok" /\ touched' = FALSE
    /\ UNCHANGED <<shared, config, account, challenge, generation, event, logins>>

-----------------------------------------------------------------------------
(* The attempt.                                                              *)

Goes(to) == step' = to /\ UNCHANGED loopVars
Unclaimed == op = "free"

(* prepareAutomaticLogin, under the operation lock: the next attempt is        *)
(* reserved before anything is sent.                                         *)
Due == ~Healthy /\ Open /\ state.next # "later"
Prepare ==
    /\ step = "prepare" /\ Unclaimed
    /\ IF Eligible /\ config.rev = task /\ Due /\ ~challenge
       THEN /\ state' \in {state, [rev |-> task, status |-> "busy", next |-> "later"]}
            /\ IF state' = state THEN Goes("done") /\ UNCHANGED result
               ELSE \/ Goes("signIn") /\ UNCHANGED result
                    \/ Goes("finish") /\ result' \in {"retry", "action"}    \* credentials or the link of the codes
            /\ attempt' = [rev |-> task, ver |-> account.ver, gen |-> generation]
            /\ stamp' = TRUE /\ touched' = FALSE
       ELSE Goes("done") /\ state' \in Observed /\ UNCHANGED <<attempt, stamp, touched, result>>
    /\ UNCHANGED <<op, lock, web, config, account, challenge, generation, logins>>

(* automaticAttemptCurrent.                                                  *)
CurrentAccount == Eligible /\ config.rev = attempt.rev /\ account.ver = attempt.ver
CurrentSession == CurrentAccount /\ stamp /\ ~challenge    \* mutant: a login that left no trace
Current == CurrentAccount /\ stamp /\ ~challenge /\ generation = attempt.gen

(* The password, later the code, is submitted under the operation lock if the  *)
(* attempt is still current.                                                 *)
Submit(from, to) ==
    /\ step = from /\ Unclaimed
    /\ IF Current THEN op' = "login" /\ Goes(to) /\ UNCHANGED result
       ELSE Goes("finish") /\ result' = "retry" /\ UNCHANGED op
    /\ UNCHANGED <<lock, web, stamp, rowVars, challenge, generation, attempt, touched, logins>>

(* Apple refuses, for a time or until somebody acts.                          *)
Rejected(from) ==
    /\ step = from /\ op' = "free"
    /\ result' \in {"retry", "action"} /\ Goes("finish")
    /\ stamp' = FALSE    \* a renewed browser trust may be kept
    /\ UNCHANGED <<lock, web, rowVars, challenge, generation, attempt, touched, logins>>

(* Apple wants a code: the lock is given up while it is waited for.           *)
Challenged ==
    /\ step = "signing" /\ op' = "free"
    /\ LET s == [rev |-> attempt.rev, status |-> "busy", next |-> "later"] IN
       /\ state' = Saved(s)
       /\ Goes(IF StateSaved(s) THEN "code" ELSE "finish")
       /\ result' = IF StateSaved(s) THEN result ELSE "retry"
    /\ UNCHANGED <<lock, web, stamp, config, account, challenge, generation, attempt, touched, logins>>

(* waitForAutomaticLoginCode: a fresh code, or the end of waiting.            *)
WaitForCode ==
    /\ step = "code"
    /\ \/ /\ Eligible /\ config.rev = attempt.rev /\ Goes("verify") /\ UNCHANGED result
       \/ Goes("finish") /\ result' = "retry"
    /\ UNCHANGED <<shared, rowVars, challenge, generation, attempt, touched, logins>>

(* publishAutomaticLogin asks once more, after what may be minutes at Apple;    *)
(* persistSession then waits for the account lock and asks only whose account  *)
(* it is.                                                                    *)
Accepted(from) ==
    /\ step = from
    /\ IF Current THEN Goes("publish") /\ UNCHANGED <<op, result>>
       ELSE Goes("finish") /\ op' = "free" /\ result' = "retry"
    /\ UNCHANGED <<lock, web, stamp, rowVars, challenge, generation, attempt, touched, logins>>

Publish ==
    /\ step = "publish" /\ lock = "free" /\ op' = "free" /\ step' = "finish"
    /\ \E stored, told \in BOOLEAN :
          /\ (stored => account.ver > 0) /\ (told => stored)
          /\ web' = (IF stored THEN Fresh ELSE web) /\ stamp' = (stamp /\ ~stored)
          /\ Announced(told) /\ result' = IF told THEN "ok" ELSE "retry"
    /\ UNCHANGED <<lock, rowVars, challenge, generation, deadline, active, task, attempt, touched, logins>>

(* finishAutomaticLogin, under no lock.                                      *)
Outcome == [rev |-> attempt.rev, status |-> IF result = "ok" THEN "done" ELSE result,
            next |-> IF result = "retry" THEN "later" ELSE "none"]
Finish ==
    /\ step = "finish" /\ state' \in {state, Saved(Outcome)} /\ Goes("done")
    /\ UNCHANGED <<shared, config, account, challenge, generation, attempt, result, touched, logins>>

(* The task's four minutes are over: the reservation stays.                   *)
TimesOut ==
    /\ step \notin {"none", "done"} /\ Goes("done")
    /\ op' = IF op = "login" THEN "free" ELSE op
    /\ UNCHANGED <<lock, web, stamp, rowVars, challenge, generation, attempt, result, touched, logins>>

Attempt ==
    \/ Prepare \/ Submit("signIn", "signing") \/ Rejected("signing") \/ Challenged \/ Accepted("signing")
    \/ WaitForCode \/ Submit("verify", "verifying") \/ Rejected("verifying") \/ Accepted("verifying") \/ Publish
    \/ Finish \/ TimesOut

-----------------------------------------------------------------------------
(* The operator, under the operation lock. What Apple answers arrives while    *)
(* it is held.                                                               *)

(* The automatic login, switched or with new particulars: a later revision.     *)
Reconfigured == [on : BOOLEAN, rev : {config.rev + 1}]

(* updateAccount: the account, its automatic login or both.                   *)
Change ==
    /\ Unclaimed /\ lock = "free" /\ account.ver > 0
    /\ config.rev + account.ver < MaxSettings + 2
    /\ config' \in {config} \cup Reconfigured
    /\ account' \in {account} \cup [on : BOOLEAN, ver : {account.ver + 1}]
    /\ state' = IF config' = config /\ account'.on THEN state ELSE NoState
    /\ touched' = (touched \/ (step # "none" /\ <<config, account>>' # <<config, account>>))
    /\ \E told \in BOOLEAN : Announced(told)
    /\ UNCHANGED <<shared, challenge, generation, deadline, active, task, step, attempt, result, logins>>

(* StartAuth, VerifyAuth and ClearAuth: a session, no session, a challenge in   *)
(* place of the session, or a refusal.                                       *)
Login(session, wait) ==
    /\ Unclaimed /\ lock = "free" /\ account.ver > 0 /\ logins < MaxLogins /\ logins' = logins + 1
    /\ generation' = generation + 1
    /\ web' = session /\ stamp' = FALSE
    /\ \E told \in BOOLEAN : Announced(told) /\ challenge' = (wait /\ told)
    /\ touched' = (step # "none")
    /\ UNCHANGED <<op, lock, rowVars, deadline, active, task, step, attempt, result>>
SignIn == Login(Fresh, FALSE)
SignOut == Login(NoSession, FALSE)
AskCode == Login(NoSession, TRUE)
Refuse ==
    /\ Unclaimed /\ logins < MaxLogins /\ logins' = logins + 1
    /\ generation' = generation + 1 /\ challenge' \in {challenge, FALSE}
    /\ touched' = (step # "none")
    /\ UNCHANGED <<shared, rowVars, loopVars, step, attempt, result>>

(* Time passes.                                                              *)
RetryDue ==
    /\ state.next = "later" /\ state' = [state EXCEPT !.next = "now"]
    /\ UNCHANGED <<shared, config, account, challenge, generation, loopVars, attemptVars, logins>>
ChallengeEnds ==
    /\ challenge /\ challenge' = FALSE
    /\ UNCHANGED <<shared, rowVars, generation, loopVars, attemptVars, logins>>
Lapses ==
    /\ Healthy /\ web' = [web EXCEPT !.lapsed = TRUE]
    /\ UNCHANGED <<op, lock, stamp, loginVars>>

(* What else happens to the account: a session is stored or given up by one    *)
(* who tells the loop, surely if the store does not fail, or the account is      *)
(* deleted with all that belongs to it.                                      *)
Notified(stored, locked, surely) ==
    /\ IF stored THEN \E told \in {TRUE, surely} : Announced(told) ELSE UNCHANGED <<event, untold>>
    /\ touched' = (touched \/ (stored /\ locked /\ step # "none"))
    /\ UNCHANGED <<rowVars, challenge, generation, deadline, active, task, step, attempt, result, logins>>
Deleted ==
    /\ config' = [on |-> FALSE, rev |-> 0] /\ account' = [on |-> FALSE, ver |-> 0] /\ state' = NoState
    /\ UNCHANGED <<challenge, generation, loopVars, attemptVars, logins>>

(* The process stops, and starts by looking at every account it has enabled.   *)
Restarted ==
    /\ challenge' = FALSE
    /\ event' = TRUE /\ untold' = FALSE /\ deadline' = FALSE /\ active' = FALSE /\ task' = 0
    /\ step' = "none" /\ attempt' = NoAttempt /\ result' = "ok" /\ touched' = FALSE /\ generation' = 0
    /\ UNCHANGED <<rowVars, logins>>

Operate == Change \/ SignIn \/ SignOut \/ AskCode \/ Refuse
Time == RetryDue \/ ChallengeEnds \/ Lapses
LoginNext == Told \/ Fires \/ Complete \/ Attempt \/ Operate \/ Time
-----------------------------------------------------------------------------
(* An automatic login stores its session only if nothing happened to the      *)
(* account since it was prepared: no settings saved, no login of the operator  *)
(* begun, failed or ended, no session stored by another operation that has    *)
(* the operation lock (automatic_login_attempt.go:227). A web pickup has not   *)
(* and may be overwritten.                                                   *)
Publishes == step = "publish" /\ step' = "finish"    \* stored or not
NeverOverwrites == [][Publishes => ~touched]_<<step, touched>>

(* Whenever the account may be logged in automatically and is not, or will     *)
(* expire, somebody will look at it: a task runs, the loop was told or has a   *)
(* deadline. It never scans, so one notification lost would be for good; the    *)
(* only one the code gives up is that of a commit reported as failed, when      *)
(* nothing else makes the loop look (admin_api.go:1049, service.go:1778). A     *)
(* deadline beside a task would make it spin (automatic_login_events.go:47).  *)
NeverForgotten ==
    /\ Eligible /\ (Healthy \/ Open) => active \/ event \/ deadline \/ untold
    /\ ~(active /\ deadline)

(* A late result never decides about credentials the operator has changed      *)
(* since (finishAutomaticLogin runs under no lock; store/auto_login.go:150).   *)
OwnRetryState == state # NoState => Eligible /\ state.rev = config.rev
=============================================================================
