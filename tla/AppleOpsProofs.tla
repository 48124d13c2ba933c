---------------------------- MODULE AppleOpsProofs ----------------------------
(***************************************************************************)
(* Of the work at Apple for one account (AppleOps), for any addresses,      *)
(* batches, selections and bounds: what automatic logins, deletions and     *)
(* jobs keep true under everything that happens to the account.             *)
(***************************************************************************)
EXTENDS AppleOps, TLAPS

-----------------------------------------------------------------------------
(* The locks. *)

Submitting == {"signing", "verifying", "publish"}     \* the attempt has the operation lock
Asking == {"list", "confirmOff", "confirmGone", "validate", "off", "gone"}

(* The operation lock belongs to the attempt of the task that runs, or to a   *)
(* group of deletions.                                                       *)
SharedInv ==
    /\ op \in {"free", "login", "batch"} /\ lock \in {"free", "batch"} /\ stamp \in BOOLEAN
    /\ web \in [num : Nat, auth : BOOLEAN, lapsed : BOOLEAN]
    /\ issued \in Nat /\ session \in Nat
    /\ pc \in Asking \cup {"idle", "away", "item", "local", "end"} /\ resume \in Asking \cup {"item"}
    /\ active <=> step # "none"
    /\ op = "login" <=> step \in Submitting
    /\ op = "batch" <=> pc # "idle"
    /\ lock = "batch" <=> pc \notin {"idle", "away"}

LEMMA SharedInitially == Init => SharedInv
<1> SUFFICES ASSUME Init PROVE SharedInv
  OBVIOUS
<1>1. op = "free" /\ lock = "free" /\ stamp = FALSE /\ web \in [num : {1}, auth : {TRUE}, lapsed : BOOLEAN]
  BY DEF Init
<1>2. issued = 1 /\ session = 0 /\ pc = "idle" /\ resume = "item"
  BY DEF Init, D!GroupInit
<1>3. step = "none" /\ active = FALSE
  BY DEF Init, LoginInit
<1>4. web \in [num : Nat, auth : BOOLEAN, lapsed : BOOLEAN]
  <2>1. {1} \subseteq Nat /\ {TRUE} \subseteq BOOLEAN
    OBVIOUS
  <2> QED
    BY <1>1, <2>1, Zenon
<1> QED
  BY <1>1, <1>2, <1>3, <1>4 DEF SharedInv, Submitting

(* A group at work, or one that begins or is given up.                       *)
GroupStep ==
    \/ \E batch, retries : D!Begin(batch, retries)
    \/ D!Work \/ D!Cancel \/ \E a \in Alias : D!OwnerChanges(a)

LEMMA AfterIs == \A x : D!After(x) \in {"off", "gone", "local"}
BY DEF D!After

(* The session an answer comes with, and whether it could be stored.          *)
LEMMA KeepsSession ==
    ASSUME SharedInv, NEW answer, NEW stored \in BOOLEAN, NEW number \in Nat, D!Keep(answer, stored, number)
    PROVE  /\ web' \in [num : Nat, auth : BOOLEAN, lapsed : BOOLEAN] /\ issued' \in Nat /\ session' \in Nat
           /\ stamp' = (stamp /\ ~stored)
           /\ ~stored => web' = web
           /\ answer = "expired" => session' = 0
           /\ answer # "expired" => session' = number /\ (stored => web'.num = number)
           /\ issued' = IF number > issued THEN number ELSE issued
<1>1. /\ NoSession \in [num : Nat, auth : BOOLEAN, lapsed : BOOLEAN]
      /\ D!NoSession = NoSession
  BY DEF NoSession, D!NoSession
<1>2. PICK b \in BOOLEAN : b = (web.lapsed /\ number = web.num)
  BY DEF SharedInv
<1>3. /\ [D!Session(number) EXCEPT !.lapsed = b] \in [num : Nat, auth : BOOLEAN, lapsed : BOOLEAN]
      /\ [D!Session(number) EXCEPT !.lapsed = b].num = number
  BY DEF D!Session
<1> QED
  BY <1>1, <1>2, <1>3 DEF D!Keep, SharedInv

LEMMA RequestShared ==
    ASSUME SharedInv, UNCHANGED <<step, active>>, D!Request
    PROVE  SharedInv'
<1>1. PICK answer \in {"ok", "error", "limited", "blocked", "expired"}, rolled, stored, saved, hint \in BOOLEAN :
          /\ D!Keep(answer, stored, IF rolled THEN issued + 1 ELSE session)
          /\ IF answer = "ok" THEN D!Answered(saved) ELSE D!Failed(answer, saved, hint)
  BY DEF D!Request
<1>2. web' \in [num : Nat, auth : BOOLEAN, lapsed : BOOLEAN] /\ issued' \in Nat /\ session' \in Nat /\ stamp' \in BOOLEAN
  <2>1. PICK number \in Nat : D!Keep(answer, stored, number)
    BY <1>1 DEF SharedInv
  <2> QED
    BY <1>1, <2>1, KeepsSession DEF SharedInv
<1>3. pc \in Asking /\ op = "batch" /\ lock = "batch"
  BY DEF D!Request, D!Sends, D!Reads, SharedInv, Asking
<1>4. /\ pc' \in Asking \cup {"away", "item", "local", "end"} /\ resume' \in Asking \cup {"item"}
      /\ op' = op /\ lock' = IF pc' = "away" THEN "free" ELSE "batch"
  <2>1. CASE answer = "ok"
    BY <1>1, <1>3, <2>1, AfterIs DEF D!Answered, D!Completed, SharedInv, Asking
  <2>2. CASE answer # "ok"
    BY <1>1, <1>3, <2>2 DEF D!Failed, D!Completed, D!GoAway, D!Confirming, SharedInv, Asking
  <2> QED
    BY <2>1, <2>2
<1> QED
  BY <1>2, <1>3, <1>4 DEF SharedInv, Asking

LEMMA GroupShared ==
    ASSUME SharedInv, UNCHANGED <<step, active>>, GroupStep
    PROVE  SharedInv'
<1>1. ASSUME NEW batch, NEW retries, D!Begin(batch, retries) PROVE SharedInv'
  BY <1>1 DEF D!Begin, SharedInv, Asking, Submitting
<1>2. CASE D!Enter
  BY <1>2 DEF D!Enter, SharedInv, Asking, Submitting
<1>3. CASE D!End \/ D!Leave
  <2>1. web' = [web EXCEPT !.num = IF web.auth THEN 1 ELSE 0] /\ issued' = 1 /\ session' = 0 /\ UNCHANGED stamp
        /\ pc' = "idle" /\ resume' = "item" /\ op' = "free" /\ lock' = "free" /\ op = "batch"
    BY <1>3 DEF D!End, D!Leave, D!Forget, SharedInv
  <2> QED
    BY <2>1 DEF SharedInv, Submitting
<1>4. CASE D!Start
  <2>1. /\ UNCHANGED <<web, stamp, issued, resume, op, lock>> /\ pc = "item" /\ session' \in {session, web.num}
        /\ pc' \in Asking \cup {"item", "local", "end"}
    BY <1>4, AfterIs DEF D!Start, D!Completed, D!Looked, Asking
  <2> QED
    BY <2>1 DEF SharedInv, Asking
<1>5. CASE D!Abandon \/ D!RemoveRow
  <2>1. /\ UNCHANGED <<web, stamp, issued, session, resume, op, lock>> /\ pc \in Asking \cup {"local"}
        /\ pc' \in {"item", "end"}
    BY <1>5 DEF D!Abandon, D!RemoveRow, D!Completed, D!Sends, D!Reads, Asking
  <2> QED
    BY <2>1 DEF SharedInv, Asking
<1>6. CASE D!Pause
  <2>1. /\ UNCHANGED <<web, stamp, issued, session, op>> /\ pc \in Asking
        /\ pc' = "away" /\ resume' = pc /\ lock' = "free"
    BY <1>6 DEF D!Pause, D!GoAway, D!Sends, D!Reads, Asking
  <2> QED
    BY <2>1 DEF SharedInv, Asking
<1>7. CASE D!Cancel
  BY <1>7 DEF D!Cancel, D!shared, SharedInv
<1>8. ASSUME NEW a \in Alias, D!OwnerChanges(a) PROVE SharedInv'
  BY <1>8 DEF D!OwnerChanges, D!shared, SharedInv
<1> QED
  BY <1>1, <1>2, <1>3, <1>4, <1>5, <1>6, <1>7, <1>8, RequestShared DEF GroupStep, D!Work

LEMMA FreshWeb == {Fresh, NoSession, D!NoSession} \subseteq [num : Nat, auth : BOOLEAN, lapsed : BOOLEAN]
BY DEF Fresh, NoSession, D!NoSession

(* What the loop does with its task.                                         *)
LEMMA ReconcileStep ==
    ASSUME NEW done, NEW running, Reconcile(done, running)
    PROVE  \/ running /\ UNCHANGED <<deadline, active, task, step, state>>
           \/ /\ ~running /\ (active' <=> step' # "none") /\ step' \in {"none", "prepare"}
              /\ active' \in BOOLEAN /\ deadline' \in BOOLEAN
<1>1. CASE running
  BY <1>1 DEF Reconcile
<1>2. CASE ~running
  <2>1. PICK now \in BOOLEAN, never \in BOOLEAN :
            \/ active' = now /\ step' = (IF now THEN "prepare" ELSE "none") /\ deadline' = (~never /\ ~now)
            \/ active' = FALSE /\ step' = "none" /\ deadline' = TRUE
    <3>1. PICK now, never : /\ now = (NextLogin = "now" /\ done # config.rev)
                            /\ never = (NextLogin = "never")
      OBVIOUS
    <3>2. now \in BOOLEAN /\ never \in BOOLEAN
      BY <3>1
    <3> QED
      BY <1>2, <3>1, <3>2 DEF Reconcile
  <2> QED
    BY <1>2, <2>1
<1> QED
  BY <1>1, <1>2

LEMMA LoopShared ==
    ASSUME SharedInv, Told \/ Fires \/ Complete, UNCHANGED <<pc, resume, issued, session>>
    PROVE  SharedInv'
<1>1. UNCHANGED <<op, lock, web, stamp>>
  BY DEF Told, Fires, Complete, shared
<1>2. \/ UNCHANGED <<active, step>>
      \/ /\ step \in {"none", "done"} /\ (active' <=> step' # "none") /\ step' \in {"none", "prepare"}
  <2>1. CASE Told \/ Fires
    BY <2>1, ReconcileStep DEF Told, Fires, SharedInv
  <2>2. CASE Complete
    BY <2>2, ReconcileStep DEF Complete
  <2> QED
    BY <2>1, <2>2
<1> QED
  BY <1>1, <1>2 DEF SharedInv, Submitting

LEMMA AttemptShared ==
    ASSUME SharedInv, Attempt, UNCHANGED <<pc, resume, issued, session>>
    PROVE  SharedInv'
<1>1. active' = active /\ lock' = lock /\ step' # "none" /\ step # "none"
  BY DEF Attempt, Prepare, Submit, Rejected, Challenged, Accepted, WaitForCode, Publish, Finish, TimesOut, Goes, loopVars, shared
<1>2. op' \in {"free", "login", "batch"} /\ stamp' \in BOOLEAN /\ web' \in {web, Fresh}
  BY DEF Attempt, Prepare, Submit, Rejected, Challenged, Accepted, WaitForCode, Publish, Finish, TimesOut, Goes, loopVars,
         shared, SharedInv
<1>3. (op' = "login" <=> step' \in Submitting) /\ (op' = "batch" <=> pc # "idle")
  <2> USE DEF SharedInv, Submitting, Goes, loopVars, Unclaimed
  <2>1. CASE Prepare
    BY <2>1 DEF Prepare
  <2>2. CASE Submit("signIn", "signing") \/ Submit("verify", "verifying")
    BY <2>2 DEF Submit
  <2>3. CASE Rejected("signing") \/ Rejected("verifying") \/ Challenged
    BY <2>3 DEF Rejected, Challenged
  <2>4. CASE Accepted("signing") \/ Accepted("verifying")
    BY <2>4 DEF Accepted
  <2>5. CASE WaitForCode \/ Finish
    BY <2>5 DEF WaitForCode, Finish, shared
  <2>6. CASE Publish \/ TimesOut
    BY <2>6 DEF Publish, TimesOut
  <2> QED
    BY <2>1, <2>2, <2>3, <2>4, <2>5, <2>6 DEF Attempt
<1> QED
  BY <1>1, <1>2, <1>3, FreshWeb DEF SharedInv

LEMMA OperateShared ==
    ASSUME SharedInv, Operate \/ Time, UNCHANGED <<pc, resume, issued, session>>
    PROVE  SharedInv'
<1>1. UNCHANGED <<op, lock, step, active>> /\ stamp' \in BOOLEAN
  BY DEF Operate, Change, SignIn, SignOut, AskCode, Login, Refuse, Time, RetryDue, ChallengeEnds, Lapses,
         shared, loopVars, attemptVars, loginVars, SharedInv
<1>2. web' \in {web, Fresh, NoSession, [web EXCEPT !.lapsed = TRUE]}
  BY DEF Operate, Change, SignIn, SignOut, AskCode, Login, Refuse, Time, RetryDue, ChallengeEnds, Lapses, shared
<1>3. web' \in [num : Nat, auth : BOOLEAN, lapsed : BOOLEAN]
  BY <1>2, FreshWeb DEF SharedInv
<1> QED
  BY <1>1, <1>3 DEF SharedInv

LEMMA SharedStep == SharedInv /\ [Next]_vars => SharedInv'
<1> SUFFICES ASSUME SharedInv, [Next]_vars PROVE SharedInv'
  OBVIOUS
<1>1. CASE UNCHANGED vars
  BY <1>1 DEF vars, shared, loginVars, loopVars, attemptVars, deletionVars, SharedInv
<1>2. CASE Deletion
  <2>1. GroupStep /\ UNCHANGED <<step, active>>
    BY <1>2 DEF Deletion, D!DeletionNext, GroupStep, Notified
  <2> QED
    BY <2>1, GroupShared
<1>3. CASE Logins
  BY <1>3, LoopShared, AttemptShared, OperateShared DEF Logins, LoginNext, deletionVars
<1>4. CASE BeginGroup \/ GroupWorks
  <2>1. GroupStep /\ UNCHANGED <<step, active>>
    BY <1>4 DEF BeginGroup, GroupWorks, GroupStep, Notified, loginVars, loopVars, attemptVars
  <2> QED
    BY <2>1, GroupShared
<1>5. CASE Request \/ Creation \/ Credentials
  <2>1. UNCHANGED <<op, lock, web, stamp, step, active, pc, resume, issued, session>>
    BY <1>5 DEF Request, Creation, Credentials, shared, loginVars, loopVars, attemptVars, deletionVars
  <2> QED
    BY <2>1 DEF SharedInv
<1>6. CASE ReadWebMail
  <2>1. /\ UNCHANGED <<op, lock, step, active, pc, resume, session>>
        /\ web' = D!Session(issued') /\ stamp' = FALSE /\ issued' \in {issued, issued + 1}
    BY <1>6 DEF ReadWebMail, D!ReadWebMail, D!group, Notified
  <2>2. issued' \in Nat /\ web' \in [num : Nat, auth : BOOLEAN, lapsed : BOOLEAN]
    BY <2>1 DEF SharedInv, D!Session
  <2> QED
    BY <2>1, <2>2 DEF SharedInv
<1>7. CASE DeleteAccount
  <2>1. /\ UNCHANGED <<op, lock, step, active, pc, resume, session, issued>>
        /\ web' = D!NoSession /\ stamp' = FALSE
    BY <1>7 DEF DeleteAccount, D!DeleteAccount, D!group, Deleted, loopVars, attemptVars
  <2> QED
    BY <2>1, FreshWeb DEF SharedInv
<1>8. CASE Restart
  <2>1. web' = [web EXCEPT !.num = IF web.auth THEN 1 ELSE 0] /\ issued' = 1 /\ session' = 0 /\ stamp' = FALSE
        /\ pc' = "idle" /\ resume' = "item" /\ op' = "free" /\ lock' = "free" /\ step' = "none" /\ active' = FALSE
    BY <1>8 DEF Restart, D!Crashed, D!Forget, Restarted
  <2> QED
    BY <2>1 DEF SharedInv, Submitting
<1> QED
  BY <1>1, <1>2, <1>3, <1>4, <1>5, <1>6, <1>7, <1>8 DEF Next

-----------------------------------------------------------------------------
(* Automatic logins. *)

Underway == Submitting \cup {"signIn", "code", "verify", "finish"}

(* What the attempt was prepared with is not what there is any more.         *)
Overtaken ==
    \/ account.ver = 0 \/ config.rev > attempt.rev \/ account.ver > attempt.ver
    \/ generation > attempt.gen \/ ~stamp

LoginTypes ==
    /\ config \in [on : BOOLEAN, rev : Nat] /\ account \in [on : BOOLEAN, ver : Nat]
    /\ state \in [rev : Nat, status : {"none", "busy", "done", "retry", "action"}, next : {"none", "later", "now"}]
    /\ generation \in Nat /\ attempt \in [rev : Nat, ver : Nat, gen : Nat]
    /\ challenge \in BOOLEAN /\ event \in BOOLEAN /\ untold \in BOOLEAN /\ deadline \in BOOLEAN /\ active \in BOOLEAN
    /\ touched \in BOOLEAN /\ task \in Nat
    /\ step \in Underway \cup {"none", "prepare", "done"} /\ result \in {"ok", "retry", "action"}

(* The operation lock belongs to the attempt or to a group of deletions; an   *)
(* attempt that was interfered with is not current, and none is when it      *)
(* publishes.                                                                *)
LoginInv ==
    /\ LoginTypes
    /\ OwnRetryState /\ NeverForgotten
    /\ account.ver = 0 => ~account.on
    /\ step \in Underway => /\ attempt.gen <= generation
                            /\ account.ver > 0 => attempt.rev <= config.rev /\ attempt.ver <= account.ver
                            /\ touched => Overtaken
    /\ step = "publish" => ~touched


LEMMA LoginInitially == Init => LoginInv
<1> SUFFICES ASSUME Init PROVE LoginInv
  OBVIOUS
<1>1. LoginInit(scene = "login")
  BY DEF Init
<1>2. PICK on \in BOOLEAN : config = [on |-> on, rev |-> 1]
  BY <1>1 DEF LoginInit
<1>3. /\ account = [on |-> TRUE, ver |-> 1] /\ state = NoState /\ challenge = FALSE /\ generation = 0
      /\ event = TRUE /\ untold = FALSE /\ deadline = FALSE /\ active = FALSE /\ task = 0
      /\ step = "none" /\ attempt = NoAttempt /\ result = "ok" /\ touched = FALSE
  BY <1>1 DEF LoginInit
<1>4. LoginTypes
  BY <1>2, <1>3 DEF LoginTypes, NoState, NoAttempt
<1> QED
  BY <1>3, <1>4 DEF LoginInv, OwnRetryState, NeverForgotten, Underway, Submitting

RetryStates == [rev : Nat, status : {"none", "busy", "done", "retry", "action"}, next : {"none", "later", "now"}]

LEMMA ObservedState ==
    ASSUME LoginTypes, OwnRetryState, state' \in Observed, UNCHANGED <<config, account>>
    PROVE  /\ state' \in RetryStates /\ OwnRetryState'
           /\ state' = state \/ (Eligible /\ Healthy)
<1>1. CASE state' = state
  BY <1>1 DEF LoginTypes, RetryStates, OwnRetryState, Eligible
<1>2. CASE state' # state
  <2>1. /\ Eligible /\ Healthy /\ state # NoState /\ state' = [state EXCEPT !.status = "done", !.next = "none"]
    BY <1>2 DEF Observed
  <2>2. state' \in RetryStates /\ state'.rev = state.rev
    BY <2>1 DEF LoginTypes, RetryStates
  <2> QED
    BY <2>1, <2>2 DEF OwnRetryState, Eligible
<1> QED
  BY <1>1, <1>2

(* After it has looked, the loop has a task or a deadline if it needs one.    *)
LEMMA ReconcileLooks ==
    ASSUME LoginTypes, OwnRetryState, NEW done, Reconcile(done, FALSE), UNCHANGED <<config, account, web>>
    PROVE  /\ state' \in RetryStates /\ OwnRetryState' /\ task' \in Nat
           /\ Eligible' /\ (Healthy' \/ Open') => active' \/ deadline'
           /\ ~(active' /\ deadline') /\ untold' = FALSE
<1>0. untold' = FALSE
  BY DEF Reconcile
<1>1. CASE deadline' = TRUE /\ active' = FALSE /\ task' = 0 /\ state' = state
  BY <1>0, <1>1 DEF LoginTypes, RetryStates, OwnRetryState, Eligible
<1>2. CASE /\ state' \in Observed
           /\ LET now == NextLogin = "now" /\ done # config.rev IN
              /\ active' = now /\ deadline' = (NextLogin # "never" /\ ~now)
              /\ task' = IF now THEN config.rev ELSE 0
  <2>1. /\ state' \in RetryStates /\ OwnRetryState' /\ (state' = state \/ (Eligible /\ Healthy))
    BY <1>2, ObservedState
  <2>2. (Eligible' <=> Eligible) /\ (Healthy' <=> Healthy)
    BY DEF Eligible, Healthy
  <2>3. ASSUME Eligible', Healthy' \/ Open' PROVE NextLogin # "never"
    <3>1. CASE Healthy
      BY <2>2, <2>3, <3>1 DEF NextLogin
    <3>2. CASE ~Healthy
      <4>1. Open
        BY <2>1, <2>2, <2>3, <3>2 DEF Open
      <4> QED
        BY <2>2, <2>3, <3>2, <4>1 DEF NextLogin
    <3> QED
      BY <3>1, <3>2
  <2>4. task' \in Nat
    BY <1>2 DEF LoginTypes
  <2>5. NextLogin # "never" => active' \/ deadline'
    BY <1>2
  <2>6. ~(active' /\ deadline')
    BY <1>2
  <2> QED
    BY <1>0, <2>1, <2>3, <2>4, <2>5, <2>6
<1> QED
  BY <1>1, <1>2 DEF Reconcile

LEMMA LoopKeepsLogin ==
    ASSUME SharedInv, LoginInv, Told \/ Fires \/ Complete
    PROVE  LoginInv'
<1>1. UNCHANGED <<config, account, challenge, generation, web, stamp>> /\ event' \in BOOLEAN
  BY DEF Told, Fires, Complete, shared, LoginInv, LoginTypes
<1>2. CASE active /\ (Told \/ Fires)
  <2>1. UNCHANGED <<untold, deadline, active, task, step, state, attempt, result, touched>>
    BY <1>2 DEF Told, Fires, Reconcile
  <2> QED
    BY <1>1, <1>2, <2>1 DEF LoginInv, LoginTypes, OwnRetryState, NeverForgotten, Underway, Overtaken, Eligible
<1>3. CASE ~(active /\ (Told \/ Fires))
  <2>1. PICK done : Reconcile(done, FALSE)
    <3>1. CASE Complete
      BY <3>1 DEF Complete
    <3>2. CASE Told \/ Fires
      <4>1. active = FALSE
        BY <1>3, <3>2 DEF LoginInv, LoginTypes
      <4> QED
        BY <3>2, <4>1 DEF Told, Fires
    <3> QED
      BY <3>1, <3>2
  <2>2. /\ state' \in RetryStates /\ OwnRetryState' /\ task' \in Nat
        /\ Eligible' /\ (Healthy' \/ Open') => active' \/ deadline'
        /\ ~(active' /\ deadline') /\ untold' = FALSE
    BY <1>1, <2>1, ReconcileLooks DEF LoginInv
  <2>3. step' \in {"none", "prepare"} /\ active' \in BOOLEAN /\ deadline' \in BOOLEAN
    BY <2>1, ReconcileStep
  <2>4. attempt' \in [rev : Nat, ver : Nat, gen : Nat] /\ result' \in {"ok", "retry", "action"} /\ touched' \in BOOLEAN
    <3>1. CASE Told \/ Fires
      BY <3>1 DEF Told, Fires, LoginInv, LoginTypes
    <3>2. CASE Complete
      BY <3>2 DEF Complete, NoAttempt
    <3> QED
      BY <3>1, <3>2
  <2> QED
    BY <1>1, <2>2, <2>3, <2>4 DEF LoginInv, LoginTypes, RetryStates, NeverForgotten, Underway, Submitting
<1> QED
  BY <1>2, <1>3

(* What the attempt does to the retry state, it does for the configuration it *)
(* was prepared under.                                                       *)
LEMMA SavedState ==
    ASSUME LoginTypes, OwnRetryState, UNCHANGED <<config, account>>,
           NEW s \in RetryStates, state' \in {state, Saved(s)}
    PROVE  state' \in RetryStates /\ OwnRetryState'
BY DEF Saved, StateSaved, LoginTypes, RetryStates, OwnRetryState, Eligible

(* A step of the attempt that takes nothing from what it knows.              *)
Proceeds ==
    /\ UNCHANGED <<config, account, challenge, generation, deadline, active, task, attempt, touched>>
    /\ active /\ step \in Underway /\ step' \in (Underway \ {"publish"}) \cup {"done"}
    /\ (stamp' => stamp) /\ state' \in RetryStates /\ OwnRetryState'
    /\ event' \in BOOLEAN /\ untold' \in BOOLEAN /\ result' \in {"ok", "retry", "action"}

LEMMA ProceedsKeeps == ASSUME SharedInv, SharedInv', LoginInv, Proceeds PROVE LoginInv'
<1>1. LoginTypes'
  BY DEF Proceeds, LoginInv, LoginTypes, RetryStates
<1>2. NeverForgotten'
  BY DEF Proceeds, LoginInv, NeverForgotten
<1>3. Overtaken => Overtaken'
  BY DEF Proceeds, Overtaken
<1>4. step' \in Underway =>
         /\ attempt'.gen <= generation'
         /\ account'.ver > 0 => attempt'.rev <= config'.rev /\ attempt'.ver <= account'.ver
         /\ touched' => Overtaken'
  BY <1>3 DEF Proceeds, LoginInv
<1>5. OwnRetryState' /\ (account'.ver = 0 => ~account'.on) /\ step' # "publish"
  BY DEF Proceeds, LoginInv
<1> QED
  BY <1>1, <1>2, <1>4, <1>5 DEF LoginInv

LEMMA AttemptKeepsLogin ==
    ASSUME SharedInv, SharedInv', LoginInv, Attempt
    PROVE  LoginInv'
<1>1. state \in RetryStates /\ OwnRetryState /\ (UNCHANGED rowVars => state' \in RetryStates /\ OwnRetryState')
  BY DEF LoginInv, LoginTypes, RetryStates, OwnRetryState, Eligible, rowVars
<1>2. CASE Prepare
  <2>1. /\ UNCHANGED <<config, account, challenge, generation, event, untold, deadline, active, task>>
        /\ active /\ step' \in {"done", "signIn", "finish"}
    BY <1>2 DEF Prepare, Goes, loopVars, SharedInv
  <2>2. state' \in RetryStates /\ OwnRetryState'
    <3>1. CASE Eligible /\ config.rev = task /\ Due /\ ~challenge
      <4>1. state' \in {state, [rev |-> task, status |-> "busy", next |-> "later"]}
        BY <1>2, <3>1 DEF Prepare
      <4> QED
        BY <1>1, <2>1, <3>1, <4>1 DEF LoginInv, LoginTypes, RetryStates, OwnRetryState, Eligible
    <3>2. CASE ~(Eligible /\ config.rev = task /\ Due /\ ~challenge)
      BY <1>2, <2>1, <3>2, ObservedState DEF Prepare, LoginInv
    <3> QED
      BY <3>1, <3>2
  <2>3. /\ attempt' \in [rev : Nat, ver : Nat, gen : Nat] /\ touched' \in BOOLEAN /\ result' \in {"ok", "retry", "action"}
    <3>1. /\ touched' \in {touched, FALSE} /\ result' \in {result, "retry", "action"}
          /\ attempt' \in {attempt, [rev |-> task, ver |-> account.ver, gen |-> generation]}
      BY <1>2 DEF Prepare
    <3>2. [rev |-> task, ver |-> account.ver, gen |-> generation] \in [rev : Nat, ver : Nat, gen : Nat]
      BY DEF LoginInv, LoginTypes
    <3> QED
      BY <3>1, <3>2 DEF LoginInv, LoginTypes
  <2>4. step' \in Underway =>
           ~touched' /\ attempt' = [rev |-> task, ver |-> account.ver, gen |-> generation] /\ config.rev = task
    BY <1>2 DEF Prepare, Goes, loopVars, Underway, Submitting
  <2>5. step' \in Underway => attempt'.gen <= generation /\ attempt'.rev <= config.rev /\ attempt'.ver <= account.ver
    BY <2>4 DEF LoginInv, LoginTypes
  <2> QED
    BY <2>1, <2>2, <2>3, <2>4, <2>5 DEF LoginInv, LoginTypes, RetryStates, NeverForgotten, Underway, Submitting
<1>3. CASE Submit("signIn", "signing") \/ Submit("verify", "verifying")
  <2>1. Proceeds
    BY <1>1, <1>3 DEF Submit, Goes, loopVars, Proceeds, rowVars, SharedInv, LoginInv, LoginTypes, Underway, Submitting
  <2> QED
    BY <2>1, ProceedsKeeps
<1>4. CASE Rejected("signing") \/ Rejected("verifying")
  <2>1. Proceeds
    BY <1>1, <1>4 DEF Rejected, Goes, loopVars, Proceeds, rowVars, SharedInv, LoginInv, LoginTypes, Underway, Submitting
  <2> QED
    BY <2>1, ProceedsKeeps
<1>5. CASE Challenged
  <2>1. PICK s : s = [rev |-> attempt.rev, status |-> "busy", next |-> "later"] /\ state' = Saved(s)
    BY <1>5 DEF Challenged
  <2>2. s \in RetryStates
    BY <2>1 DEF LoginInv, LoginTypes, RetryStates
  <2>3. UNCHANGED <<config, account>>
    BY <1>5 DEF Challenged
  <2>4. state' \in RetryStates /\ OwnRetryState'
    BY <2>1, <2>2, <2>3, SavedState DEF LoginInv
  <2>5. /\ UNCHANGED <<challenge, generation, event, untold, deadline, active, task, attempt, touched, stamp>>
        /\ step = "signing" /\ step' \in {"code", "finish"} /\ result' \in {result, "retry"}
    BY <1>5 DEF Challenged, Goes, loopVars
  <2>6. Proceeds
    BY <2>3, <2>4, <2>5 DEF Proceeds, SharedInv, LoginInv, LoginTypes, Underway, Submitting
  <2> QED
    BY <2>6, ProceedsKeeps
<1>6. CASE WaitForCode
  <2>1. Proceeds
    BY <1>1, <1>6 DEF WaitForCode, Goes, loopVars, Proceeds, rowVars, shared, SharedInv, LoginInv, LoginTypes, Underway, Submitting
  <2> QED
    BY <2>1, ProceedsKeeps
<1>7. CASE Accepted("signing") \/ Accepted("verifying")
  <2>1. /\ UNCHANGED <<web, stamp, rowVars, challenge, generation, event, untold, deadline, active, task, attempt, touched>>
        /\ step \in Underway /\ step' \in {"publish", "finish"} /\ result' \in {result, "retry"}
        /\ step' = "publish" => Current
    BY <1>7 DEF Accepted, Goes, loopVars, Underway, Submitting
  <2>2. CASE step' = "finish"
    <3>1. Proceeds
      BY <1>1, <2>1, <2>2 DEF Proceeds, SharedInv, LoginInv, LoginTypes, Underway, Submitting, rowVars
    <3> QED
      BY <3>1, ProceedsKeeps
  <2>3. CASE step' = "publish"
    <3>1. ~touched
      <4>1. ~Overtaken
        BY <2>1, <2>3 DEF Current, CurrentAccount, Eligible, Overtaken, LoginInv, LoginTypes
      <4> QED
        BY <2>1, <4>1 DEF LoginInv, LoginTypes
    <3> QED
      BY <1>1, <2>1, <2>3, <3>1
         DEF LoginInv, LoginTypes, RetryStates, NeverForgotten, Eligible, Healthy, Open, rowVars, Underway, Submitting, SharedInv
  <2> QED
    BY <2>1, <2>2, <2>3
<1>8. CASE Publish
  <2>1. PICK stored \in BOOLEAN, told \in BOOLEAN :
          stamp' = (stamp /\ ~stored) /\ Announced(told) /\ result' = IF told THEN "ok" ELSE "retry"
    BY <1>8 DEF Publish
  <2>2. event' \in BOOLEAN /\ untold' \in BOOLEAN
    BY <2>1 DEF Announced, LoginInv, LoginTypes
  <2>3. Proceeds
    BY <1>1, <1>8, <2>1, <2>2 DEF Publish, Proceeds, rowVars, SharedInv, Underway, Submitting
  <2> QED
    BY <2>3, ProceedsKeeps
<1>9. CASE Finish
  <2>1. Outcome \in RetryStates
    BY DEF Outcome, LoginInv, LoginTypes, RetryStates
  <2>2. state' \in {state, Saved(Outcome)} /\ UNCHANGED <<config, account>>
    BY <1>9 DEF Finish
  <2>3. state' \in RetryStates /\ OwnRetryState'
    BY <2>1, <2>2, SavedState DEF LoginInv
  <2>4. Proceeds
    BY <1>9, <2>3 DEF Finish, Goes, loopVars, Proceeds, shared, SharedInv, LoginInv, LoginTypes, Underway, Submitting
  <2> QED
    BY <2>4, ProceedsKeeps
<1>10. CASE TimesOut
  <2>1. /\ UNCHANGED <<rowVars, challenge, generation, event, untold, deadline, active, task, attempt, touched, result>>
        /\ step' = "done" /\ active
    BY <1>10 DEF TimesOut, Goes, loopVars, SharedInv
  <2> QED
    BY <1>1, <2>1 DEF LoginInv, LoginTypes, RetryStates, NeverForgotten, Underway, Submitting, rowVars
<1> QED
  BY <1>2, <1>3, <1>4, <1>5, <1>6, <1>7, <1>8, <1>9, <1>10 DEF Attempt

(* The loop will look or was not told of a commit, or whatever makes it look is *)
(* still there.                                                              *)
Attended ==
    \/ active \/ event' \/ untold'
    \/ Eligible /\ (Healthy \/ Open) /\ (event => event') /\ (untold => untold')

(* Somebody acts on the account beside the attempt: what he does, the attempt *)
(* can see, and the loop is told if the store does not fail.                  *)
Interferes ==
    /\ UNCHANGED <<deadline, active, task, step, attempt, result>>
    /\ config' \in [on : BOOLEAN, rev : Nat] /\ account' \in [on : BOOLEAN, ver : Nat]
    /\ state' \in RetryStates /\ OwnRetryState'
    /\ generation' \in Nat /\ generation' >= generation
    /\ challenge' \in BOOLEAN /\ event' \in BOOLEAN /\ untold' \in BOOLEAN /\ touched' \in BOOLEAN
    /\ account'.ver = 0 => ~account'.on
    /\ account'.ver > 0 => account'.ver >= account.ver /\ config'.rev >= config.rev /\ account.ver > 0
    /\ stamp' => stamp
    /\ touched' => touched \/ step = "none" \/ Overtaken' \/ step \notin Underway
    /\ step = "publish" => ~touched'
    /\ Eligible' /\ (Healthy' \/ Open') => Attended

LEMMA InterferesKeeps == ASSUME SharedInv, SharedInv', LoginInv, Interferes PROVE LoginInv'
<1>1. LoginTypes'
  BY DEF Interferes, LoginInv, LoginTypes, RetryStates
<1>2. NeverForgotten'
  BY DEF Interferes, Attended, LoginInv, NeverForgotten
<1>3. ASSUME step \in Underway, Overtaken PROVE Overtaken'
  <2>1. account'.ver \in Nat /\ account.ver \in Nat /\ config.rev \in Nat /\ config'.rev \in Nat
        /\ attempt.rev \in Nat /\ attempt.ver \in Nat /\ attempt.gen \in Nat /\ generation \in Nat /\ generation' \in Nat
    BY DEF Interferes, LoginInv, LoginTypes
  <2> QED
    BY <1>3, <2>1 DEF Interferes, Overtaken
<1>4. ASSUME step \in Underway
      PROVE  /\ attempt'.gen <= generation'
             /\ account'.ver > 0 => attempt'.rev <= config'.rev /\ attempt'.ver <= account'.ver
             /\ touched' => Overtaken'
  <2>1. touched' => Overtaken'
    BY <1>3, <1>4 DEF Interferes, LoginInv, Underway, Submitting
  <2>2. attempt'.gen <= generation'
    BY <1>4 DEF Interferes, LoginInv, LoginTypes
  <2>3. account'.ver > 0 => attempt'.rev <= config'.rev /\ attempt'.ver <= account'.ver
    BY <1>4 DEF Interferes, LoginInv, LoginTypes
  <2> QED
    BY <2>1, <2>2, <2>3
<1> QED
  BY <1>1, <1>2, <1>4 DEF Interferes, LoginInv

(* After a commit the loop has something to look at, or did not hear of it.    *)
LEMMA AnnouncedLooks ==
    ASSUME LoginTypes, NEW told \in BOOLEAN, Announced(told)
    PROVE  event' \in BOOLEAN /\ untold' \in BOOLEAN /\ Attended
BY DEF Announced, LoginTypes, Attended

LEMMA SameRows ==
    ASSUME LoginInv, UNCHANGED rowVars
    PROVE  /\ config' \in [on : BOOLEAN, rev : Nat] /\ account' \in [on : BOOLEAN, ver : Nat]
           /\ state' \in RetryStates /\ OwnRetryState'
           /\ account'.ver = 0 => ~account'.on
           /\ account'.ver > 0 => account'.ver >= account.ver /\ config'.rev >= config.rev /\ account.ver > 0
           /\ (Eligible' <=> Eligible) /\ (Open' <=> Open)
BY DEF LoginInv, LoginTypes, RetryStates, OwnRetryState, Eligible, Open, rowVars

LEMMA OperateKeepsLogin ==
    ASSUME SharedInv, SharedInv', LoginInv, Operate
    PROVE  LoginInv'
<1>1. step # "publish"
  BY DEF Operate, Change, SignIn, SignOut, AskCode, Login, Refuse, Unclaimed, SharedInv, Submitting
<1>2. CASE Change
  <2>1. /\ UNCHANGED <<op, lock, web, stamp, challenge, generation, deadline, active, task, step, attempt, result>>
        /\ account.ver > 0 /\ \E told \in BOOLEAN : Announced(told)
        /\ config' = config \/ (\E on \in BOOLEAN : config' = [on |-> on, rev |-> config.rev + 1])
        /\ account' = account \/ (\E on \in BOOLEAN : account' = [on |-> on, ver |-> account.ver + 1])
        /\ state' = IF config' = config /\ account'.on THEN state ELSE NoState
        /\ touched' = (touched \/ (step # "none" /\ <<config, account>>' # <<config, account>>))
    BY <1>2 DEF Change, Reconfigured, shared
  <2>2. /\ config' \in [on : BOOLEAN, rev : Nat] /\ config'.rev >= config.rev
        /\ config' # config => config'.rev > config.rev
    BY <2>1 DEF LoginInv, LoginTypes
  <2>3. /\ account' \in [on : BOOLEAN, ver : Nat] /\ account'.ver >= account.ver
        /\ account' # account => account'.ver > account.ver
    BY <2>1 DEF LoginInv, LoginTypes
  <2>4. state' \in RetryStates
    BY <2>1 DEF LoginInv, LoginTypes, RetryStates, NoState
  <2>5. OwnRetryState'
    BY <2>1 DEF LoginInv, OwnRetryState, Eligible
  <2>6. account'.ver > 0
    BY <2>1, <2>3 DEF LoginInv, LoginTypes
  <2>7. touched' /\ ~touched /\ step \in Underway => Overtaken'
    <3>1. SUFFICES ASSUME touched', ~touched, step \in Underway PROVE Overtaken'
      OBVIOUS
    <3>2. config' # config \/ account' # account
      BY <2>1, <3>1
    <3>3. attempt.rev <= config.rev /\ attempt.ver <= account.ver
      BY <2>1, <3>1 DEF LoginInv
    <3>4. config'.rev > attempt.rev \/ account'.ver > attempt.ver
      BY <2>2, <2>3, <3>2, <3>3 DEF LoginInv, LoginTypes
    <3> QED
      BY <2>1, <3>4 DEF Overtaken
  <2>8. touched' \in BOOLEAN
    BY <2>1 DEF LoginInv, LoginTypes
  <2>9. generation' \in Nat /\ generation' >= generation /\ challenge' \in BOOLEAN
    BY <2>1 DEF LoginInv, LoginTypes
  <2>10. event' \in BOOLEAN /\ untold' \in BOOLEAN /\ Attended
    BY <2>1, AnnouncedLooks DEF LoginInv
  <2> QED
    BY <1>1, <2>1, <2>2, <2>3, <2>4, <2>5, <2>6, <2>7, <2>8, <2>9, <2>10, InterferesKeeps DEF Interferes
<1>3. CASE SignIn \/ SignOut \/ AskCode \/ Refuse
  <2>1. /\ UNCHANGED <<rowVars, deadline, active, task, step, attempt, result>>
        /\ generation' = generation + 1 /\ touched' = (step # "none") /\ (stamp' => stamp)
        /\ event' \in BOOLEAN /\ untold' \in BOOLEAN /\ challenge' \in BOOLEAN
        /\ Attended \/ UNCHANGED <<web, event, untold>>
    <3>1. ASSUME NEW known, NEW wait \in BOOLEAN, Login(known, wait)
          PROVE  /\ UNCHANGED <<rowVars, deadline, active, task, step, attempt, result>>
                 /\ generation' = generation + 1 /\ touched' = (step # "none") /\ stamp' = FALSE
                 /\ event' \in BOOLEAN /\ untold' \in BOOLEAN /\ challenge' \in BOOLEAN /\ Attended
      BY <3>1, AnnouncedLooks DEF Login, LoginInv
    <3>2. CASE SignIn \/ SignOut \/ AskCode
      BY <3>1, <3>2 DEF SignIn, SignOut, AskCode
    <3>3. CASE Refuse
      BY <3>3 DEF Refuse, shared, loopVars, LoginInv, LoginTypes
    <3> QED
      BY <1>3, <3>2, <3>3
  <2>2. generation' \in Nat /\ generation' >= generation
    BY <2>1 DEF LoginInv, LoginTypes
  <2>3. step \in Underway => Overtaken'
    BY <2>1 DEF LoginInv, LoginTypes, Overtaken
  <2>4. Eligible' /\ (Healthy' \/ Open') => Attended
    BY <2>1, SameRows DEF Healthy, Attended
  <2>5. touched' \in BOOLEAN
    BY <2>1
  <2> QED
    BY <1>1, <2>1, <2>2, <2>3, <2>4, <2>5, SameRows, InterferesKeeps DEF Interferes
<1> QED
  BY <1>2, <1>3 DEF Operate

LEMMA TimeKeepsLogin ==
    ASSUME SharedInv, SharedInv', LoginInv, Time
    PROVE  LoginInv'
<1>1. /\ UNCHANGED <<config, account, stamp, generation, event, untold, deadline, active, task, step, attempt, result, touched>>
      /\ challenge' \in BOOLEAN
  BY DEF Time, RetryDue, ChallengeEnds, Lapses, shared, loopVars, attemptVars, loginVars, rowVars, LoginInv, LoginTypes
<1>2. /\ event' \in BOOLEAN /\ untold' \in BOOLEAN /\ touched' \in BOOLEAN /\ generation' \in Nat /\ generation' >= generation
      /\ config' \in [on : BOOLEAN, rev : Nat] /\ account' \in [on : BOOLEAN, ver : Nat]
      /\ account'.ver = 0 => ~account'.on
      /\ account'.ver > 0 => account'.ver >= account.ver /\ config'.rev >= config.rev /\ account.ver > 0
      /\ step = "publish" => ~touched'
  BY <1>1 DEF LoginInv, LoginTypes
<1>3. state' \in RetryStates /\ OwnRetryState' /\ (Eligible' <=> Eligible) /\ (Healthy' \/ Open' => Healthy \/ Open)
  <2>1. CASE RetryDue
    <3>1. state.next = "later" /\ state' = [state EXCEPT !.next = "now"] /\ UNCHANGED web
      BY <2>1 DEF RetryDue, shared
    <3>2. /\ state' \in RetryStates /\ state'.rev = state.rev /\ state'.status = state.status
          /\ state # NoState /\ state' # NoState
      BY <3>1 DEF LoginInv, LoginTypes, RetryStates, NoState
    <3> QED
      BY <1>1, <3>1, <3>2 DEF LoginInv, OwnRetryState, Eligible, Healthy, Open
  <2>2. CASE ChallengeEnds \/ Lapses
    <3>1. UNCHANGED rowVars /\ (UNCHANGED web \/ Healthy)
      BY <2>2 DEF ChallengeEnds, Lapses, shared, loginVars
    <3> QED
      BY <3>1, SameRows DEF Healthy
  <2> QED
    BY <2>1, <2>2 DEF Time
<1> QED
  BY <1>1, <1>2, <1>3, InterferesKeeps DEF Interferes, Attended

(* A group at work stores a session or gives it up only with the operation    *)
(* lock, and then what the attempt looked at is no more.                     *)
LEMMA GroupStores ==
    ASSUME SharedInv, GroupStep
    PROVE  /\ stamp' => stamp
           /\ Replaced => ~stamp' /\ step \notin Submitting
<1>1. ASSUME ~D!Request, ~D!End, ~D!Leave PROVE UNCHANGED <<web, stamp>>
  BY <1>1 DEF GroupStep, D!Begin, D!Work, D!Enter, D!Start, D!Abandon, D!Pause, D!RemoveRow, D!Cancel, D!OwnerChanges, D!shared
<1>2. CASE UNCHANGED <<web, stamp>>
  BY <1>2 DEF Replaced
<1>3. CASE D!End \/ D!Leave
  <2>1. web' = [web EXCEPT !.num = IF web.auth THEN 1 ELSE 0] /\ UNCHANGED stamp
    BY <1>3 DEF D!End, D!Leave, D!Forget
  <2>2. web'.auth = web.auth /\ web'.lapsed = web.lapsed
    BY <2>1 DEF SharedInv
  <2> QED
    BY <2>1, <2>2 DEF Replaced
<1>4. CASE D!Request
  <2>1. PICK answer \in {"ok", "error", "limited", "blocked", "expired"}, rolled \in BOOLEAN, stored \in BOOLEAN :
            D!Keep(answer, stored, IF rolled THEN issued + 1 ELSE session)
    BY <1>4 DEF D!Request
  <2>2. stamp' = (stamp /\ ~stored) /\ (~stored => web' = web)
    <3>1. (IF rolled THEN issued + 1 ELSE session) \in Nat
      BY DEF SharedInv
    <3> QED
      BY <2>1, <3>1, KeepsSession
  <2>3. op = "batch"
    BY <1>4 DEF D!Request, D!Sends, D!Reads, SharedInv
  <2> QED
    BY <2>2, <2>3 DEF Replaced, SharedInv
<1> QED
  BY <1>1, <1>2, <1>3, <1>4

LEMMA NotifiedKeeps ==
    ASSUME SharedInv, SharedInv', LoginInv, NEW stored \in BOOLEAN, NEW locked \in BOOLEAN, NEW surely \in BOOLEAN,
           Notified(stored, locked, surely),
           stamp' => stamp, stored /\ locked => ~stamp' /\ step \notin Submitting,
           ~stored => web'.auth = web.auth /\ web'.lapsed = web.lapsed
    PROVE  LoginInv'
<1>1. /\ UNCHANGED <<rowVars, challenge, generation, deadline, active, task, step, attempt, result>>
      /\ IF stored THEN \E told \in BOOLEAN : Announced(told) ELSE UNCHANGED <<event, untold>>
      /\ touched' = (touched \/ (stored /\ locked /\ step # "none"))
  BY DEF Notified
<1>2. /\ event' \in BOOLEAN /\ untold' \in BOOLEAN /\ touched' \in BOOLEAN /\ challenge' \in BOOLEAN
      /\ generation' \in Nat /\ generation' >= generation
  BY <1>1, AnnouncedLooks DEF LoginInv, LoginTypes
<1>3. touched' => touched \/ Overtaken'
  BY <1>1 DEF Overtaken
<1>4. step = "publish" => ~touched'
  BY <1>1 DEF LoginInv, Submitting
<1>5. Eligible' /\ (Healthy' \/ Open') => Attended
  <2>1. CASE stored
    BY <1>1, <2>1, AnnouncedLooks DEF LoginInv
  <2>2. CASE ~stored
    BY <1>1, <2>2, SameRows DEF Healthy, Attended
  <2> QED
    BY <2>1, <2>2
<1> QED
  BY <1>1, <1>2, <1>3, <1>4, <1>5, SameRows, InterferesKeeps DEF Interferes

LEMMA LoginStep == SharedInv /\ SharedInv' /\ LoginInv /\ [Next]_vars => LoginInv'
<1> SUFFICES ASSUME SharedInv, SharedInv', LoginInv, [Next]_vars PROVE LoginInv'
  OBVIOUS
<1>1. ASSUME UNCHANGED <<loginVars, web, stamp>> PROVE LoginInv'
  BY <1>1 DEF loginVars, rowVars, loopVars, attemptVars, LoginInv, LoginTypes, OwnRetryState, NeverForgotten,
              Overtaken, Eligible, Healthy, Open
<1>2. CASE UNCHANGED vars
  BY <1>1, <1>2 DEF vars, shared
<1>3. CASE Deletion \/ GroupWorks
  <2>1. GroupStep /\ \E surely \in BOOLEAN : Notified(Replaced, TRUE, surely)
    BY <1>3 DEF Deletion, GroupWorks, D!DeletionNext, GroupStep
  <2>2. Replaced \in BOOLEAN /\ (~Replaced => web'.auth = web.auth /\ web'.lapsed = web.lapsed)
    BY DEF Replaced
  <2> QED
    BY <2>1, <2>2, GroupStores, NotifiedKeeps
<1>4. CASE Logins
  BY <1>4, LoopKeepsLogin, AttemptKeepsLogin, OperateKeepsLogin, TimeKeepsLogin DEF Logins, LoginNext
<1>5. CASE BeginGroup \/ Request \/ Creation \/ Credentials
  <2>1. UNCHANGED <<loginVars, web, stamp>>
    BY <1>5 DEF BeginGroup, Request, Creation, Credentials, shared, D!Begin
  <2> QED
    BY <1>1, <2>1
<1>6. CASE ReadWebMail
  <2>1. Notified(TRUE, FALSE, FALSE) /\ stamp' = FALSE
    BY <1>6 DEF ReadWebMail, D!ReadWebMail
  <2> QED
    BY <2>1, NotifiedKeeps
<1>7. CASE DeleteAccount
  <2>1. /\ config' = [on |-> FALSE, rev |-> 0] /\ account' = [on |-> FALSE, ver |-> 0] /\ state' = NoState
        /\ UNCHANGED <<challenge, generation, event, untold, deadline, active, task, step, attempt, result, touched>>
        /\ stamp' = FALSE
    BY <1>7 DEF DeleteAccount, Deleted, D!DeleteAccount, loopVars, attemptVars
  <2>2. LoginTypes'
    BY <2>1 DEF LoginInv, LoginTypes, NoState
  <2>3. Overtaken' /\ ~Eligible' /\ OwnRetryState'
    BY <2>1 DEF Overtaken, Eligible, OwnRetryState
  <2> QED
    BY <2>1, <2>2, <2>3 DEF LoginInv, NeverForgotten
<1>8. CASE Restart
  <2>1. /\ UNCHANGED rowVars /\ challenge' = FALSE /\ generation' = 0
        /\ event' = TRUE /\ untold' = FALSE /\ deadline' = FALSE /\ active' = FALSE /\ task' = 0
        /\ step' = "none" /\ attempt' = NoAttempt /\ result' = "ok" /\ touched' = FALSE
    BY <1>8 DEF Restart, Restarted
  <2>2. LoginTypes'
    BY <2>1, SameRows DEF LoginTypes, NoAttempt, RetryStates
  <2> QED
    BY <2>1, <2>2, SameRows DEF LoginInv, NeverForgotten, Underway, Submitting
<1> QED
  BY <1>2, <1>3, <1>4, <1>5, <1>6, <1>7, <1>8 DEF Next

LEMMA LoginAlways == Spec => [](SharedInv /\ LoginInv)
BY SharedInitially, SharedStep, LoginInitially, LoginStep, PTL DEF Spec

(* An account that may be logged in and is not is never left without somebody *)
(* who will look at it, whatever the attempt, the operator, deletions, pickups *)
(* and stops do, but after a commit that was reported as failed and so told    *)
(* nobody (automatic_login_events.go).                                       *)
THEOREM LoginIsNeverForgotten == Spec => []NeverForgotten
<1>1. LoginInv => NeverForgotten
  BY DEF LoginInv
<1> QED
  BY <1>1, LoginAlways, PTL

(* The retry state is always one of the present configuration                *)
(* (store/auto_login.go, finishAutomaticLogin).                              *)
THEOREM LoginStateIsOwn == Spec => []OwnRetryState
<1>1. LoginInv => OwnRetryState
  BY DEF LoginInv
<1> QED
  BY <1>1, LoginAlways, PTL

(* No session is stored by an attempt that anybody with the operation lock    *)
(* came in between of (publishAutomaticLogin).                               *)
THEOREM LoginNeverOverwrites == Spec => NeverOverwrites
<1>1. LoginInv => (Publishes => ~touched)
  BY DEF LoginInv, Publishes
<1>2. LoginInv /\ [Next]_vars => [Publishes => ~touched]_<<step, touched>>
  BY <1>1
<1> QED
  BY <1>2, LoginAlways, PTL DEF NeverOverwrites, Spec

-----------------------------------------------------------------------------
(* Deletions. *)

Rows == {"row", "pending", "none"}
Listed == {"active", "off", "none"}

DeletionTypes ==
    /\ row \in [Alias -> Rows] /\ dir \in [Alias -> Listed] /\ cache \in [Alias -> Listed]
    /\ recover \in BOOLEAN /\ stopped \in BOOLEAN /\ absent \in BOOLEAN
    /\ items \in Seq(Alias) /\ pos \in Nat
    /\ pc # "idle" => pos \in 1 .. Len(items)
    /\ pc = "idle" => pos = 1 /\ session = 0 /\ ~recover
    /\ session <= issued /\ web.num <= issued /\ issued >= 1

(* The session in memory is stored, or the group will send nothing more.     *)
SessionSafe ==
    \/ web.num >= session
    \/ stopped /\ pc \in {"item", "end"}
    \/ /\ \A a \in Alias : row[a] # "row"
       /\ pc \in Asking => recover
       /\ pc # "local"

(* Only a group that waits out throttles gives its lock up between requests,  *)
(* so that any other has seen its row under the lock it still has.           *)
DeletionInv ==
    /\ DeletionTypes
    /\ hinted => recover
    /\ pc = "away" /\ resume # "item" => recover
    /\ pc \in Asking /\ ~recover => row[items[pos]] = "row"
    /\ pc = "local" => absent
    /\ pc # "idle" => SessionSafe

LEMMA DeletionInitially == Init => DeletionInv
<1> SUFFICES ASSUME Init PROVE DeletionInv
  OBVIOUS
<1>1. /\ row \in [Alias -> Rows] /\ dir \in [Alias -> Listed] /\ cache = [a \in Alias |-> "none"]
      /\ pc = "idle" /\ items = <<>> /\ pos = 1 /\ recover = FALSE /\ stopped = FALSE /\ absent = FALSE
      /\ session = 0 /\ issued = 1 /\ hinted = FALSE
  <2>1. D!GroupInit
    BY DEF Init
  <2>2. row \in [Alias -> {"row", "pending"}] /\ dir \in [Alias -> {"active", "none"}]
    BY <2>1 DEF D!GroupInit
  <2>3. row \in [Alias -> Rows] /\ dir \in [Alias -> Listed]
    BY <2>2 DEF Rows, Listed
  <2> QED
    BY <2>1, <2>3 DEF D!GroupInit
<1>2. web.num <= issued
  <2>1. web \in [num : {1}, auth : {TRUE}, lapsed : BOOLEAN]
    BY DEF Init
  <2>2. web.num \in {1}
    BY <2>1, Zenon
  <2> QED
    BY <1>1, <2>2
<1>3. DeletionTypes
  <2>1. cache \in [Alias -> Listed] /\ items \in Seq(Alias)
    BY <1>1 DEF Listed
  <2>2. recover \in BOOLEAN /\ stopped \in BOOLEAN /\ absent \in BOOLEAN
    BY <1>1, Zenon
  <2>3. pos = 1 /\ issued >= 1 /\ session <= issued
    BY <1>1
  <2> QED
    BY <1>1, <1>2, <2>1, <2>2, <2>3 DEF DeletionTypes
<1> QED
  BY <1>1, <1>3 DEF DeletionInv, Asking

LEMMA ItemIsAlias == DeletionTypes /\ pc # "idle" => items[pos] \in Alias
BY DEF DeletionTypes

(* The next item, or the end.                                                *)
LEMMA CompletedStep ==
    ASSUME DeletionTypes, pc # "idle", NEW d, D!Completed(d)
    PROVE  /\ pc' \in {"item", "end"} /\ pos' \in 1 .. Len(items) /\ absent' \in BOOLEAN
           /\ pos' = IF pc' = "end" THEN pos ELSE pos + 1
           /\ pc' = "end" <=> pos = Len(items)
<1>1. Len(items) \in Nat /\ pos \in 1 .. Len(items)
  BY DEF DeletionTypes
<1>2. \/ pos = Len(items) /\ pc' = "end" /\ absent' = FALSE /\ pos' = pos
      \/ pos # Len(items) /\ pc' = "item" /\ pos' = pos + 1 /\ absent' = (d[items[pos + 1]] = "none")
  BY DEF D!Completed
<1>3. absent' \in BOOLEAN
  BY <1>2
<1> QED
  BY <1>1, <1>2, <1>3

LEMMA LookedIs ==
    ASSUME DeletionTypes, NEW a \in Alias
    PROVE  D!Looked(a) \in {"list", "off", "gone"}
<1>1. cache[a] \in Listed
  BY DEF DeletionTypes
<1> QED
  BY <1>1 DEF D!Looked, D!After, Listed

(* What an answer leaves in Apple's directory.                               *)
LEMMA EffectsOf ==
    ASSUME DeletionTypes, NEW a \in Alias, NEW answer, dir' \in D!Effects(a, answer)
    PROVE  /\ dir' \in [Alias -> Listed]
           /\ pc \notin {"off", "gone"} => dir' = dir
           /\ pc = "gone" /\ answer = "ok" => dir'[a] = "none"
           /\ \A b \in Alias \ {a} : dir'[b] = dir[b]
<1>1. dir \in [Alias -> Listed]
  BY DEF DeletionTypes
<1>2. dir' = dir \/ dir' = D!Mutated(a)
  BY DEF D!Effects
<1>3. /\ D!Mutated(a) \in [Alias -> Listed]
      /\ \A b \in Alias \ {a} : D!Mutated(a)[b] = dir[b]
      /\ pc = "gone" => D!Mutated(a)[a] = "none"
  BY <1>1 DEF D!Mutated, Listed
<1> QED
  BY <1>1, <1>2, <1>3 DEF D!Effects

LEMMA StartKeeps ==
    ASSUME SharedInv, SharedInv', DeletionInv, D!Start
    PROVE  DeletionInv'
<1>1. /\ pc = "item" /\ items[pos] \in Alias
      /\ UNCHANGED <<web, issued, row, dir, items, resume, recover, cache, hinted>>
  BY ItemIsAlias DEF D!Start, DeletionInv
<1>2. CASE D!Completed(dir) /\ session' = session /\ (stopped => stopped') /\ stopped' \in BOOLEAN
  <2>1. /\ pc' \in {"item", "end"} /\ pos' \in 1 .. Len(items) /\ absent' \in BOOLEAN
    BY <1>1, <1>2, CompletedStep DEF DeletionInv
  <2>2. SessionSafe'
    <3>1. SessionSafe /\ UNCHANGED <<web, row, session>>
      BY <1>1, <1>2 DEF DeletionInv
    <3> QED
      BY <1>2, <2>1, <3>1 DEF SessionSafe, Asking
  <2> QED
    BY <1>1, <1>2, <2>1, <2>2 DEF DeletionInv, DeletionTypes, Asking
<1>3. CASE /\ ~D!Refused(D!Item) /\ pos' = pos /\ absent' = absent /\ stopped' = stopped
           /\ \/ pc' = D!Looked(items[pos]) /\ session' = session
              \/ pc' = "validate" /\ session' = web.num
  <2>1. row[items[pos]] = "row" /\ ~stopped
    BY <1>3 DEF D!Refused, D!Item
  <2>2. pc' \in {"validate", "list", "off", "gone"}
    BY <1>1, <1>3, LookedIs DEF DeletionInv
  <2>3. web.num >= session
    BY <1>1, <2>1 DEF DeletionInv, SessionSafe
  <2>4. SessionSafe' /\ session' <= issued /\ issued >= 1
    BY <1>1, <1>3, <2>3 DEF SessionSafe, SharedInv, DeletionInv, DeletionTypes
  <2> QED
    BY <1>1, <1>3, <2>1, <2>2, <2>4 DEF DeletionInv, DeletionTypes, Asking
<1>4. CASE D!Refused(D!Item) \/ (~ready /\ ~web.auth)
  <2>1. D!Completed(dir) /\ stopped' = (stopped \/ (row[D!Item] = "row" /\ ~cancelled)) /\ session' = session
    BY <1>4 DEF D!Start
  <2>2. stopped' \in BOOLEAN /\ (stopped => stopped')
    BY <2>1 DEF DeletionInv, DeletionTypes
  <2> QED
    BY <1>2, <2>1, <2>2
<1>5. CASE ~(D!Refused(D!Item) \/ (~ready /\ ~web.auth))
  BY <1>3, <1>5 DEF D!Start, D!Item
<1> QED
  BY <1>4, <1>5

LEMMA RequestKeeps ==
    ASSUME SharedInv, SharedInv', DeletionInv, D!Request
    PROVE  DeletionInv'
<1> DEFINE Number(rolled) == IF rolled THEN issued + 1 ELSE session
<1>1. PICK answer \in {"ok", "error", "limited", "blocked", "expired"}, rolled \in BOOLEAN, stored \in BOOLEAN,
             saved \in BOOLEAN, hint \in BOOLEAN :
          /\ saved => stored
          /\ hint => recover
          /\ dir' \in D!Effects(D!Item, answer)
          /\ D!Keep(answer, stored, Number(rolled))
          /\ IF answer = "ok" THEN D!Answered(saved) ELSE D!Failed(answer, saved, hint)
  BY DEF D!Request
<1>2. /\ pc \in Asking /\ UNCHANGED <<row, items, recover, cancelled>> /\ items[pos] \in Alias /\ D!Item = items[pos]
      /\ row[items[pos]] = "row"
  <2>1. pc \in Asking /\ UNCHANGED <<row, items, recover, cancelled>> /\ ~D!Blocked(D!Item) /\ D!Item = items[pos]
    BY DEF D!Request, D!Sends, D!Reads, Asking, D!Item
  <2>2. items[pos] \in Alias
    BY <2>1, ItemIsAlias DEF DeletionInv, Asking
  <2>3. row[items[pos]] = "row"
    BY <2>1 DEF D!Blocked, DeletionInv
  <2> QED
    BY <2>1, <2>2, <2>3
<1>3. web.num >= session
  BY <1>2 DEF DeletionInv, SessionSafe, Asking
<1>4. Number(rolled) \in Nat
  BY DEF SharedInv
<1>5. /\ issued' = IF Number(rolled) > issued THEN Number(rolled) ELSE issued
      /\ ~stored => web' = web
      /\ answer = "expired" => session' = 0
      /\ answer # "expired" => session' = Number(rolled) /\ (stored => web'.num = Number(rolled))
  BY <1>1, <1>4, KeepsSession
<1>6. web' = D!NoSession \/ web' = web \/ web'.num = Number(rolled)
  <2>1. CASE answer = "expired"
    BY <1>1, <2>1 DEF D!Keep
  <2>2. CASE answer # "expired"
    BY <1>5, <2>2
  <2> QED
    BY <2>1, <2>2
<1> HIDE DEF Number
<1>7. session' <= issued' /\ web'.num <= issued' /\ issued' >= 1 /\ (saved => web'.num >= session')
  <2>1. session \in Nat /\ issued \in Nat /\ web.num \in Nat /\ session' \in Nat /\ issued' \in Nat /\ web'.num \in Nat
    BY DEF SharedInv
  <2>2. D!NoSession.num = 0
    BY DEF D!NoSession
  <2>3. session' <= issued'
    BY <1>4, <1>5, <2>1
  <2>4. web'.num <= issued'
    BY <1>4, <1>5, <1>6, <2>1, <2>2 DEF DeletionInv, DeletionTypes
  <2>5. issued' >= 1
    BY <1>4, <1>5, <2>1 DEF DeletionInv, DeletionTypes
  <2>6. saved => web'.num >= session'
    BY <1>1, <1>5, <2>1
  <2> QED
    BY <2>3, <2>4, <2>5, <2>6
<1>8. /\ dir' \in [Alias -> Listed]
      /\ pc \notin {"off", "gone"} => dir' = dir
      /\ pc = "gone" /\ answer = "ok" => dir'[items[pos]] = "none"
  BY <1>1, <1>2, EffectsOf DEF DeletionInv
(* What the group goes on with. *)
<1>9. /\ stopped' \in BOOLEAN /\ absent' \in BOOLEAN /\ cache' \in [Alias -> Listed] /\ (hinted' => recover)
      /\ ~saved => stopped' /\ pc' \in {"item", "end"}
      /\ pos' \in 1 .. Len(items)
      /\ pc' \in Asking \cup {"local"} => pos' = pos
      /\ pc' = "away" => recover
      /\ pc' = "local" => absent'
      /\ pc' # "idle"
  <2>1. ASSUME NEW d, D!Completed(d)
        PROVE  pc' \in {"item", "end"} /\ pos' \in 1 .. Len(items) /\ absent' \in BOOLEAN
    BY <1>2, <2>1, CompletedStep DEF DeletionInv, Asking
  <2>2. pos \in 1 .. Len(items) /\ cache \in [Alias -> Listed] /\ dir \in [Alias -> Listed]
    BY <1>2 DEF DeletionInv, DeletionTypes, Asking
  <2>3. CASE answer = "ok"
    <3>1. D!Answered(saved)
      BY <1>1, <2>3
    <3>2. stopped' = (stopped \/ ~saved) /\ hinted' = FALSE
      BY <3>1 DEF D!Answered
    <3>3. cache' \in [Alias -> Listed]
      <4>1. dir'[items[pos]] \in Listed
        BY <1>2, <1>8
      <4>2. cache' \in {dir, cache, [cache EXCEPT ![items[pos]] = dir'[items[pos]]]}
        BY <1>2, <3>1 DEF D!Answered
      <4> QED
        BY <2>2, <4>1, <4>2
    <3>4. CASE D!Completed(dir')
      <4>1. stopped' \in BOOLEAN /\ (~saved => stopped')
        BY <3>2 DEF DeletionInv, DeletionTypes
      <4> QED
        BY <2>1, <3>2, <3>3, <3>4, <4>1 DEF Asking
    <3>5. CASE /\ saved /\ pos' = pos /\ absent' = (absent \/ dir'[items[pos]] = "none")
               /\ pc' = CASE pc = "validate" -> "list" [] pc \in D!Reads -> D!After(dir[items[pos]])
                          [] pc = "off" -> "gone" [] OTHER -> "local"
      <4>1. pc' \in {"list", "off", "gone", "local"}
        BY <3>5, AfterIs
      <4>2. pc' = "local" => dir'[items[pos]] = "none"
        <5>1. CASE pc \in D!Reads
          <6>1. pc # "validate" /\ pc \notin {"off", "gone"}
            BY <5>1 DEF D!Reads
          <6>2. pc' = D!After(dir[items[pos]]) /\ dir' = dir /\ dir[items[pos]] \in Listed
            BY <1>2, <1>8, <2>2, <3>5, <5>1, <6>1
          <6> QED
            BY <6>2 DEF D!After, Listed
        <5>2. CASE pc \notin D!Reads
          <6>1. pc \in {"validate", "off", "gone"}
            BY <1>2, <5>2 DEF D!Reads, Asking
          <6> QED
            BY <1>8, <2>3, <3>5, <5>2, <6>1
        <5> QED
          BY <5>1, <5>2
      <4>3. absent' \in BOOLEAN /\ (pc' = "local" => absent')
        BY <3>5, <4>2 DEF DeletionInv, DeletionTypes
      <4>4. stopped' \in BOOLEAN
        BY <3>2 DEF DeletionInv, DeletionTypes
      <4> QED
        BY <2>2, <3>2, <3>3, <3>5, <4>1, <4>3, <4>4
    <3> QED
      BY <1>2, <3>1, <3>4, <3>5 DEF D!Answered
  <2>4. CASE answer # "ok"
    <3>1. D!Failed(answer, saved, hint) /\ UNCHANGED cache
      BY <1>1, <2>4 DEF D!Failed
    <3>2. hinted' => recover
      BY <1>1, <3>1 DEF D!Failed
    <3>3. CASE D!WaitsOut(answer, saved) /\ tries < MaxRecoveries
      <4>1. recover /\ saved
        BY <3>3 DEF D!WaitsOut
      <4>2. pc' = "away" /\ stopped' = stopped /\ pos' = pos /\ absent' = FALSE
        BY <3>1, <3>3 DEF D!Failed, D!GoAway
      <4> QED
        BY <2>2, <3>1, <3>2, <4>1, <4>2 DEF DeletionInv, DeletionTypes, Asking
    <3>4. CASE ~(D!WaitsOut(answer, saved) /\ tries < MaxRecoveries)
      <4>1. stopped' = (stopped \/ D!Stops(answer, saved) \/ D!WaitsOut(answer, saved) \/ pc = "validate")
        BY <3>1, <3>4 DEF D!Failed
      <4>2. stopped' \in BOOLEAN /\ (~saved => stopped')
        BY <4>1 DEF D!Stops, DeletionInv, DeletionTypes
      <4>3. CASE D!Completed(dir')
        BY <2>1, <2>2, <3>1, <3>2, <4>2, <4>3 DEF Asking
      <4>4. CASE saved /\ pc' = D!Confirming /\ UNCHANGED <<pos, absent>>
        <5>1. pc' \in {"confirmOff", "confirmGone"}
          BY <4>4 DEF D!Confirming
        <5> QED
          BY <2>2, <3>1, <3>2, <4>2, <4>4, <5>1 DEF DeletionInv, DeletionTypes
      <4> QED
        BY <3>1, <3>4, <4>3, <4>4 DEF D!Failed, D!Fatal
    <3> QED
      BY <3>3, <3>4
  <2> QED
    BY <2>3, <2>4
<1>10. SessionSafe'
  BY <1>7, <1>9 DEF SessionSafe
<1>11. DeletionTypes'
  BY <1>2, <1>7, <1>8, <1>9 DEF DeletionInv, DeletionTypes
<1> QED
  BY <1>2, <1>9, <1>10, <1>11 DEF DeletionInv

(* The group forgets what it knew when it ends and when the process stops.     *)
LEMMA ForgottenIs ==
    ASSUME SharedInv, DeletionInv, D!Forget, UNCHANGED <<row, dir>>
    PROVE  DeletionInv'
<1>1. /\ pc' = "idle" /\ items' = <<>> /\ pos' = 1 /\ resume' = "item" /\ recover' = FALSE /\ session' = 0
      /\ stopped' = FALSE /\ cache' = [a \in Alias |-> "none"] /\ hinted' = FALSE /\ absent' = FALSE /\ issued' = 1
      /\ web' = [web EXCEPT !.num = IF web.auth THEN 1 ELSE 0]
  BY DEF D!Forget
<1>2. web'.num \in {0, 1}
  BY <1>1 DEF SharedInv
<1>3. cache' \in [Alias -> Listed]
  BY <1>1 DEF Listed
<1>4. DeletionTypes'
  <2>1. row' \in [Alias -> Rows] /\ dir' \in [Alias -> Listed] /\ items' \in Seq(Alias)
    BY <1>1 DEF DeletionInv, DeletionTypes
  <2>2. recover' \in BOOLEAN /\ stopped' \in BOOLEAN /\ absent' \in BOOLEAN
    BY <1>1
  <2>3. web'.num <= issued' /\ issued' >= 1 /\ session' <= issued' /\ pos' \in Nat
    BY <1>1, <1>2
  <2> QED
    BY <1>1, <1>3, <2>1, <2>2, <2>3 DEF DeletionTypes
<1> QED
  BY <1>1, <1>4 DEF DeletionInv, Asking

LEMMA SameGroup ==
    ASSUME DeletionInv,
           UNCHANGED <<row, dir, cache, stopped, items, pos, session, issued, web, hinted, recover, absent, pc, resume>>
    PROVE  DeletionInv'
BY DEF DeletionInv, DeletionTypes, SessionSafe

LEMMA GroupKeeps ==
    ASSUME SharedInv, SharedInv', DeletionInv,
           \/ \E batch \in Seq(Alias) \ {<<>>}, retries \in BOOLEAN : D!Begin(batch, retries)
           \/ D!Work \/ D!Cancel \/ \E a \in Alias : D!OwnerChanges(a)
    PROVE  DeletionInv'
<1>1. ASSUME NEW batch \in Seq(Alias) \ {<<>>}, NEW retries \in BOOLEAN, D!Begin(batch, retries)
      PROVE  DeletionInv'
  <2>1. /\ pc = "idle" /\ pc' = "away" /\ resume' = "item" /\ items' = batch /\ recover' = retries
        /\ UNCHANGED <<row, dir, cache, stopped, absent, pos, session, issued, web, hinted>>
    BY <1>1 DEF D!Begin
  <2>2. pos = 1 /\ session = 0 /\ ~recover /\ ~hinted
    BY <2>1 DEF DeletionInv, DeletionTypes
  <2>3. Len(batch) \in Nat /\ Len(batch) > 0
    OBVIOUS
  <2>4. SessionSafe'
    BY <2>1, <2>2 DEF SessionSafe, SharedInv
  <2>5. DeletionTypes'
    BY <2>1, <2>2, <2>3 DEF DeletionInv, DeletionTypes
  <2> QED
    BY <2>1, <2>2, <2>4, <2>5 DEF DeletionInv, Asking
<1>2. CASE D!Enter
  <2>1. /\ pc = "away" /\ pc' = resume /\ absent' \in BOOLEAN /\ pc' \in Asking \cup {"item"}
        /\ UNCHANGED <<row, dir, cache, stopped, items, pos, session, issued, web, hinted, recover>>
    BY <1>2 DEF D!Enter, SharedInv
  <2>2. SessionSafe'
    BY <2>1 DEF SessionSafe, DeletionInv, Asking
  <2>3. pc' \in Asking => recover
    BY <2>1 DEF DeletionInv, Asking
  <2>4. DeletionTypes'
    BY <2>1 DEF DeletionInv, DeletionTypes, Asking
  <2> QED
    BY <2>1, <2>2, <2>3, <2>4 DEF DeletionInv, Asking
<1>3. CASE D!End \/ D!Leave
  BY <1>3, ForgottenIs DEF D!End, D!Leave
<1>4. CASE D!Start
  BY <1>4, StartKeeps
<1>5. CASE D!Abandon
  <2>1. /\ pc \in Asking /\ D!Completed(dir) /\ stopped' = (stopped \/ pc = "validate")
        /\ UNCHANGED <<row, dir, cache, items, session, issued, web, hinted, recover>>
    BY <1>5 DEF D!Abandon, D!Sends, D!Reads, Asking
  <2>2. pc' \in {"item", "end"} /\ pos' \in 1 .. Len(items) /\ absent' \in BOOLEAN
    BY <2>1, CompletedStep DEF DeletionInv, Asking
  <2>3. SessionSafe'
    BY <2>1, <2>2 DEF SessionSafe, DeletionInv, Asking
  <2>4. DeletionTypes'
    BY <2>1, <2>2 DEF DeletionInv, DeletionTypes, Asking
  <2> QED
    BY <2>1, <2>2, <2>3, <2>4 DEF DeletionInv, Asking
<1>6. CASE D!Pause
  <2>1. /\ pc \in Asking /\ hinted /\ hinted' = FALSE /\ pc' = "away" /\ resume' = pc /\ absent' = FALSE
        /\ UNCHANGED <<row, dir, cache, stopped, items, pos, session, issued, web, recover>>
    BY <1>6 DEF D!Pause, D!GoAway, D!Sends, D!Reads, Asking
  <2>2. SessionSafe'
    BY <2>1 DEF SessionSafe, DeletionInv, Asking
  <2>3. DeletionTypes'
    BY <2>1 DEF DeletionInv, DeletionTypes, Asking
  <2> QED
    BY <2>1, <2>2, <2>3 DEF DeletionInv, Asking
<1>7. CASE D!Request
  BY <1>7, RequestKeeps
<1>8. CASE D!RemoveRow
  <2>1. /\ pc = "local" /\ D!Completed(dir) /\ row' \in {row, D!Removed(items[pos])}
        /\ UNCHANGED <<dir, cache, stopped, items, session, issued, web, hinted, recover>>
    BY <1>8 DEF D!RemoveRow, D!Item
  <2>2. pc' \in {"item", "end"} /\ pos' \in 1 .. Len(items) /\ absent' \in BOOLEAN
    BY <2>1, CompletedStep DEF DeletionInv
  <2>3. row' \in [Alias -> Rows]
    <3>1. row \in [Alias -> Rows]
      BY DEF DeletionInv, DeletionTypes
    <3>2. D!Removed(items[pos]) \in [Alias -> Rows]
      BY <3>1 DEF D!Removed, Rows
    <3> QED
      BY <2>1, <3>1, <3>2
  <2>4. SessionSafe'
    BY <2>1, <2>2 DEF SessionSafe, DeletionInv, Asking
  <2>5. DeletionTypes'
    BY <2>1, <2>2, <2>3 DEF DeletionInv, DeletionTypes
  <2> QED
    BY <2>1, <2>2, <2>4, <2>5 DEF DeletionInv, Asking
<1>9. CASE D!Cancel
  <2>1. UNCHANGED <<row, dir, cache, stopped, items, pos, session, issued, web, hinted, recover, absent, pc, resume>>
    BY <1>9 DEF D!Cancel, D!shared
  <2> QED
    BY <2>1, SameGroup
<1>10. ASSUME NEW a \in Alias, D!OwnerChanges(a) PROVE DeletionInv'
  <2>1. /\ UNCHANGED <<row, cache, stopped, items, pos, session, issued, web, hinted, recover, pc, resume>>
        /\ dir' \in {[dir EXCEPT ![a] = s] : s \in Listed}
        /\ absent' \in BOOLEAN /\ (pc = "local" /\ absent => absent')
    BY <1>10 DEF D!OwnerChanges, D!shared, D!Mine, Listed, SharedInv
  <2>2. dir' \in [Alias -> Listed]
    BY <2>1 DEF DeletionInv, DeletionTypes
  <2>3. SessionSafe' <=> SessionSafe
    BY <2>1 DEF SessionSafe
  <2> QED
    BY <2>1, <2>2, <2>3 DEF DeletionInv, DeletionTypes
<1> QED
  BY <1>1, <1>2, <1>3, <1>4, <1>5, <1>6, <1>7, <1>8, <1>9, <1>10 DEF D!Work

(* The operation lock keeps logins and the operator from the session while a  *)
(* group of deletions is under way.                                          *)
LEMMA LoginsKeepGroup ==
    ASSUME SharedInv, DeletionInv, LoginNext, UNCHANGED deletionVars
    PROVE  DeletionInv'
<1>1. web' \in {web, [web EXCEPT !.lapsed = TRUE]} \/ (pc = "idle" /\ web' \in {Fresh, NoSession})
  <2>1. CASE Told \/ Fires \/ Complete
    BY <2>1 DEF Told, Fires, Complete, shared
  <2>2. CASE Attempt
    BY <2>2 DEF Attempt, Prepare, Submit, Rejected, Challenged, Accepted, WaitForCode, Publish, Finish, TimesOut, shared,
                SharedInv, Submitting
  <2>3. CASE Operate
    BY <2>3 DEF Operate, Change, SignIn, SignOut, AskCode, Login, Refuse, shared, Unclaimed, SharedInv
  <2>4. CASE Time
    BY <2>4 DEF Time, RetryDue, ChallengeEnds, Lapses, shared
  <2> QED
    BY <2>1, <2>2, <2>3, <2>4 DEF LoginNext
<1>2. web'.num = web.num \/ (pc = "idle" /\ web'.num \in {0, 1})
  BY <1>1 DEF SharedInv, Fresh, NoSession
<1>3. UNCHANGED <<row, dir, cache, stopped, items, pos, session, issued, hinted, recover, absent, pc, resume>>
  BY DEF deletionVars
<1>4. DeletionTypes'
  BY <1>2, <1>3 DEF DeletionInv, DeletionTypes, SharedInv
<1>5. pc # "idle" => SessionSafe'
  BY <1>2, <1>3 DEF DeletionInv, SessionSafe
<1> QED
  BY <1>3, <1>4, <1>5 DEF DeletionInv

LEMMA DeletionStep == SharedInv /\ SharedInv' /\ DeletionInv /\ [Next]_vars => DeletionInv'
<1> SUFFICES ASSUME SharedInv, SharedInv', DeletionInv, [Next]_vars PROVE DeletionInv'
  OBVIOUS
<1>1. CASE UNCHANGED vars
  BY <1>1, SameGroup DEF vars, shared, deletionVars
<1>2. CASE Deletion
  <2>1. Batches \subseteq Seq(Alias) \ {<<>>}
    BY OpsConstants
  <2> QED
    BY <1>2, <2>1, GroupKeeps DEF Deletion, D!DeletionNext
<1>3. CASE Logins
  BY <1>3, LoginsKeepGroup DEF Logins
<1>4. CASE BeginGroup
  <2>1. Selection \in Seq(Alias) \ {<<>>}
    BY JobConstants
  <2> QED
    BY <1>4, <2>1, GroupKeeps DEF BeginGroup
<1>5. CASE GroupWorks
  BY <1>5, GroupKeeps DEF GroupWorks
<1>6. CASE Request \/ Creation \/ Credentials
  BY <1>6, SameGroup DEF Request, Creation, Credentials, shared, deletionVars
<1>7. CASE ReadWebMail
  <2>1. /\ lock = "free" /\ web' = D!Session(issued') /\ UNCHANGED D!group /\ UNCHANGED <<row, dir>>
        /\ issued' = IF pc = "idle" THEN issued ELSE issued + 1
    BY <1>7 DEF ReadWebMail, D!ReadWebMail
  <2>2. pc \in {"idle", "away"} /\ web'.num = issued' /\ issued' >= issued
    BY <2>1 DEF SharedInv, D!Session
  <2>3. UNCHANGED <<row, dir, cache, stopped, items, pos, session, hinted, recover, absent, pc, resume>>
    BY <2>1 DEF D!group
  <2>4. DeletionTypes' /\ SessionSafe'
    BY <2>2, <2>3 DEF DeletionInv, DeletionTypes, SessionSafe, SharedInv
  <2> QED
    BY <2>3, <2>4 DEF DeletionInv
<1>8. CASE DeleteAccount
  <2>1. /\ lock = "free" /\ web'.num = 0 /\ row' = [a \in Alias |-> "none"]
        /\ UNCHANGED <<issued, dir, cache, stopped, items, pos, session, hinted, recover, absent, pc, resume>>
    BY <1>8 DEF DeleteAccount, D!DeleteAccount, D!group, D!NoSession
  <2>2. pc \in {"idle", "away"}
    BY <2>1 DEF SharedInv
  <2>3. row' \in [Alias -> Rows] /\ \A a \in Alias : row'[a] # "row"
    BY <2>1 DEF Rows
  <2>4. DeletionTypes'
    BY <2>1, <2>3 DEF DeletionInv, DeletionTypes, SharedInv
  <2>5. SessionSafe'
    BY <2>1, <2>2, <2>3 DEF SessionSafe, Asking
  <2> QED
    BY <2>1, <2>2, <2>4, <2>5 DEF DeletionInv, Asking
<1>9. CASE Restart
  BY <1>9, ForgottenIs DEF Restart, D!Crashed
<1> QED
  BY <1>1, <1>2, <1>3, <1>4, <1>5, <1>6, <1>7, <1>8, <1>9 DEF Next

LEMMA DeletionAlways == Spec => [](SharedInv /\ DeletionInv)
BY SharedInitially, SharedStep, DeletionInitially, DeletionStep, PTL DEF Spec

(* What every request is sent with.                                          *)
LEMMA RequestFits ==
    ASSUME SharedInv, DeletionInv, pc \in Asking, ~D!Blocked(items[pos])
    PROVE  row[items[pos]] = "row" /\ web.num >= session
<1>1. row[items[pos]] = "row"
  BY DEF D!Blocked, DeletionInv
<1>2. items[pos] \in Alias
  BY ItemIsAlias DEF DeletionInv, Asking
<1> QED
  BY <1>1, <1>2 DEF DeletionInv, SessionSafe, Asking

(* No request is ever sent with a session that is newer than the stored one,  *)
(* so that a stop of the process loses at most one                           *)
(* (acceptResponse, alias_delete_batch.go:496).                              *)
THEOREM DeletionsKeepSession == Spec => []SessionKept
<1>1. SharedInv /\ DeletionInv => SessionKept
  BY RequestFits DEF SessionKept, D!SessionKept, D!Sends, D!Reads, D!Item, Asking
<1> QED
  BY <1>1, DeletionAlways, PTL

(* No row goes unless Apple's directory lacked the address since the account  *)
(* lock was last taken, whatever Apple answers, the owner does and fails      *)
(* (alias_delete_batch.go:374).                                              *)
THEOREM RowsGoForCause == Spec => GoneForCause
<1>1. DeletionInv => (\A a \in Alias : pc = "local" /\ row[a] = "row" /\ row'[a] = "none" => absent)
  BY DEF DeletionInv
<1>2. DeletionInv => [\A a \in Alias : pc = "local" /\ row[a] = "row" /\ row'[a] = "none" => absent]_(D!vars)
  BY <1>1
<1> QED
  BY <1>2, DeletionAlways, PTL DEF GoneForCause, D!GoneForCause

(* The owner's changes are counted. *)
ChangesCounted == changes \in Nat

LEMMA ChangesAreCounted == Spec => []ChangesCounted
<1>1. Init => ChangesCounted
  BY DEF Init, D!GroupInit, ChangesCounted
<1>2. ChangesCounted /\ [Next]_vars => ChangesCounted'
  <2> SUFFICES ASSUME changes \in Nat, [Next]_vars PROVE changes' \in Nat
    BY DEF ChangesCounted
  <2>1. UNCHANGED changes \/ changes' = changes + 1
    <3>1. CASE UNCHANGED vars
      BY <3>1 DEF vars, deletionVars
    <3>2. CASE Deletion \/ BeginGroup \/ GroupWorks
      BY <3>2 DEF Deletion, BeginGroup, GroupWorks, D!DeletionNext, D!Begin, D!Work, D!Cancel, D!OwnerChanges, D!Enter,
                  D!End, D!Leave, D!Start, D!Abandon, D!Pause, D!Request, D!RemoveRow
    <3>3. CASE Logins \/ Request \/ Creation \/ Credentials
      BY <3>3 DEF Logins, Request, Creation, Credentials, deletionVars
    <3>4. CASE ReadWebMail \/ DeleteAccount \/ Restart
      BY <3>4 DEF ReadWebMail, DeleteAccount, Restart, D!ReadWebMail, D!DeleteAccount, D!Crashed
    <3> QED
      BY <3>1, <3>2, <3>3, <3>4 DEF Next
  <2> QED
    BY <2>1
<1> QED
  BY <1>1, <1>2, PTL DEF Spec

(* What a group changes in Apple's directory.                                *)
LEMMA WorkKills ==
    ASSUME SharedInv, DeletionInv, pc = "gone", D!Work
    PROVE  \/ dir' = dir
           \/ /\ D!Request /\ ~D!Blocked(items[pos]) /\ items[pos] \in Alias
              /\ \A b \in Alias \ {items[pos]} : dir'[b] = dir[b]
<1>1. dir' = dir \/ D!Request
  BY DEF D!Work, D!Enter, D!End, D!Leave, D!Start, D!Abandon, D!Pause, D!RemoveRow
<1>2. CASE D!Request
  <2>1. items[pos] \in Alias /\ ~D!Blocked(items[pos])
    BY <1>2, ItemIsAlias DEF DeletionInv, D!Request, D!Item
  <2>2. PICK answer : dir' \in D!Effects(items[pos], answer)
    BY <1>2 DEF D!Request, D!Item
  <2>3. \A b \in Alias \ {items[pos]} : dir'[b] = dir[b]
    BY <2>1, <2>2, EffectsOf DEF DeletionInv
  <2> QED
    BY <1>2, <2>1, <2>3
<1> QED
  BY <1>1, <1>2

(* Apple deletes an address for a group only while its row asks for it, also   *)
(* after a wait in which the account was anybody's (beforeRequest,            *)
(* alias_delete_throttle.go:113).                                            *)
THEOREM OnlyWantedAreDeleted == Spec => OnlyWanted
<1> DEFINE Wanted == \A a \in Alias : pc = "gone" /\ dir[a] # "none" /\ dir'[a] = "none" /\ a = D!Item /\ changes' = changes
                        => row[a] = "row"
<1>1. ASSUME SharedInv, DeletionInv, ChangesCounted, [Next]_vars PROVE Wanted
  <2>1. \/ dir' = dir \/ changes' = changes + 1
        \/ pc = "gone" => /\ D!Work
    BY <1>1 DEF Next, vars, deletionVars, Deletion, BeginGroup, GroupWorks, Logins, Request, Creation, Credentials,
                ReadWebMail, DeleteAccount, Restart, D!DeletionNext, D!Begin, D!Cancel, D!OwnerChanges, D!ReadWebMail,
                D!DeleteAccount, D!Crashed
  <2>2. CASE pc = "gone" /\ D!Work
    <3>1. dir' = dir \/ row[items[pos]] = "row"
      BY <1>1, <2>2, WorkKills, RequestFits DEF Asking
    <3> QED
      BY <3>1 DEF D!Item
  <2> QED
    BY <1>1, <2>1, <2>2 DEF ChangesCounted
<1>2. SharedInv /\ DeletionInv /\ ChangesCounted /\ [Next]_vars => [Wanted]_(D!vars)
  BY <1>1
<1> HIDE DEF Wanted
<1>3. Spec => [][Wanted]_(D!vars)
  BY <1>2, DeletionAlways, ChangesAreCounted, PTL DEF Spec
<1> QED
  BY <1>3 DEF OnlyWanted, D!OnlyWanted, Wanted

-----------------------------------------------------------------------------
(* Jobs that make addresses. *)

Closed == {"completed", "failed", "stopped", "interrupted"}
Entries == [status : Running \cup Closed \cup {"none"}, count : Nat]
Making == {"loop", "reserve", "probing", "cooling"}

(* While a worker goes on, its copy and the row agree, and Apple has no more    *)
(* than they and the dropped addresses; it leaves as soon as that may be wrong.  *)
CreationInv ==
    /\ made \in Nat /\ dropped \in Nat /\ makers \in Nat /\ entry \in Entries /\ copy \in Entries
    /\ maker \in Making \cup {"none", "leaving", "left"}
    /\ entry.count <= made /\ made <= entry.count + dropped + 1
    /\ maker \in Making => entry.status \in Running /\ made = entry.count + dropped /\ copy.count = entry.count

LEMMA CreationInitially == Init => CreationInv
BY DEF Init, CreationInit, CreationInv, NoEntry, Entries, Making

(* What a checkpoint leaves in the row.                                      *)
LEMMA CheckpointIs ==
    ASSUME NEW j, NEW ok \in BOOLEAN, Checkpoint(j, ok)
    PROVE  copy' = j /\ entry' \in {j, entry} /\ (ok => entry' = j)
BY DEF Checkpoint

LEMMA CountIsNat == \A e \in Entries : e.count \in Nat
BY DEF Entries

LEMMA CreationStep ==
    ASSUME CreationInv, NEW free, CreationNext(free)
    PROVE  CreationInv'
<1> USE DEF CreationInv, Making
<1>0. entry.count \in Nat /\ copy.count \in Nat
  BY CountIsNat
<1>1. CASE StartCreation
  <2> DEFINE j == [status |-> "running", count |-> 0]
  <2>1. j \in Entries /\ j.status \in Running /\ j.count = 0
    BY DEF Entries, Running
  <2>2. /\ entry' = j /\ made' = 0 /\ dropped' = 0 /\ makers' = makers + 1
        /\ (maker' = "loop" /\ copy' = j) \/ (maker' = "none" /\ copy' = copy)
    BY <1>1 DEF StartCreation
  <2> QED
    BY <2>1, <2>2
<1>2. CASE BeginRound
  <2>1. PICK ok \in BOOLEAN : /\ Checkpoint([copy EXCEPT !.status = "running"], ok)
                              /\ maker' = IF ok THEN "reserve" ELSE "leaving"
    BY <1>2 DEF BeginRound
  <2>2. maker = "loop" /\ UNCHANGED <<made, dropped, makers>>
    BY <1>2 DEF BeginRound
  <2>3. LET j == [copy EXCEPT !.status = "running"] IN j \in Entries /\ j.status \in Running /\ j.count = entry.count
    BY <2>2 DEF Entries, Running
  <2> QED
    BY <2>1, <2>2, <2>3, CheckpointIs
<1>3. CASE Reserve(free) \/ Cooled
  BY <1>3 DEF Reserve, Cooled
<1>4. CASE Probed
  <2>1. PICK answer \in {"ok", "limited", "unclearLimit", "failed"}, ok \in BOOLEAN :
          /\ \E n \in Makes(answer) : /\ dropped + Drops(answer, n) <= MaxDropped
                                      /\ made' = made + n /\ dropped' = dropped + Drops(answer, n)
          /\ IF Waits(answer)
             THEN Checkpoint(Next_("waiting"), ok) /\ maker' = IF ok THEN "cooling" ELSE "leaving"
             ELSE IF answer # "ok" THEN Checkpoint(Next_("failed"), ok) /\ maker' = "leaving"
             ELSE LET done == copy.count + 1 = Target IN
                  /\ Checkpoint([status |-> IF done THEN "completed" ELSE "running", count |-> copy.count + 1], ok)
                  /\ maker' = IF done \/ ~ok THEN "leaving" ELSE "loop"
    BY <1>4 DEF Probed
  <2>2. maker = "probing" /\ makers' = makers
    BY <1>4 DEF Probed
  <2>3. /\ made' \in {made, made + 1} /\ dropped' \in {dropped, dropped + 1}
        /\ answer = "ok" => made' = made + 1
        /\ IF Waits(answer) THEN made' - made = dropped' - dropped ELSE dropped' = dropped
    BY <2>1 DEF Makes, Drops, Waits
  <2>4. CASE Waits(answer)
    <3>1. Next_("waiting") \in Entries /\ Next_("waiting").status \in Running /\ Next_("waiting").count = entry.count
      BY <2>2 DEF Next_, Entries, Running
    <3> QED
      BY <1>0, <2>1, <2>2, <2>3, <2>4, <3>1, CheckpointIs
  <2>5. CASE ~Waits(answer) /\ answer # "ok"
    <3>1. Next_("failed") \in Entries /\ Next_("failed").count = entry.count
      BY <2>2 DEF Next_, Entries, Closed
    <3> QED
      BY <1>0, <2>1, <2>2, <2>3, <2>5, <3>1, CheckpointIs
  <2>6. CASE ~Waits(answer) /\ answer = "ok"
    <3> DEFINE done == copy.count + 1 = Target
               j == [status |-> IF done THEN "completed" ELSE "running", count |-> copy.count + 1]
    <3>1. j \in Entries /\ j.count = entry.count + 1 /\ (~done => j.status \in Running)
      BY <2>2, <2>3, <2>6 DEF Entries, Running, Closed
    <3>2. Checkpoint(j, ok) /\ maker' = IF done \/ ~ok THEN "leaving" ELSE "loop"
      BY <2>1, <2>6
    <3> HIDE DEF j, done
    <3>3. copy' = j /\ entry' \in {j, entry} /\ (ok => entry' = j)
      BY <3>2, CheckpointIs
    <3> QED
      BY <1>0, <2>2, <2>3, <2>6, <3>1, <3>2, <3>3
  <2> QED
    BY <2>4, <2>5, <2>6
<1>5. CASE CloseCreation
  <2>1. PICK ok \in BOOLEAN, status \in {"stopped", "interrupted"} : Checkpoint(Next_(status), ok)
    BY <1>5 DEF CloseCreation
  <2>2. maker \in {"loop", "cooling"} /\ maker' = "leaving" /\ UNCHANGED <<made, dropped, makers>>
    BY <1>5 DEF CloseCreation
  <2>3. Next_(status) \in Entries /\ Next_(status).count = entry.count
    BY <2>2 DEF Next_, Entries, Closed
  <2> QED
    BY <2>1, <2>2, <2>3, CheckpointIs
<1>6. CASE LeaveCreation
  BY <1>6 DEF LeaveCreation, NoEntry, Entries
<1>7. CASE StopCreation
  <2>1. UNCHANGED <<maker, copy, made, dropped, makers>>
    BY <1>7 DEF StopCreation
  <2>2. CASE Cancelable
    BY <1>7, <2>1, <2>2 DEF StopCreation
  <2>3. CASE ~Cancelable
    <3>1. maker \in {"none", "left"} /\ entry' = [entry EXCEPT !.status = IF @ \in Running THEN "stopped" ELSE @]
      BY <1>7, <2>3 DEF StopCreation, Cancelable
    <3>2. entry' \in Entries /\ entry'.count = entry.count
      BY <3>1 DEF Entries, Closed
    <3> QED
      BY <2>1, <3>1, <3>2
  <2> QED
    BY <2>2, <2>3
<1>8. CASE HaltsCreation
  BY <1>8 DEF HaltsCreation
<1> QED
  BY <1>1, <1>2, <1>3, <1>4, <1>5, <1>6, <1>7, <1>8 DEF CreationNext

LEMMA CreationStarts == ASSUME CreationInv, CreationRestarts PROVE CreationInv'
<1>1. /\ maker' = "none" /\ copy' = NoEntry /\ made' \in {made, made + 1} /\ (maker # "probing" => made' = made)
      /\ UNCHANGED <<dropped, makers>> /\ entry' = [entry EXCEPT !.status = IF @ \in Running THEN "interrupted" ELSE @]
  BY DEF CreationRestarts
<1>2. entry' \in Entries /\ entry'.count = entry.count
  BY <1>1 DEF CreationInv, Entries, Closed
<1>3. copy' \in Entries
  BY <1>1 DEF NoEntry, Entries
<1> QED
  BY <1>1, <1>2, <1>3, CountIsNat DEF CreationInv, Making

LEMMA CreationAlways == Spec => []CreationInv
<1>1. CreationInv /\ [Next]_vars => CreationInv'
  <2> SUFFICES ASSUME CreationInv, [Next]_vars PROVE CreationInv'
    OBVIOUS
  <2>1. \/ UNCHANGED creationVars \/ CreationNext(rotation = "none") \/ CreationRestarts
    BY DEF Next, vars, Deletion, Logins, Request, BeginGroup, GroupWorks, Creation, Credentials, ReadWebMail,
           DeleteAccount, Restart
  <2>2. CASE UNCHANGED creationVars
    BY <2>2 DEF creationVars, CreationInv
  <2> QED
    BY <2>1, <2>2, CreationStep, CreationStarts
<1> QED
  BY <1>1, CreationInitially, PTL DEF Spec

(* A record that has ended is left alone until the next job.                 *)
LEMMA CreationLeavesEnded == Spec => CreationEnded
<1> DEFINE Ended == entry.status \notin Running /\ makers' = makers => entry' = entry
<1>1. CreationInv /\ [Next]_vars => [Ended]_<<entry, makers>>
  <2> SUFFICES ASSUME CreationInv, [Next]_vars, entry.status \notin Running, makers' = makers PROVE entry' = entry
    OBVIOUS
  <2>1. \/ UNCHANGED creationVars \/ CreationNext(rotation = "none") \/ CreationRestarts
    BY DEF Next, vars, Deletion, Logins, Request, BeginGroup, GroupWorks, Creation, Credentials, ReadWebMail,
           DeleteAccount, Restart
  <2>2. maker \notin Making
    BY DEF CreationInv
  <2>3. makers' # makers + 1
    BY DEF CreationInv
  <2>4. [entry EXCEPT !.status = entry.status] = entry
    BY DEF CreationInv, Entries
  <2> QED
    BY <2>1, <2>2, <2>3, <2>4 DEF creationVars, CreationNext, StartCreation, BeginRound, Reserve, Probed, Cooled,
       CloseCreation, LeaveCreation, StopCreation, HaltsCreation, CreationRestarts, Making
<1> HIDE DEF Ended
<1>2. Spec => [][Ended]_<<entry, makers>>
  BY <1>1, CreationAlways, PTL DEF Spec
<1> QED
  BY <1>2 DEF CreationEnded, Ended

-----------------------------------------------------------------------------
(* Jobs that delete addresses. *)

Statuses == {"none", "queued", "running", "completed", "interrupted"}
Results == {"open", "deleted", "failed"}
Records == [status : Statuses, items : [Items -> Results]]
Reporting == {"waiting", "guarded", "begin", "works"}

JobTypes ==
    /\ call \in {"none", "checked"} /\ job \in Reporting \cup {"none", "last", "leaves"}
    /\ record \in Records /\ held \in Records
    /\ broken \in BOOLEAN /\ over \in BOOLEAN
    /\ audits \in [Items -> {0, 1}] /\ killed \subseteq Items

Lost(j) == {x \in killed : j.items[x] = "open"}    \* what is gone at Apple and open in j
AtMostOne(S) == \A a, b \in S : a = b
Suspect == IF pc \in {"idle", "end"} THEN {} ELSE {items[pos]}    \* what the group may have deleted unreported

(* The worker's copy and the row. A worker that still reports has the row to   *)
(* itself; once a save failed the copy may be behind the row, by one address. *)
CopyInv ==
    /\ call = "checked" => record.status = "none"
    /\ record.status = "none" => job = "none" /\ record = NoJob /\ killed = {} /\ audits = [a \in Items |-> 0]
    /\ job \in Reporting => record.status \in Unfinished /\ held.status \in Unfinished
    /\ \A a \in Items : (record.items[a] # "open" \/ held.items[a] # "open") => audits[a] = 1
    /\ job \in Reporting /\ ~broken => \A a \in Items : audits[a] = 1 => held.items[a] # "open"
    /\ job # "none" => \A a \in Items : held.items[a] # "open" => record.items[a] # "open"

(* What Apple has deleted for the job and neither of them says.               *)
LossInv ==
    /\ AtMostOne(Lost(record))
    /\ job # "none" => AtMostOne(Lost(held))
    /\ job = "works" /\ ~broken => Lost(held) \subseteq Suspect
    /\ job \in Reporting \ {"works"} => killed = {}

(* The group of a deletion job is that of its worker.                        *)
SceneInv ==
    /\ job = "works" /\ pc # "idle" => items = Selection
    /\ scene = "delete" /\ pc # "idle" => job = "works"
    /\ scene # "delete" => job = "none" /\ call = "none"

JobInv == JobTypes /\ CopyInv /\ LossInv /\ SceneInv

LEMMA JobInitially == Init => JobInv
<1> SUFFICES ASSUME Init PROVE JobInv
  OBVIOUS
<1>1. /\ call = "none" /\ job = "none" /\ record = NoJob /\ held = NoJob /\ broken = FALSE /\ over = FALSE
      /\ audits = [a \in Items |-> 0] /\ killed = {} /\ pc = "idle"
  BY DEF Init, JobInit, D!GroupInit
<1>2. NoJob \in Records /\ NoJob.status = "none" /\ \A a \in Items : NoJob.items[a] = "open"
  BY DEF NoJob, Nothing, Records, Statuses, Results
<1>3. JobTypes
  BY <1>1, <1>2 DEF JobTypes
<1> QED
  BY <1>1, <1>2, <1>3 DEF JobInv, CopyInv, LossInv, SceneInv, AtMostOne, Lost, Reporting

(* A save leaves what was to be saved, or what was there.                     *)
LEMMA SaveIs ==
    ASSUME NEW j, NEW ok \in BOOLEAN, Save(j, ok)
    PROVE  /\ record' \in {j, record}
           /\ record.status \notin Unfinished => record' = record
           /\ ok => record' = j
BY DEF Save, ReplacedBy

(* Results that are reported: those the copy has, and those the row has, which *)
(* are all of them unless a save failed.                                      *)
LEMMA ReportedIs ==
    ASSUME JobTypes, ~broken, record.status \in Unfinished, NEW verdict \in Results,
           NEW finished, DOMAIN finished = 1 .. Len(finished), Len(finished) \in Nat, Report(finished, verdict)
    PROVE  \E early, told \in SUBSET {finished[i] : i \in DOMAIN finished} :
             /\ early \subseteq told /\ \A a \in told : Unreported(a)
             /\ held' = [held EXCEPT !.items = With(held.items, early, verdict)]
             /\ record' = [held EXCEPT !.items = With(held.items, told, verdict)]
             /\ audits' = Counted(told) /\ broken' \in BOOLEAN
             /\ ~broken' => early = told /\ \A i \in DOMAIN finished : Unreported(finished[i]) => finished[i] \in early
<1> DEFINE new == {i \in DOMAIN finished : Unreported(finished[i])}
           First(k) == {finished[i] : i \in {j \in new : j <= k}}
           Copy(k) == [held EXCEPT !.items = With(held.items, First(k), verdict)]
<1>1. PICK k \in 0 .. Len(finished) :
          /\ held' = Copy(k) /\ broken' = (\E i \in new : i > k)
          /\ \E n \in k .. Len(finished) : record' = ReplacedBy(Copy(n)) /\ audits' = Counted(First(n))
  BY DEF Report
<1>2. PICK n \in k .. Len(finished) : record' = ReplacedBy(Copy(n)) /\ audits' = Counted(First(n))
  BY <1>1
<1>3. record' = Copy(n)
  BY <1>2 DEF ReplacedBy
<1>4. k \in Nat /\ n \in Nat /\ k <= n /\ \A i \in new : i \in Nat
  OBVIOUS
<1>5. First(k) \subseteq First(n) /\ First(n) \subseteq {finished[i] : i \in DOMAIN finished} /\ \A a \in First(n) : Unreported(a)
  BY <1>4
<1>6. ASSUME ~broken' PROVE First(k) = First(n) /\ \A i \in new : finished[i] \in First(k)
  <2>1. \A i \in new : i <= k
    BY <1>1, <1>4, <1>6
  <2> QED
    BY <1>4, <2>1
<1>7. broken' \in BOOLEAN
  BY <1>1
<1> QED
  BY <1>1, <1>2, <1>3, <1>5, <1>6, <1>7

(* What a worker that has nothing to do with a group does.                   *)
LEMMA OpenEntries ==
    ASSUME NEW r \in Records, NEW s \in Statuses
    PROVE  /\ [r EXCEPT !.status = s] \in Records /\ [r EXCEPT !.status = s].items = r.items
           /\ [r EXCEPT !.status = s].status = s /\ r.status \in Statuses
BY DEF Records

LEMMA EmptyRecord == NoJob \in Records /\ NoJob.status = "none" /\ \A a \in Items : NoJob.items[a] = "open"
BY DEF NoJob, Nothing, Records, Statuses, Results

LEMMA RequestKeepsJob ==
    ASSUME JobInv, CheckSelection \/ Admit \/ Guarded \/ Authorize \/ Last \/ LeavesJob \/ EndsEarly,
           UNCHANGED <<pc, items, pos, scene>>, scene = "delete"
    PROVE  JobInv'
<1> USE DEF JobInv, SceneInv, Reporting, Unfinished
<1>1. CASE CheckSelection
  BY <1>1 DEF CheckSelection, workerVars, recordVars, JobTypes, CopyInv, LossInv, Lost, AtMostOne, Suspect
<1>2. CASE Admit
  <2> DEFINE queued == [status |-> "queued", items |-> Nothing]
  <2>1. queued \in Records /\ queued.status = "queued" /\ \A a \in Items : queued.items[a] = "open"
    BY DEF Nothing, Records, Statuses, Results
  <2>2. /\ record = NoJob /\ job = "none" /\ killed = {} /\ audits = [a \in Items |-> 0] /\ call' = "none"
    BY <1>2 DEF Admit, CopyInv
  <2>3. /\ UNCHANGED <<audits, killed, broken, over>>
        /\ \/ record' = queued /\ job' = "waiting" /\ held' = queued
           \/ record' \in {record, queued} /\ UNCHANGED <<job, held>>
    BY <1>2 DEF Admit, workerVars, recordVars
  <2> HIDE DEF queued
  <2>4. JobTypes'
    BY <2>1, <2>2, <2>3 DEF JobTypes
  <2>5. CopyInv'
    BY <2>1, <2>2, <2>3, EmptyRecord DEF CopyInv
  <2>6. LossInv'
    BY <2>2, <2>3 DEF LossInv, Lost, AtMostOne
  <2> QED
    BY <2>2, <2>3, <2>4, <2>5, <2>6
<1>3. CASE Guarded
  <2>1. /\ job = "waiting" /\ job' \in {"last", "guarded"}
        /\ UNCHANGED <<call, held, broken, over, record, audits, killed>>
    BY <1>3 DEF Guarded, recordVars
  <2> QED
    BY <2>1 DEF JobTypes, CopyInv, LossInv, Lost, AtMostOne
<1>4. CASE Authorize
  <2>1. /\ job = "guarded" /\ job' \in {"begin", "last"} /\ UNCHANGED <<call, broken, over, audits, killed>>
        /\ \/ job' = "last" /\ UNCHANGED <<held, record>>
           \/ /\ held' = [held EXCEPT !.status = "running"]
              /\ record' \in {held', record}
    BY <1>4, SaveIs DEF Authorize
  <2>2. held \in Records /\ record \in Records
    BY DEF JobTypes
  <2>3. held' \in Records /\ held'.items = held.items /\ held'.status \in Unfinished
        /\ record' \in Records /\ record'.status \in Unfinished
        /\ record'.items \in {record.items, held.items}
    <3>1. record.status \in Unfinished /\ held.status \in Unfinished
      BY <2>1 DEF CopyInv
    <3>2. LET r == [held EXCEPT !.status = "running"] IN r \in Records /\ r.items = held.items /\ r.status = "running"
      BY <2>2 DEF Records, Statuses
    <3> QED
      BY <2>1, <2>2, <3>1, <3>2
  <2>4. JobTypes'
    BY <2>1, <2>3 DEF JobTypes
  <2>5. CopyInv'
    BY <2>1, <2>3 DEF CopyInv
  <2>6. LossInv'
    BY <2>1 DEF LossInv, Lost, AtMostOne
  <2> QED
    BY <2>1, <2>4, <2>5, <2>6
<1>5. CASE Last
  <2>1. /\ job = "last" /\ job' = "leaves" /\ UNCHANGED <<call, broken, over, audits, killed>>
        /\ held' = [held EXCEPT !.status = "interrupted"] /\ record' \in {held', record}
    BY <1>5, SaveIs DEF Last
  <2>2. held' \in Records /\ held'.items = held.items /\ held'.status = "interrupted"
    BY <2>1, OpenEntries DEF JobTypes, Statuses
  <2>3. record' \in Records /\ record'.items \in {record.items, held.items} /\ record'.status # "none"
    BY <2>1, <2>2 DEF JobTypes, CopyInv
  <2>4. JobTypes'
    BY <2>1, <2>2, <2>3 DEF JobTypes
  <2>5. CopyInv'
    BY <2>1, <2>2, <2>3 DEF CopyInv
  <2>6. LossInv'
    BY <2>1, <2>2, <2>3 DEF LossInv, Lost, AtMostOne
  <2> QED
    BY <2>1, <2>4, <2>5, <2>6
<1>6. CASE LeavesJob
  <2>1. /\ job = "leaves" /\ job' = "none" /\ held' = NoJob /\ broken' = FALSE /\ over' = FALSE
        /\ UNCHANGED <<call, record, audits, killed>>
    BY <1>6 DEF LeavesJob, recordVars
  <2>2. JobTypes'
    BY <2>1, EmptyRecord DEF JobTypes
  <2>3. CopyInv'
    BY <2>1, EmptyRecord DEF CopyInv
  <2> QED
    BY <2>1, <2>2, <2>3 DEF LossInv, Lost, AtMostOne
<1>7. CASE EndsEarly
  <2>1. over' = TRUE /\ UNCHANGED <<call, job, held, broken, record, audits, killed>>
    BY <1>7 DEF EndsEarly, recordVars
  <2> QED
    BY <2>1 DEF JobTypes, CopyInv, LossInv, Lost, AtMostOne, Suspect
<1> QED
  BY <1>1, <1>2, <1>3, <1>4, <1>5, <1>6, <1>7

LEMMA ReturnKeepsJob ==
    ASSUME JobInv, Return, pc = "idle", UNCHANGED <<pc, items, pos, scene>>, scene = "delete"
    PROVE  JobInv'
<1>1. PICK ok \in BOOLEAN, status \in {"completed", "interrupted"} :
          /\ Save([held EXCEPT !.status = status], ok)
          /\ held' = [held EXCEPT !.status = IF ok THEN status ELSE "running"]
          /\ job' = IF ok THEN "leaves" ELSE "last"
  BY DEF Return
<1>2. /\ job = "works" /\ UNCHANGED <<call, broken, over, killed>>
      /\ audits' = IF broken THEN audits ELSE Counted({a \in Items : Unreported(a)})
  BY DEF Return
<1>3. /\ held' \in Records /\ held'.items = held.items
      /\ record' \in Records /\ record'.items \in {record.items, held.items} /\ record'.status # "none"
  <2>1. held \in Records /\ record \in Records /\ record.status # "none"
    BY <1>2 DEF JobInv, JobTypes, CopyInv
  <2>2. record' \in {[held EXCEPT !.status = status], record}
    BY <1>1, SaveIs
  <2>3. \A t \in {"completed", "interrupted", "running"} :
           LET r == [held EXCEPT !.status = t] IN r \in Records /\ r.items = held.items /\ r.status # "none"
    BY <2>1 DEF Records, Statuses
  <2> QED
    BY <1>1, <2>1, <2>2, <2>3
<1>4. audits' \in [Items -> {0, 1}] /\ \A a \in Items : audits[a] = 1 => audits'[a] = 1
  <2>1. CASE broken
    BY <1>2, <2>1 DEF JobInv, JobTypes
  <2>2. CASE ~broken
    <3>1. \A a \in Items : audits[a] \in {0, 1} /\ (Unreported(a) => audits[a] = 0)
      BY <1>2, <2>2 DEF JobInv, JobTypes, CopyInv, Unreported, Reporting
    <3> QED
      BY <1>2, <2>2, <3>1 DEF Counted
  <2> QED
    BY <2>1, <2>2
<1>5. JobTypes'
  BY <1>1, <1>2, <1>3, <1>4 DEF JobInv, JobTypes
<1>6. CopyInv'
  BY <1>1, <1>2, <1>3, <1>4 DEF JobInv, CopyInv, Reporting
<1>7. LossInv'
  BY <1>1, <1>2, <1>3 DEF JobInv, LossInv, Lost, AtMostOne, Reporting
<1> QED
  BY <1>1, <1>2, <1>5, <1>6, <1>7 DEF JobInv, SceneInv

(* A step of a group: it ends, or it stays with its item or goes on to the next. *)
LEMMA WorkIs ==
    ASSUME SharedInv, DeletionInv, D!Work
    PROVE  /\ pc # "idle"
           /\ \/ pc \in {"away", "end"} /\ pc' = "idle"
              \/ /\ pc' # "idle" /\ pc # "end" /\ items' = items
                 /\ pos' = pos \/ pos' = pos + 1
<1>1. ASSUME pc # "idle", NEW d, D!Completed(d) PROVE pc' # "idle" /\ (pos' = pos \/ pos' = pos + 1)
  BY <1>1 DEF D!Completed
<1>2. CASE D!Enter
  BY <1>2 DEF D!Enter, SharedInv, Asking
<1>3. CASE D!End \/ D!Leave
  BY <1>3 DEF D!End, D!Leave, D!Forget
<1>4. CASE D!Start
  <2>1. /\ pc = "item" /\ items' = items
        /\ \/ D!Completed(dir)
           \/ pos' = pos /\ pc' \in {"validate", D!Looked(D!Item)}
    BY <1>4 DEF D!Start
  <2>2. items[pos] \in Alias
    BY <2>1, ItemIsAlias DEF DeletionInv
  <2> QED
    BY <1>1, <2>1, <2>2, LookedIs DEF DeletionInv, D!Item
<1>5. CASE D!Abandon \/ D!RemoveRow
  <2>1. pc # "idle" /\ pc # "end" /\ items' = items /\ D!Completed(dir)
    BY <1>5 DEF D!Abandon, D!RemoveRow, D!Sends, D!Reads
  <2> QED
    BY <1>1, <2>1
<1>6. CASE D!Pause
  BY <1>6 DEF D!Pause, D!GoAway, D!Sends, D!Reads
<1>7. CASE D!Request
  <2>1. pc \in Asking /\ items' = items
    BY <1>7 DEF D!Request, D!Sends, D!Reads, Asking
  <2>2. PICK answer, saved, hint : IF answer = "ok" THEN D!Answered(saved) ELSE D!Failed(answer, saved, hint)
    BY <1>7 DEF D!Request
  <2>3. \/ D!Completed(dir')
        \/ pos' = pos /\ pc' \in {"away", "confirmOff", "confirmGone"}
        \/ pos' = pos /\ pc' \in {"list", "gone", "local", D!After(dir[D!Item])}
    BY <2>1, <2>2 DEF D!Answered, D!Failed, D!GoAway, D!Confirming, Asking, D!Reads
  <2> QED
    BY <1>1, <2>1, <2>3, AfterIs DEF Asking
<1> QED
  BY <1>2, <1>3, <1>4, <1>5, <1>6, <1>7 DEF D!Work

(* Whenever the group leaves an item, its result is among those reported.      *)
LEMMA FinishedIs ==
    ASSUME SharedInv, DeletionInv, D!Work
    PROVE  /\ Len(Finished) \in Nat /\ DOMAIN Finished = 1 .. Len(Finished)
           /\ \/ Suspect = {} \/ Suspect' = Suspect
              \/ \E i \in DOMAIN Finished : Finished[i] = items[pos]
<1>1. pc # "idle" /\ pos \in 1 .. Len(items) /\ items \in Seq(Alias) /\ items[pos] \in Alias
  BY WorkIs, ItemIsAlias DEF DeletionInv, DeletionTypes
<1>2. CASE pc = "away" /\ pc' = "idle"
  <2>1. Finished = SubSeq(items, pos, Len(items))
    BY <1>2 DEF Finished
  <2>2. /\ SubSeq(items, pos, Len(items)) \in Seq(Alias)
        /\ Len(SubSeq(items, pos, Len(items))) >= 1
        /\ SubSeq(items, pos, Len(items))[1] = items[pos]
    BY <1>1
  <2> QED
    BY <2>1, <2>2
<1>3. CASE pc = "end" /\ pc' = "idle"
  <2>1. Suspect = {}
    BY <1>3 DEF Suspect
  <2>2. Finished = <<>> \/ Finished = <<items[pos]>>
    BY <1>3 DEF Finished
  <2> QED
    BY <2>1, <2>2
<1>4. CASE pc' # "idle" /\ pc # "end" /\ items' = items /\ (pos' > pos \/ pc' = "end")
  <2>1. Finished = <<items[pos]>>
    BY <1>4 DEF Finished
  <2> QED
    BY <2>1
<1>5. CASE pc' # "idle" /\ pc # "end" /\ items' = items /\ pos' = pos /\ pc' # "end"
  <2>1. Finished = <<>>
    BY <1>1, <1>5 DEF Finished
  <2>2. Suspect' = Suspect
    BY <1>1, <1>5 DEF Suspect
  <2> QED
    BY <2>1, <2>2
<1> QED
  BY <1>1, <1>2, <1>3, <1>4, <1>5, WorkIs

(* What has been deleted at Apple, once the results of this step are reported. *)
LEMMA WorksKeepsJob ==
    ASSUME SharedInv, DeletionInv, JobInv, job = "works", scene = "delete", D!Work,
           Halts /\ pc # "end" => cancelled, Report(Finished, Result),
           killed' = killed \cup {a \in Items : pc = "gone" /\ dir'[a] # dir[a]},
           UNCHANGED <<call, job, over, scene>>
    PROVE  JobInv'
<1> DEFINE Unsaid == {x \in killed' : held.items[x] = "open"}
<1>1. /\ killed' \subseteq Items /\ killed' \subseteq killed \cup Suspect
      /\ broken => killed' = killed
  <2>1. Items \subseteq Alias
    BY JobConstants DEF Items
  <2>2. CASE pc # "gone"
    BY <2>2 DEF JobInv, JobTypes
  <2>3. CASE pc = "gone"
    <3>1. Suspect = {items[pos]}
      BY <2>3 DEF Suspect
    <3>2. dir' = dir \/ (~D!Blocked(items[pos]) /\ \A b \in Alias \ {items[pos]} : dir'[b] = dir[b])
      BY <2>3, WorkKills
    <3>3. broken => dir' = dir
      BY <2>3, <3>2 DEF Halts, D!Blocked
    <3> QED
      BY <2>1, <2>3, <3>1, <3>2, <3>3 DEF JobInv, JobTypes
  <2> QED
    BY <2>2, <2>3
<1>2. /\ record.status \in Unfinished /\ record.status # "none" /\ record \in Records /\ held \in Records
      /\ call # "checked" /\ broken \in BOOLEAN /\ audits \in [Items -> {0, 1}] /\ held.status \in Unfinished
  BY DEF JobInv, JobTypes, CopyInv, Reporting, Unfinished
<1>3. SceneInv'
  BY WorkIs DEF JobInv, SceneInv
<1>4. CASE broken
  <2>1. UNCHANGED <<record, held, audits, broken, killed>>
    BY <1>1, <1>4 DEF Report
  <2>2. JobTypes' /\ CopyInv'
    BY <2>1 DEF JobInv, JobTypes, CopyInv
  <2>3. LossInv'
    BY <1>4, <2>1 DEF JobInv, LossInv, Lost, AtMostOne
  <2> QED
    BY <1>3, <2>2, <2>3 DEF JobInv
<1>5. CASE ~broken
  <2>1. Result \in Results /\ Result # "open"
    BY DEF Result, Results
  <2>2. PICK early, told \in SUBSET {Finished[i] : i \in DOMAIN Finished} :
             /\ early \subseteq told /\ \A a \in told : Unreported(a)
             /\ held' = [held EXCEPT !.items = With(held.items, early, Result)]
             /\ record' = [held EXCEPT !.items = With(held.items, told, Result)]
             /\ audits' = Counted(told) /\ broken' \in BOOLEAN
             /\ ~broken' => early = told /\ \A i \in DOMAIN Finished : Unreported(Finished[i]) => Finished[i] \in early
    BY <1>2, <1>5, <2>1, FinishedIs, ReportedIs DEF JobInv
  <2>3. /\ held' \in Records /\ held'.status = held.status
        /\ \A a \in Items : held'.items[a] = IF a \in early THEN Result ELSE held.items[a]
    BY <1>2, <2>1, <2>2 DEF Records, With
  <2>4. /\ record' \in Records /\ record'.status = held.status
        /\ \A a \in Items : record'.items[a] = IF a \in told THEN Result ELSE held.items[a]
    BY <1>2, <2>1, <2>2 DEF Records, With
  <2>5. \A a \in Items : /\ audits[a] \in {0, 1} /\ (held.items[a] = "open" <=> audits[a] = 0)
                         /\ (a \in told => held.items[a] = "open")
    BY <1>2, <1>5, <2>2 DEF JobInv, CopyInv, Reporting, Unreported
  <2>6. audits' \in [Items -> {0, 1}] /\ \A a \in Items : audits'[a] = IF a \in told THEN 1 ELSE audits[a]
    BY <2>2, <2>5 DEF Counted
  <2>7. JobTypes'
    BY <1>1, <2>2, <2>3, <2>4, <2>6 DEF JobInv, JobTypes
  <2>8. CopyInv'
    <3>1. \A a \in Items : (record'.items[a] # "open" \/ held'.items[a] # "open") => audits'[a] = 1
      BY <2>1, <2>2, <2>3, <2>4, <2>5, <2>6
    <3>2. ~broken' => \A a \in Items : audits'[a] = 1 => held'.items[a] # "open"
      BY <2>1, <2>2, <2>3, <2>5, <2>6
    <3>3. \A a \in Items : held'.items[a] # "open" => record'.items[a] # "open"
      BY <2>1, <2>2, <2>3, <2>4
    <3> QED
      BY <1>2, <2>3, <2>4, <3>1, <3>2, <3>3 DEF CopyInv, Unfinished
  <2>9. Unsaid \subseteq Suspect
    BY <1>1, <1>5 DEF JobInv, LossInv, Lost
  <2>10. Lost(held)' \subseteq Unsaid \ early /\ Lost(record)' \subseteq Unsaid
    BY <1>1, <2>1, <2>2, <2>3, <2>4 DEF Lost
  <2>11. AtMostOne(Lost(held)') /\ AtMostOne(Lost(record)')
    BY <2>9, <2>10 DEF Suspect, AtMostOne
  <2>12. ~broken' => Lost(held)' \subseteq Suspect'
    <3>1. CASE Suspect = {} \/ Suspect' = Suspect
      BY <2>9, <2>10, <3>1
    <3>2. CASE \E i \in DOMAIN Finished : Finished[i] = items[pos]
      <4>1. ~broken' /\ Unreported(items[pos]) => items[pos] \in early
        BY <2>2, <3>2
      <4> QED
        BY <2>9, <2>10, <4>1 DEF Suspect, Unreported
    <3> QED
      BY <3>1, <3>2, FinishedIs
  <2>13. LossInv'
    BY <2>11, <2>12 DEF LossInv, AtMostOne, Reporting
  <2> QED
    BY <1>3, <2>7, <2>8, <2>13 DEF JobInv
<1> QED
  BY <1>2, <1>4, <1>5

(* What others do with the account is nothing to the job.                     *)
LEMMA OthersKeepJob ==
    ASSUME JobInv, UNCHANGED <<call, job, record, held, broken, over, audits, killed, scene>>,
           \/ UNCHANGED <<pc, items, pos>>
           \/ scene # "delete"
           \/ job \in Reporting \ {"works"}
    PROVE  JobTypes' /\ CopyInv' /\ LossInv'
<1>1. job = "works" => UNCHANGED <<pc, items, pos>>
  BY DEF JobInv, SceneInv
<1> QED
  BY <1>1 DEF JobInv, JobTypes, CopyInv, LossInv, Lost, AtMostOne, Suspect

LEMMA JobStep == SharedInv /\ DeletionInv /\ JobInv /\ [Next]_vars => JobInv'
<1> SUFFICES ASSUME SharedInv, DeletionInv, JobInv, [Next]_vars PROVE JobInv'
  OBVIOUS
<1>1. UNCHANGED scene
  BY DEF Next, vars
<1>2. CASE UNCHANGED vars
  BY <1>2, OthersKeepJob DEF vars, jobVars, workerVars, recordVars, deletionVars, JobInv, SceneInv
<1>3. CASE (Deletion \/ Logins \/ ReadWebMail \/ DeleteAccount) /\ (scene # "delete" \/ UNCHANGED <<pc, items, pos>>)
  <2>1. UNCHANGED <<call, job, record, held, broken, over, audits, killed>>
    BY <1>3 DEF Deletion, Logins, ReadWebMail, DeleteAccount, jobVars, workerVars, recordVars
  <2> QED
    BY <1>1, <1>3, <2>1, OthersKeepJob DEF JobInv, SceneInv
<1>4. CASE Deletion \/ Logins \/ ReadWebMail \/ DeleteAccount
  BY <1>3, <1>4 DEF Deletion, Logins, ReadWebMail, DeleteAccount, D!DeleteAccount, D!group
<1>5. CASE Creation \/ Credentials
  <2>1. UNCHANGED <<call, job, record, held, broken, over, audits, killed, pc, items, pos>>
    BY <1>5 DEF Creation, Credentials, Rotation, BeginRotation, HoldRotation, EndRotation, SessionEnds,
                AdministratorReturns, jobVars, workerVars, recordVars, deletionVars
  <2> QED
    BY <1>1, <2>1, OthersKeepJob DEF JobInv, SceneInv
<1>6. CASE Request
  <2>1. scene = "delete" /\ UNCHANGED <<pc, items, pos>>
    BY <1>6 DEF Request, deletionVars
  <2> QED
    BY <1>1, <1>6, <2>1, RequestKeepsJob, ReturnKeepsJob DEF Request, WorkerSteps
<1>7. CASE BeginGroup
  <2>1. /\ job = "begin" /\ job' = "works" /\ scene = "delete" /\ items' = Selection
        /\ UNCHANGED <<call, record, held, broken, over, audits, killed>>
    BY <1>7 DEF BeginGroup, D!Begin, recordVars
  <2> QED
    BY <1>1, <2>1 DEF JobInv, JobTypes, CopyInv, LossInv, SceneInv, Reporting, Lost, AtMostOne
<1>8. CASE GroupWorks
  <2>1. scene = "delete" /\ job = "works" /\ UNCHANGED <<call, job, over>>
    BY <1>8 DEF GroupWorks
  <2>2. CASE D!Cancel /\ UNCHANGED <<held, broken, recordVars>>
    <3>1. UNCHANGED <<pc, items, pos, record, audits, killed>>
      BY <2>2 DEF D!Cancel, recordVars
    <3> QED
      BY <1>1, <2>1, <2>2, <3>1, OthersKeepJob DEF JobInv, SceneInv
  <2>3. CASE /\ Halts /\ pc # "end" => cancelled
             /\ D!Work /\ Report(Finished, Result)
             /\ killed' = killed \cup {a \in Items : pc = "gone" /\ dir'[a] # dir[a]}
    BY <1>1, <2>1, <2>3, WorksKeepsJob
  <2> QED
    BY <1>8, <2>2, <2>3 DEF GroupWorks
<1>9. CASE Restart
  <2>1. /\ call' = "none" /\ job' = "none" /\ held' = NoJob /\ broken' = FALSE /\ over' = FALSE
        /\ record' = Interrupted /\ UNCHANGED <<audits, killed>> /\ pc' = "idle"
    BY <1>9 DEF Restart, JobRestarts, D!Crashed, D!Forget
  <2>2. /\ Interrupted \in Records /\ Interrupted.items = record.items
        /\ record.status \notin Unfinished => Interrupted = record
        /\ record.status \in Unfinished => Interrupted.status = "interrupted"
    BY DEF Interrupted, JobInv, JobTypes, Records, Statuses
  <2>3. JobTypes'
    BY <2>1, <2>2, EmptyRecord DEF JobInv, JobTypes
  <2>4. CopyInv'
    BY <2>1, <2>2, EmptyRecord DEF JobInv, CopyInv, Reporting
  <2>5. LossInv' /\ SceneInv'
    BY <2>1, <2>2 DEF JobInv, LossInv, SceneInv, Lost, AtMostOne, Reporting
  <2> QED
    BY <2>3, <2>4, <2>5 DEF JobInv
<1> QED
  BY <1>2, <1>4, <1>5, <1>6, <1>7, <1>8, <1>9 DEF Next

LEMMA JobAlways == Spec => [](SharedInv /\ DeletionInv /\ JobInv)
BY DeletionAlways, JobInitially, JobStep, PTL DEF Spec

(* Every result in the record of a job has exactly one audit event, whatever   *)
(* saves fail, are done all the same or are repeated                         *)
(* (admin_alias_delete_jobs.go:497).                                         *)
THEOREM JobResultsAudited == Spec => []ResultsAudited
<1>1. JobInv => ResultsAudited
  <2> SUFFICES ASSUME JobInv, NEW a \in Items PROVE audits[a] <= 1 /\ (record.items[a] # "open" => audits[a] = 1)
    BY DEF ResultsAudited
  <2>1. audits[a] \in {0, 1}
    BY DEF JobInv, JobTypes
  <2> QED
    BY <2>1 DEF JobInv, CopyInv
<1> QED
  BY <1>1, JobAlways, PTL

(* A deletion job's record lacks at most one of the addresses it has deleted,    *)
(* and a creation job's record, beside the addresses that plain limits hid, at   *)
(* most one of those it has made, whatever fails and whenever the process dies  *)
(* (admin_alias_delete_jobs.go:530, alias_creation_jobs.go:271).              *)
THEOREM JobLossesExplained == Spec => []LossesExplained
<1>1. JobInv => OneUnrecorded
  BY DEF JobInv, LossInv, AtMostOne, Lost, OneUnrecorded
<1>2. CreationInv => MissingExplained
  BY DEF CreationInv, MissingExplained
<1>3. JobInv /\ CreationInv => LossesExplained
  BY <1>1, <1>2 DEF LossesExplained
<1> QED
  BY <1>3, JobAlways, CreationAlways, PTL

(* A record that says a deletion job has ended is not written again.          *)
LEMMA DeletionLeavesEnded == Spec => EndedForGood
<1> DEFINE Ended == record.status \in {"completed", "interrupted"} => record' = record
<1>1. JobInv /\ [Next]_vars => [Ended]_record
  <2> SUFFICES ASSUME JobInv, [Next]_vars, record.status \in {"completed", "interrupted"} PROVE record' = record
    OBVIOUS
  <2>1. job \notin Reporting /\ call # "checked"
    BY DEF JobInv, CopyInv, Unfinished
  <2>2. CASE UNCHANGED vars
    BY <2>2 DEF vars, jobVars, recordVars
  <2>3. CASE Deletion \/ Logins \/ ReadWebMail \/ DeleteAccount \/ Creation
    BY <2>3 DEF Deletion, Logins, ReadWebMail, DeleteAccount, Creation, jobVars, recordVars
  <2>4. CASE Credentials
    BY <2>4 DEF Credentials, Rotation, BeginRotation, HoldRotation, EndRotation, SessionEnds, AdministratorReturns,
                recordVars
  <2>5. CASE Request
    <3>1. CASE Last
      BY <3>1, SaveIs DEF Last, Unfinished
    <3> QED
      BY <2>1, <2>5, <3>1 DEF Request, CheckSelection, Admit, WorkerSteps, Guarded, Authorize, LeavesJob, EndsEarly,
                              Return, Reporting, recordVars
  <2>6. CASE BeginGroup \/ GroupWorks
    BY <2>1, <2>6 DEF BeginGroup, GroupWorks, Reporting
  <2>7. CASE Restart
    BY <2>7 DEF Restart, JobRestarts, Interrupted, Unfinished, JobInv, JobTypes, Records
  <2> QED
    BY <2>2, <2>3, <2>4, <2>5, <2>6, <2>7 DEF Next
<1> HIDE DEF Ended
<1>2. Spec => [][Ended]_record
  BY <1>1, JobAlways, PTL DEF Spec
<1> QED
  BY <1>2 DEF EndedForGood, Ended

(* The record of a job that has ended stays as it is, whatever a finalizer, a  *)
(* worker or a late stop does (store/alias_deletion_job.go:107,               *)
(* store/alias_creation_jobs.go:84).                                         *)
THEOREM EndedJobsAreLeftAlone == Spec => JobsEndForGood
BY DeletionLeavesEnded, CreationLeavesEnded DEF JobsEndForGood
=============================================================================
