------------------------- MODULE SyncManagerProofs --------------------------
(***************************************************************************)
(* First the lock map of AccountLocks alone: it is exclusive and           *)
(* implements LockService, for any number of callers, keys and lock        *)
(* objects. Then the manager: it uses its locks by their operations only,  *)
(* so that this holds of it for any number of accounts and callers; a stop *)
(* leaves no job, and what is shown as running is still to be finished.    *)
(***************************************************************************)
EXTENDS SyncManager, FiniteSetTheorems, TLAPS

-----------------------------------------------------------------------------
(* What a step does to the users of a lock object. *)

LEMMA UsersFinite ==
    ASSUME NEW l
    PROVE  IsFiniteSet(Users(l)) /\ Cardinality(Users(l)) \in Nat
<1>1. IsFiniteSet(Users(l))
  BY LockConstants, FS_Subset, Users(l) \subseteq Proc DEF Users
<1> QED
  BY <1>1, FS_CardinalityType

(* A caller that comes adds itself to one object and leaves no other. *)
LEMMA UsersComing ==
    ASSUME LocksTypeOK, NEW p \in Proc, use[p] = "none", NEW l \in Lock, NEW s \in Uses \ {"none"},
           use' = [use EXCEPT ![p] = s], at' = [at EXCEPT ![p] = l]
    PROVE  /\ p \notin Users(l)
           /\ Users(l)' = Users(l) \cup {p}
           /\ \A m \in Lock \ {l} : Users(m)' = Users(m)
BY DEF LocksTypeOK, Users, Uses

(* A caller that leaves takes itself from its object. *)
LEMMA UsersLeaving ==
    ASSUME LocksTypeOK, NEW p \in Proc, use[p] # "none", at[p] \in Lock, Drop(p)
    PROVE  /\ p \in Users(at[p])
           /\ \A m \in Lock : Users(m)' = IF m = at[p] THEN Users(m) \ {p} ELSE Users(m)
BY LockConstants DEF LocksTypeOK, Users, Uses, Drop

(* The object that is allocated is out of everybody's reach. *)
LEMMA NewUnreachable ==
    CanAllocate => New \in Lock /\ Unreachable(New)
BY DEF CanAllocate, New

-----------------------------------------------------------------------------
(* The invariant is inductive: one lemma per kind of step. *)

LEMMA LocksInitially == LocksInit => LocksInv
<1> SUFFICES ASSUME LocksInit PROVE LocksInv
  OBVIOUS
<1>1. \A l \in Lock : Users(l) = {}
  BY DEF LocksInit, Users
<1>2. LocksTypeOK
  BY DEF LocksInit, LocksTypeOK, Uses
<1>3. Counted
  BY <1>1, FS_EmptySet DEF Counted, LocksInit
<1>4. Reached /\ Separate /\ Tokens
  BY LockConstants DEF LocksInit, Reached, Separate, Tokens
<1> QED
  BY <1>2, <1>3, <1>4 DEF LocksInv

LEMMA AllocateKeeps ==
    ASSUME LocksInv, NEW p \in Proc, NEW k \in Key, use[p] = "none",
           NEW s, NEW t, (s = "wait" /\ t = None) \/ (s = "hold" /\ t = p), Allocate(p, k, s, t)
    PROVE  LocksInv'
<1>0. PICK n \in Lock : n = New /\ Unreachable(n)
  BY NewUnreachable DEF Allocate
<1>1. Users(n) = {} /\ \A j \in Key : entry[j] # n
  BY <1>0 DEF Unreachable
<1>a. /\ entry[k] = None /\ entry' = [entry EXCEPT ![k] = n] /\ refs' = [refs EXCEPT ![n] = 1]
      /\ token' = [token EXCEPT ![n] = t] /\ at' = [at EXCEPT ![p] = n]
      /\ use' = [use EXCEPT ![p] = s] /\ want' = [want EXCEPT ![p] = k]
  BY <1>0 DEF Allocate
<1>2. LocksTypeOK'
  BY <1>1, <1>a DEF LocksInv, LocksTypeOK, Uses
<1>3. Users(n)' = {p} /\ \A m \in Lock \ {n} : Users(m)' = Users(m)
  <2>1. /\ LocksTypeOK /\ s \in Uses \ {"none"}
        /\ use' = [use EXCEPT ![p] = s] /\ at' = [at EXCEPT ![p] = n]
    BY <1>a DEF LocksInv, Uses
  <2>2. Users(n)' = Users(n) \cup {p} /\ \A m \in Lock \ {n} : Users(m)' = Users(m)
    BY <1>1, <2>1, UsersComing
  <2> QED
    BY <1>1, <2>2
<1>4. Counted'
  <2> SUFFICES ASSUME NEW l \in Lock PROVE refs'[l] = Cardinality(Users(l)')
    BY DEF Counted
  <2>1. CASE l = n
    <3>1. refs'[n] = 1
      BY <1>1, <1>a DEF LocksInv, LocksTypeOK
    <3>2. Cardinality({p}) = 1
      BY FS_Singleton
    <3> QED
      BY <1>3, <2>1, <3>1, <3>2
  <2>2. CASE l # n
    BY <1>a, <1>3, <2>2 DEF LocksInv, LocksTypeOK, Counted
  <2> QED
    BY <2>1, <2>2
<1>5. Reached'
  <2> SUFFICES ASSUME NEW q \in Proc, use'[q] # "none"
               PROVE  at'[q] \in Lock /\ entry'[want'[q]] = at'[q]
    BY DEF Reached
  <2>1. CASE q = p
    BY <1>1, <1>a, <2>1 DEF LocksInv, LocksTypeOK
  <2>2. CASE q # p
    <3>1. use[q] # "none" /\ want'[q] = want[q] /\ at'[q] = at[q]
      BY <1>a, <2>2 DEF LocksInv, LocksTypeOK
    <3>2. at[q] \in Lock /\ entry[want[q]] = at[q] /\ want[q] # k
      BY <1>a, <3>1, LockConstants DEF LocksInv, Reached
    <3> QED
      BY <1>a, <3>1, <3>2 DEF LocksInv, LocksTypeOK
  <2> QED
    BY <2>1, <2>2
<1>6. Separate'
  BY <1>1, <1>a DEF LocksInv, LocksTypeOK, Separate
<1>7. Tokens'
  <2> SUFFICES ASSUME NEW q \in Proc, NEW l \in Lock
               PROVE  token'[l] = q <=> use'[q] = "hold" /\ at'[q] = l
    BY DEF Tokens
  <2>1. token[l] = q <=> use[q] = "hold" /\ at[q] = l
    BY DEF LocksInv, Tokens
  <2>2. ~(use[q] = "hold" /\ at[q] = n)
    BY <1>1, <1>a DEF Users
  <2> QED
    BY <1>1, <2>1, <2>2, <1>a, LockConstants DEF LocksInv, LocksTypeOK
<1> QED
  BY <1>2, <1>4, <1>5, <1>6, <1>7 DEF LocksInv

LEMMA JoinKeeps ==
    ASSUME LocksInv, NEW p \in Proc, NEW k \in Key, use[p] = "none", Join(p, k)
    PROVE  LocksInv'
<1>1. PICK n \in Lock : n = entry[k]
  BY DEF LocksInv, LocksTypeOK, Join
<1>2. LocksTypeOK'
  BY <1>1 DEF LocksInv, LocksTypeOK, Join, Uses
<1>3. /\ p \notin Users(n)
      /\ Users(n)' = Users(n) \cup {p}
      /\ \A m \in Lock \ {n} : Users(m)' = Users(m)
  BY <1>1, UsersComing DEF LocksInv, Join, Uses
<1>4. Counted'
  <2> SUFFICES ASSUME NEW l \in Lock PROVE refs'[l] = Cardinality(Users(l)')
    BY DEF Counted
  <2>1. CASE l = n
    <3>1. refs'[l] = refs[l] + 1 /\ refs[l] = Cardinality(Users(l))
      BY <1>1, <2>1 DEF LocksInv, LocksTypeOK, Counted, Join
    <3>2. Cardinality(Users(l) \cup {p}) = Cardinality(Users(l)) + 1
      BY <1>1, <1>3, <2>1, UsersFinite, FS_AddElement
    <3> QED
      BY <1>3, <2>1, <3>1, <3>2
  <2>2. CASE l # n
    BY <1>1, <1>3, <2>2 DEF LocksInv, LocksTypeOK, Counted, Join
  <2> QED
    BY <2>1, <2>2
<1>5. Reached' /\ Separate'
  BY <1>1 DEF LocksInv, LocksTypeOK, Reached, Separate, Join
<1>6. Tokens'
  BY <1>1 DEF LocksInv, LocksTypeOK, Tokens, Join
<1> QED
  BY <1>2, <1>4, <1>5, <1>6 DEF LocksInv

LEMMA DropKeeps ==
    ASSUME LocksInv, NEW p \in Proc, use[p] \in {"wait", "left"}, Drop(p)
    PROVE  LocksInv'
<1>1. at[p] \in Lock /\ entry[want[p]] = at[p] /\ want[p] \in Key
  BY DEF LocksInv, LocksTypeOK, Reached
<1>2. LocksTypeOK'
  <2>1. refs[at[p]] \in Nat /\ refs[at[p]] # 0
    <3>1. Users(at[p]) # {} /\ IsFiniteSet(Users(at[p]))
      BY UsersFinite DEF Users
    <3> QED
      BY <1>1, <3>1, FS_EmptySet DEF LocksInv, LocksTypeOK, Counted
  <2> QED
    BY <1>1, <2>1 DEF LocksInv, LocksTypeOK, Drop, Uses
<1>3. /\ p \in Users(at[p])
      /\ \A m \in Lock : Users(m)' = IF m = at[p] THEN Users(m) \ {p} ELSE Users(m)
  BY <1>1, UsersLeaving DEF LocksInv
<1>4. Counted'
  <2> SUFFICES ASSUME NEW l \in Lock PROVE refs'[l] = Cardinality(Users(l)')
    BY DEF Counted
  <2>1. CASE l = at[p]
    BY <1>3, <2>1, UsersFinite, FS_RemoveElement DEF LocksInv, LocksTypeOK, Counted, Drop
  <2>2. CASE l # at[p]
    BY <1>3, <2>2 DEF LocksInv, LocksTypeOK, Counted, Drop
  <2> QED
    BY <2>1, <2>2
<1>5. Reached'
  <2> SUFFICES ASSUME NEW q \in Proc, use'[q] # "none"
               PROVE  at'[q] \in Lock /\ entry'[want'[q]] = at'[q]
    BY DEF Reached
  <2>1. q # p /\ use[q] # "none" /\ at'[q] = at[q] /\ want' = want
    BY DEF LocksInv, LocksTypeOK, Drop
  <2>2. at[q] \in Lock /\ entry[want[q]] = at[q] /\ want[q] \in Key
    BY <2>1 DEF LocksInv, LocksTypeOK, Reached
  <2>3. ~Unused(at[p]) \/ at[q] # at[p]
    <3> SUFFICES ASSUME at[q] = at[p], refs[at[p]] = 1 PROVE FALSE
      BY DEF Unused
    <3>1. Cardinality(Users(at[p]) \ {p}) = 0 /\ IsFiniteSet(Users(at[p]) \ {p})
      BY <1>1, <1>3, UsersFinite, FS_RemoveElement DEF LocksInv, Counted
    <3>2. q \in Users(at[p]) \ {p}
      BY <2>1 DEF Users
    <3> QED
      BY <3>1, <3>2, FS_EmptySet
  <2>4. ~(want[q] = want[p] /\ Unused(at[p]))
    BY <1>1, <2>2, <2>3
  <2> QED
    BY <2>1, <2>2, <2>4 DEF Drop
<1>6. Separate'
  BY LockConstants DEF LocksInv, LocksTypeOK, Separate, Drop
<1>7. Tokens'
  BY LockConstants DEF LocksInv, LocksTypeOK, Tokens, Drop
<1> QED
  BY <1>2, <1>4, <1>5, <1>6, <1>7 DEF LocksInv

LEMMA TokenKeeps ==
    ASSUME LocksInv, NEW p \in Proc, Take(p) \/ Unlock(p)
    PROVE  LocksInv'
<1>1. use[p] \in {"wait", "hold"} /\ at[p] \in Lock /\ use' \in [Proc -> Uses] /\ use'[p] # "none"
  BY DEF LocksInv, LocksTypeOK, Reached, Take, Unlock, Uses
<1>2. \A q \in Proc : use'[q] # "none" <=> use[q] # "none"
  BY <1>1 DEF LocksInv, LocksTypeOK, Take, Unlock
<1>3. LocksTypeOK'
  BY <1>1 DEF LocksInv, LocksTypeOK, Take, Unlock
<1>4. \A l \in Lock : Users(l)' = Users(l)
  BY <1>2 DEF Users, Take, Unlock
<1>5. Counted' /\ Reached' /\ Separate'
  BY <1>2, <1>4 DEF LocksInv, Counted, Reached, Separate, Take, Unlock
<1>6. Tokens'
  BY <1>1, LockConstants DEF LocksInv, LocksTypeOK, Tokens, Take, Unlock, Uses
<1> QED
  BY <1>3, <1>5, <1>6 DEF LocksInv

LEMMA LocksStep == LocksInv /\ [LocksNext]_lockVars => LocksInv'
<1> SUFFICES ASSUME LocksInv, [LocksNext]_lockVars PROVE LocksInv'
  OBVIOUS
<1>1. ASSUME NEW p \in Proc, NEW k \in Key, Enter(p, k) \/ Try(p, k) PROVE LocksInv'
  BY <1>1, AllocateKeeps, JoinKeeps DEF Enter, Try
<1>2. ASSUME NEW p \in Proc, Take(p) \/ Unlock(p) PROVE LocksInv'
  BY <1>2, TokenKeeps
<1>3. ASSUME NEW p \in Proc, GiveUp(p) \/ Leave(p) PROVE LocksInv'
  BY <1>3, DropKeeps DEF GiveUp, Leave
<1>4. CASE UNCHANGED lockVars
  BY <1>4 DEF lockVars, LocksInv, LocksTypeOK, Counted, Reached, Separate, Tokens, Users
<1> QED
  BY <1>1, <1>2, <1>3, <1>4 DEF LocksNext

(* The references of a lock object count its users, and the map leads every  *)
(* user of a key to the same object (acquireKeyedAccountUntil,               *)
(* releaseAccountLock).                                                      *)
THEOREM LocksInvariant == LocksSpec => []LocksInv
BY LocksInitially, LocksStep, PTL DEF LocksSpec

-----------------------------------------------------------------------------
LEMMA InvExclusive == LocksInv => Exclusive
BY DEF LocksInv, LocksTypeOK, Reached, Tokens, Exclusive

(* Two callers never hold the lock of one account at a time                  *)
(* (tryAcquireKeyedAccount, acquireKeyedAccountUntil, accountLockRelease).   *)
THEOREM LocksExclusive == LocksSpec => []Exclusive
BY LocksInvariant, InvExclusive, PTL

-----------------------------------------------------------------------------
(* The refinement: every step of the map is one of the service, or none.    *)

LEMMA HoldersInit == LocksInit => Service!Init
BY DEF LocksInit, Service!Init, Holders

LEMMA TakeServes ==
    ASSUME LocksInv, NEW p \in Proc, Take(p)
    PROVE  Service!Next
<1>1. want[p] \in Key /\ at[p] \in Lock /\ entry[want[p]] = at[p] /\ use[p] = "wait"
  BY DEF LocksInv, LocksTypeOK, Reached, Take
<1>2. \A q \in Proc : ~(use[q] = "hold" /\ want[q] = want[p])
  BY <1>1, LockConstants DEF LocksInv, Reached, Tokens, Take
<1>3. \A q \in Proc : use'[q] = (IF q = p THEN "hold" ELSE use[q]) /\ want'[q] = want[q]
  BY DEF LocksInv, LocksTypeOK, Take
<1>4. Service!Acquire(p, want[p])
  BY <1>1, <1>2, <1>3 DEF Service!Acquire, Service!OthersKept, Holders
<1> QED
  BY <1>1, <1>4 DEF Service!Next

LEMMA TryServes ==
    ASSUME LocksInv, NEW p \in Proc, NEW k \in Key, Try(p, k)
    PROVE  Service!Next
<1>1. \A q \in Proc : ~(use[q] = "hold" /\ want[q] = k)
  BY LockConstants DEF LocksInv, Reached, Try, Allocate
<1>2. \A q \in Proc : /\ use'[q] = (IF q = p THEN "hold" ELSE use[q])
                      /\ want'[q] = (IF q = p THEN k ELSE want[q])
  BY DEF LocksInv, LocksTypeOK, Try, Allocate
<1>3. use[p] # "hold"
  BY DEF Try
<1>4. Service!Acquire(p, k)
  BY <1>1, <1>2, <1>3 DEF Service!Acquire, Service!OthersKept, Holders
<1> QED
  BY <1>4 DEF Service!Next

LEMMA UnlockServes ==
    ASSUME LocksInv, NEW p \in Proc, Unlock(p)
    PROVE  Service!Next
<1>1. want[p] \in Key /\ use[p] = "hold"
  BY DEF LocksInv, LocksTypeOK, Unlock
<1>2. \A q \in Proc : use[q] = "hold" /\ want[q] = want[p] <=> q = p
  BY <1>1, InvExclusive DEF Exclusive
<1>3. \A q \in Proc : use'[q] = (IF q = p THEN "left" ELSE use[q]) /\ want'[q] = want[q]
  BY DEF LocksInv, LocksTypeOK, Unlock
<1>4. Service!Release(p, want[p])
  BY <1>1, <1>2, <1>3 DEF Service!Release, Service!OthersKept, Holders
<1> QED
  BY <1>1, <1>4 DEF Service!Next

LEMMA QuietStep ==
    ASSUME LocksInv, NEW p \in Proc,
           \/ \E k \in Key : Enter(p, k)
           \/ GiveUp(p) \/ Leave(p)
    PROVE  Holders' = Holders
<1>1. \A q \in Proc : /\ use'[q] = "hold" <=> use[q] = "hold"
                      /\ use[q] = "hold" => want'[q] = want[q]
  BY DEF LocksInv, LocksTypeOK, Enter, Allocate, Join, GiveUp, Leave, Drop
<1> QED
  BY <1>1 DEF Holders

LEMMA LocksStepServes == LocksInv /\ [LocksNext]_lockVars => [Service!Next]_Holders
<1> SUFFICES ASSUME LocksInv, [LocksNext]_lockVars PROVE Service!Next \/ Holders' = Holders
  OBVIOUS
<1>1. CASE UNCHANGED lockVars
  BY <1>1 DEF lockVars, Holders
<1>2. CASE LocksNext
  BY <1>2, TakeServes, TryServes, UnlockServes, QuietStep DEF LocksNext
<1> QED
  BY <1>1, <1>2

(* The map of reference-counted locks implements the lock service           *)
(* (WithAccountLock, WithAccountIMAPSlot rely on it).                        *)
THEOREM LocksImplementService == LocksSpec => ServesLocks
BY LocksInvariant, HoldersInit, LocksStepServes, PTL DEF LocksSpec, ServesLocks, Service!Spec

-----------------------------------------------------------------------------
(* The manager and its locks. *)

LEMMA ClaimKeys == \A c \in Claims : KeyOf(c) \in Key /\ c \in Proc
BY ManagerConstants DEF LockKeys, Claims, KeyOf, Acc, Imap, Of, Mail, Managed

LEMMA ClaimsOfWorker ==
    ASSUME NEW w \in Worker
    PROVE  /\ ClaimsOf(w) \subseteq Claims
           /\ w \in Managed => Acc(w) \in Claims
           /\ w \in Mail => Imap(w) \in Claims
BY DEF ClaimsOf, Claims

LEMMA InitUsesLocks == Init => LocksInit
BY DEF Init

LEMMA StepUsesLocks == [Next]_vars => [LocksNext]_lockVars
<1> SUFFICES ASSUME [Next]_vars PROVE LocksNext \/ UNCHANGED lockVars
  OBVIOUS
<1>1. CASE UNCHANGED vars
  BY <1>1 DEF vars, lockVars
<1>2. ASSUME NEW a \in Account, Start(a) PROVE UNCHANGED lockVars
  BY <1>2 DEF Start, QueueAccountSync, Notify, Consume, ListSeenTasks, Administer
<1>3. ASSUME NEW w \in Worker, EnterAccount(w) \/ EnterMailbox(w) \/ TryMailbox(w)
      PROVE  LocksNext \/ UNCHANGED lockVars
  <2>1. CASE EnterAccount(w)
    BY <2>1, ClaimKeys, ClaimsOfWorker DEF EnterAccount, LocksNext
  <2>2. CASE EnterMailbox(w)
    BY <2>2, ClaimKeys, ClaimsOfWorker DEF EnterMailbox, LocksNext
  <2>3. CASE TryMailbox(w)
    <3>1. Imap(w) \in Claims
      BY <2>3, ClaimsOfWorker DEF TryMailbox, Mail
    <3> QED
      BY <2>3, <3>1, ClaimKeys DEF TryMailbox, LocksNext
  <2> QED
    BY <1>3, <2>1, <2>2, <2>3
<1>4. ASSUME NEW w \in Worker, NEW c \in ClaimsOf(w), GiveBack(c) \/ TakeLock(c)
      PROVE  LocksNext
  BY <1>4, ClaimsOfWorker, ClaimKeys DEF GiveBack, TakeLock, LocksNext
<1>5. ASSUME NEW w \in Worker, Return(w) \/ Sync(w) \/ MarkSeen(w) \/ Reconfigure(w) \/ TakeSlot(w)
      PROVE  UNCHANGED lockVars
  BY <1>5 DEF Return, Sync, MarkSeen, Reconfigure, TakeSlot
<1>6. ASSUME NEW w \in Worker, Withdraw(w) PROVE LocksNext \/ UNCHANGED lockVars
  BY <1>6, ClaimsOfWorker, ClaimKeys DEF Withdraw, LocksNext
<1>7. CASE Run \/ WindowElapses \/ BeginShutdown \/ CancelWorkers
  BY <1>7 DEF Run, StartRound, ListFails, Decide, Retry, Interval, Leaves, WaitForManualJobs,
              WindowElapses, BeginShutdown, CancelWorkers
<1> QED
  BY <1>1, <1>2, <1>3, <1>4, <1>5, <1>6, <1>7 DEF Next, Step, Work, Served

(* Rounds, jobs, notifications, the seen worker and the administrator touch  *)
(* the two lock maps through acquire, try and release alone                  *)
(* (WithAccountLock, WithAccountIMAPSlot, syncAllRoundDetailedWithContexts). *)
THEOREM ManagerUsesLocks == Spec => LocksSpec
BY InitUsesLocks, StepUsesLocks, PTL DEF Spec, LocksSpec

(* Through all of them the two maps of locks behave as lock services         *)
(* (WithAccountLock, WithAccountIMAPSlot).                                   *)
THEOREM ManagerServesLocks == Spec => ServesLocks
BY ManagerUsesLocks, LocksImplementService, PTL

-----------------------------------------------------------------------------
(* The stop. *)

LEMMA StopInitially == Init => StopInv
BY ManagerConstants DEF Init, StopInv

LEMMA StopImplies == StopInv => StopsClean
BY DEF StopInv, StopsClean

LEMMA WorkerShape == \A w \in Worker : w = <<Kind(w), Of(w)>> /\ Of(w) \in Account
BY ManagerConstants DEF Kind, Of

LEMMA StopStep == StopInv /\ [Next]_vars => StopInv'
<1> SUFFICES ASSUME StopInv, [Next]_vars PROVE StopInv'
  OBVIOUS
<1>1. CASE UNCHANGED vars
  BY <1>1 DEF vars, StopInv, jobVars, runVars
<1> SUFFICES ASSUME Step, UNCHANGED crew PROVE StopInv'
  BY <1>1 DEF Next
<1>2. ASSUME NEW a \in Account, QueueAccountSync(a) PROVE StopInv'
  BY <1>2 DEF QueueAccountSync, Accepts, StopInv, runVars, Kind, Of
<1>3. ASSUME NEW a \in Account, Notify(a) \/ ListSeenTasks(a) \/ Administer(a) PROVE StopInv'
  BY <1>3 DEF Notify, ListSeenTasks, Administer, StopInv, jobVars, runVars, Kind, Of
<1>4. ASSUME NEW a \in Account, Consume(a) PROVE StopInv'
  BY <1>4 DEF Consume, StopInv, jobVars, runVars
<1>5. ASSUME NEW w \in Worker,
             \/ EnterAccount(w) \/ EnterMailbox(w) \/ TakeSlot(w)
             \/ \E c \in ClaimsOf(w) : GiveBack(c) \/ TakeLock(c)
      PROVE  StopInv'
  BY <1>5 DEF EnterAccount, EnterMailbox, TakeSlot, GiveBack, TakeLock, StopInv, jobVars, runVars
<1>6. ASSUME NEW w \in Worker, TryMailbox(w) PROVE StopInv'
  BY <1>6 DEF TryMailbox, StopInv, jobVars, runVars
<1>7. ASSUME NEW w \in Worker, Withdraw(w) PROVE StopInv'
  BY <1>7 DEF Withdraw, Quit, StopInv, jobVars, runVars
<1>8. ASSUME NEW w \in Worker, Return(w) PROVE StopInv'
  BY <1>8, WorkerShape DEF Return, Returned, StopInv, jobVars, runVars
<1>9. ASSUME NEW w \in Worker, Sync(w) \/ MarkSeen(w) \/ Reconfigure(w) PROVE StopInv'
  BY <1>9 DEF Sync, MarkSeen, Reconfigure, Working, StopInv, jobVars, runVars
<1>10. CASE StartRound
  <2>1. PICK T \in SUBSET Worker :
             /\ \A w \in T : Kind(w) = "auto" /\ w \in crew
             /\ pc' = [w \in Worker |-> IF w \in T THEN "run" ELSE pc[w]]
    <3> DEFINE turn == {a \in Account : AutoTurn(a) \in crew /\ Enabled(a) /\ row[a] # "paused"
                                          /\ (cont # {} => a \in cont)}
    <3>1. {AutoTurn(a) : a \in turn} \subseteq crew /\ \A a \in turn : Kind(AutoTurn(a)) = "auto"
      BY DEF Kind, AutoTurn
    <3>2. {AutoTurn(a) : a \in turn} \in SUBSET Worker /\ \A w \in {AutoTurn(a) : a \in turn} : Kind(w) = "auto" /\ w \in crew
      BY <3>1 DEF StopInv
    <3> QED
      BY <1>10, <3>2 DEF StartRound
  <2>2. loop = "list" /\ loop' = "round" /\ UNCHANGED jobVars
    BY <1>10 DEF StartRound
  <2> QED
    BY <2>1, <2>2 DEF StopInv, jobVars
<1>14. CASE ListFails
  BY <1>14 DEF ListFails, StopInv, jobVars
<1>11. CASE Decide \/ Leaves
  <2>1. \A w \in Worker : Kind(w) = "auto" => pc[w] = "idle"
    <3>1. SUFFICES ASSUME NEW w \in Worker, Kind(w) = "auto", pc[w] # "idle" PROVE FALSE
      OBVIOUS
    <3>2. loop = "round" /\ w \in crew
      BY <3>1 DEF StopInv
    <3>3. w = AutoTurn(Of(w)) /\ Of(w) \in Account
      BY <3>1, WorkerShape DEF AutoTurn
    <3>4. RoundOver
      BY <1>11, <3>2 DEF Decide, Leaves
    <3> QED
      BY <3>1, <3>2, <3>3, <3>4 DEF RoundOver
  <2>2. CASE Decide
    <3>1. ~cancelled /\ UNCHANGED <<pc, jobVars>> /\ loop' \in {"list", "backoff", "interval"}
      BY <2>2 DEF Decide
    <3> QED
      BY <2>1, <3>1 DEF StopInv, jobVars
  <2>3. CASE Leaves
    BY <2>1, <2>3 DEF Leaves, StopInv, jobVars
  <2> QED
    BY <1>11, <2>2, <2>3
<1>12. CASE Retry \/ Interval \/ WaitForManualJobs \/ WindowElapses
  BY <1>12 DEF Retry, Interval, WaitForManualJobs, WindowElapses, StopInv, jobVars
<1>13. CASE BeginShutdown
  <2>1. manualDone' => jobs = {}
    BY <1>13 DEF BeginShutdown
  <2>2. ~manualDone /\ loop # "returned" /\ stopping'
    BY <1>13 DEF BeginShutdown, StopInv
  <2> QED
    BY <1>13, <2>1, <2>2 DEF BeginShutdown, StopInv, runVars
<1>15. CASE CancelWorkers
  BY <1>15 DEF CancelWorkers, StopInv, runVars
<1> QED
  BY <1>2, <1>3, <1>4, <1>5, <1>6, <1>7, <1>8, <1>9, <1>10, <1>11, <1>12, <1>13, <1>14, <1>15
     DEF Step, Start, Work, Served, Run

(* Nothing of the manager runs on when Run has returned after a stop, so     *)
(* that the database may be closed (Run, waitForManualJobs,                  *)
(* QueueAccountSync).                                                        *)
THEOREM ManagerStopsClean == Spec => []StopsClean
BY StopInitially, StopStep, StopImplies, PTL DEF Spec
-----------------------------------------------------------------------------
(* The progress shown to the administrator. *)

(* Of the automatic loop: a turn that is running, or a continuation. *)
AutoHonest(a) ==
    progress[a] = "automatic" =>
        AutoTurn(a) \in crew /\ (pc[AutoTurn(a)] = "run" \/ a \in pending \cup cont)

(* A turn that may pass by a busy mailbox has shown nothing yet, and the     *)
(* other runs wait for their mailbox only while they run.                   *)
TurnInv(a) ==
    pc[AutoTurn(a)] = "run" /\ a \notin patient /\ use[Imap(AutoTurn(a))] = "none"
        => progress[a] # "automatic"
WaitInv(w) == use[Imap(w)] = "wait" => pc[w] = "run"

ProgressInv ==
    /\ progress \in [Account -> {None, "automatic", "manual", "notification"}]
    /\ use \in [Claims -> Uses]
    /\ loop # "round" => pending = {}
    /\ loop # "list" => cont = {}
    /\ \A a \in Account :
         /\ AutoHonest(a)
         /\ AutoTurn(a) \in Worker => TurnInv(a)
         /\ progress[a] = "manual" => a \in jobs
         /\ progress[a] = "notification" => <<"notice", a>> \in Worker /\ pc[<<"notice", a>>] # "idle"
    /\ \A w \in Worker : Kind(w) \in DOMAIN Trigger => WaitInv(w)

LEMMA ProgressImplies == ProgressInv => ProgressHonest
BY DEF ProgressInv, AutoHonest, ProgressHonest

LEMMA AutoShape ==
    /\ \A a \in Account : Kind(AutoTurn(a)) = "auto" /\ Of(AutoTurn(a)) = a
    /\ \A w \in Worker : Kind(w) = "auto" => w = AutoTurn(Of(w))
    /\ \A v, w \in Worker : v # w => Imap(v) # Imap(w)
    /\ \A v, w : Acc(v) # Imap(w)
<1>1. \A w \in Worker : w = <<Kind(w), Of(w)>>
  BY WorkerShape
<1> QED
  BY <1>1 DEF AutoTurn, Kind, Of, Imap, Acc

LEMMA TriggerValues ==
    /\ DOMAIN Trigger = {"auto", "manual", "notice"}
    /\ Trigger["auto"] = "automatic" /\ Trigger["manual"] = "manual" /\ Trigger["notice"] = "notification"
BY DEF Trigger

(* The other runs have the claim on their mailbox and no other.              *)
LEMMA OneClaim ==
    ASSUME NEW w \in Worker, Kind(w) \in DOMAIN Trigger
    PROVE  w \in Mail /\ Imap(w) \in Claims /\ ClaimsOf(w) = {Imap(w)}
<1>1. w \in Mail /\ w \notin Managed
  BY TriggerValues DEF Mail, Managed
<1>2. Acc(w) \notin Claims
  <2>1. \A v \in Managed : Acc(v) # Acc(w)
    BY <1>1 DEF Acc
  <2> QED
    BY <2>1, AutoShape DEF Claims
<1> QED
  BY <1>1, <1>2 DEF Claims, ClaimsOf

LEMMA ProgressInitially == Init => ProgressInv
<1> SUFFICES ASSUME Init PROVE ProgressInv
  OBVIOUS
<1>1. /\ progress = [a \in Account |-> None] /\ use = [c \in Claims |-> "none"]
      /\ pending = {} /\ cont = {} /\ None \notin {"automatic", "manual", "notification"}
  BY ManagerConstants DEF Init, LocksInit
<1>2. \A w \in Worker : Kind(w) \in DOMAIN Trigger => WaitInv(w)
  BY <1>1, OneClaim DEF WaitInv
<1> QED
  BY <1>1, <1>2 DEF ProgressInv, AutoHonest, TurnInv, Uses

(* A run that shows itself, and gets on with its locks.                      *)
Shows(w) ==
    /\ progress' \in [Account -> {None, "automatic", "manual", "notification"}]
    /\ use' \in [Claims -> Uses]
    /\ \A a \in Account : progress'[a] = progress[a]
                         \/ (a = Of(w) /\ Kind(w) \in DOMAIN Trigger /\ progress'[a] = TriggerOf(w))
    /\ \A v \in Mail \ {w} : use'[Imap(v)] = use[Imap(v)]
    /\ Kind(w) = "auto" => use'[Imap(w)] # "none"
    /\ Kind(w) \in DOMAIN Trigger => pc[w] = "run"
    /\ UNCHANGED <<crew, pc, jobs, loop, pending, cont, patient>>

LEMMA ShowsKeeps == ASSUME StopInv, ProgressInv, NEW w \in Worker, Shows(w) PROVE ProgressInv'
<1> USE TriggerValues DEF ProgressInv, Shows
<1>1. w = <<Kind(w), Of(w)>> /\ Of(w) \in Account
  BY WorkerShape
<1>2. ASSUME NEW a \in Account PROVE AutoHonest(a)'
  <2>1. CASE progress'[a] = progress[a]
    BY <2>1 DEF AutoHonest
  <2>2. CASE progress'[a] # progress[a]
    <3>1. a = Of(w) /\ Kind(w) \in DOMAIN Trigger /\ progress'[a] = TriggerOf(w) /\ pc[w] = "run"
      BY <2>2
    <3>2. progress'[a] = "automatic" => w = AutoTurn(a) /\ w \in crew
      BY <3>1, AutoShape DEF TriggerOf, StopInv
    <3> QED
      BY <3>1, <3>2 DEF AutoHonest
  <2> QED
    BY <2>1, <2>2
<1>3. ASSUME NEW a \in Account, AutoTurn(a) \in Worker PROVE TurnInv(a)'
  <2>1. CASE AutoTurn(a) = w
    BY <2>1, AutoShape DEF TurnInv
  <2>2. CASE AutoTurn(a) # w
    <3>1. use'[Imap(AutoTurn(a))] = use[Imap(AutoTurn(a))]
      BY <1>3, <2>2, AutoShape, OneClaim
    <3>2. progress'[a] = "automatic" => progress[a] = "automatic"
      BY <1>1, <2>2, AutoShape DEF TriggerOf
    <3> QED
      BY <1>3, <3>1, <3>2 DEF TurnInv
  <2> QED
    BY <2>1, <2>2
<1>4. ASSUME NEW a \in Account
      PROVE  /\ progress'[a] = "manual" => a \in jobs
             /\ progress'[a] = "notification" => <<"notice", a>> \in Worker /\ pc[<<"notice", a>>] # "idle"
  BY <1>1 DEF TriggerOf, StopInv
<1>5. ASSUME NEW v \in Worker, Kind(v) \in DOMAIN Trigger PROVE WaitInv(v)'
  BY <1>5, OneClaim DEF WaitInv
<1> QED
  BY <1>2, <1>3, <1>4, <1>5

(* What the lock map tells its callers.                                      *)
LEMMA LockEffect ==
    ASSUME NEW c, NEW k
    PROVE  /\ Enter(c, k) => use' = [use EXCEPT ![c] = "wait"]
           /\ Try(c, k) => use' = [use EXCEPT ![c] = "hold"]
           /\ Take(c) => use[c] = "wait" /\ use' = [use EXCEPT ![c] = "hold"]
           /\ GiveUp(c) => use' = [use EXCEPT ![c] = "none"]
           /\ Unlock(c) => use' = [use EXCEPT ![c] = "left"]
           /\ Leave(c) => use' = [use EXCEPT ![c] = "none"]
BY DEF Enter, Allocate, Join, Try, Take, GiveUp, Drop, Unlock, Leave

(* What a worker does at a lock leaves the mailboxes of the others alone.    *)
LEMMA UseOfOne ==
    ASSUME use \in [Claims -> Uses], NEW w \in Worker, NEW c \in Claims, c = Acc(w) \/ c = Imap(w),
           NEW u \in Uses, use' = [use EXCEPT ![c] = u]
    PROVE  /\ use' \in [Claims -> Uses] /\ use'[c] = u
           /\ \A d \in Claims \ {c} : use'[d] = use[d]
           /\ \A v \in Mail \ {w} : use'[Imap(v)] = use[Imap(v)]
           /\ c = Acc(w) => \A v \in Mail : use'[Imap(v)] = use[Imap(v)]
<1>1. use' \in [Claims -> Uses] /\ use'[c] = u /\ \A d \in Claims \ {c} : use'[d] = use[d]
  OBVIOUS
<1>2. \A v \in Mail : v \in Worker /\ Imap(v) \in Claims
  BY DEF Claims, Mail
<1>3. \A v \in Mail \ {w} : Imap(v) # c
  BY <1>2, AutoShape
<1>4. c = Acc(w) => \A v \in Mail : Imap(v) # c
  BY AutoShape
<1> QED
  BY <1>1, <1>2, <1>3, <1>4

LEMMA ShownValues ==
    ASSUME ProgressInv, NEW w \in Worker
    PROVE  /\ Shown(w) \in [Account -> {None, "automatic", "manual", "notification"}]
           /\ \A a \in Account : Shown(w)[a] = progress[a]
                 \/ (a = Of(w) /\ Kind(w) \in DOMAIN Trigger /\ Shown(w)[a] = TriggerOf(w))
           /\ Kind(w) \in DOMAIN Trigger =>
                /\ Begun(Of(w), TriggerOf(w)) \in [Account -> {None, "automatic", "manual", "notification"}]
                /\ \A a \in Account : Begun(Of(w), TriggerOf(w))[a] = progress[a]
                      \/ (a = Of(w) /\ Begun(Of(w), TriggerOf(w))[a] = TriggerOf(w))
<1>1. Kind(w) \in DOMAIN Trigger => TriggerOf(w) \in {"automatic", "manual", "notification"}
  BY TriggerValues DEF TriggerOf
<1> QED
  BY <1>1 DEF Shown, Ensured, Begun, ProgressInv

LEMMA EnterKeeps ==
    ASSUME StopInv, ProgressInv, UNCHANGED crew, NEW w \in Worker,
           EnterAccount(w) \/ EnterMailbox(w) \/ TakeSlot(w)
    PROVE  ProgressInv'
<1>0. use \in [Claims -> Uses]
  BY DEF ProgressInv
<1>1. CASE EnterAccount(w)
  <2>1. use' = [use EXCEPT ![Acc(w)] = "wait"] /\ w \in Managed /\ UNCHANGED <<pc, jobs, loop, pending, cont, patient, progress>>
    BY <1>1, LockEffect DEF EnterAccount, jobVars, runVars
  <2>2. Kind(w) \notin DOMAIN Trigger
    BY <2>1, TriggerValues DEF Managed
  <2>3. use' \in [Claims -> Uses] /\ \A v \in Mail : use'[Imap(v)] = use[Imap(v)]
    BY <1>0, <2>1, ClaimsOfWorker, UseOfOne DEF Uses
  <2>4. Shows(w)
    BY <2>1, <2>2, <2>3, TriggerValues DEF Shows, ProgressInv
  <2> QED
    BY <2>4, ShowsKeeps
<1>2. CASE EnterMailbox(w)
  <2>1. /\ use' = [use EXCEPT ![Imap(w)] = "wait"] /\ w \in Mail /\ pc[w] = "run"
        /\ UNCHANGED <<pc, jobs, loop, pending, cont, patient>> /\ progress' = Shown(w)
    BY <1>2, LockEffect DEF EnterMailbox, jobVars, runVars
  <2>2. Imap(w) \in Claims
    BY <2>1 DEF Claims
  <2>3. use' \in [Claims -> Uses] /\ use'[Imap(w)] = "wait" /\ \A v \in Mail \ {w} : use'[Imap(v)] = use[Imap(v)]
    BY <1>0, <2>1, <2>2, UseOfOne DEF Uses
  <2>4. Shows(w)
    BY <2>1, <2>3, ShownValues DEF Shows
  <2> QED
    BY <2>4, ShowsKeeps
<1>3. CASE TakeSlot(w)
  <2>1. /\ UNCHANGED <<use, pc, jobs, loop, pending, cont, patient>> /\ pc[w] = "run" /\ use[Imap(w)] = "hold"
        /\ w \in Mail /\ progress' = IF Kind(w) = "seen" THEN progress ELSE Begun(Of(w), TriggerOf(w))
    BY <1>3 DEF TakeSlot, SlotTurn, Holds, lockVars, jobVars, runVars
  <2>2. Kind(w) = "seen" \/ Kind(w) \in DOMAIN Trigger
    BY <2>1, ManagerConstants, TriggerValues DEF Mail, Kind
  <2>3. Shows(w)
    BY <1>0, <2>1, <2>2, ShownValues DEF Shows, ProgressInv
  <2> QED
    BY <2>3, ShowsKeeps
<1> QED
  BY <1>1, <1>2, <1>3

LEMMA TakeKeeps ==
    ASSUME StopInv, ProgressInv, UNCHANGED crew, NEW w \in Worker, NEW c \in ClaimsOf(w), TakeLock(c)
    PROVE  ProgressInv'
<1>1. /\ use[c] = "wait" /\ use' = [use EXCEPT ![c] = "hold"] /\ c \in Claims /\ use \in [Claims -> Uses]
      /\ UNCHANGED <<pc, jobs, loop, pending, cont, patient>>
      /\ progress' = IF c = Imap(c[2]) THEN Shown(c[2]) ELSE progress
  BY LockEffect, ClaimsOfWorker DEF TakeLock, ProgressInv, jobVars, runVars
<1>2. c[2] = w /\ (c = Imap(w) \/ c = Acc(w))
  BY DEF ClaimsOf, Acc, Imap
<1>3. use' \in [Claims -> Uses] /\ \A v \in Mail \ {w} : use'[Imap(v)] = use[Imap(v)]
  BY <1>1, <1>2, UseOfOne DEF Uses
<1>4. CASE Kind(w) \in DOMAIN Trigger
  <2>1. c = Imap(w)
    BY <1>4, OneClaim
  <2>2. pc[w] = "run" /\ use'[Imap(w)] = "hold" /\ progress' = Shown(w)
    BY <1>1, <1>2, <1>4, <2>1 DEF ProgressInv, WaitInv
  <2>3. Shows(w)
    BY <1>1, <1>3, <1>4, <2>2, ShownValues DEF Shows
  <2> QED
    BY <2>3, ShowsKeeps
<1>5. CASE Kind(w) \notin DOMAIN Trigger
  <2>1. progress' = progress
    BY <1>1, <1>2, <1>5 DEF Shown
  <2>2. Shows(w)
    BY <1>1, <1>3, <1>5, <2>1, TriggerValues DEF Shows, ProgressInv
  <2> QED
    BY <2>2, ShowsKeeps
<1> QED
  BY <1>4, <1>5

LEMMA TryKeeps ==
    ASSUME StopInv, ProgressInv, UNCHANGED crew, NEW w \in Worker, TryMailbox(w)
    PROVE  ProgressInv'
<1>1. /\ Kind(w) = "auto" /\ pc[w] = "run" /\ use[Imap(w)] = "none" /\ Of(w) \notin patient
      /\ UNCHANGED <<jobs, loop, pending, cont, patient>> /\ use \in [Claims -> Uses]
  BY DEF TryMailbox, jobVars, runVars, ProgressInv
<1>2. Imap(w) \in Claims /\ w = AutoTurn(Of(w)) /\ Of(w) \in Account /\ Kind(w) \in DOMAIN Trigger
  BY <1>1, OneClaim, TriggerValues, AutoShape, WorkerShape
<1>3. CASE Try(Imap(w), KeyOf(Imap(w))) /\ progress' = Shown(w) /\ UNCHANGED pc
  <2>1. use' = [use EXCEPT ![Imap(w)] = "hold"]
    BY <1>3, LockEffect
  <2>2. use' \in [Claims -> Uses] /\ use'[Imap(w)] = "hold" /\ \A v \in Mail \ {w} : use'[Imap(v)] = use[Imap(v)]
    BY <1>1, <1>2, <2>1, UseOfOne DEF Uses
  <2>3. Shows(w)
    BY <1>1, <1>3, <2>2, ShownValues DEF Shows
  <2> QED
    BY <2>3, ShowsKeeps
<1>4. CASE pc' = [pc EXCEPT ![w] = "idle"] /\ UNCHANGED <<lockVars, progress>>
  <2>1. progress[Of(w)] # "automatic"
    BY <1>1, <1>2 DEF ProgressInv, TurnInv
  <2>2. UNCHANGED <<use, progress>> /\ pc \in [Worker -> {"idle", "run", "done"}]
    BY <1>4 DEF lockVars, StopInv
  <2>3. \A a \in Account : <<"notice", a>> # w
    BY <1>1 DEF Kind
  <2>4. \A v \in Worker \ {w} : pc'[v] = pc[v]
    BY <1>4, <2>2
  <2>5. ASSUME NEW a \in Account PROVE AutoHonest(a)'
    <3>1. CASE AutoTurn(a) = w
      BY <1>2, <2>1, <2>2, <3>1, AutoShape DEF AutoHonest
    <3>2. CASE AutoTurn(a) # w
      BY <1>1, <2>2, <2>4, <3>2 DEF AutoHonest, ProgressInv, StopInv
    <3> QED
      BY <3>1, <3>2
  <2>6. ASSUME NEW a \in Account, AutoTurn(a) \in Worker PROVE TurnInv(a)'
    BY <1>1, <1>2, <1>4, <2>2, <2>4, <2>6, AutoShape DEF TurnInv, ProgressInv
  <2>7. ASSUME NEW v \in Worker, Kind(v) \in DOMAIN Trigger PROVE WaitInv(v)'
    BY <1>1, <2>2, <2>4, <2>7 DEF WaitInv, ProgressInv
  <2> QED
    BY <1>1, <1>4, <2>2, <2>3, <2>4, <2>5, <2>6, <2>7 DEF ProgressInv
<1> QED
  BY <1>3, <1>4 DEF TryMailbox

(* Somebody else than the loop starts to run.                                *)
LEMMA StarterKeeps ==
    ASSUME StopInv, ProgressInv, NEW w \in Worker, Kind(w) # "auto", w \in crew,
           pc' = [pc EXCEPT ![w] = "run"], jobs \subseteq jobs',
           Kind(w) = "manual" => Of(w) \in jobs',
           progress' \in [Account -> {None, "automatic", "manual", "notification"}],
           \A a \in Account : progress'[a] = progress[a]
               \/ (a = Of(w) /\ Kind(w) \in {"manual", "notice"} /\ progress'[a] = TriggerOf(w)),
           UNCHANGED <<crew, use, loop, pending, cont, patient>>
    PROVE  ProgressInv'
<1> USE TriggerValues DEF ProgressInv
<1>1. /\ pc' \in [Worker -> {"idle", "run", "done"}] /\ pc'[w] = "run"
      /\ \A v \in Worker \ {w} : pc'[v] = pc[v]
  BY DEF StopInv
<1>2. ASSUME NEW a \in Account, progress'[a] = "automatic" PROVE progress[a] = "automatic"
  BY <1>2 DEF TriggerOf
<1>3. \A a \in Account : AutoTurn(a) # w
  BY AutoShape
<1>4. ASSUME NEW a \in Account PROVE AutoHonest(a)'
  BY <1>1, <1>2, <1>3 DEF AutoHonest, StopInv
<1>5. ASSUME NEW a \in Account, AutoTurn(a) \in Worker PROVE TurnInv(a)'
  BY <1>1, <1>2, <1>3, <1>5 DEF TurnInv
<1>6. ASSUME NEW a \in Account
      PROVE  /\ progress'[a] = "manual" => a \in jobs'
             /\ progress'[a] = "notification" => <<"notice", a>> \in Worker /\ pc'[<<"notice", a>>] # "idle"
  <2>1. w = <<Kind(w), Of(w)>>
    BY WorkerShape
  <2>2. CASE progress'[a] = progress[a]
    BY <1>1, <2>2
  <2>3. CASE progress'[a] # progress[a]
    BY <1>1, <2>1, <2>3 DEF TriggerOf
  <2> QED
    BY <2>2, <2>3
<1>7. ASSUME NEW v \in Worker, Kind(v) \in DOMAIN Trigger PROVE WaitInv(v)'
  BY <1>1, <1>7 DEF WaitInv
<1> QED
  BY <1>4, <1>5, <1>6, <1>7

LEMMA StartKeeps == ASSUME StopInv, ProgressInv, UNCHANGED crew, NEW a \in Account, Start(a) PROVE ProgressInv'
<1>1. CASE QueueAccountSync(a)
  <2> DEFINE w == <<"manual", a>>
  <2>1. /\ w \in crew /\ jobs' = jobs \cup {a} /\ pc' = [pc EXCEPT ![w] = "run"]
        /\ progress' = Ensured(a, "manual") /\ UNCHANGED <<use, loop, pending, cont, patient>>
    BY <1>1 DEF QueueAccountSync, lockVars, runVars
  <2>2. w \in Worker /\ Kind(w) = "manual" /\ Of(w) = a /\ TriggerOf(w) = "manual"
    BY <2>1, TriggerValues DEF Kind, Of, StopInv, TriggerOf
  <2>3. /\ progress' \in [Account -> {None, "automatic", "manual", "notification"}]
        /\ \A b \in Account : progress'[b] = progress[b] \/ (b = a /\ progress'[b] = "manual")
    BY <2>1 DEF Ensured, ProgressInv
  <2> HIDE DEF w
  <2> QED
    BY <2>1, <2>2, <2>3, StarterKeeps
<1>2. CASE Notify(a)
  <2> DEFINE w == <<"notice", a>>
  <2>1. /\ w \in crew /\ pc' = [pc EXCEPT ![w] = "run"] /\ progress' = Ensured(a, "notification")
        /\ UNCHANGED <<use, jobs, loop, pending, cont, patient>>
    BY <1>2 DEF Notify, lockVars, jobVars, runVars
  <2>2. w \in Worker /\ Kind(w) = "notice" /\ Of(w) = a /\ TriggerOf(w) = "notification"
    BY <2>1, TriggerValues DEF Kind, Of, StopInv, TriggerOf
  <2>3. /\ progress' \in [Account -> {None, "automatic", "manual", "notification"}]
        /\ \A b \in Account : progress'[b] = progress[b] \/ (b = a /\ progress'[b] = "notification")
    BY <2>1 DEF Ensured, ProgressInv
  <2> HIDE DEF w
  <2> QED
    BY <2>1, <2>2, <2>3, StarterKeeps
<1>3. CASE Consume(a)
  BY <1>3 DEF Consume, lockVars, jobVars, runVars, ProgressInv, AutoHonest, TurnInv, WaitInv
<1>4. ASSUME NEW w, w \in crew, Kind(w) \in {"seen", "admin"}, pc' = [pc EXCEPT ![w] = "run"],
             UNCHANGED <<use, jobs, progress, loop, pending, cont, patient>>
      PROVE  ProgressInv'
  <2>1. w \in Worker
    BY <1>4 DEF StopInv
  <2>2. progress' \in [Account -> {None, "automatic", "manual", "notification"}]
    BY <1>4 DEF ProgressInv
  <2> QED
    BY <1>4, <2>1, <2>2, StarterKeeps
<1>5. CASE ListSeenTasks(a)
  <2>1. /\ <<"seen", a>> \in crew /\ pc' = [pc EXCEPT ![<<"seen", a>>] = "run"]
        /\ UNCHANGED <<use, jobs, progress, loop, pending, cont, patient>> /\ Kind(<<"seen", a>>) = "seen"
    BY <1>5 DEF ListSeenTasks, lockVars, jobVars, runVars, Kind
  <2> QED
    BY <1>4, <2>1
<1>6. CASE Administer(a)
  <2>1. /\ <<"admin", a>> \in crew /\ pc' = [pc EXCEPT ![<<"admin", a>>] = "run"]
        /\ UNCHANGED <<use, jobs, progress, loop, pending, cont, patient>> /\ Kind(<<"admin", a>>) = "admin"
    BY <1>6 DEF Administer, lockVars, jobVars, runVars, Kind
  <2> QED
    BY <1>4, <2>1
<1> QED
  BY <1>1, <1>2, <1>3, <1>5, <1>6 DEF Start

(* A run that is over: it gave up, or it has done its work.                  *)
Stops(w) ==
    /\ progress' \in [Account -> {None, "automatic", "manual", "notification"}]
    /\ use' \in [Claims -> Uses]
    /\ pc[w] = "run" /\ pc' = [pc EXCEPT ![w] = "done"]
    /\ \A a \in Account : progress'[a] \in {progress[a], None}
    /\ Kind(w) = "auto" => progress'[Of(w)] # "automatic" \/ Of(w) \in pending'
    /\ \A v \in Mail \ {w} : use'[Imap(v)] = use[Imap(v)]
    /\ Kind(w) \in DOMAIN Trigger => use'[Imap(w)] # "wait"
    /\ pending \subseteq pending' /\ (pending' = pending \/ Kind(w) = "auto")
    /\ UNCHANGED <<crew, jobs, loop, cont, patient>>

LEMMA StopsKeeps == ASSUME StopInv, ProgressInv, NEW w \in Worker, Stops(w) PROVE ProgressInv'
<1> USE DEF Stops
<1>1. /\ pc' \in [Worker -> {"idle", "run", "done"}] /\ pc'[w] = "done"
      /\ \A v \in Worker \ {w} : pc'[v] = pc[v]
  BY DEF StopInv
<1>2. ASSUME NEW a \in Account, progress'[a] # None PROVE progress'[a] = progress[a]
  BY <1>2
<1>3. ASSUME NEW a \in Account PROVE AutoHonest(a)'
  <2> SUFFICES ASSUME progress'[a] = "automatic"
               PROVE  AutoTurn(a) \in crew' /\ (pc'[AutoTurn(a)] = "run" \/ a \in pending' \cup cont')
    BY DEF AutoHonest
  <2>1. AutoTurn(a) \in crew /\ AutoTurn(a) \in Worker /\ (pc[AutoTurn(a)] = "run" \/ a \in pending \cup cont)
    BY <1>2, ManagerConstants DEF ProgressInv, AutoHonest, StopInv
  <2>2. AutoTurn(a) = w => a \in pending'
    BY AutoShape
  <2> QED
    BY <1>1, <2>1, <2>2
<1>4. ASSUME NEW a \in Account, AutoTurn(a) \in Worker PROVE TurnInv(a)'
  <2> SUFFICES ASSUME pc'[AutoTurn(a)] = "run", a \notin patient', use'[Imap(AutoTurn(a))] = "none",
                      progress'[a] = "automatic"
               PROVE  FALSE
    BY DEF TurnInv
  <2>1. AutoTurn(a) # w /\ AutoTurn(a) \in Mail
    BY <1>1, <1>4, OneClaim, AutoShape, TriggerValues
  <2>2. progress[a] = "automatic" /\ pc[AutoTurn(a)] = "run" /\ use[Imap(AutoTurn(a))] = "none"
    BY <1>1, <1>2, <1>4, <2>1, ManagerConstants
  <2> QED
    BY <1>4, <2>2 DEF ProgressInv, TurnInv
<1>5. ASSUME NEW a \in Account
      PROVE  /\ progress'[a] = "manual" => a \in jobs'
             /\ progress'[a] = "notification" => <<"notice", a>> \in Worker /\ pc'[<<"notice", a>>] # "idle"
  BY <1>1, <1>2, ManagerConstants DEF ProgressInv
<1>6. ASSUME NEW v \in Worker, Kind(v) \in DOMAIN Trigger PROVE WaitInv(v)'
  BY <1>1, <1>6, OneClaim DEF ProgressInv, WaitInv
<1>7. (loop' # "round" => pending' = {}) /\ (loop' # "list" => cont' = {})
  BY DEF ProgressInv, StopInv
<1> QED
  BY <1>3, <1>4, <1>5, <1>6, <1>7 DEF ProgressInv

LEMMA FinishedValues ==
    ASSUME ProgressInv, NEW A, NEW t
    PROVE  /\ Finished(A, t) \in [Account -> {None, "automatic", "manual", "notification"}]
           /\ \A a \in Account : Finished(A, t)[a] \in {progress[a], None}
           /\ t # None => \A a \in Account \cap A : Finished(A, t)[a] # t
BY DEF Finished, ProgressInv

LEMMA WithdrawKeeps ==
    ASSUME StopInv, ProgressInv, UNCHANGED crew, NEW w \in Worker, Withdraw(w)
    PROVE  ProgressInv'
<1>1. /\ pc[w] = "run" /\ pc' = [pc EXCEPT ![w] = "done"] /\ UNCHANGED <<jobs, loop, pending, cont, patient>>
      /\ progress' = IF Kind(w) = "auto" THEN Finished({Of(w)}, "automatic") ELSE progress
  BY DEF Withdraw, Quit, jobVars, runVars
<1>2. /\ progress' \in [Account -> {None, "automatic", "manual", "notification"}]
      /\ \A a \in Account : progress'[a] \in {progress[a], None}
      /\ Kind(w) = "auto" => progress'[Of(w)] # "automatic"
  <2>1. CASE Kind(w) = "auto"
    BY <1>1, <2>1, FinishedValues, WorkerShape, ManagerConstants
  <2>2. CASE Kind(w) # "auto"
    BY <1>1, <2>2 DEF ProgressInv
  <2> QED
    BY <2>1, <2>2
<1>3. ASSUME NEW c \in ClaimsOf(w), GiveUp(c) PROVE ProgressInv'
  <2>1. /\ use' = [use EXCEPT ![c] = "none"] /\ c \in Claims /\ (c = Acc(w) \/ c = Imap(w)) /\ use \in [Claims -> Uses]
        /\ "none" \in Uses
    BY <1>3, LockEffect, ClaimsOfWorker DEF ClaimsOf, ProgressInv, Uses
  <2>2. /\ use' \in [Claims -> Uses] /\ use'[c] = "none"
        /\ \A v \in Mail \ {w} : use'[Imap(v)] = use[Imap(v)]
    BY <2>1, UseOfOne
  <2>3. Kind(w) \in DOMAIN Trigger => use'[Imap(w)] = "none"
    BY <2>2, OneClaim
  <2>4. Stops(w)
    BY <1>1, <1>2, <2>2, <2>3 DEF Stops
  <2> QED
    BY <2>4, StopsKeeps
<1>4. CASE Holds(Imap(w)) /\ UNCHANGED lockVars
  <2>1. Stops(w)
    BY <1>1, <1>2, <1>4 DEF Stops, Holds, lockVars, ProgressInv
  <2> QED
    BY <2>1, StopsKeeps
<1> QED
  BY <1>3, <1>4 DEF Withdraw

LEMMA SyncKeeps ==
    ASSUME StopInv, ProgressInv, UNCHANGED crew, NEW w \in Worker, Sync(w)
    PROVE  ProgressInv'
<1>1. /\ pc[w] = "run" /\ pc' = [pc EXCEPT ![w] = "done"] /\ use[Imap(w)] = "hold"
      /\ UNCHANGED <<use, jobs, loop, cont, patient>>
  BY DEF Sync, Working, Holds, lockVars
<1>2. PICK r : /\ pending' = IF Kind(w) = "auto" /\ r = "more" THEN pending \cup {Of(w)} ELSE pending
               /\ progress' = IF Kind(w) = "auto" /\ r # "more" THEN Finished({Of(w)}, "automatic") ELSE progress
  BY DEF Sync
<1>3. /\ progress' \in [Account -> {None, "automatic", "manual", "notification"}]
      /\ \A a \in Account : progress'[a] \in {progress[a], None}
      /\ Kind(w) = "auto" => progress'[Of(w)] # "automatic" \/ Of(w) \in pending'
  <2>1. CASE Kind(w) = "auto" /\ r # "more"
    BY <1>2, <2>1, FinishedValues, WorkerShape, ManagerConstants
  <2>2. CASE ~(Kind(w) = "auto" /\ r # "more")
    BY <1>2, <2>2 DEF ProgressInv
  <2> QED
    BY <2>1, <2>2
<1>4. pending \subseteq pending' /\ (pending' = pending \/ Kind(w) = "auto")
  BY <1>2
<1>5. Stops(w)
  BY <1>1, <1>3, <1>4 DEF Stops, ProgressInv
<1> QED
  BY <1>5, StopsKeeps

LEMMA ManagedKeeps ==
    ASSUME StopInv, ProgressInv, UNCHANGED crew, NEW w \in Worker, MarkSeen(w) \/ Reconfigure(w)
    PROVE  ProgressInv'
<1>1. /\ pc[w] = "run" /\ pc' = [pc EXCEPT ![w] = "done"] /\ Kind(w) \in {"seen", "admin"}
      /\ UNCHANGED <<use, progress, jobs, loop, pending, cont, patient>>
  BY DEF MarkSeen, Reconfigure, Working, lockVars, jobVars, runVars
<1>2. Stops(w)
  BY <1>1, TriggerValues DEF Stops, ProgressInv
<1> QED
  BY <1>2, StopsKeeps

LEMMA GiveBackKeeps ==
    ASSUME StopInv, ProgressInv, UNCHANGED crew, NEW w \in Worker, NEW c \in ClaimsOf(w), GiveBack(c)
    PROVE  ProgressInv'
<1>1. /\ pc[w] = "done" /\ (c = Acc(w) \/ c = Imap(w)) /\ c \in Claims
      /\ UNCHANGED <<pc, progress, jobs, loop, pending, cont, patient>>
  BY ClaimsOfWorker DEF GiveBack, Returning, ClaimsOf, Acc, Imap, jobVars, runVars
<1>2. PICK u \in {"none", "left"} : use' = [use EXCEPT ![c] = u]
  BY LockEffect DEF GiveBack
<1>3. /\ use' \in [Claims -> Uses] /\ use'[c] = u
      /\ \A d \in Claims \ {c} : use'[d] = use[d]
      /\ \A v \in Mail \ {w} : use'[Imap(v)] = use[Imap(v)]
  BY <1>1, <1>2, UseOfOne DEF ProgressInv, Uses
<1>4. ASSUME NEW a \in Account PROVE AutoHonest(a)'
  BY <1>1 DEF ProgressInv, AutoHonest
<1>5. ASSUME NEW a \in Account, AutoTurn(a) \in Worker PROVE TurnInv(a)'
  <2>1. AutoTurn(a) \in Mail
    BY <1>5, OneClaim, AutoShape, TriggerValues
  <2> QED
    BY <1>1, <1>3, <1>5, <2>1 DEF ProgressInv, TurnInv
<1>6. ASSUME NEW v \in Worker, Kind(v) \in DOMAIN Trigger PROVE WaitInv(v)'
  <2>1. v \in Mail /\ Imap(v) \in Claims
    BY <1>6, OneClaim
  <2>2. use'[Imap(v)] = "wait" => use[Imap(v)] = "wait"
    BY <1>3, <2>1
  <2> QED
    BY <1>1, <1>6, <2>2 DEF ProgressInv, WaitInv
<1> QED
  BY <1>1, <1>3, <1>4, <1>5, <1>6 DEF ProgressInv

LEMMA ReturnKeeps ==
    ASSUME StopInv, ProgressInv, UNCHANGED crew, NEW w \in Worker, Return(w)
    PROVE  ProgressInv'
<1> DEFINE a == Of(w)
           again == Kind(w) = "manual" /\ a \in more /\ batch[a] < MaxBatches
<1>1. /\ pc[w] = "done" /\ pc' = [pc EXCEPT ![w] = IF again THEN "run" ELSE "idle"]
      /\ jobs' = IF Kind(w) = "manual" /\ ~again THEN jobs \ {a} ELSE jobs
      /\ patient' = IF Kind(w) = "auto" THEN patient \ {a} ELSE patient
      /\ UNCHANGED <<use, loop, pending, cont>>
      /\ \A c \in ClaimsOf(w) : use[c] = "none"
  BY DEF Return, Returned, lockVars
<1>2. /\ again => progress' = Ensured(a, "manual")
      /\ ~again /\ Kind(w) \in {"manual", "notice"} => progress' = Finished({a}, TriggerOf(w))
      /\ Kind(w) \notin {"manual", "notice"} => progress' = progress
  BY DEF Return
<1>3. /\ pc' \in [Worker -> {"idle", "run", "done"}] /\ pc'[w] \in {"run", "idle"} /\ (pc'[w] = "run" <=> again)
      /\ \A v \in Worker \ {w} : pc'[v] = pc[v]
  BY <1>1 DEF StopInv
<1>4. w = <<Kind(w), a>> /\ a \in Account
  BY WorkerShape
<1>5. Kind(w) = "manual" => a \in jobs
  BY <1>1 DEF StopInv
<1>7. again => Kind(w) = "manual"
  OBVIOUS
<1> HIDE DEF again, a
<1>6. /\ progress' \in [Account -> {None, "automatic", "manual", "notification"}]
      /\ \A b \in Account :
            progress'[b] \in {progress[b], None} \/ (again /\ b = a /\ progress'[b] = "manual")
      /\ ~again /\ Kind(w) \in {"manual", "notice"} => progress'[a] # TriggerOf(w)
  <2>1. CASE again
    <3>1. progress' = Ensured(a, "manual")
      BY <1>2, <2>1
    <3> QED
      BY <2>1, <3>1 DEF Ensured, ProgressInv
  <2>2. CASE ~again /\ Kind(w) \in {"manual", "notice"}
    <3>1. TriggerOf(w) \in {"manual", "notification"}
      BY <2>2, TriggerValues DEF TriggerOf
    <3>2. progress' = Finished({a}, TriggerOf(w)) /\ TriggerOf(w) # None
      BY <1>2, <2>2, <3>1, ManagerConstants
    <3>3. /\ Finished({a}, TriggerOf(w)) \in [Account -> {None, "automatic", "manual", "notification"}]
          /\ \A b \in Account : Finished({a}, TriggerOf(w))[b] \in {progress[b], None}
          /\ Finished({a}, TriggerOf(w))[a] # TriggerOf(w)
      BY <1>4, <3>2, FinishedValues
    <3> QED
      BY <2>2, <3>2, <3>3
  <2>3. CASE Kind(w) \notin {"manual", "notice"}
    BY <1>2, <2>3 DEF ProgressInv
  <2> QED
    BY <2>1, <2>2, <2>3
<1>8. ASSUME NEW b \in Account PROVE AutoHonest(b)'
  <2> SUFFICES ASSUME progress'[b] = "automatic"
               PROVE  AutoTurn(b) \in crew' /\ (pc'[AutoTurn(b)] = "run" \/ b \in pending' \cup cont')
    BY DEF AutoHonest
  <2>1. progress[b] = "automatic"
    BY <1>6, ManagerConstants
  <2> QED
    BY <1>1, <1>3, <2>1 DEF ProgressInv, AutoHonest, StopInv
<1>9. ASSUME NEW b \in Account, AutoTurn(b) \in Worker PROVE TurnInv(b)'
  <2> SUFFICES ASSUME pc'[AutoTurn(b)] = "run", b \notin patient', use[Imap(AutoTurn(b))] = "none",
                      progress'[b] = "automatic"
               PROVE  FALSE
    BY <1>1 DEF TurnInv
  <2>1. AutoTurn(b) # w
    BY <1>3, <1>7, AutoShape
  <2>2. pc[AutoTurn(b)] = "run" /\ progress[b] = "automatic"
    BY <1>3, <1>6, <1>9, <2>1, ManagerConstants
  <2>3. Kind(w) = "auto" => a # b
    BY <1>4, <2>1 DEF AutoTurn
  <2>4. b \notin patient
    BY <1>1, <2>3
  <2> QED
    BY <1>9, <2>2, <2>4 DEF ProgressInv, TurnInv
<1>10. ASSUME NEW b \in Account
       PROVE  /\ progress'[b] = "manual" => b \in jobs'
              /\ progress'[b] = "notification" => <<"notice", b>> \in Worker /\ pc'[<<"notice", b>>] # "idle"
  <2>1. progress'[b] = "manual" => b \in jobs'
    <3>1. CASE Kind(w) = "manual" /\ ~again
      BY <1>1, <1>6, <3>1, TriggerValues, ManagerConstants DEF ProgressInv, TriggerOf
    <3>2. CASE ~(Kind(w) = "manual" /\ ~again)
      BY <1>1, <1>5, <1>6, <1>7, <3>2, ManagerConstants DEF ProgressInv
    <3> QED
      BY <3>1, <3>2
  <2>2. ASSUME progress'[b] = "notification" PROVE <<"notice", b>> \in Worker /\ pc'[<<"notice", b>>] # "idle"
    <3>1. progress[b] = "notification" /\ <<"notice", b>> \in Worker /\ pc[<<"notice", b>>] # "idle"
      BY <1>6, <2>2, ManagerConstants DEF ProgressInv
    <3>2. <<"notice", b>> # w
      <4> SUFFICES ASSUME <<"notice", b>> = w PROVE FALSE
        OBVIOUS
      <4>1. Kind(w) = "notice" /\ a = b
        BY DEF Kind, Of, a
      <4> QED
        BY <1>6, <1>7, <2>2, <4>1, TriggerValues DEF TriggerOf
    <3> QED
      BY <1>3, <3>1, <3>2
  <2> QED
    BY <2>1, <2>2
<1>11. ASSUME NEW v \in Worker, Kind(v) \in DOMAIN Trigger PROVE WaitInv(v)'
  <2>1. v = w => use[Imap(v)] = "none"
    BY <1>1, <1>11, OneClaim
  <2> QED
    BY <1>1, <1>3, <1>11, <2>1 DEF ProgressInv, WaitInv
<1> QED
  BY <1>1, <1>6, <1>8, <1>9, <1>10, <1>11 DEF ProgressInv

(* What the loop does between its turns.                                     *)
LEMMA AutoIdle == StopInv /\ loop # "round" => \A w \in Worker : Kind(w) = "auto" => pc[w] = "idle"
BY DEF StopInv

LEMMA BetweenTurns ==
    ASSUME StopInv, ProgressInv, UNCHANGED <<crew, use, pc, patient>>, jobs' = jobs,
           progress' \in [Account -> {None, "automatic", "manual", "notification"}],
           \A a \in Account : progress'[a] \in {progress[a], None},
           \A a \in Account : progress[a] = "automatic" /\ progress'[a] = "automatic" =>
               pc[AutoTurn(a)] = "run" \/ a \in pending' \cup cont',
           loop' # "round" => pending' = {}, loop' # "list" => cont' = {}
    PROVE  ProgressInv'
<1>1. ASSUME NEW a \in Account, progress'[a] # None PROVE progress'[a] = progress[a]
  BY <1>1
<1>2. ASSUME NEW a \in Account PROVE AutoHonest(a)'
  BY <1>1, ManagerConstants DEF ProgressInv, AutoHonest
<1>3. ASSUME NEW a \in Account, AutoTurn(a) \in Worker PROVE TurnInv(a)'
  BY <1>1, <1>3, ManagerConstants DEF ProgressInv, TurnInv
<1>4. ASSUME NEW a \in Account
      PROVE  /\ progress'[a] = "manual" => a \in jobs'
             /\ progress'[a] = "notification" => <<"notice", a>> \in Worker /\ pc'[<<"notice", a>>] # "idle"
  BY <1>1, ManagerConstants DEF ProgressInv
<1>5. ASSUME NEW v \in Worker, Kind(v) \in DOMAIN Trigger PROVE WaitInv(v)'
  BY <1>5 DEF ProgressInv, WaitInv
<1> QED
  BY <1>2, <1>3, <1>4, <1>5 DEF ProgressInv

LEMMA RoundIdle ==
    ASSUME StopInv, ProgressInv, RoundOver \/ loop # "round", NEW a \in Account, progress[a] = "automatic"
    PROVE  a \in pending \cup cont
<1>1. AutoTurn(a) \in crew /\ AutoTurn(a) \in Worker /\ (pc[AutoTurn(a)] = "run" \/ a \in pending \cup cont)
  BY DEF ProgressInv, AutoHonest, StopInv
<1>2. pc[AutoTurn(a)] = "idle"
  BY <1>1, AutoIdle, AutoShape DEF RoundOver
<1> QED
  BY <1>1, <1>2

LEMMA DecideKeeps == ASSUME StopInv, ProgressInv, UNCHANGED crew, Decide PROVE ProgressInv'
<1>1. PICK go \in BOOLEAN :
          /\ cont' = IF go THEN pending ELSE {}
          /\ progress' = IF go THEN progress ELSE Finished(pending, "automatic")
          /\ go => loop' = "list"
  BY DEF Decide
<1>2. RoundOver /\ pending' = {} /\ UNCHANGED <<use, pc, jobs, patient>>
      /\ cont = {} /\ loop' \in {"list", "backoff", "interval"}
  BY DEF Decide, RoundOver, ProgressInv, lockVars, jobVars
<1>3. /\ progress' \in [Account -> {None, "automatic", "manual", "notification"}]
      /\ \A a \in Account : progress'[a] \in {progress[a], None}
      /\ ~go => \A a \in Account \cap pending : progress'[a] # "automatic"
  <2>1. CASE go
    BY <1>1, <2>1 DEF ProgressInv
  <2>2. CASE ~go
    BY <1>1, <2>2, FinishedValues, ManagerConstants
  <2> QED
    BY <2>1, <2>2
<1>4. ASSUME NEW a \in Account, progress[a] = "automatic", progress'[a] = "automatic"
      PROVE  a \in pending' \cup cont'
  BY <1>1, <1>2, <1>3, <1>4, RoundIdle
<1>5. loop' # "list" => cont' = {}
  BY <1>1
<1> QED
  BY <1>2, <1>3, <1>4, <1>5, BetweenTurns

LEMMA StartRoundKeeps == ASSUME StopInv, ProgressInv, UNCHANGED crew, StartRound PROVE ProgressInv'
<1> DEFINE turn == {a \in Account : AutoTurn(a) \in crew /\ Enabled(a) /\ row[a] # "paused"
                                     /\ (cont # {} => a \in cont)}
           T == {AutoTurn(a) : a \in turn}
<1>1. /\ loop = "list" /\ loop' = "round" /\ cont' = {} /\ pending' = {} /\ UNCHANGED <<use, jobs>>
      /\ pc' = [w \in Worker |-> IF w \in T THEN "run" ELSE pc[w]]
      /\ patient' = IF cont # {} THEN cont \cap turn ELSE {a \in turn : row[a] = "pending"}
      /\ progress' = Finished({a \in cont : Passed(a)}, "automatic")
  BY DEF StartRound, lockVars, jobVars
<1>2. ASSUME NEW a \in Account, progress'[a] = "automatic"
      PROVE  AutoTurn(a) \in crew /\ a \in turn /\ a \in patient'
  <2>1. progress[a] = "automatic" /\ ~(a \in cont /\ Passed(a))
    BY <1>1, <1>2, ManagerConstants DEF Finished
  <2>2. a \in cont
    BY <1>1, <2>1, RoundIdle DEF ProgressInv
  <2>3. AutoTurn(a) \in crew
    BY <2>1 DEF ProgressInv, AutoHonest
  <2> QED
    BY <1>1, <2>1, <2>2, <2>3 DEF Passed
<1>3. /\ progress' \in [Account -> {None, "automatic", "manual", "notification"}]
      /\ \A a \in Account : progress'[a] \in {progress[a], None}
  BY <1>1, FinishedValues
<1>4. \A w \in Worker : pc'[w] = "run" \/ pc'[w] = pc[w]
  BY <1>1
<1>5. \A a \in turn : AutoTurn(a) \in Worker /\ pc'[AutoTurn(a)] = "run"
  BY <1>1 DEF StopInv
<1> HIDE DEF turn, T
<1>6. ASSUME NEW a \in Account PROVE AutoHonest(a)'
  BY <1>2, <1>5 DEF AutoHonest
<1>7. ASSUME NEW a \in Account, AutoTurn(a) \in Worker PROVE TurnInv(a)'
  BY <1>2 DEF TurnInv
<1>8. ASSUME NEW a \in Account
      PROVE  /\ progress'[a] = "manual" => a \in jobs'
             /\ progress'[a] = "notification" => <<"notice", a>> \in Worker /\ pc'[<<"notice", a>>] # "idle"
  BY <1>1, <1>3, <1>4, ManagerConstants DEF ProgressInv
<1>9. ASSUME NEW v \in Worker, Kind(v) \in DOMAIN Trigger PROVE WaitInv(v)'
  BY <1>1, <1>4, <1>9 DEF ProgressInv, WaitInv
<1> QED
  BY <1>1, <1>3, <1>6, <1>7, <1>8, <1>9 DEF ProgressInv

LEMMA RunKeeps == ASSUME StopInv, ProgressInv, UNCHANGED crew, Run PROVE ProgressInv'
<1>1. CASE ListFails
  <2>1. /\ loop = "list" /\ loop' = "round" /\ cont' = {} /\ pending' = {} /\ pending = {}
        /\ progress' = Finished(cont, "automatic") /\ UNCHANGED <<use, pc, jobs, patient>>
    BY <1>1 DEF ListFails, ProgressInv, lockVars, jobVars
  <2>2. /\ progress' \in [Account -> {None, "automatic", "manual", "notification"}]
        /\ \A a \in Account : progress'[a] \in {progress[a], None}
        /\ \A a \in Account \cap cont : progress'[a] # "automatic"
    BY <2>1, FinishedValues, ManagerConstants
  <2>3. \A a \in Account : progress[a] = "automatic" => progress'[a] # "automatic"
    BY <2>1, <2>2, RoundIdle
  <2> QED
    BY <2>1, <2>2, <2>3, BetweenTurns
<1>2. CASE Retry
  <2>1. /\ loop = "backoff" /\ cont = {} /\ pending = {} /\ pending' = {}
        /\ loop' # "list" => cont' = {}
        /\ UNCHANGED <<use, pc, progress, jobs, patient>>
    BY <1>2 DEF Retry, ProgressInv, lockVars, jobVars
  <2>2. \A a \in Account : progress[a] # "automatic"
    BY <2>1, RoundIdle
  <2>3. progress' \in [Account -> {None, "automatic", "manual", "notification"}]
    BY <2>1 DEF ProgressInv
  <2> QED
    BY <2>1, <2>2, <2>3, BetweenTurns
<1>3. CASE Interval \/ WaitForManualJobs
  <2>1. /\ cont = {} /\ pending = {} /\ UNCHANGED <<use, pc, progress, jobs, patient, cont, pending>>
        /\ loop # "round"
    BY <1>3 DEF Interval, WaitForManualJobs, ProgressInv, lockVars, jobVars
  <2>2. \A a \in Account : progress[a] # "automatic"
    BY <2>1, RoundIdle
  <2>3. progress' \in [Account -> {None, "automatic", "manual", "notification"}]
    BY <2>1 DEF ProgressInv
  <2> QED
    BY <2>1, <2>2, <2>3, BetweenTurns
<1>4. CASE Leaves
  <2>1. /\ cont' = {} /\ pending' = {} /\ progress' = Finished(Account, "automatic")
        /\ UNCHANGED <<use, pc, jobs, patient>>
    BY <1>4 DEF Leaves, lockVars, jobVars
  <2>2. /\ progress' \in [Account -> {None, "automatic", "manual", "notification"}]
        /\ \A a \in Account : progress'[a] \in {progress[a], None}
        /\ \A a \in Account : progress'[a] # "automatic"
    BY <2>1, FinishedValues, ManagerConstants
  <2> QED
    BY <2>1, <2>2, BetweenTurns
<1> QED
  BY <1>1, <1>2, <1>3, <1>4, StartRoundKeeps, DecideKeeps DEF Run

LEMMA ProgressStep == StopInv /\ ProgressInv /\ [Next]_vars => ProgressInv'
<1> SUFFICES ASSUME StopInv, ProgressInv, [Next]_vars PROVE ProgressInv'
  OBVIOUS
<1>1. CASE UNCHANGED vars
  BY <1>1 DEF vars, lockVars, jobVars, runVars, ProgressInv, AutoHonest, TurnInv, WaitInv
<1> SUFFICES ASSUME Step, UNCHANGED crew PROVE ProgressInv'
  BY <1>1 DEF Next
<1>2. ASSUME NEW a \in Account, Start(a) PROVE ProgressInv'
  BY <1>2, StartKeeps
<1>3. ASSUME NEW w \in Worker, Work(w) PROVE ProgressInv'
  BY <1>3, EnterKeeps, TryKeeps, ReturnKeeps, SyncKeeps, ManagedKeeps, GiveBackKeeps DEF Work
<1>4. ASSUME NEW w \in Worker, Served(w) PROVE ProgressInv'
  BY <1>4, EnterKeeps, TakeKeeps DEF Served
<1>5. ASSUME NEW w \in Worker, Withdraw(w) PROVE ProgressInv'
  BY <1>5, WithdrawKeeps
<1>6. CASE Run
  BY <1>6, RunKeeps
<1>7. CASE WindowElapses \/ BeginShutdown \/ CancelWorkers
  BY <1>7 DEF WindowElapses, BeginShutdown, CancelWorkers, lockVars, jobVars, runVars,
              ProgressInv, AutoHonest, TurnInv, WaitInv
<1> QED
  BY <1>2, <1>3, <1>4, <1>5, <1>6, <1>7 DEF Step

(* Whatever the administrator is shown as running is still somebody's to     *)
(* finish: a turn, a continuation, a job or a notification                  *)
(* (ensureProgress, beginProgress, finishProgress, deferContinuations).      *)
THEOREM ManagerProgressHonest == Spec => []ProgressHonest
BY StopInitially, StopStep, ProgressInitially, ProgressStep, ProgressImplies, PTL DEF Spec
=============================================================================
