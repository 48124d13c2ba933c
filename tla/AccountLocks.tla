---------------------------- MODULE AccountLocks ----------------------------
(***************************************************************************)
(* The keyed locks of the mailbox manager (internal/syncer/manager.go): a  *)
(* map from account to a lock object that exists only while somebody wants *)
(* it. A caller takes a reference to the object under the mutex of the map *)
(* and then competes for its token without that mutex; whoever drops the   *)
(* last reference removes the object from the map.                         *)
(***************************************************************************)
EXTENDS Integers, FiniteSets

CONSTANTS
    Proc,    \* callers
    Key,     \* accounts
    Lock,    \* lock objects the allocator may use
    None     \* no lock object, no caller

ASSUME LockConstants ==
    /\ IsFiniteSet(Proc)
    /\ None \notin Proc \cup Lock

VARIABLES
    entry,    \* the map: key -> lock object, or None
    refs,     \* lock object -> references to it
    token,    \* lock object -> the caller whose token is in its channel
    use,      \* caller -> "none", "wait", "hold", or "left": token returned, reference kept
    want,     \* caller -> the key it asked for last
    at        \* caller -> the lock object it has a reference to

lockVars == <<entry, refs, token, use, want, at>>

Users(l) == {p \in Proc : use[p] # "none" /\ at[p] = l}

(* A lock object nobody can reach may be allocated again; which one it is    *)
(* makes no difference.                                                      *)
Unreachable(l) == (\A k \in Key : entry[k] # l) /\ Users(l) = {}
New == CHOOSE l \in Lock : Unreachable(l)
CanAllocate == \E l \in Lock : Unreachable(l)

LocksInit ==
    /\ entry = [k \in Key |-> None]
    /\ refs = [l \in Lock |-> 0]
    /\ token = [l \in Lock |-> None]
    /\ use = [p \in Proc |-> "none"]
    /\ want \in [Proc -> Key]
    /\ at = [p \in Proc |-> None]

(* acquireKeyedAccountUntil up to the unlock of locksMu: a caller joins the  *)
(* object of its key, or creates it.                                         *)
Allocate(p, k, state, t) ==
    /\ entry[k] = None /\ CanAllocate
    /\ entry' = [entry EXCEPT ![k] = New]
    /\ refs' = [refs EXCEPT ![New] = 1]
    /\ token' = [token EXCEPT ![New] = t]
    /\ at' = [at EXCEPT ![p] = New]
    /\ use' = [use EXCEPT ![p] = state]
    /\ want' = [want EXCEPT ![p] = k]

Join(p, k) ==
    /\ entry[k] # None
    /\ refs' = [refs EXCEPT ![entry[k]] = @ + 1]
    /\ at' = [at EXCEPT ![p] = entry[k]]
    /\ use' = [use EXCEPT ![p] = "wait"]
    /\ want' = [want EXCEPT ![p] = k]
    /\ UNCHANGED <<entry, token>>

Enter(p, k) == use[p] = "none" /\ (Allocate(p, k, "wait", None) \/ Join(p, k))

(* The token goes into the channel, which has room for one. *)
Take(p) ==
    /\ use[p] = "wait" /\ token[at[p]] = None
    /\ token' = [token EXCEPT ![at[p]] = p]
    /\ use' = [use EXCEPT ![p] = "hold"]
    /\ UNCHANGED <<entry, refs, want, at>>

(* releaseAccountLock *)
Abandoned(l) == TRUE    \* removed from the map while others wait for it
Unused(l) == refs[l] = 1
Drop(p) ==
    /\ refs' = [refs EXCEPT ![at[p]] = @ - 1]
    /\ entry' = [k \in Key |-> IF k = want[p] /\ Unused(at[p]) /\ entry[k] = at[p]
                               THEN None ELSE entry[k]]
    /\ use' = [use EXCEPT ![p] = "none"]
    /\ at' = [at EXCEPT ![p] = None]
    /\ UNCHANGED <<token, want>>

(* The context of the caller, or of its retry window, ends first. *)
GiveUp(p) == use[p] = "wait" /\ Drop(p)

(* tryAcquireKeyedAccount: only a key nobody has a reference to.            *)
Try(p, k) == use[p] = "none" /\ Allocate(p, k, "hold", p)

(* accountLockRelease: the token comes out, then the reference goes.        *)
Unlock(p) ==
    /\ use[p] = "hold"
    /\ token' = [token EXCEPT ![at[p]] = None]
    /\ use' = [use EXCEPT ![p] = "left"]
    /\ UNCHANGED <<entry, refs, want, at>>

Leave(p) == use[p] = "left" /\ Drop(p)

LocksNext ==
    \E p \in Proc :
        \/ \E k \in Key : Enter(p, k) \/ Try(p, k)
        \/ Take(p) \/ GiveUp(p) \/ Unlock(p) \/ Leave(p)

LocksSpec == LocksInit /\ [][LocksNext]_lockVars

-----------------------------------------------------------------------------
(* The lock map implements the abstract lock service. *)

Holders == [k \in Key |-> {p \in Proc : use[p] = "hold" /\ want[p] = k}]

Service == INSTANCE LockService WITH holders <- Holders

(* Nobody shares an account: the callers that got past the lock of a key    *)
(* are never two, whatever came and went while they waited                  *)
(* (acquireKeyedAccountUntil, releaseAccountLock).                          *)
Exclusive == \A p, q \in Proc :
    use[p] = "hold" /\ use[q] = "hold" /\ want[p] = want[q] => p = q

(* Every step of the lock map is a step of the lock service.                *)
ServesLocks == Service!Spec

-----------------------------------------------------------------------------
(* The inductive invariant. *)

Uses == {"none", "wait", "hold", "left"}

LocksTypeOK ==
    /\ entry \in [Key -> Lock \cup {None}]
    /\ refs \in [Lock -> Nat]
    /\ token \in [Lock -> Proc \cup {None}]
    /\ use \in [Proc -> Uses]
    /\ want \in [Proc -> Key]
    /\ at \in [Proc -> Lock \cup {None}]

(* Every caller is counted at the object it uses, and the map leads to it;   *)
(* two keys never share an object; a token is where its holder is.           *)
Counted == \A l \in Lock : refs[l] = Cardinality(Users(l))
Reached == \A p \in Proc : use[p] # "none" => at[p] \in Lock /\ entry[want[p]] = at[p]
Separate == \A j, k \in Key : entry[j] = entry[k] /\ entry[j] # None => j = k
Tokens == \A p \in Proc, l \in Lock : token[l] = p <=> use[p] = "hold" /\ at[p] = l

LocksInv == LocksTypeOK /\ Counted /\ Reached /\ Separate /\ Tokens
=============================================================================
