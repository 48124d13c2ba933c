---------------------------- MODULE LockService -----------------------------
(***************************************************************************)
(* What the account locks of internal/syncer promise their callers: at any *)
(* time a key has at most one holder, a caller gets a key only while       *)
(* nobody holds it, and it is given up by its holder alone.                *)
(***************************************************************************)
CONSTANTS Proc, Key

VARIABLE holders    \* key -> the callers that hold it

Init == holders = [k \in Key |-> {}]

OthersKept(k) == \A j \in Key \ {k} : holders'[j] = holders[j]

Acquire(p, k) == holders[k] = {} /\ holders'[k] = {p} /\ OthersKept(k)

Release(p, k) == holders[k] = {p} /\ holders'[k] = {} /\ OthersKept(k)

Next == \E p \in Proc, k \in Key : Acquire(p, k) \/ Release(p, k)

Spec == Init /\ [][Next]_holders

(* Nobody shares a key. *)
Exclusive == \A k \in Key : \A p, q \in holders[k] : p = q
=============================================================================
