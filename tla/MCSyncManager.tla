---------------------------- MODULE MCSyncManager ----------------------------
(* One connection, and the callers of two mailboxes in all the combinations *)
(* that meet at a lock, at the connection or in the automatic loop.         *)
EXTENDS SyncManager

CONSTANTS a1, a2, l1, l2, l3

At(k) == <<k, a1>>
MCWorker == {At(k) : k \in {"auto", "manual", "notice", "seen", "admin"}} \cup {<<"notice", a2>>}
MCCrews == {
    {At("auto"), At("manual")},
    {At("auto"), At("admin")},
    {At("manual"), At("notice")},
    {At("manual"), <<"notice", a2>>},
    {At("manual"), At("seen")},
    {At("seen"), At("admin")}}

(* The mailboxes an account is moved through happen to share a UIDVALIDITY. *)
SameValidity == [s \in 1..MaxSource |-> 7]
=============================================================================
