-------------------------------- MODULE Pool --------------------------------
(***************************************************************************)
(* The mailbox pool: which Hide-My-Email addresses may be handed to which  *)
(* project, under which lease, and what becomes of them afterwards         *)
(* (internal/store/pool.go, pool_commit_batch.go, the parts of account.go, *)
(* alias.go and apple_directory_reconcile.go that touch pool tables, and   *)
(* the handlers of internal/httpserver/pool.go).                           *)
(*                                                                         *)
(* A database row is an entry of a function; a missing row has the value   *)
(* 0 or "none".  Every pool writer first locks the single pool_lock row    *)
(* (poolTx), so a pool transaction is one action, with one exception: a    *)
(* claim selects its candidates before it locks the account rows, and      *)
(* writers that take only the account lock (alias deletion, alias switch,  *)
(* account deletion) commit in between.  `claim' holds that open           *)
(* transaction.                                                            *)
(***************************************************************************)
EXTENDS Integers, FiniteSets

CONSTANTS
    Account,    \* account row ids, positive numbers
    Address,    \* normalised mail addresses
    Client,     \* pool_clients rows (projects)
    Request,    \* request ids a project may send
    MaxAlias,   \* bound: alias rows ever inserted
    MaxLease,   \* bound: lease rows ever inserted
    MaxCount,   \* bound: addresses asked for in one claim
    MaxTTL,     \* bound: lease time to live, in clock ticks
    NoClaim     \* no claim transaction is open

ASSUME PoolAssumption ==
    /\ Account \subseteq Nat \ {0}
    /\ Address # {} /\ Client # {} /\ Request # {}
    /\ MaxAlias \in Nat /\ MaxLease \in Nat
    /\ MaxCount \in Nat \ {0} /\ MaxTTL \in Nat \ {0}
    /\ ~ \E k \in Client, r \in Request, S \in SUBSET (1..MaxAlias) :
            NoClaim = [client |-> k, req |-> r, picked |-> S]

AliasId == 1..MaxAlias
LeaseId == 1..MaxLease

MemberState == {"none", "available", "leased", "used", "paused"}
LeaseState == {"none", "leased", "used", "retiring", "retired", "released", "expired"}
LiveState == {"leased", "used", "retiring"}
ConsumedState == {"used", "retiring", "retired"}

VARIABLES
    account,      \* accounts.enabled: "enabled", "disabled", or "absent"
    autoEnroll,   \* pool_accounts.auto_enroll (a missing row reads FALSE)
    enrollAfter,  \* pool_accounts.enroll_after
    lastAlias,    \* the alias id sequence
    owner,        \* aliases.account_id, 0 when there is no such row
    addr,         \* aliases.address
    aliasOn,      \* aliases.enabled
    holders,      \* projects that were shown the alias's current credentials
    member,       \* pool_members.state
    suspended,    \* pool_suspended_members.state
    clientOn,     \* pool_clients.enabled
    request,      \* pool_requests: the count asked for, 0 when there is no row
    leaseState, leaseAlias, leaseAddr, leaseClient, leaseReq,  \* pool_leases
    ttl,          \* ticks until expires_at
    claim         \* the open claim transaction

accountVars == <<account, autoEnroll, enrollAfter>>
aliasVars == <<lastAlias, owner, addr, aliasOn>>
memberVars == <<member, suspended>>
leaseKeys == <<leaseAddr, leaseClient, leaseReq>>
leaseVars == <<leaseState, leaseAlias, leaseKeys, ttl>>
vars == <<accountVars, aliasVars, holders, memberVars, clientOn, request, leaseVars, claim>>

(***************************************************************************)
(* What the SQL conditions say.                                            *)
(***************************************************************************)

Exists(a) == owner[a] # 0

AccountOn(a) == Exists(a) /\ account[owner[a]] = "enabled"

\* The complement of poolUnconsumedAliasSQL.
Consumed(x) == \E l \in LeaseId : leaseState[l] \in ConsumedState /\ leaseAddr[l] = x

\* Mutant: the address's history is not looked at.
ClaimableAnyAddress(a) == aliasOn[a] /\ AccountOn(a)

\* poolClaimableAliasSQL; every alias row the current code writes is v2.
Claimable(a) == aliasOn[a] /\ AccountOn(a) /\ ~Consumed(addr[a])

\* poolSnapshotMemberStateSQL.
Snapshot(a, s) == IF s = "available" /\ Consumed(addr[a]) THEN "paused" ELSE s

Live(l) == leaseState[l] \in LiveState

\* The membership row that counts while the account is on or off.
PoolRow(a) == IF AccountOn(a) THEN member[a] ELSE suspended[a]

PoolLockFree == claim = NoClaim

-----------------------------------------------------------------------------
(***************************************************************************)
(* Accounts.                                                               *)
(***************************************************************************)

\* Deleting alias rows cascades to both membership tables and clears
\* pool_leases.alias_id; the lease keeps its state.
DropAliases(S) ==
    /\ owner' = [a \in AliasId |-> IF a \in S THEN 0 ELSE owner[a]]
    /\ holders' = [a \in AliasId |-> IF a \in S THEN {} ELSE holders[a]]
    /\ member' = [a \in AliasId |-> IF a \in S THEN "none" ELSE member[a]]
    /\ suspended' = [a \in AliasId |-> IF a \in S THEN "none" ELSE suspended[a]]
    /\ leaseAlias' = [l \in LeaseId |-> IF leaseAlias[l] \in S THEN 0 ELSE leaseAlias[l]]
    /\ UNCHANGED <<lastAlias, addr, aliasOn>>

CreateAccount(c) ==
    /\ account[c] = "absent"
    /\ account' = [account EXCEPT ![c] = "enabled"]
    /\ UNCHANGED <<autoEnroll, enrollAfter, aliasVars, holders, memberVars, clientOn,
                   request, leaseVars, claim>>

DeleteAccount(c) ==
    /\ account[c] # "absent"
    /\ account' = [account EXCEPT ![c] = "absent"]
    /\ autoEnroll' = [autoEnroll EXCEPT ![c] = FALSE]
    /\ DropAliases({a \in AliasId : owner[a] = c})
    /\ UNCHANGED <<enrollAfter, clientOn, request, leaseState, leaseKeys, ttl, claim>>

\* UpdateAccount with enabled = FALSE: membership is set aside.
DisableAccount(c) ==
    /\ PoolLockFree
    /\ account[c] = "enabled"
    /\ account' = [account EXCEPT ![c] = "disabled"]
    /\ suspended' = [a \in AliasId |->
          IF owner[a] = c /\ member[a] # "none" /\ suspended[a] = "none"
          THEN Snapshot(a, member[a]) ELSE suspended[a]]
    /\ member' = [a \in AliasId |-> IF owner[a] = c THEN "none" ELSE member[a]]
    /\ UNCHANGED <<autoEnroll, enrollAfter, aliasVars, holders, clientOn, request,
                   leaseVars, claim>>

\* UpdateAccount with enabled = TRUE on a disabled account: it is put back.
EnableAccount(c) ==
    /\ PoolLockFree
    /\ account[c] = "disabled"
    /\ account' = [account EXCEPT ![c] = "enabled"]
    /\ member' = [a \in AliasId |->
          IF owner[a] = c /\ suspended[a] # "none" /\ member[a] = "none"
          THEN Snapshot(a, suspended[a]) ELSE member[a]]
    /\ suspended' = [a \in AliasId |-> IF owner[a] = c THEN "none" ELSE suspended[a]]
    /\ UNCHANGED <<autoEnroll, enrollAfter, aliasVars, holders, clientOn, request,
                   leaseVars, claim>>

\* enroll_after moves to MAX(aliases.id) when auto enrolment is switched on.
SetPoolAccount(c, auto) ==
    /\ PoolLockFree
    /\ account[c] # "absent"
    /\ autoEnroll[c] # auto
    /\ autoEnroll' = [autoEnroll EXCEPT ![c] = auto]
    /\ \E m \in 0..MaxAlias :
          /\ m # 0 => Exists(m)
          /\ \A a \in AliasId : Exists(a) => a <= m
          /\ enrollAfter' = [enrollAfter EXCEPT ![c] = IF auto THEN m ELSE @]
    /\ UNCHANGED <<account, aliasVars, holders, memberVars, clientOn, request, leaseVars, claim>>

-----------------------------------------------------------------------------
(***************************************************************************)
(* Aliases.  These writers take the account lock only.                     *)
(***************************************************************************)

\* aliases.address is unique; ids come from a sequence.
CreateAlias(c, x, on) ==
    /\ lastAlias < MaxAlias
    /\ account[c] # "absent"
    /\ \A a \in AliasId : Exists(a) => addr[a] # x
    /\ lastAlias' = lastAlias + 1
    /\ owner' = [owner EXCEPT ![lastAlias + 1] = c]
    /\ addr' = [addr EXCEPT ![lastAlias + 1] = x]
    /\ aliasOn' = [aliasOn EXCEPT ![lastAlias + 1] = on]
    /\ UNCHANGED <<accountVars, holders, memberVars, clientOn, request, leaseVars, claim>>

SetAliasEnabled(a, on) ==
    /\ Exists(a)
    /\ aliasOn[a] # on
    /\ aliasOn' = [aliasOn EXCEPT ![a] = on]
    /\ UNCHANGED <<accountVars, lastAlias, owner, addr, holders, memberVars, clientOn,
                   request, leaseVars, claim>>

DeleteAlias(a) ==
    /\ Exists(a)
    /\ DropAliases({a})
    /\ UNCHANGED <<accountVars, clientOn, request, leaseState, leaseKeys, ttl, claim>>

RotateAliasCredentials(a) ==
    /\ Exists(a)
    /\ holders[a] # {}
    /\ holders' = [holders EXCEPT ![a] = {}]
    /\ UNCHANGED <<accountVars, aliasVars, memberVars, clientOn, request, leaseVars, claim>>

\* Addresses absent from a fresh, complete Apple directory: every live lease
\* is closed as retired before the alias goes.
ReconcileAppleDirectory(c, gone) ==
    /\ PoolLockFree
    /\ account[c] = "enabled"
    /\ gone # {} /\ \A a \in gone : owner[a] = c
    /\ leaseState' = [l \in LeaseId |->
          IF leaseAlias[l] \in gone /\ Live(l) THEN "retired" ELSE leaseState[l]]
    /\ ttl' = [l \in LeaseId |-> IF leaseAlias[l] \in gone THEN 0 ELSE ttl[l]]
    /\ DropAliases(gone)
    /\ UNCHANGED <<accountVars, clientOn, request, leaseKeys, claim>>

-----------------------------------------------------------------------------
(***************************************************************************)
(* Membership and projects.                                                *)
(***************************************************************************)

UpdatePoolClient(k, on) ==
    /\ PoolLockFree
    /\ clientOn[k] # on
    /\ clientOn' = [clientOn EXCEPT ![k] = on]
    /\ UNCHANGED <<accountVars, aliasVars, holders, memberVars, request, leaseVars, claim>>

\* The whole batch is refused unless every id is eligible.
EnrollPoolAliases(S) ==
    /\ PoolLockFree
    /\ S # {}
    /\ \A a \in S : /\ aliasOn[a] /\ AccountOn(a)
                    /\ ~Consumed(addr[a]) \/ member[a] \in {"leased", "used"}
    /\ member' = [a \in AliasId |-> IF a \in S /\ member[a] = "none" THEN "available" ELSE member[a]]
    /\ UNCHANGED <<accountVars, aliasVars, holders, suspended, clientOn, request, leaseVars, claim>>

SetPoolMember(a, s) ==
    /\ PoolLockFree
    /\ member[a] \in {"available", "paused"}
    /\ s = "available" => ~Consumed(addr[a])
    /\ member' = [member EXCEPT ![a] = s]
    /\ UNCHANGED <<accountVars, aliasVars, holders, suspended, clientOn, request, leaseVars, claim>>

\* The first transaction of RefreshPool.
RefreshEnroll ==
    LET fresh == {a \in AliasId : /\ Claimable(a) /\ member[a] = "none"
                                  /\ autoEnroll[owner[a]] /\ a > enrollAfter[owner[a]]}
    IN  /\ PoolLockFree
        /\ fresh # {}
        /\ member' = [a \in AliasId |-> IF a \in fresh THEN "available" ELSE member[a]]
        /\ UNCHANGED <<accountVars, aliasVars, holders, suspended, clientOn, request,
                       leaseVars, claim>>

-----------------------------------------------------------------------------
(***************************************************************************)
(* Claims.                                                                 *)
(***************************************************************************)

\* ORDER BY a.id, al.id
Before(a, b) == owner[a] < owner[b] \/ (owner[a] = owner[b] /\ a < b)

FirstOf(cands, n) ==
    {S \in SUBSET cands : /\ Cardinality(S) = n
                          /\ \A a \in S, b \in cands \ S : Before(a, b)}

\* Mutant: a repeated request id is not recognised.
ClaimSelectRepeated(k, r, n, scope) ==
    /\ PoolLockFree
    /\ clientOn[k]
    /\ \E S \in FirstOf({a \in AliasId : /\ member[a] = "available" /\ Claimable(a)
                                         /\ owner[a] \in scope}, n) :
          claim' = [client |-> k, req |-> r, picked |-> S]
    /\ UNCHANGED <<accountVars, aliasVars, holders, memberVars, clientOn, request, leaseVars>>

\* Up to the insertion of the request row: a new request of an enabled
\* project, with enough claimable members (scope is the account filter).
ClaimSelect(k, r, n, scope) ==
    /\ PoolLockFree
    /\ clientOn[k]
    /\ request[k][r] = 0
    /\ \E S \in FirstOf({a \in AliasId : /\ member[a] = "available" /\ Claimable(a)
                                         /\ owner[a] \in scope}, n) :
          claim' = [client |-> k, req |-> r, picked |-> S]
    /\ UNCHANGED <<accountVars, aliasVars, holders, memberVars, clientOn, request, leaseVars>>

\* The row checks made again under the account lock.
StillClaimable(a) == AccountOn(a) /\ aliasOn[a]

UnusedLeases == {l \in LeaseId : leaseState[l] = "none"}

\* Lease ids are unique random strings; the model takes the lowest unused
\* numbers, in the order of the aliases.
Numbering(g, L, S) ==
    /\ \A a \in S : \E l \in L : g[l] = a
    /\ \A l, m \in L : l < m => g[l] < g[m]
    /\ \A l \in L, m \in UnusedLeases : m < l => m \in L

\* Every picked alias gets new credentials and a lease; its member is leased.
ClaimCommit ==
    /\ claim # NoClaim
    /\ \A a \in claim.picked : StillClaimable(a)
    /\ \E L \in SUBSET UnusedLeases : \E g \in [L -> claim.picked], t \in 1..MaxTTL :
          /\ Numbering(g, L, claim.picked)
          /\ leaseState' = [l \in LeaseId |-> IF l \in L THEN "leased" ELSE leaseState[l]]
          /\ leaseAlias' = [l \in LeaseId |-> IF l \in L THEN g[l] ELSE leaseAlias[l]]
          /\ leaseAddr' = [l \in LeaseId |-> IF l \in L THEN addr[g[l]] ELSE leaseAddr[l]]
          /\ leaseClient' = [l \in LeaseId |-> IF l \in L THEN claim.client ELSE leaseClient[l]]
          /\ leaseReq' = [l \in LeaseId |-> IF l \in L THEN claim.req ELSE leaseReq[l]]
          /\ ttl' = [l \in LeaseId |-> IF l \in L THEN t ELSE ttl[l]]
    /\ request' = [request EXCEPT ![claim.client][claim.req] = Cardinality(claim.picked)]
    /\ member' = [a \in AliasId |-> IF a \in claim.picked THEN "leased" ELSE member[a]]
    /\ holders' = [a \in AliasId |-> IF a \in claim.picked THEN {} ELSE holders[a]]
    /\ claim' = NoClaim
    /\ UNCHANGED <<accountVars, aliasVars, suspended, clientOn>>

\* One candidate is gone or switched off: the whole claim rolls back.
ClaimAbort ==
    /\ claim # NoClaim
    /\ \E a \in claim.picked : ~StillClaimable(a)
    /\ claim' = NoClaim
    /\ UNCHANGED <<accountVars, aliasVars, holders, memberVars, clientOn, request, leaseVars>>

\* poolLeasePayload: the project is shown the current credentials.
ReadLease(l) ==
    /\ leaseAlias[l] # 0
    /\ clientOn[leaseClient[l]]
    /\ leaseState[l] = "used" \/ (leaseState[l] = "leased" /\ ttl[l] > 0)
    /\ aliasOn[leaseAlias[l]] /\ AccountOn(leaseAlias[l])
    /\ holders' = [holders EXCEPT ![leaseAlias[l]] = @ \cup {leaseClient[l]}]
    /\ UNCHANGED <<accountVars, aliasVars, memberVars, clientOn, request, leaseVars, claim>>

-----------------------------------------------------------------------------
(***************************************************************************)
(* Lease actions.                                                          *)
(***************************************************************************)

\* Mutant: only the table of enabled accounts is written.
WriteActiveMembers(S, s) ==
    /\ member' = [a \in AliasId |-> IF a \in S /\ member[a] # "none" THEN s ELSE member[a]]
    /\ UNCHANGED suspended

\* The membership row is written in the table the account's state selects;
\* an UPDATE without a row changes nothing.
WriteMembers(S, s) ==
    /\ member' = [a \in AliasId |->
          IF a \in S /\ AccountOn(a) /\ member[a] # "none" THEN s ELSE member[a]]
    /\ suspended' = [a \in AliasId |->
          IF a \in S /\ ~AccountOn(a) /\ suspended[a] # "none" THEN s ELSE suspended[a]]

\* commit, one lease or a batch of one project's leases: all or nothing,
\* leases already used are accepted as they are.
CommitPoolLeases(k, S) ==
    LET now == {l \in S : leaseState[l] = "leased"}
    IN  /\ PoolLockFree
        /\ now # {}
        /\ \A l \in S : /\ leaseClient[l] = k
                        /\ \/ leaseState[l] = "used"
                           \/ leaseState[l] = "leased" /\ ttl[l] > 0 /\ leaseAlias[l] # 0
        /\ leaseState' = [l \in LeaseId |-> IF l \in now THEN "used" ELSE leaseState[l]]
        /\ ttl' = [l \in LeaseId |-> IF l \in now THEN 0 ELSE ttl[l]]
        /\ WriteMembers({leaseAlias[l] : l \in now}, "used")
        /\ UNCHANGED <<accountVars, aliasVars, holders, clientOn, request, leaseAlias,
                       leaseKeys, claim>>

RenewLease(l, t) ==
    /\ PoolLockFree
    /\ leaseState[l] = "leased" /\ ttl[l] > 0 /\ leaseAlias[l] # 0
    /\ ttl' = [ttl EXCEPT ![l] = t]
    /\ WriteMembers({leaseAlias[l]}, "leased")
    /\ UNCHANGED <<accountVars, aliasVars, holders, clientOn, request, leaseState, leaseAlias,
                   leaseKeys, claim>>

\* Mutant: the address goes back with the credentials the project knows.
CloseLeaseKeepingKeys(l, final) ==
    /\ leaseState' = [leaseState EXCEPT ![l] = final]
    /\ ttl' = [ttl EXCEPT ![l] = 0]
    /\ WriteMembers({leaseAlias[l]}, IF Consumed(leaseAddr[l]) THEN "paused" ELSE "available")
    /\ UNCHANGED <<accountVars, aliasVars, holders, clientOn, request, leaseAlias, leaseKeys, claim>>

\* The address goes back with new credentials, or aside if it is consumed;
\* a lease whose alias is gone is only closed (lease and alias carry the
\* same address).
CloseLease(l, final) ==
    /\ leaseState' = [leaseState EXCEPT ![l] = final]
    /\ ttl' = [ttl EXCEPT ![l] = 0]
    /\ WriteMembers({leaseAlias[l]}, IF Consumed(leaseAddr[l]) THEN "paused" ELSE "available")
    /\ holders' = [a \in AliasId |-> IF a = leaseAlias[l] THEN {} ELSE holders[a]]
    /\ UNCHANGED <<accountVars, aliasVars, clientOn, request, leaseAlias, leaseKeys, claim>>

ReleaseLease(l) ==
    /\ PoolLockFree
    /\ leaseState[l] = "leased" /\ ttl[l] > 0
    /\ CloseLease(l, "released")

\* Mutant: the expiry joins the alias table and misses orphaned leases.
ExpireAttachedLease(l) ==
    /\ PoolLockFree
    /\ leaseState[l] = "leased" /\ ttl[l] = 0 /\ leaseAlias[l] # 0
    /\ CloseLease(l, "expired")

\* RefreshPool lists expired leases outside any transaction; the action
\* checks state and deadline again.
ExpireLease(l) ==
    /\ PoolLockFree
    /\ leaseState[l] = "leased" /\ ttl[l] = 0
    /\ CloseLease(l, "expired")

\* Wall-clock time passes for every lease.
Tick ==
    /\ \E l \in LeaseId : leaseState[l] = "leased" /\ ttl[l] > 0
    /\ ttl' = [l \in LeaseId |-> IF ttl[l] > 0 THEN ttl[l] - 1 ELSE 0]
    /\ UNCHANGED <<accountVars, aliasVars, holders, memberVars, clientOn, request,
                   leaseState, leaseAlias, leaseKeys, claim>>

-----------------------------------------------------------------------------

Init ==
    /\ account = [c \in Account |-> "enabled"]
    /\ autoEnroll = [c \in Account |-> FALSE]
    /\ enrollAfter = [c \in Account |-> 0]
    /\ lastAlias = 0
    /\ owner = [a \in AliasId |-> 0]
    /\ addr = [a \in AliasId |-> CHOOSE x \in Address : TRUE]
    /\ aliasOn = [a \in AliasId |-> FALSE]
    /\ holders = [a \in AliasId |-> {}]
    /\ member = [a \in AliasId |-> "none"]
    /\ suspended = [a \in AliasId |-> "none"]
    /\ clientOn = [k \in Client |-> TRUE]
    /\ request = [k \in Client |-> [r \in Request |-> 0]]
    /\ leaseState = [l \in LeaseId |-> "none"]
    /\ leaseAlias = [l \in LeaseId |-> 0]
    /\ leaseAddr = [l \in LeaseId |-> CHOOSE x \in Address : TRUE]
    /\ leaseClient = [l \in LeaseId |-> CHOOSE k \in Client : TRUE]
    /\ leaseReq = [l \in LeaseId |-> CHOOSE r \in Request : TRUE]
    /\ ttl = [l \in LeaseId |-> 0]
    /\ claim = NoClaim

AccountNext ==
    \E c \in Account :
        \/ CreateAccount(c) \/ DeleteAccount(c) \/ DisableAccount(c) \/ EnableAccount(c)
        \/ \E auto \in BOOLEAN : SetPoolAccount(c, auto)
        \/ \E x \in Address, on \in BOOLEAN : CreateAlias(c, x, on)
        \/ \E gone \in SUBSET AliasId : ReconcileAppleDirectory(c, gone)

AliasNext ==
    \E a \in AliasId :
        \/ \E on \in BOOLEAN : SetAliasEnabled(a, on)
        \/ DeleteAlias(a)
        \/ RotateAliasCredentials(a)
        \/ \E s \in {"available", "paused"} : SetPoolMember(a, s)

ClaimNext ==
    \/ \E k \in Client, r \in Request, n \in 1..MaxCount,
          scope \in {Account} \cup {{c} : c \in Account} : ClaimSelect(k, r, n, scope)
    \/ ClaimCommit
    \/ ClaimAbort

LeaseNext ==
    \/ \E k \in Client, S \in SUBSET LeaseId : CommitPoolLeases(k, S)
    \/ \E l \in LeaseId : \/ ReadLease(l) \/ ReleaseLease(l) \/ ExpireLease(l)
                          \/ \E t \in 1..MaxTTL : RenewLease(l, t)
    \/ Tick

Next ==
    \/ AccountNext
    \/ AliasNext
    \/ ClaimNext
    \/ LeaseNext
    \/ RefreshEnroll
    \/ \E S \in SUBSET AliasId : EnrollPoolAliases(S)
    \/ \E k \in Client, on \in BOOLEAN : UpdatePoolClient(k, on)

\* RunPoolMaintenance repeats every 15 seconds; an open transaction ends.
Fairness ==
    /\ WF_vars(ClaimCommit \/ ClaimAbort)
    /\ \A l \in LeaseId : SF_vars(ExpireLease(l))

Spec == Init /\ [][Next]_vars /\ Fairness

-----------------------------------------------------------------------------
(***************************************************************************)
(* Properties.                                                             *)
(***************************************************************************)

TypeOK ==
    /\ account \in [Account -> {"enabled", "disabled", "absent"}]
    /\ autoEnroll \in [Account -> BOOLEAN]
    /\ enrollAfter \in [Account -> 0..MaxAlias]
    /\ lastAlias \in 0..MaxAlias
    /\ owner \in [AliasId -> Account \cup {0}]
    /\ addr \in [AliasId -> Address]
    /\ aliasOn \in [AliasId -> BOOLEAN]
    /\ holders \in [AliasId -> SUBSET Client]
    /\ member \in [AliasId -> MemberState]
    /\ suspended \in [AliasId -> MemberState]
    /\ clientOn \in [Client -> BOOLEAN]
    /\ request \in [Client -> [Request -> Nat]]
    /\ leaseState \in [LeaseId -> LeaseState]
    /\ leaseAlias \in [LeaseId -> AliasId \cup {0}]
    /\ leaseAddr \in [LeaseId -> Address]
    /\ leaseClient \in [LeaseId -> Client]
    /\ leaseReq \in [LeaseId -> Request]
    /\ ttl \in [LeaseId -> 0..MaxTTL]
    /\ claim \in {NoClaim} \cup [client : Client, req : Request, picked : SUBSET AliasId]

\* The membership rows that go with a live lease (a resumed retirement pauses
\* the member).
RowsFor(s) == CASE s = "leased" -> {"leased"} [] s = "used" -> {"used"} [] OTHER -> {"used", "paused"}

\* The membership row of a leased, used or retiring alias says so.
RowMatchesLease ==
    \A l \in LeaseId : Live(l) /\ leaseAlias[l] # 0 =>
        PoolRow(leaseAlias[l]) \in RowsFor(leaseState[l])

\* An alias has at most one live lease.
OneLiveLease ==
    \A l, m \in LeaseId :
        Live(l) /\ Live(m) /\ leaseAlias[l] # 0 /\ leaseAlias[l] = leaseAlias[m] => l = m

\* A row that says leased or used is backed by a live lease.
HeldRowHasLease ==
    \A a \in AliasId : PoolRow(a) \in {"leased", "used"} =>
        \E l \in LeaseId : Live(l) /\ leaseAlias[l] = a

\* Only the table that counts holds a row.
OneTable ==
    \A a \in AliasId : IF AccountOn(a) THEN suspended[a] = "none" ELSE member[a] = "none"

\* Membership tells the truth about leases, through claim, release, expiry
\* and the account switch that moves rows between two tables: one live lease
\* per alias, held rows exactly for held aliases, so nothing available is held.
MembershipSound == RowMatchesLease /\ OneLiveLease /\ HeldRowHasLease /\ OneTable

\* An address is consumed at most once in its history and is never held again
\* afterwards, whatever happened to alias rows meanwhile: deletion, import of
\* the same address as a new row, an account switched off and on.
ConsumedOnce ==
    \A l, m \in LeaseId :
        l # m /\ leaseAddr[l] = leaseAddr[m] /\ leaseState[l] \in ConsumedState =>
            /\ leaseState[m] \notin ConsumedState
            /\ leaseState[m] = "leased" => leaseAlias[m] = 0

\* Only the project holding the live lease of an alias can know its current
\* credentials: claim, release and expiry rotate them.
CredentialsExclusive ==
    \A a \in AliasId : \A k \in holders[a] :
        \E l \in LeaseId : leaseAlias[l] = a /\ Live(l) /\ leaseClient[l] = k

\* Alias ids are never reused, an address belongs to one alias row, rows of a
\* deleted alias are gone with it, and a lease that still has its alias
\* carries the alias's address.
RowsBound ==
    /\ \A a \in AliasId : Exists(a) => a <= lastAlias /\ account[owner[a]] # "absent"
    /\ \A a \in AliasId : ~Exists(a) => member[a] = "none" /\ suspended[a] = "none" /\ holders[a] = {}
    /\ \A a, b \in AliasId : Exists(a) /\ Exists(b) /\ addr[a] = addr[b] => a = b
    /\ \A l \in LeaseId : leaseAlias[l] # 0 =>
          /\ Exists(leaseAlias[l]) /\ leaseAddr[l] = addr[leaseAlias[l]]
          /\ leaseState[l] # "none"

\* While a claim waits for the account locks, a candidate that still exists is
\* still available and unconsumed: everything else that could change waits for
\* the pool lock.
ClaimSound ==
    claim # NoClaim => \A a \in claim.picked :
        /\ a <= lastAlias
        /\ Exists(a) => member[a] = "available" /\ ~Consumed(addr[a])

\* The inductive invariant: membership, consumption and credentials are safe
\* because rows are bound as above and an open claim is sound.
PoolInv ==
    /\ TypeOK /\ RowsBound /\ ClaimSound
    /\ MembershipSound /\ ConsumedOnce /\ CredentialsExclusive

\* A recorded request is answered in full and exactly once: it owns as many
\* leases as it asked for, and without a record there is no lease.
RequestFulfilled ==
    \A k \in Client, r \in Request :
        request[k][r] = Cardinality({l \in LeaseId : /\ leaseState[l] # "none"
                                                     /\ leaseClient[l] = k
                                                     /\ leaseReq[l] = r})

\* A closed lease stays closed and a used one is never handed back; a lease
\* whose alias was deleted under it can no longer become used.
LeaseStep(l) ==
    leaseState'[l] # leaseState[l] =>
        /\ leaseState[l] \in {"none", "leased", "used", "retiring"}
        /\ leaseState[l] = "used" => leaseState'[l] \in {"retiring", "retired"}
        /\ leaseState[l] = "leased" /\ leaseAlias[l] = 0 => leaseState'[l] \in {"released", "expired"}

LeaseLifecycle == [][\A l \in LeaseId : LeaseStep(l)]_vars

\* Maintenance takes back every lease that ran out, orphaned or not, however
\* busy the pool is.
ExpiredReclaimed ==
    \A l \in LeaseId : leaseState[l] = "leased" /\ ttl[l] = 0 ~> leaseState[l] # "leased"
=============================================================================
