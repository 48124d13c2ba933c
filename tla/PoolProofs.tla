----------------------------- MODULE PoolProofs -----------------------------
(***************************************************************************)
(* Pool is safe for any number of accounts, addresses, projects, aliases   *)
(* and leases, and stays safe while jobs retire its addresses: proofs      *)
(* about modules Pool and PoolRetirement.                                  *)
(***************************************************************************)
EXTENDS PoolRetirement, FiniteSetTheorems, TLAPS

\* A claim transaction names a set of aliases, which is finite.
LEMMA PickedFinite ==
    ASSUME NEW S \in SUBSET AliasId
    PROVE  Cardinality(S) \in Nat
<1>1. IsFiniteSet(AliasId)
  BY FS_Interval, PoolAssumption DEF AliasId
<1>2. IsFiniteSet(S)
  BY <1>1, FS_Subset
<1> QED BY <1>2, FS_CardinalityType

\* What a committed claim writes: g gives each new lease its alias, t is the
\* time to live.
Issued(L, g, t) ==
    /\ Numbering(g, L, claim.picked)
    /\ leaseState' = [l \in LeaseId |-> IF l \in L THEN "leased" ELSE leaseState[l]]
    /\ leaseAlias' = [l \in LeaseId |-> IF l \in L THEN g[l] ELSE leaseAlias[l]]
    /\ leaseAddr' = [l \in LeaseId |-> IF l \in L THEN addr[g[l]] ELSE leaseAddr[l]]
    /\ leaseClient' = [l \in LeaseId |-> IF l \in L THEN claim.client ELSE leaseClient[l]]
    /\ leaseReq' = [l \in LeaseId |-> IF l \in L THEN claim.req ELSE leaseReq[l]]
    /\ ttl' = [l \in LeaseId |-> IF l \in L THEN t ELSE ttl[l]]

\* A claim that commits issues leases.
LEMMA ClaimIssues ==
    ASSUME ClaimCommit
    PROVE  \E L \in SUBSET UnusedLeases : \E g \in [L -> claim.picked], t \in 1..MaxTTL :
              Issued(L, g, t)
  BY DEF ClaimCommit, Issued

\* The initial tables are well typed.
LEMMA InitType == Init => TypeOK
  BY PoolAssumption DEF Init, TypeOK, AliasId, LeaseId, MemberState, LeaseState

\* Closing a lease keeps types.
LEMMA CloseType ==
    ASSUME TypeOK, NEW l \in LeaseId, NEW final \in LeaseState, CloseLease(l, final)
    PROVE  TypeOK'
<1> USE PoolAssumption DEF TypeOK, AliasId, LeaseId, MemberState
<1>1. leaseState' \in [LeaseId -> LeaseState] /\ ttl' \in [LeaseId -> 0..MaxTTL]
  BY DEF CloseLease
<1>2. \E T, s : s \in MemberState /\ WriteMembers(T, s)
  BY DEF CloseLease
<1>3. member' \in [AliasId -> MemberState] /\ suspended' \in [AliasId -> MemberState]
  BY <1>2 DEF WriteMembers
<1>4. holders' \in [AliasId -> SUBSET Client]
  BY DEF CloseLease
<1>5. UNCHANGED <<accountVars, aliasVars, clientOn, request, leaseAlias, leaseKeys, claim>>
  BY DEF CloseLease
<1> QED BY <1>1, <1>3, <1>4, <1>5 DEF accountVars, aliasVars, leaseKeys

\* Types survive every pool operation.
LEMMA TypeStep ==
    ASSUME TypeOK, [Next]_vars
    PROVE  TypeOK'
<1> USE PoolAssumption DEF TypeOK, AliasId, LeaseId, MemberState, LeaseState,
        accountVars, aliasVars, memberVars, leaseKeys, leaseVars
<1>1. CASE AccountNext
  <2>1. PICK c \in Account :
          \/ CreateAccount(c) \/ DeleteAccount(c) \/ DisableAccount(c) \/ EnableAccount(c)
          \/ \E auto \in BOOLEAN : SetPoolAccount(c, auto)
          \/ \E x \in Address, on \in BOOLEAN : CreateAlias(c, x, on)
          \/ \E gone \in SUBSET AliasId : ReconcileAppleDirectory(c, gone)
    BY <1>1 DEF AccountNext
  <2>2. CASE CreateAccount(c)  BY <2>2 DEF CreateAccount
  <2>3. CASE DeleteAccount(c)  BY <2>3 DEF DeleteAccount, DropAliases
  <2>4. CASE DisableAccount(c)  BY <2>4 DEF DisableAccount, Snapshot
  <2>5. CASE EnableAccount(c)  BY <2>5 DEF EnableAccount, Snapshot
  <2>6. ASSUME NEW auto \in BOOLEAN, SetPoolAccount(c, auto) PROVE TypeOK'
    <3>1. autoEnroll' \in [Account -> BOOLEAN] /\ enrollAfter' \in [Account -> 0..MaxAlias]
      BY <2>6 DEF SetPoolAccount
    <3>2. UNCHANGED <<account, aliasVars, holders, memberVars, clientOn, request, leaseVars, claim>>
      BY <2>6 DEF SetPoolAccount
    <3> QED BY <3>1, <3>2
  <2>7. ASSUME NEW x \in Address, NEW on \in BOOLEAN, CreateAlias(c, x, on) PROVE TypeOK'
    BY <2>7 DEF CreateAlias
  <2>8. ASSUME NEW gone \in SUBSET AliasId, ReconcileAppleDirectory(c, gone) PROVE TypeOK'
    BY <2>8 DEF ReconcileAppleDirectory, DropAliases
  <2> HIDE DEF TypeOK
  <2> QED BY <2>1, <2>2, <2>3, <2>4, <2>5, <2>6, <2>7, <2>8
<1>2. CASE AliasNext
  <2>1. PICK a \in AliasId :
          \/ \E on \in BOOLEAN : SetAliasEnabled(a, on)
          \/ DeleteAlias(a)
          \/ RotateAliasCredentials(a)
          \/ \E s \in {"available", "paused"} : SetPoolMember(a, s)
    BY <1>2 DEF AliasNext
  <2>2. ASSUME NEW on \in BOOLEAN, SetAliasEnabled(a, on) PROVE TypeOK'
    BY <2>2 DEF SetAliasEnabled
  <2>3. CASE DeleteAlias(a)  BY <2>3 DEF DeleteAlias, DropAliases
  <2>4. CASE RotateAliasCredentials(a)  BY <2>4 DEF RotateAliasCredentials
  <2>5. ASSUME NEW s \in {"available", "paused"}, SetPoolMember(a, s) PROVE TypeOK'
    BY <2>5 DEF SetPoolMember
  <2> QED BY <2>1, <2>2, <2>3, <2>4, <2>5
<1>3. CASE ClaimNext
  <2>1. ASSUME NEW k \in Client, NEW r \in Request, NEW n \in 1..MaxCount, NEW scope,
               ClaimSelect(k, r, n, scope)
        PROVE  TypeOK'
    <3>1. PICK S \in SUBSET AliasId : claim' = [client |-> k, req |-> r, picked |-> S]
      BY <2>1 DEF ClaimSelect, FirstOf
    <3>2. claim' \in [client : Client, req : Request, picked : SUBSET AliasId]
      BY <3>1
    <3>3. UNCHANGED <<accountVars, aliasVars, holders, memberVars, clientOn, request, leaseVars>>
      BY <2>1 DEF ClaimSelect
    <3> QED BY <3>2, <3>3
  <2>2. CASE ClaimCommit
    <3>1. claim \in [client : Client, req : Request, picked : SUBSET AliasId]
      BY <2>2 DEF ClaimCommit
    <3>2. Cardinality(claim.picked) \in Nat
      BY <3>1, PickedFinite
    <3>3. request' \in [Client -> [Request -> Nat]]
      BY <2>2, <3>1, <3>2 DEF ClaimCommit
    <3>4. member' \in [AliasId -> MemberState] /\ holders' \in [AliasId -> SUBSET Client]
      BY <2>2, <3>1 DEF ClaimCommit
    <3>8. PICK L \in SUBSET UnusedLeases : \E g \in [L -> claim.picked], t \in 1..MaxTTL :
             Issued(L, g, t)
      BY <2>2, ClaimIssues
    <3>5. PICK g \in [L -> claim.picked], t \in 1..MaxTTL : Issued(L, g, t)
      BY <3>8
    <3>6. /\ leaseState' \in [LeaseId -> LeaseState]
          /\ leaseAlias' \in [LeaseId -> AliasId \cup {0}]
          /\ leaseAddr' \in [LeaseId -> Address]
          /\ leaseClient' \in [LeaseId -> Client]
          /\ leaseReq' \in [LeaseId -> Request]
          /\ ttl' \in [LeaseId -> 0..MaxTTL]
      <4>1. /\ \A l \in L : g[l] \in AliasId /\ addr[g[l]] \in Address
            /\ claim.client \in Client /\ claim.req \in Request /\ t \in 0..MaxTTL
        BY <3>1
      <4>2. leaseState' \in [LeaseId -> LeaseState]  BY <3>5 DEF Issued
      <4>3. leaseAlias' \in [LeaseId -> AliasId \cup {0}]  BY <4>1, <3>5 DEF Issued
      <4>4. leaseAddr' \in [LeaseId -> Address]  BY <4>1, <3>5 DEF Issued
      <4>5. leaseClient' \in [LeaseId -> Client]  BY <4>1, <3>5 DEF Issued
      <4>6. leaseReq' \in [LeaseId -> Request]  BY <4>1, <3>5 DEF Issued
      <4>7. ttl' \in [LeaseId -> 0..MaxTTL]  BY <4>1, <3>5 DEF Issued
      <4> QED BY <4>2, <4>3, <4>4, <4>5, <4>6, <4>7
    <3>7. UNCHANGED <<accountVars, aliasVars, suspended, clientOn>> /\ claim' = NoClaim
      BY <2>2 DEF ClaimCommit
    <3> QED BY <3>3, <3>4, <3>6, <3>7
  <2>3. CASE ClaimAbort  BY <2>3 DEF ClaimAbort
  <2> QED BY <1>3, <2>1, <2>2, <2>3 DEF ClaimNext
<1>4. CASE LeaseNext
  <2>1. ASSUME NEW k \in Client, NEW S \in SUBSET LeaseId, CommitPoolLeases(k, S) PROVE TypeOK'
    <3>1. PICK T : leaseState' = [m \in LeaseId |-> IF m \in T THEN "used" ELSE leaseState[m]]
                  /\ ttl' = [m \in LeaseId |-> IF m \in T THEN 0 ELSE ttl[m]]
      BY <2>1 DEF CommitPoolLeases
    <3>5. leaseState' \in [LeaseId -> LeaseState] /\ ttl' \in [LeaseId -> 0..MaxTTL]
      BY <3>1
    <3>2. \E W : WriteMembers(W, "used")
      BY <2>1 DEF CommitPoolLeases
    <3>3. member' \in [AliasId -> MemberState] /\ suspended' \in [AliasId -> MemberState]
      BY <3>2 DEF WriteMembers
    <3>4. UNCHANGED <<accountVars, aliasVars, holders, clientOn, request, leaseAlias, leaseKeys, claim>>
      BY <2>1 DEF CommitPoolLeases
    <3> QED BY <3>3, <3>4, <3>5
  <2>2. ASSUME NEW l \in LeaseId, ReadLease(l) PROVE TypeOK'
    <3>1. holders' \in [AliasId -> SUBSET Client]
      BY <2>2 DEF ReadLease
    <3>2. UNCHANGED <<accountVars, aliasVars, memberVars, clientOn, request, leaseVars, claim>>
      BY <2>2 DEF ReadLease
    <3> QED BY <3>1, <3>2
  <2>3. ASSUME NEW l \in LeaseId, ReleaseLease(l) PROVE TypeOK'
    BY <2>3, CloseType DEF ReleaseLease
  <2>4. ASSUME NEW l \in LeaseId, ExpireLease(l) PROVE TypeOK'
    BY <2>4, CloseType DEF ExpireLease
  <2>5. ASSUME NEW l \in LeaseId, NEW t \in 1..MaxTTL, RenewLease(l, t) PROVE TypeOK'
    <3>1. ttl' \in [LeaseId -> 0..MaxTTL]
      BY <2>5 DEF RenewLease
    <3>2. member' \in [AliasId -> MemberState] /\ suspended' \in [AliasId -> MemberState]
      BY <2>5 DEF RenewLease, WriteMembers
    <3>3. UNCHANGED <<accountVars, aliasVars, holders, clientOn, request, leaseState, leaseAlias,
                      leaseKeys, claim>>
      BY <2>5 DEF RenewLease
    <3> QED BY <3>1, <3>2, <3>3
  <2>6. CASE Tick
    <3>1. ttl' \in [LeaseId -> 0..MaxTTL]
      <4>1. ASSUME NEW l \in LeaseId
            PROVE  (IF ttl[l] > 0 THEN ttl[l] - 1 ELSE 0) \in 0..MaxTTL
        <5>1. ttl[l] \in 0..MaxTTL  OBVIOUS
        <5> HIDE DEF TypeOK
        <5> QED BY <5>1
      <4> QED BY <2>6, <4>1 DEF Tick
    <3>2. UNCHANGED <<accountVars, aliasVars, holders, memberVars, clientOn, request,
                      leaseState, leaseAlias, leaseKeys, claim>>
      BY <2>6 DEF Tick
    <3> QED BY <3>1, <3>2
  <2> QED BY <1>4, <2>1, <2>2, <2>3, <2>4, <2>5, <2>6 DEF LeaseNext
<1>5. CASE RefreshEnroll  BY <1>5 DEF RefreshEnroll
<1>6. ASSUME NEW S \in SUBSET AliasId, EnrollPoolAliases(S) PROVE TypeOK'
  BY <1>6 DEF EnrollPoolAliases
<1>7. ASSUME NEW k \in Client, NEW on \in BOOLEAN, UpdatePoolClient(k, on) PROVE TypeOK'
  BY <1>7 DEF UpdatePoolClient
<1>8. CASE UNCHANGED vars  BY <1>8 DEF vars
<1> HIDE DEF TypeOK
<1> QED BY <1>1, <1>2, <1>3, <1>4, <1>5, <1>6, <1>7, <1>8 DEF Next

\* Every reachable state of the pool is well typed.
THEOREM PoolTypes == Spec => []TypeOK
<1>1. Init => TypeOK  BY InitType
<1>2. TypeOK /\ [Next]_vars => TypeOK'  BY TypeStep
<1> QED BY <1>1, <1>2, PTL DEF Spec
-----------------------------------------------------------------------------
(***************************************************************************)
(* The inductive invariant.  PoolSafe is PoolInv without the types, which  *)
(* TypeStep provides.                                                      *)
(***************************************************************************)

PoolSafe == RowsBound /\ ClaimSound /\ MembershipSound /\ ConsumedOnce /\ CredentialsExclusive

\* The empty tables are safe.
LEMMA InitSafe == Init => PoolSafe
<1> SUFFICES ASSUME Init PROVE PoolSafe  OBVIOUS
<1>1. RowsBound /\ ClaimSound
  BY PoolAssumption DEF Init, RowsBound, ClaimSound, Exists, AliasId, LeaseId
<1>2. MembershipSound
  BY PoolAssumption DEF Init, MembershipSound, RowMatchesLease, OneLiveLease, HeldRowHasLease,
     OneTable, Live, LiveState, PoolRow, AccountOn, Exists, AliasId, LeaseId
<1>3. ConsumedOnce /\ CredentialsExclusive
  BY DEF Init, ConsumedOnce, CredentialsExclusive, ConsumedState, AliasId, LeaseId
<1> QED BY <1>1, <1>2, <1>3 DEF PoolSafe

\* A step that leaves the tables of the invariant alone keeps it.
LEMMA QuietSafe ==
    ASSUME PoolSafe,
           UNCHANGED <<account, lastAlias, owner, addr, holders, member, suspended, claim,
                       leaseState, leaseAlias, leaseAddr, leaseClient>>
    PROVE  PoolSafe'
  BY DEF PoolSafe, RowsBound, ClaimSound, MembershipSound, RowMatchesLease, OneLiveLease,
     HeldRowHasLease, OneTable, ConsumedOnce, CredentialsExclusive, Live, PoolRow, AccountOn,
     Exists, Consumed

\* Two leases of one address that still have their alias have the same one.
LEMMA AddressBound ==
    ASSUME TypeOK, PoolSafe, NEW l \in LeaseId, NEW m \in LeaseId,
           leaseAddr[l] = leaseAddr[m], leaseAlias[l] # 0, leaseAlias[m] # 0
    PROVE  leaseAlias[l] = leaseAlias[m]
<1>1. leaseAlias[l] \in AliasId /\ leaseAlias[m] \in AliasId
  BY DEF TypeOK
<1>2. /\ Exists(leaseAlias[l]) /\ leaseAddr[l] = addr[leaseAlias[l]]
      /\ Exists(leaseAlias[m]) /\ leaseAddr[m] = addr[leaseAlias[m]]
  BY DEF RowsBound, PoolSafe
<1> QED BY <1>1, <1>2 DEF RowsBound, PoolSafe

\* Deleting alias rows keeps the invariant, whether or not it closes the live
\* leases of those aliases, as long as other aliases keep their account state.
LEMMA DropSafe ==
    ASSUME TypeOK, PoolSafe, NEW S \in SUBSET AliasId, DropAliases(S),
           UNCHANGED <<leaseAddr, leaseClient, claim>>,
           leaseState' \in [LeaseId -> LeaseState],
           \A l \in LeaseId : \/ leaseState'[l] = leaseState[l]
                              \/ /\ leaseState'[l] = "retired" /\ Live(l)
                                 /\ leaseAlias[l] \in S /\ claim = NoClaim,
           \A a \in AliasId : Exists(a) /\ a \notin S => account'[owner[a]] = account[owner[a]]
    PROVE  PoolSafe'
<1> USE PoolAssumption DEF AliasId, LeaseId
<1>1. \A a \in AliasId : /\ a \in S => owner'[a] = 0 /\ PoolRow(a)' = "none" /\ holders'[a] = {}
                         /\ a \notin S => /\ owner'[a] = owner[a] /\ holders'[a] = holders[a]
                                         /\ PoolRow(a)' = PoolRow(a)
                                         /\ AccountOn(a)' = AccountOn(a)
                                         /\ member'[a] = member[a] /\ suspended'[a] = suspended[a]
  BY DEF DropAliases, PoolRow, AccountOn, Exists
<1>2. \A l \in LeaseId : leaseAlias'[l] = (IF leaseAlias[l] \in S THEN 0 ELSE leaseAlias[l])
  BY DEF DropAliases
<1>3. \A l \in LeaseId : leaseAlias'[l] # 0 => /\ leaseAlias'[l] = leaseAlias[l]
                                             /\ leaseAlias[l] \in AliasId \ S
                                             /\ leaseState'[l] = leaseState[l]
  BY <1>2 DEF TypeOK
<1>4. RowsBound'
  <2>1. lastAlias' = lastAlias /\ addr' = addr /\ leaseAddr' = leaseAddr
    BY DEF DropAliases
  <2>2. \A a \in AliasId : Exists(a)' => Exists(a) /\ a \notin S /\ owner'[a] = owner[a]
    BY <1>1 DEF Exists
  <2>3. \A a \in AliasId : Exists(a)' => a <= lastAlias /\ account'[owner'[a]] # "absent"
    BY <2>2 DEF RowsBound, PoolSafe
  <2>4. \A a \in AliasId : ~Exists(a)' => member'[a] = "none" /\ suspended'[a] = "none" /\ holders'[a] = {}
    BY <1>1 DEF RowsBound, PoolSafe, Exists, DropAliases
  <2>5. \A l \in LeaseId : leaseAlias'[l] # 0 =>
          /\ Exists(leaseAlias[l])' /\ leaseAddr[l] = addr[leaseAlias[l]] /\ leaseState'[l] # "none"
    BY <1>1, <1>3 DEF RowsBound, PoolSafe, Exists
  <2> QED BY <2>1, <2>2, <2>3, <2>4, <2>5, <1>3 DEF RowsBound, PoolSafe, Exists
<1>5. ClaimSound'
  <2> SUFFICES ASSUME claim # NoClaim, NEW a \in claim.picked
               PROVE  /\ a <= lastAlias'
                      /\ Exists(a)' => member'[a] = "available" /\ ~Consumed(addr[a])'
    BY DEF ClaimSound
  <2>1. a \in AliasId
    BY DEF TypeOK
  <2>2. addr' = addr /\ lastAlias' = lastAlias
    BY DEF DropAliases
  <2>3. Consumed(addr[a])' <=> Consumed(addr[a])
    BY <2>2 DEF Consumed
  <2> QED BY <1>1, <2>1, <2>2, <2>3 DEF ClaimSound, PoolSafe, Exists
<1>6. MembershipSound'
  <2>1. RowMatchesLease' /\ OneLiveLease'
    BY <1>1, <1>3 DEF RowMatchesLease, OneLiveLease, MembershipSound, PoolSafe, Live
  <2>2. HeldRowHasLease'
    <3> SUFFICES ASSUME NEW a \in AliasId, PoolRow(a)' \in {"leased", "used"}
                 PROVE  \E l \in LeaseId : Live(l)' /\ leaseAlias'[l] = a
      BY DEF HeldRowHasLease
    <3>1. a \notin S /\ PoolRow(a) \in {"leased", "used"}
      BY <1>1
    <3>2. PICK l \in LeaseId : Live(l) /\ leaseAlias[l] = a
      BY <3>1 DEF HeldRowHasLease, MembershipSound, PoolSafe
    <3> QED BY <3>1, <3>2, <1>2 DEF Live
  <2>3. OneTable'
    BY <1>1 DEF OneTable, MembershipSound, PoolSafe, AccountOn, Exists, DropAliases
  <2> QED BY <2>1, <2>2, <2>3 DEF MembershipSound
<1>7. ConsumedOnce'
  <2> SUFFICES ASSUME NEW l \in LeaseId, NEW m \in LeaseId, l # m, leaseAddr[l] = leaseAddr[m],
                      leaseState'[l] \in ConsumedState
               PROVE  /\ leaseState'[m] \notin ConsumedState
                      /\ leaseState'[m] = "leased" => leaseAlias'[m] = 0
    BY DEF ConsumedOnce
  <2>1. \A n \in LeaseId : leaseAlias[n] = 0 => leaseAlias'[n] = 0 /\ leaseState'[n] = leaseState[n]
    BY <1>2
  <2>2. leaseAlias[l] # 0 /\ leaseAlias[m] # 0 => leaseAlias[l] = leaseAlias[m]
    BY AddressBound
  <2>3. leaseState[l] \in ConsumedState =>
          leaseState[m] \notin ConsumedState /\ (leaseState[m] = "leased" => leaseAlias[m] = 0)
    BY DEF ConsumedOnce, PoolSafe
  <2>4. leaseState[m] \in ConsumedState =>
          leaseState[l] \notin ConsumedState /\ (leaseState[l] = "leased" => leaseAlias[l] = 0)
    BY DEF ConsumedOnce, PoolSafe
  <2>5. ~(Live(l) /\ Live(m) /\ leaseAlias[l] # 0 /\ leaseAlias[m] = leaseAlias[l])
    BY DEF OneLiveLease, MembershipSound, PoolSafe
  <2>8. leaseState'[m] # leaseState[m] => leaseState'[m] = "retired" /\ Live(m) /\ leaseAlias[m] \in S
                                         /\ leaseAlias[m] # 0
    OBVIOUS
  <2>6. CASE leaseState'[l] = leaseState[l]
    <3>1. leaseState[l] \in ConsumedState
      BY <2>6
    <3>2. CASE leaseState'[m] = leaseState[m]
      BY <2>1, <2>3, <3>1, <3>2
    <3>3. CASE leaseState'[m] # leaseState[m]
      <4>1. leaseState[m] = "leased" /\ leaseAlias[m] # 0
        BY <2>3, <2>8, <3>1, <3>3 DEF Live, LiveState, ConsumedState
      <4> QED BY <4>1, <2>3, <3>1
    <3> QED BY <3>2, <3>3
  <2>7. CASE leaseState'[l] # leaseState[l]
    <3>1. Live(l) /\ leaseAlias[l] \in S /\ leaseAlias[l] # 0
      BY <2>7
    <3>2. leaseState[l] \in {"leased", "used", "retiring"} /\ leaseState[m] \notin ConsumedState
      BY <2>4, <3>1 DEF Live, LiveState, ConsumedState
    <3>3. leaseState[m] = "leased" => leaseAlias[m] = 0
      BY <2>2, <2>5, <3>1 DEF Live, LiveState
    <3>4. leaseState'[m] = leaseState[m]
      BY <3>2, <3>3, <2>8 DEF Live, LiveState, ConsumedState
    <3> QED BY <2>1, <3>2, <3>3, <3>4
  <2> QED BY <2>6, <2>7
<1>8. CredentialsExclusive'
  BY <1>1, <1>2 DEF CredentialsExclusive, PoolSafe, Live
<1> QED BY <1>4, <1>5, <1>6, <1>7, <1>8 DEF PoolSafe

\* A claim is sound when none is open.
LEMMA NoClaimSound ==
    ASSUME claim' = NoClaim
    PROVE  ClaimSound'
  BY DEF ClaimSound

\* A step that only rewrites membership or account rows keeps the invariant if
\* held rows stay as they are and nothing consumed becomes available.
LEMMA RowsSafe ==
    ASSUME TypeOK, PoolSafe, ClaimSound', OneTable',
           UNCHANGED <<lastAlias, owner, addr, holders, leaseState, leaseAlias, leaseAddr, leaseClient>>,
           \A a \in AliasId : Exists(a) => account'[owner[a]] # "absent",
           \A a \in AliasId : ~Exists(a) => member'[a] = "none" /\ suspended'[a] = "none",
           \A a \in AliasId : PoolRow(a)' # PoolRow(a) =>
              /\ PoolRow(a) \in {"none", "available", "paused"}
              /\ PoolRow(a)' \in {"available", "paused"}
              /\ PoolRow(a) = "paused" => ~Consumed(addr[a])
    PROVE  PoolSafe'
<1>1. RowsBound'
  BY DEF RowsBound, PoolSafe, Exists
<1>2. RowMatchesLease'
  <2> SUFFICES ASSUME NEW l \in LeaseId, Live(l), leaseAlias[l] # 0
               PROVE  PoolRow(leaseAlias[l])' \in RowsFor(leaseState[l])
    BY DEF RowMatchesLease, Live, RowsFor
  <2> DEFINE a == leaseAlias[l]
  <2>1. a \in AliasId /\ leaseAlias' = leaseAlias
    BY DEF TypeOK
  <2>2. PoolRow(a) \in RowsFor(leaseState[l])
    BY DEF RowMatchesLease, MembershipSound, PoolSafe
  <2>3. CASE PoolRow(a)' = PoolRow(a)
    BY <2>1, <2>2, <2>3
  <2>4. CASE PoolRow(a)' # PoolRow(a)
    <3>1. PoolRow(a) = "paused" /\ ~Consumed(addr[a])
      BY <2>1, <2>2, <2>4 DEF RowsFor
    <3>2. leaseState[l] = "retiring"
      BY <2>2, <3>1 DEF RowsFor, Live, LiveState
    <3>3. leaseAddr[l] = addr[a]
      BY DEF RowsBound, PoolSafe
    <3> QED BY <3>1, <3>2, <3>3 DEF Consumed, ConsumedState
  <2> QED BY <2>3, <2>4
<1>3. OneLiveLease'
  BY DEF OneLiveLease, MembershipSound, PoolSafe, Live
<1>4. HeldRowHasLease'
  <2>1. \A a \in AliasId : PoolRow(a)' \in {"leased", "used"} => PoolRow(a) \in {"leased", "used"}
    OBVIOUS
  <2> QED BY <2>1 DEF HeldRowHasLease, MembershipSound, PoolSafe, Live
<1>5. ConsumedOnce' /\ CredentialsExclusive'
  BY DEF ConsumedOnce, CredentialsExclusive, PoolSafe, Live
<1> QED BY <1>1, <1>2, <1>3, <1>4, <1>5 DEF PoolSafe, MembershipSound

\* A step that changes only who knows credentials keeps the invariant.
LEMMA HoldersSafe ==
    ASSUME PoolSafe, CredentialsExclusive', 
           \A a \in AliasId : ~Exists(a) => holders'[a] = {},
           UNCHANGED <<account, lastAlias, owner, addr, member, suspended, claim,
                       leaseState, leaseAlias, leaseAddr, leaseClient>>
    PROVE  PoolSafe'
<1>1. RowsBound'
  BY DEF RowsBound, PoolSafe, Exists
<1>2. ClaimSound' /\ MembershipSound' /\ ConsumedOnce'
  BY DEF PoolSafe, ClaimSound, MembershipSound, RowMatchesLease, OneLiveLease,
     HeldRowHasLease, OneTable, ConsumedOnce, Live, PoolRow, AccountOn, Exists, Consumed
<1> QED BY <1>1, <1>2 DEF PoolSafe

\* Opening or dropping a claim keeps the invariant.
LEMMA ClaimVarSafe ==
    ASSUME PoolSafe, ClaimSound',
           UNCHANGED <<account, lastAlias, owner, addr, holders, member, suspended,
                       leaseState, leaseAlias, leaseAddr, leaseClient>>
    PROVE  PoolSafe'
<1>1. RowsBound' /\ MembershipSound' /\ ConsumedOnce' /\ CredentialsExclusive'
  BY DEF PoolSafe, RowsBound, MembershipSound, RowMatchesLease, OneLiveLease,
     HeldRowHasLease, OneTable, ConsumedOnce, CredentialsExclusive, Live, PoolRow, AccountOn, Exists
<1> QED BY <1>1 DEF PoolSafe

\* A row that counts exists in one table only.
LEMMA TableOf ==
    ASSUME TypeOK, PoolSafe, NEW a \in AliasId
    PROVE  /\ member[a] # "none" => AccountOn(a) /\ PoolRow(a) = member[a]
           /\ suspended[a] # "none" => ~AccountOn(a) /\ PoolRow(a) = suspended[a]
           /\ ~Exists(a) => member[a] = "none" /\ suspended[a] = "none" /\ holders[a] = {}
  BY DEF PoolSafe, MembershipSound, OneTable, PoolRow, RowsBound

\* A new account owns no alias yet.
LEMMA CreateAccountSafe ==
    ASSUME TypeOK, PoolSafe, NEW c \in Account, CreateAccount(c)
    PROVE  PoolSafe'
<1> USE DEF CreateAccount, accountVars, aliasVars, memberVars, leaseVars, leaseKeys
<1>1. \A a \in AliasId : Exists(a) => owner[a] # c /\ account'[owner[a]] = account[owner[a]]
  BY DEF RowsBound, PoolSafe, TypeOK, Exists
<1>2. \A a \in AliasId : (AccountOn(a)' <=> AccountOn(a)) /\ PoolRow(a)' = PoolRow(a)
  BY <1>1 DEF AccountOn, PoolRow, Exists
<1>3. OneTable'
  BY <1>2 DEF OneTable, PoolSafe, MembershipSound
<1>4. ClaimSound'
  BY DEF ClaimSound, PoolSafe, Exists, Consumed
<1>5. \A a \in AliasId : ~Exists(a) => member'[a] = "none" /\ suspended'[a] = "none"
  BY DEF RowsBound, PoolSafe
<1>6. \A a \in AliasId : Exists(a) => account'[owner[a]] # "absent"
  BY <1>1 DEF RowsBound, PoolSafe
<1> QED BY <1>2, <1>3, <1>4, <1>5, <1>6, RowsSafe

\* Disabling an account moves its rows aside and keeps what they say.
LEMMA DisableAccountSafe ==
    ASSUME TypeOK, PoolSafe, NEW c \in Account, DisableAccount(c)
    PROVE  PoolSafe'
<1> USE DEF accountVars, aliasVars, memberVars, leaseVars, leaseKeys
<1>1. /\ UNCHANGED <<lastAlias, owner, addr, holders, leaseState, leaseAlias, leaseAddr, leaseClient, claim>>
      /\ claim = NoClaim /\ account[c] = "enabled"
  BY DEF DisableAccount, PoolLockFree
<1>2. ClaimSound'
  BY <1>1, NoClaimSound
<1>3. account' = [account EXCEPT ![c] = "disabled"]
  BY DEF DisableAccount
<1>4. \A a \in AliasId : Exists(a) => account'[owner[a]] # "absent"
  BY <1>3 DEF RowsBound, PoolSafe, TypeOK, Exists
<1>5. ASSUME NEW a \in AliasId, owner[a] # c
      PROVE  /\ member'[a] = member[a] /\ suspended'[a] = suspended[a]
             /\ AccountOn(a)' <=> AccountOn(a)
             /\ PoolRow(a)' = PoolRow(a)
  BY <1>1, <1>3, <1>5 DEF DisableAccount, AccountOn, Exists, PoolRow, TypeOK
<1>6. ASSUME NEW a \in AliasId, owner[a] = c
      PROVE  /\ Exists(a) /\ AccountOn(a) /\ ~AccountOn(a)' /\ suspended[a] = "none"
             /\ member'[a] = "none" /\ PoolRow(a) = member[a]
             /\ PoolRow(a)' = IF member[a] = "none" THEN "none" ELSE Snapshot(a, member[a])
  <2>1. Exists(a) /\ AccountOn(a)
    BY <1>1, <1>6, PoolAssumption DEF Exists, AccountOn
  <2>2. ~AccountOn(a)'
    BY <1>1, <1>3, <1>6 DEF AccountOn, TypeOK
  <2>3. suspended[a] = "none" /\ PoolRow(a) = member[a]
    BY <2>1 DEF OneTable, PoolSafe, MembershipSound, PoolRow
  <2>4. member'[a] = "none" /\ suspended'[a] = IF member[a] # "none" THEN Snapshot(a, member[a]) ELSE "none"
    BY <1>6, <2>3 DEF DisableAccount
  <2> QED BY <2>1, <2>2, <2>3, <2>4 DEF PoolRow
<1>7. OneTable'
  BY <1>5, <1>6 DEF OneTable, PoolSafe, MembershipSound
<1>8. \A a \in AliasId : ~Exists(a) => member'[a] = "none" /\ suspended'[a] = "none"
  BY <1>5, <1>6, TableOf
<1>9. \A a \in AliasId : PoolRow(a)' # PoolRow(a) => PoolRow(a) = "available" /\ PoolRow(a)' = "paused"
  BY <1>5, <1>6 DEF Snapshot
<1> QED BY <1>1, <1>2, <1>4, <1>7, <1>8, <1>9, RowsSafe

\* Enabling it again puts them back.
LEMMA EnableAccountSafe ==
    ASSUME TypeOK, PoolSafe, NEW c \in Account, EnableAccount(c)
    PROVE  PoolSafe'
<1> USE DEF accountVars, aliasVars, memberVars, leaseVars, leaseKeys
<1>1. /\ UNCHANGED <<lastAlias, owner, addr, holders, leaseState, leaseAlias, leaseAddr, leaseClient, claim>>
      /\ claim = NoClaim /\ account[c] = "disabled"
  BY DEF EnableAccount, PoolLockFree
<1>2. ClaimSound'
  BY <1>1, NoClaimSound
<1>3. account' = [account EXCEPT ![c] = "enabled"]
  BY DEF EnableAccount
<1>4. \A a \in AliasId : Exists(a) => account'[owner[a]] # "absent"
  BY <1>3 DEF RowsBound, PoolSafe, TypeOK, Exists
<1>5. ASSUME NEW a \in AliasId, owner[a] # c
      PROVE  /\ member'[a] = member[a] /\ suspended'[a] = suspended[a]
             /\ AccountOn(a)' <=> AccountOn(a)
             /\ PoolRow(a)' = PoolRow(a)
  BY <1>1, <1>3, <1>5 DEF EnableAccount, AccountOn, Exists, PoolRow, TypeOK
<1>6. ASSUME NEW a \in AliasId, owner[a] = c
      PROVE  /\ Exists(a) /\ ~AccountOn(a) /\ AccountOn(a)' /\ member[a] = "none"
             /\ suspended'[a] = "none" /\ PoolRow(a) = suspended[a]
             /\ PoolRow(a)' = IF suspended[a] = "none" THEN "none" ELSE Snapshot(a, suspended[a])
  <2>1. Exists(a) /\ ~AccountOn(a)
    BY <1>1, <1>6, PoolAssumption DEF Exists, AccountOn
  <2>2. AccountOn(a)'
    BY <1>1, <1>3, <1>6, <2>1 DEF AccountOn, TypeOK, Exists
  <2>3. member[a] = "none" /\ PoolRow(a) = suspended[a]
    BY <2>1 DEF OneTable, PoolSafe, MembershipSound, PoolRow
  <2>4. suspended'[a] = "none" /\ member'[a] = IF suspended[a] # "none" THEN Snapshot(a, suspended[a]) ELSE "none"
    BY <1>6, <2>3 DEF EnableAccount
  <2> QED BY <2>1, <2>2, <2>3, <2>4 DEF PoolRow
<1>7. OneTable'
  BY <1>5, <1>6 DEF OneTable, PoolSafe, MembershipSound
<1>8. \A a \in AliasId : ~Exists(a) => member'[a] = "none" /\ suspended'[a] = "none"
  BY <1>5, <1>6, TableOf
<1>9. \A a \in AliasId : PoolRow(a)' # PoolRow(a) => PoolRow(a) = "available" /\ PoolRow(a)' = "paused"
  BY <1>5, <1>6 DEF Snapshot
<1> QED BY <1>1, <1>2, <1>4, <1>7, <1>8, <1>9, RowsSafe

\* Making rows of enabled accounts available keeps the invariant.
LEMMA EnrollSafe ==
    ASSUME TypeOK, PoolSafe, claim = NoClaim, NEW S \in SUBSET AliasId,
           \A a \in S : AccountOn(a),
           member' = [a \in AliasId |-> IF a \in S /\ member[a] = "none" THEN "available" ELSE member[a]],
           UNCHANGED <<account, lastAlias, owner, addr, holders, suspended, claim,
                       leaseState, leaseAlias, leaseAddr, leaseClient>>
    PROVE  PoolSafe'
<1>1. ClaimSound'
  BY NoClaimSound
<1>2. \A a \in AliasId : AccountOn(a)' <=> AccountOn(a)
  BY DEF AccountOn, Exists
<1>3. \A a \in AliasId : PoolRow(a)' # PoolRow(a) => PoolRow(a) = "none" /\ PoolRow(a)' = "available"
  BY <1>2 DEF PoolRow
<1>4. OneTable'
  BY <1>2 DEF OneTable, PoolSafe, MembershipSound
<1>5. \A a \in AliasId : ~Exists(a) => member'[a] = "none" /\ suspended'[a] = "none"
  BY TableOf DEF AccountOn
<1>6. \A a \in AliasId : Exists(a) => account'[owner[a]] # "absent"
  BY DEF RowsBound, PoolSafe
<1> QED BY <1>1, <1>3, <1>4, <1>5, <1>6, RowsSafe

\* Pausing a member, or making an unconsumed one available again.
LEMMA SetPoolMemberSafe ==
    ASSUME TypeOK, PoolSafe, NEW a \in AliasId, NEW s \in {"available", "paused"}, SetPoolMember(a, s)
    PROVE  PoolSafe'
<1>1. /\ UNCHANGED <<account, lastAlias, owner, addr, holders, suspended, claim,
                     leaseState, leaseAlias, leaseAddr, leaseClient>>
      /\ claim = NoClaim /\ member' = [member EXCEPT ![a] = s]
      /\ member[a] \in {"available", "paused"} /\ (s = "available" => ~Consumed(addr[a]))
  BY DEF SetPoolMember, PoolLockFree, accountVars, aliasVars, memberVars, leaseVars, leaseKeys
<1>2. ClaimSound'
  BY <1>1, NoClaimSound
<1>3. AccountOn(a) /\ PoolRow(a) = member[a]
  BY <1>1, TableOf
<1>4. \A b \in AliasId : AccountOn(b)' <=> AccountOn(b)
  BY <1>1 DEF AccountOn, Exists
<1>5. \A b \in AliasId : b # a => PoolRow(b)' = PoolRow(b) /\ member'[b] = member[b]
  BY <1>1, <1>4 DEF PoolRow, TypeOK
<1>6. PoolRow(a)' = s /\ member'[a] = s
  BY <1>1, <1>3, <1>4 DEF PoolRow, TypeOK
<1>7. OneTable'
  BY <1>1, <1>3, <1>4, <1>5 DEF OneTable, PoolSafe, MembershipSound
<1>8. \A b \in AliasId : ~Exists(b) => member'[b] = "none" /\ suspended'[b] = "none"
  BY <1>1, <1>3, <1>5, TableOf DEF AccountOn
<1>9. \A b \in AliasId : PoolRow(b)' # PoolRow(b) =>
              /\ PoolRow(b) \in {"none", "available", "paused"}
              /\ PoolRow(b)' \in {"available", "paused"}
              /\ PoolRow(b) = "paused" => ~Consumed(addr[b])
  BY <1>1, <1>3, <1>5, <1>6
<1>10. \A b \in AliasId : Exists(b) => account'[owner[b]] # "absent"
  BY <1>1 DEF RowsBound, PoolSafe
<1> QED BY <1>1, <1>2, <1>7, <1>8, <1>9, <1>10, RowsSafe

\* A new alias row has a fresh id and an address no other row has.
LEMMA CreateAliasSafe ==
    ASSUME TypeOK, PoolSafe, NEW c \in Account, NEW x \in Address, NEW on, CreateAlias(c, x, on)
    PROVE  PoolSafe'
<1> USE PoolAssumption
<1> DEFINE n == lastAlias + 1
<1>1. /\ UNCHANGED <<account, holders, member, suspended, claim,
                     leaseState, leaseAlias, leaseAddr, leaseClient>>
      /\ lastAlias < MaxAlias /\ account[c] # "absent"
      /\ \A a \in AliasId : Exists(a) => addr[a] # x
      /\ lastAlias' = n
      /\ owner' = [owner EXCEPT ![n] = c] /\ addr' = [addr EXCEPT ![n] = x]
  BY DEF CreateAlias, accountVars, aliasVars, memberVars, leaseVars, leaseKeys
<1>2. lastAlias \in Nat /\ n \in AliasId
  BY <1>1 DEF TypeOK, AliasId
<1>3. ~Exists(n)
  BY <1>2 DEF RowsBound, PoolSafe
<1>4. \A a \in AliasId : a # n => owner'[a] = owner[a] /\ addr'[a] = addr[a]
  BY <1>1 DEF TypeOK
<1>5. owner'[n] = c /\ addr'[n] = x /\ c # 0
  BY <1>1, <1>2 DEF TypeOK
<1>6. member[n] = "none" /\ suspended[n] = "none" /\ holders[n] = {}
  BY <1>2, <1>3, TableOf
<1>7. \A l \in LeaseId : leaseAlias[l] # 0 => leaseAlias[l] \in AliasId /\ leaseAlias[l] # n
  BY <1>3 DEF RowsBound, PoolSafe, TypeOK
<1>8. \A a \in AliasId : PoolRow(a)' = PoolRow(a) /\ (a # n => (AccountOn(a)' <=> AccountOn(a)))
  BY <1>1, <1>4, <1>6 DEF PoolRow, AccountOn, Exists
<1>9. RowsBound'
  <2>1. \A a \in AliasId : Exists(a)' => a <= lastAlias' /\ account'[owner'[a]] # "absent"
    <3>1. \A a \in AliasId : a # n /\ Exists(a)' => a <= n /\ account[owner[a]] # "absent"
      <4> SUFFICES ASSUME NEW a \in AliasId, a # n, Exists(a)'
                   PROVE  a <= n /\ account[owner[a]] # "absent"
        OBVIOUS
      <4>1. Exists(a)
        BY <1>4 DEF Exists
      <4>2. a <= lastAlias /\ account[owner[a]] # "absent"
        BY <4>1 DEF RowsBound, PoolSafe
      <4> QED BY <4>2, <1>2 DEF AliasId
    <3>2. n <= n  BY <1>2
    <3> QED BY <1>1, <1>4, <1>5, <3>1, <3>2
  <2>2. \A a \in AliasId : ~Exists(a)' => member'[a] = "none" /\ suspended'[a] = "none" /\ holders'[a] = {}
    BY <1>1, <1>4, <1>6, TableOf DEF Exists
  <2>3. \A a, b \in AliasId : Exists(a)' /\ Exists(b)' /\ addr'[a] = addr'[b] => a = b
    BY <1>1, <1>4, <1>5 DEF Exists, RowsBound, PoolSafe
  <2>4. \A l \in LeaseId : leaseAlias[l] # 0 =>
          /\ Exists(leaseAlias[l])' /\ leaseAddr[l] = addr'[leaseAlias[l]] /\ leaseState[l] # "none"
    BY <1>1, <1>4, <1>7 DEF Exists, RowsBound, PoolSafe
  <2> QED BY <1>1, <2>1, <2>2, <2>3, <2>4 DEF RowsBound
<1>10. ClaimSound'
  <2> SUFFICES ASSUME claim # NoClaim, NEW a \in claim.picked
               PROVE  /\ a <= n
                      /\ Exists(a)' => member[a] = "available" /\ ~Consumed(addr[a])'
    BY <1>1 DEF ClaimSound
  <2>1. a \in AliasId /\ a <= lastAlias
    BY DEF TypeOK, ClaimSound, PoolSafe
  <2>2. a <= n /\ a # n
    BY <2>1, <1>2 DEF AliasId
  <2>3. addr'[a] = addr[a] /\ (Exists(a)' => Exists(a))
    BY <2>1, <2>2, <1>4 DEF Exists
  <2>4. Consumed(addr[a])' <=> Consumed(addr[a])
    BY <1>1, <2>3 DEF Consumed
  <2> QED BY <2>2, <2>3, <2>4 DEF ClaimSound, PoolSafe
<1>11. MembershipSound'
  <2>1. RowMatchesLease'
    BY <1>1, <1>7, <1>8 DEF RowMatchesLease, MembershipSound, PoolSafe, Live
  <2>2. OneLiveLease' /\ HeldRowHasLease'
    BY <1>1, <1>8 DEF OneLiveLease, HeldRowHasLease, MembershipSound, PoolSafe, Live
  <2>3. OneTable'
    BY <1>1, <1>6, <1>8 DEF OneTable, MembershipSound, PoolSafe
  <2> QED BY <2>1, <2>2, <2>3 DEF MembershipSound
<1>12. ConsumedOnce' /\ CredentialsExclusive'
  BY <1>1 DEF ConsumedOnce, CredentialsExclusive, PoolSafe, Live
<1> QED BY <1>9, <1>10, <1>11, <1>12 DEF PoolSafe

\* Candidates are selected among available, unconsumed aliases.
LEMMA ClaimSelectSafe ==
    ASSUME TypeOK, PoolSafe, NEW k, NEW r, NEW n, NEW scope, ClaimSelect(k, r, n, scope)
    PROVE  PoolSafe'
<1>1. UNCHANGED <<account, lastAlias, owner, addr, holders, member, suspended,
                  leaseState, leaseAlias, leaseAddr, leaseClient>>
  BY DEF ClaimSelect, accountVars, aliasVars, memberVars, leaseVars, leaseKeys
<1>2. PICK S \in SUBSET {a \in AliasId : member[a] = "available" /\ Claimable(a) /\ owner[a] \in scope} :
         claim' = [client |-> k, req |-> r, picked |-> S]
  BY DEF ClaimSelect, FirstOf
<1>3. \A a \in S : a \in AliasId /\ member[a] = "available" /\ ~Consumed(addr[a]) /\ a <= lastAlias
  BY DEF Claimable, AccountOn, RowsBound, PoolSafe
<1>4. ClaimSound'
  <2>1. claim'.picked = S
    BY <1>2
  <2>2. \A a \in S : member'[a] = "available" /\ ~Consumed(addr[a])' /\ a <= lastAlias'
    BY <1>1, <1>3 DEF Consumed
  <2> QED BY <2>1, <2>2 DEF ClaimSound
<1> QED BY <1>1, <1>4, ClaimVarSafe

\* A committed claim leases exactly the picked aliases, each once.
LEMMA ClaimCommitSafe ==
    ASSUME TypeOK, PoolSafe, ClaimCommit
    PROVE  PoolSafe'
<1> USE PoolAssumption
<1> DEFINE P == claim.picked
<1>1. /\ UNCHANGED <<account, lastAlias, owner, addr, suspended>>
      /\ claim # NoClaim /\ claim' = NoClaim
      /\ \A a \in P : AccountOn(a)
      /\ member' = [a \in AliasId |-> IF a \in P THEN "leased" ELSE member[a]]
      /\ holders' = [a \in AliasId |-> IF a \in P THEN {} ELSE holders[a]]
  BY DEF ClaimCommit, StillClaimable, accountVars, aliasVars
<1>2. P \in SUBSET AliasId
  BY <1>1 DEF TypeOK
<1>3. PICK L \in SUBSET UnusedLeases : \E g \in [L -> P], t \in 1..MaxTTL : Issued(L, g, t)
  BY ClaimIssues
<1>4. PICK g \in [L -> P], t \in 1..MaxTTL : Issued(L, g, t)
  BY <1>3
<1>5. \A a \in P : /\ a \in AliasId /\ Exists(a) /\ AccountOn(a) /\ member[a] = "available"
                   /\ ~Consumed(addr[a]) /\ PoolRow(a) = "available"
  BY <1>1, <1>2 DEF ClaimSound, PoolSafe, AccountOn, PoolRow
<1>6. \A l \in L : l \in LeaseId /\ leaseState[l] = "none" /\ leaseAlias[l] = 0 /\ g[l] \in P
  BY DEF UnusedLeases, RowsBound, PoolSafe
<1>7. \A l \in L : leaseState'[l] = "leased" /\ leaseAlias'[l] = g[l] /\ leaseAddr'[l] = addr[g[l]]
  BY <1>4, <1>6 DEF Issued
<1>8. \A l \in LeaseId \ L : /\ leaseState'[l] = leaseState[l] /\ leaseAlias'[l] = leaseAlias[l]
                             /\ leaseAddr'[l] = leaseAddr[l] /\ leaseClient'[l] = leaseClient[l]
  BY <1>4 DEF Issued
<1>9. \A a \in AliasId : /\ AccountOn(a)' <=> AccountOn(a)
                         /\ a \in P => PoolRow(a)' = "leased"
                         /\ a \notin P => PoolRow(a)' = PoolRow(a)
  BY <1>1, <1>5 DEF AccountOn, Exists, PoolRow
<1>10. \A l \in LeaseId : Live(l) => leaseAlias[l] \notin P /\ l \notin L
  <2> SUFFICES ASSUME NEW l \in LeaseId, Live(l) PROVE leaseAlias[l] \notin P /\ l \notin L
    OBVIOUS
  <2>1. l \notin L
    BY <1>6 DEF Live, LiveState
  <2>2. leaseAlias[l] # 0 => PoolRow(leaseAlias[l]) # "available"
    BY DEF RowMatchesLease, MembershipSound, PoolSafe, RowsFor
  <2>3. 0 \notin P
    BY <1>2 DEF AliasId
  <2> QED BY <1>5, <2>1, <2>2, <2>3
<1>11. RowsBound'
  <2>1. \A a \in AliasId : Exists(a)' <=> Exists(a)
    BY <1>1 DEF Exists
  <2>2. \A a \in AliasId : ~Exists(a) => member'[a] = "none" /\ suspended'[a] = "none" /\ holders'[a] = {}
    BY <1>1, <1>5, TableOf
  <2>3. ASSUME NEW l \in LeaseId, leaseAlias'[l] # 0
        PROVE  /\ Exists(leaseAlias'[l]) /\ leaseAddr'[l] = addr[leaseAlias'[l]]
               /\ leaseState'[l] # "none"
    <3>1. CASE l \in L  BY <1>5, <1>6, <1>7, <3>1
    <3>2. CASE l \notin L  BY <1>8, <2>3, <3>2 DEF RowsBound, PoolSafe
    <3> QED BY <3>1, <3>2
  <2>4. \A l \in LeaseId : leaseAlias'[l] # 0 =>
          Exists(leaseAlias[l])' /\ leaseAddr'[l] = addr'[leaseAlias'[l]] /\ leaseState'[l] # "none"
    BY <1>1, <2>3 DEF Exists
  <2> QED BY <1>1, <2>1, <2>2, <2>4 DEF RowsBound, PoolSafe
<1>12. RowMatchesLease'
  <2> SUFFICES ASSUME NEW l \in LeaseId, Live(l)', leaseAlias'[l] # 0
               PROVE  PoolRow(leaseAlias[l])' \in RowsFor(leaseState'[l])
    BY DEF RowMatchesLease, RowsFor
  <2>1. CASE l \in L
    <3>1. PoolRow(g[l])' = "leased"
      BY <1>2, <1>6, <1>9, <2>1
    <3>2. PoolRow(leaseAlias[l])' = "leased"
      BY <1>7, <2>1, <3>1 DEF PoolRow, AccountOn, Exists
    <3> QED BY <1>7, <2>1, <3>2 DEF RowsFor
  <2>2. CASE l \notin L
    <3>1. Live(l) /\ leaseAlias[l] # 0 /\ leaseAlias'[l] = leaseAlias[l] /\ leaseState'[l] = leaseState[l]
      BY <1>8, <2>2 DEF Live
    <3>2. leaseAlias[l] \in AliasId \ P
      BY <1>10, <3>1 DEF TypeOK
    <3>3. PoolRow(leaseAlias[l])' = PoolRow(leaseAlias[l])
      <4> DEFINE b == leaseAlias[l]
      <4>1. b \in AliasId /\ b \notin P
        BY <3>2
      <4>2. leaseAlias'[l] = b
        BY <3>1
      <4> QED BY <1>1, <4>1, <4>2 DEF PoolRow, AccountOn, Exists
    <3> QED BY <3>1, <3>3 DEF RowMatchesLease, MembershipSound, PoolSafe
  <2> QED BY <2>1, <2>2
<1>13. OneLiveLease'
  <2> SUFFICES ASSUME NEW l \in LeaseId, NEW m \in LeaseId, Live(l)', Live(m)',
                      leaseAlias'[l] # 0, leaseAlias'[l] = leaseAlias'[m]
               PROVE  l = m
    BY DEF OneLiveLease
  <2>1. CASE l \in L /\ m \in L
    <3>1. g[l] = g[m] /\ g[l] \in AliasId
      BY <1>2, <1>6, <1>7, <2>1
    <3>2. ~(l < m) /\ ~(m < l)
      BY <1>4, <2>1, <3>1 DEF Issued, Numbering, AliasId
    <3> QED BY <3>2 DEF LeaseId
  <2>2. CASE l \notin L /\ m \notin L
    BY <1>8, <2>2 DEF OneLiveLease, MembershipSound, PoolSafe, Live
  <2>3. CASE l \in L /\ m \notin L
    BY <1>6, <1>7, <1>8, <1>10, <2>3 DEF Live
  <2>4. CASE l \notin L /\ m \in L
    BY <1>6, <1>7, <1>8, <1>10, <2>4 DEF Live
  <2> QED BY <2>1, <2>2, <2>3, <2>4
<1>14. HeldRowHasLease'
  <2> SUFFICES ASSUME NEW a \in AliasId, PoolRow(a)' \in {"leased", "used"}
               PROVE  \E l \in LeaseId : Live(l)' /\ leaseAlias'[l] = a
    BY DEF HeldRowHasLease
  <2>1. CASE a \in P
    <3>1. PICK l \in L : g[l] = a
      BY <1>4, <2>1 DEF Issued, Numbering
    <3> QED BY <1>6, <1>7, <3>1 DEF Live, LiveState
  <2>2. CASE a \notin P
    <3>1. PICK l \in LeaseId : Live(l) /\ leaseAlias[l] = a
      BY <1>9, <2>2 DEF HeldRowHasLease, MembershipSound, PoolSafe
    <3> QED BY <1>8, <1>10, <3>1 DEF Live
  <2> QED BY <2>1, <2>2
<1>15. OneTable'
  BY <1>1, <1>5, <1>9 DEF OneTable, MembershipSound, PoolSafe
<1>16. ConsumedOnce'
  <2> SUFFICES ASSUME NEW l \in LeaseId, NEW m \in LeaseId, l # m, leaseAddr'[l] = leaseAddr'[m],
                      leaseState'[l] \in ConsumedState
               PROVE  /\ leaseState'[m] \notin ConsumedState
                      /\ leaseState'[m] = "leased" => leaseAlias'[m] = 0
    BY DEF ConsumedOnce
  <2>1. l \notin L
    BY <1>7 DEF ConsumedState
  <2>2. m \notin L
    <3>1. Consumed(leaseAddr[l])
      BY <1>8, <2>1 DEF Consumed
    <3>2. m \in L => ~Consumed(leaseAddr'[m])
      BY <1>5, <1>6, <1>7
    <3> QED BY <1>8, <2>1, <3>1, <3>2
  <2> QED BY <1>8, <2>1, <2>2 DEF ConsumedOnce, PoolSafe
<1>17. CredentialsExclusive'
  <2> SUFFICES ASSUME NEW a \in AliasId, NEW k \in holders'[a]
               PROVE  \E l \in LeaseId : leaseAlias'[l] = a /\ Live(l)' /\ leaseClient'[l] = k
    BY DEF CredentialsExclusive
  <2>1. k \in holders[a]
    BY <1>1
  <2>2. PICK l \in LeaseId : leaseAlias[l] = a /\ Live(l) /\ leaseClient[l] = k
    BY <2>1 DEF CredentialsExclusive, PoolSafe
  <2> QED BY <1>8, <1>10, <2>2 DEF Live
<1>18. ClaimSound'
  BY <1>1, NoClaimSound
<1> QED BY <1>11, <1>12, <1>13, <1>14, <1>15, <1>16, <1>17, <1>18 DEF PoolSafe, MembershipSound

\* The project of a live lease is shown its credentials.
LEMMA ReadLeaseSafe ==
    ASSUME TypeOK, PoolSafe, NEW l \in LeaseId, ReadLease(l)
    PROVE  PoolSafe'
<1>1. /\ UNCHANGED <<account, lastAlias, owner, addr, member, suspended, claim,
                     leaseState, leaseAlias, leaseAddr, leaseClient>>
      /\ Live(l) /\ leaseAlias[l] # 0
      /\ holders' = [holders EXCEPT ![leaseAlias[l]] = @ \cup {leaseClient[l]}]
  BY DEF ReadLease, Live, LiveState, accountVars, aliasVars, memberVars, leaseVars, leaseKeys
<1>2. leaseAlias[l] \in AliasId /\ Exists(leaseAlias[l])
  BY <1>1 DEF RowsBound, PoolSafe, TypeOK
<1>3. \A a \in AliasId : holders'[a] = IF a = leaseAlias[l] THEN holders[a] \cup {leaseClient[l]} ELSE holders[a]
  BY <1>1, <1>2 DEF TypeOK
<1>4. CredentialsExclusive'
  BY <1>1, <1>3 DEF CredentialsExclusive, PoolSafe, Live
<1>5. \A a \in AliasId : ~Exists(a) => holders'[a] = {}
  BY <1>2, <1>3 DEF RowsBound, PoolSafe
<1> QED BY <1>1, <1>4, <1>5, HoldersSafe

\* After a rotation nobody knows the credentials.
LEMMA RotateSafe ==
    ASSUME TypeOK, PoolSafe, NEW a \in AliasId, RotateAliasCredentials(a)
    PROVE  PoolSafe'
<1>1. /\ UNCHANGED <<account, lastAlias, owner, addr, member, suspended, claim,
                     leaseState, leaseAlias, leaseAddr, leaseClient>>
      /\ holders' = [holders EXCEPT ![a] = {}]
  BY DEF RotateAliasCredentials, accountVars, aliasVars, memberVars, leaseVars, leaseKeys
<1>2. \A b \in AliasId : holders'[b] = IF b = a THEN {} ELSE holders[b]
  BY <1>1 DEF TypeOK
<1>3. CredentialsExclusive'
  BY <1>1, <1>2 DEF CredentialsExclusive, PoolSafe, Live
<1>4. \A b \in AliasId : ~Exists(b) => holders'[b] = {}
  BY <1>2 DEF RowsBound, PoolSafe
<1> QED BY <1>1, <1>3, <1>4, HoldersSafe

\* What WriteMembers does to the row that counts.
LEMMA WriteMembersRows ==
    ASSUME TypeOK, PoolSafe, NEW S, NEW s \in {"leased", "used", "available", "paused"},
           WriteMembers(S, s), UNCHANGED <<account, owner>>
    PROVE  /\ \A a \in AliasId : /\ AccountOn(a)' <=> AccountOn(a)
                                 /\ a \notin S \/ PoolRow(a) = "none" => PoolRow(a)' = PoolRow(a)
                                 /\ a \in S /\ PoolRow(a) # "none" => PoolRow(a)' = s
           /\ OneTable'
           /\ \A a \in AliasId : ~Exists(a) => member'[a] = "none" /\ suspended'[a] = "none"
<1>1. \A a \in AliasId : AccountOn(a)' <=> AccountOn(a)
  BY DEF AccountOn, Exists
<1>2. \A a \in AliasId : /\ a \notin S \/ PoolRow(a) = "none" => PoolRow(a)' = PoolRow(a)
                         /\ a \in S /\ PoolRow(a) # "none" => PoolRow(a)' = s
  BY <1>1 DEF WriteMembers, PoolRow
<1>3. OneTable'
  BY <1>1 DEF WriteMembers, OneTable, MembershipSound, PoolSafe
<1>4. \A a \in AliasId : ~Exists(a) => member'[a] = "none" /\ suspended'[a] = "none"
  BY TableOf DEF WriteMembers
<1> QED BY <1>1, <1>2, <1>3, <1>4

\* Renewing a lease writes the row it already has.
LEMMA RenewLeaseSafe ==
    ASSUME TypeOK, PoolSafe, NEW l \in LeaseId, NEW t, RenewLease(l, t)
    PROVE  PoolSafe'
<1>1. /\ UNCHANGED <<account, lastAlias, owner, addr, holders, claim,
                     leaseState, leaseAlias, leaseAddr, leaseClient>>
      /\ claim = NoClaim
      /\ Live(l) /\ leaseState[l] = "leased" /\ leaseAlias[l] # 0 /\ WriteMembers({leaseAlias[l]}, "leased")
  BY DEF RenewLease, PoolLockFree, Live, LiveState, accountVars, aliasVars, leaseKeys
<1>2. PoolRow(leaseAlias[l]) = "leased"
  BY <1>1 DEF RowMatchesLease, MembershipSound, PoolSafe, RowsFor
<1>3. /\ \A a \in AliasId : PoolRow(a)' = PoolRow(a)
      /\ OneTable'
      /\ \A a \in AliasId : ~Exists(a) => member'[a] = "none" /\ suspended'[a] = "none"
  BY <1>1, <1>2, WriteMembersRows
<1>4. \A a \in AliasId : Exists(a) => account'[owner[a]] # "absent"
  BY <1>1 DEF RowsBound, PoolSafe
<1> QED BY <1>1, <1>3, <1>4, NoClaimSound, RowsSafe

\* Closing a leased address takes its row and its credentials back.
LEMMA CloseLeaseSafe ==
    ASSUME TypeOK, PoolSafe, claim = NoClaim, NEW l \in LeaseId, leaseState[l] = "leased",
           NEW final \in {"released", "expired"}, CloseLease(l, final)
    PROVE  PoolSafe'
<1> DEFINE b == leaseAlias[l]
<1>1. /\ UNCHANGED <<account, lastAlias, owner, addr, claim, leaseAlias, leaseAddr, leaseClient>>
      /\ \A m \in LeaseId : m # l => leaseState'[m] = leaseState[m]
      /\ leaseState'[l] = final
      /\ \A a \in AliasId : holders'[a] = IF a = b THEN {} ELSE holders[a]
      /\ \E s \in {"available", "paused"} : WriteMembers({b}, s)
  BY DEF CloseLease, TypeOK, accountVars, aliasVars, leaseKeys
<1>2. PICK s \in {"available", "paused"} : WriteMembers({b}, s)
  BY <1>1
<1>3. /\ \A a \in AliasId : /\ AccountOn(a)' <=> AccountOn(a)
                            /\ a # b => PoolRow(a)' = PoolRow(a)
                            /\ a = b => PoolRow(a)' \notin {"leased", "used"}
      /\ OneTable'
      /\ \A a \in AliasId : ~Exists(a) => member'[a] = "none" /\ suspended'[a] = "none"
  BY <1>1, <1>2, WriteMembersRows
<1>4. Live(l) /\ ~Live(l)' /\ \A m \in LeaseId : Live(m)' <=> m # l /\ Live(m)
  BY <1>1 DEF Live, LiveState
<1>5. RowsBound'
  <2>1. \A a \in AliasId : Exists(a)' <=> Exists(a)
    BY <1>1 DEF Exists
  <2>2. \A a \in AliasId : ~Exists(a) => member'[a] = "none" /\ suspended'[a] = "none" /\ holders'[a] = {}
    BY <1>1, <1>3, TableOf
  <2>3. \A m \in LeaseId : leaseAlias[m] # 0 =>
          Exists(leaseAlias[m])' /\ leaseAddr[m] = addr[leaseAlias[m]] /\ leaseState'[m] # "none"
    BY <1>1 DEF Exists, RowsBound, PoolSafe
  <2> QED BY <1>1, <2>1, <2>2, <2>3 DEF RowsBound, PoolSafe
<1>6. RowMatchesLease'
  <2> SUFFICES ASSUME NEW m \in LeaseId, Live(m)', leaseAlias[m] # 0
               PROVE  PoolRow(leaseAlias[m])' \in RowsFor(leaseState'[m])
    BY <1>1 DEF RowMatchesLease, RowsFor
  <2>1. m # l /\ Live(m) /\ leaseAlias[m] # b /\ leaseAlias[m] \in AliasId
    BY <1>4 DEF OneLiveLease, MembershipSound, PoolSafe, TypeOK
  <2>2. PoolRow(leaseAlias[m])' = PoolRow(leaseAlias[m])
    BY <1>1, <1>3, <2>1 DEF PoolRow, AccountOn, Exists
  <2> QED BY <1>1, <2>1, <2>2 DEF RowMatchesLease, MembershipSound, PoolSafe
<1>7. OneLiveLease'
  BY <1>1, <1>4 DEF OneLiveLease, MembershipSound, PoolSafe
<1>8. HeldRowHasLease'
  <2> SUFFICES ASSUME NEW a \in AliasId, PoolRow(a)' \in {"leased", "used"}
               PROVE  \E m \in LeaseId : Live(m)' /\ leaseAlias'[m] = a
    BY DEF HeldRowHasLease
  <2>1. a # b /\ PoolRow(a) \in {"leased", "used"}
    BY <1>3
  <2>2. PICK m \in LeaseId : Live(m) /\ leaseAlias[m] = a
    BY <2>1 DEF HeldRowHasLease, MembershipSound, PoolSafe
  <2> QED BY <1>1, <1>4, <2>1, <2>2
<1>9. ConsumedOnce'
  BY <1>1 DEF ConsumedOnce, PoolSafe, ConsumedState
<1>10. CredentialsExclusive'
  <2> SUFFICES ASSUME NEW a \in AliasId, NEW k \in holders'[a]
               PROVE  \E m \in LeaseId : leaseAlias'[m] = a /\ Live(m)' /\ leaseClient'[m] = k
    BY DEF CredentialsExclusive
  <2>1. a # b /\ k \in holders[a]
    BY <1>1
  <2>2. PICK m \in LeaseId : leaseAlias[m] = a /\ Live(m) /\ leaseClient[m] = k
    BY <2>1 DEF CredentialsExclusive, PoolSafe
  <2> QED BY <1>1, <1>4, <2>1, <2>2
<1>11. ClaimSound'
  BY <1>1, NoClaimSound
<1> QED BY <1>3, <1>5, <1>6, <1>7, <1>8, <1>9, <1>10, <1>11 DEF PoolSafe, MembershipSound

\* Committing leased addresses consumes each of them for the first time.
LEMMA CommitSafe ==
    ASSUME TypeOK, PoolSafe, NEW k, NEW S \in SUBSET LeaseId, CommitPoolLeases(k, S)
    PROVE  PoolSafe'
<1> DEFINE now == {l \in S : leaseState[l] = "leased"}
           A == {leaseAlias[l] : l \in now}
<1>1. /\ UNCHANGED <<account, lastAlias, owner, addr, holders, claim, leaseAlias, leaseAddr, leaseClient>>
      /\ claim = NoClaim
      /\ \A l \in now : leaseAlias[l] # 0
      /\ leaseState' = [l \in LeaseId |-> IF l \in now THEN "used" ELSE leaseState[l]]
      /\ WriteMembers(A, "used")
  BY DEF CommitPoolLeases, PoolLockFree, accountVars, aliasVars, leaseKeys
<1>2. \A l \in now : l \in LeaseId /\ leaseState'[l] = "used" /\ Live(l) /\ leaseAlias[l] \in A
  BY <1>1 DEF Live, LiveState
<1>3. \A l \in LeaseId : /\ l \notin now => leaseState'[l] = leaseState[l]
                         /\ Live(l)' <=> Live(l)
  BY <1>1, <1>2 DEF Live, LiveState
<1>4. /\ \A a \in AliasId : /\ AccountOn(a)' <=> AccountOn(a)
                            /\ a \notin A \/ PoolRow(a) = "none" => PoolRow(a)' = PoolRow(a)
                            /\ a \in A /\ PoolRow(a) # "none" => PoolRow(a)' = "used"
      /\ OneTable'
      /\ \A a \in AliasId : ~Exists(a) => member'[a] = "none" /\ suspended'[a] = "none"
  BY <1>1, WriteMembersRows
<1>5. \A a \in A : PoolRow(a) = "leased"
  BY <1>1, <1>2 DEF RowMatchesLease, MembershipSound, PoolSafe, RowsFor
<1>6. \A l \in LeaseId : Live(l) /\ leaseAlias[l] \in A => l \in now
  BY <1>1, <1>2 DEF OneLiveLease, MembershipSound, PoolSafe
<1>7. RowsBound'
  <2>1. \A a \in AliasId : Exists(a)' <=> Exists(a)
    BY <1>1 DEF Exists
  <2>2. \A a \in AliasId : ~Exists(a) => member'[a] = "none" /\ suspended'[a] = "none" /\ holders'[a] = {}
    BY <1>1, <1>4, TableOf
  <2>3. \A m \in LeaseId : leaseAlias[m] # 0 =>
          Exists(leaseAlias[m])' /\ leaseAddr[m] = addr[leaseAlias[m]] /\ leaseState'[m] # "none"
    BY <1>1, <1>2, <1>3 DEF Exists, RowsBound, PoolSafe
  <2> QED BY <1>1, <2>1, <2>2, <2>3 DEF RowsBound, PoolSafe
<1>8. RowMatchesLease'
  <2> SUFFICES ASSUME NEW l \in LeaseId, Live(l)', leaseAlias[l] # 0
               PROVE  PoolRow(leaseAlias[l])' \in RowsFor(leaseState'[l])
    BY <1>1 DEF RowMatchesLease, RowsFor
  <2> DEFINE a == leaseAlias[l]
  <2>1. Live(l) /\ a \in AliasId /\ a' = a
    BY <1>1, <1>3 DEF TypeOK
  <2>2. CASE l \in now
    <3>1. PoolRow(a) = "leased" /\ a \in A
      BY <1>2, <1>5, <2>2
    <3>2. PoolRow(a)' = "used"
      BY <1>1, <1>4, <2>1, <3>1 DEF PoolRow, AccountOn, Exists
    <3> QED BY <1>2, <2>2, <3>2 DEF RowsFor
  <2>3. CASE l \notin now
    <3>1. a \notin A
      BY <1>6, <2>1, <2>3
    <3>2. PoolRow(a)' = PoolRow(a)
      BY <1>1, <1>4, <2>1, <3>1 DEF PoolRow, AccountOn, Exists
    <3> QED BY <1>3, <2>1, <2>3, <3>2 DEF RowMatchesLease, MembershipSound, PoolSafe
  <2> QED BY <2>2, <2>3
<1>9. OneLiveLease'
  BY <1>1, <1>3 DEF OneLiveLease, MembershipSound, PoolSafe
<1>10. HeldRowHasLease'
  <2>1. \A a \in AliasId : PoolRow(a)' \in {"leased", "used"} => PoolRow(a) \in {"leased", "used"}
    BY <1>4, <1>5
  <2> QED BY <1>1, <1>3, <2>1 DEF HeldRowHasLease, MembershipSound, PoolSafe
<1>11. ConsumedOnce'
  <2> SUFFICES ASSUME NEW l \in LeaseId, NEW m \in LeaseId, l # m, leaseAddr[l] = leaseAddr[m],
                      leaseState'[l] \in ConsumedState
               PROVE  /\ leaseState'[m] \notin ConsumedState
                      /\ leaseState'[m] = "leased" => leaseAlias[m] = 0
    BY <1>1 DEF ConsumedOnce
  <2>1. \A n \in now : leaseState[n] = "leased" /\ leaseAlias[n] # 0
    BY <1>1
  <2>2. CASE l \in now
    <3>1. leaseState[m] \notin ConsumedState
      BY <2>1, <2>2 DEF ConsumedOnce, PoolSafe
    <3>2. m \notin now
      <4>1. m \in now => leaseAlias[m] = leaseAlias[l]
        BY <2>1, <2>2, AddressBound
      <4> QED BY <1>2, <2>1, <2>2, <4>1 DEF OneLiveLease, MembershipSound, PoolSafe
    <3>3. leaseState[m] # "leased" \/ leaseAlias[m] = 0
      <4>1. leaseAlias[m] # 0 => leaseAlias[m] = leaseAlias[l]
        BY <2>1, <2>2, AddressBound
      <4> QED BY <1>6, <1>2, <2>2, <3>2, <4>1 DEF Live, LiveState
    <3> QED BY <1>3, <3>1, <3>2, <3>3
  <2>3. CASE l \notin now
    <3>1. leaseState[l] \in ConsumedState
      BY <1>3, <2>3
    <3>2. leaseState[m] \notin ConsumedState /\ (leaseState[m] = "leased" => leaseAlias[m] = 0)
      BY <3>1 DEF ConsumedOnce, PoolSafe
    <3>3. m \notin now
      BY <2>1, <3>2
    <3> QED BY <1>3, <3>2, <3>3
  <2> QED BY <2>2, <2>3
<1>12. CredentialsExclusive'
  BY <1>1, <1>3 DEF CredentialsExclusive, PoolSafe
<1>13. ClaimSound'
  BY <1>1, NoClaimSound
<1> QED BY <1>4, <1>7, <1>8, <1>9, <1>10, <1>11, <1>12, <1>13 DEF PoolSafe, MembershipSound

\* Deleting an account deletes all its aliases.
LEMMA DeleteAccountSafe ==
    ASSUME TypeOK, PoolSafe, NEW c \in Account, DeleteAccount(c)
    PROVE  PoolSafe'
<1> DEFINE S == {a \in AliasId : owner[a] = c}
<1>1. /\ DropAliases(S) /\ UNCHANGED <<leaseAddr, leaseClient, claim, leaseState>>
      /\ account' = [account EXCEPT ![c] = "absent"]
  BY DEF DeleteAccount, leaseKeys
<1>2. \A a \in AliasId : Exists(a) /\ a \notin S => account'[owner[a]] = account[owner[a]]
  BY <1>1 DEF Exists, TypeOK
<1>3. leaseState' \in [LeaseId -> LeaseState] /\ \A l \in LeaseId : leaseState'[l] = leaseState[l]
  BY <1>1 DEF TypeOK
<1> QED BY <1>1, <1>2, <1>3, DropSafe

\* Deleting one alias leaves its lease behind.
LEMMA DeleteAliasSafe ==
    ASSUME TypeOK, PoolSafe, NEW a \in AliasId, DeleteAlias(a)
    PROVE  PoolSafe'
<1>1. DropAliases({a}) /\ UNCHANGED <<leaseAddr, leaseClient, claim, leaseState, account>>
  BY DEF DeleteAlias, leaseKeys, accountVars
<1>2. leaseState' \in [LeaseId -> LeaseState] /\ \A l \in LeaseId : leaseState'[l] = leaseState[l]
  BY <1>1 DEF TypeOK
<1> QED BY <1>1, <1>2, DropSafe

\* Aliases gone at Apple are deleted and their live leases closed.
LEMMA ReconcileSafe ==
    ASSUME TypeOK, PoolSafe, NEW c \in Account, NEW gone \in SUBSET AliasId,
           ReconcileAppleDirectory(c, gone)
    PROVE  PoolSafe'
<1>1. /\ DropAliases(gone) /\ claim = NoClaim
      /\ UNCHANGED <<leaseAddr, leaseClient, claim, account>>
      /\ leaseState' = [l \in LeaseId |->
            IF leaseAlias[l] \in gone /\ Live(l) THEN "retired" ELSE leaseState[l]]
  BY DEF ReconcileAppleDirectory, PoolLockFree, leaseKeys, accountVars
<1>2. leaseState' \in [LeaseId -> LeaseState]
  BY <1>1 DEF TypeOK, LeaseState
<1>3. \A l \in LeaseId : \/ leaseState'[l] = leaseState[l]
                         \/ /\ leaseState'[l] = "retired" /\ Live(l)
                            /\ leaseAlias[l] \in gone /\ claim = NoClaim
  BY <1>1
<1> QED BY <1>1, <1>2, <1>3, DropSafe

\* Every pool operation keeps the invariant.
LEMMA SafeStep ==
    ASSUME TypeOK, PoolSafe, [Next]_vars
    PROVE  PoolSafe'
<1> USE DEF accountVars, aliasVars, memberVars, leaseVars, leaseKeys
<1>1. ASSUME NEW c \in Account, SetPoolAccount(c, TRUE) \/ SetPoolAccount(c, FALSE) PROVE PoolSafe'
  BY <1>1, QuietSafe DEF SetPoolAccount
<1>2. ASSUME NEW a \in AliasId, NEW on \in BOOLEAN, SetAliasEnabled(a, on) PROVE PoolSafe'
  BY <1>2, QuietSafe DEF SetAliasEnabled
<1>3. ASSUME NEW k \in Client, NEW on \in BOOLEAN, UpdatePoolClient(k, on) PROVE PoolSafe'
  BY <1>3, QuietSafe DEF UpdatePoolClient
<1>4. CASE Tick  BY <1>4, QuietSafe DEF Tick
<1>5. CASE UNCHANGED vars  BY <1>5, QuietSafe DEF vars
<1>6. CASE ClaimAbort
  <2>1. /\ UNCHANGED <<account, lastAlias, owner, addr, holders, member, suspended,
                       leaseState, leaseAlias, leaseAddr, leaseClient>>
        /\ claim' = NoClaim
    BY <1>6 DEF ClaimAbort
  <2> QED BY <2>1, NoClaimSound, ClaimVarSafe
<1>7. CASE RefreshEnroll
  <2> DEFINE S == {a \in AliasId : /\ Claimable(a) /\ member[a] = "none"
                                   /\ autoEnroll[owner[a]] /\ a > enrollAfter[owner[a]]}
  <2>1. S \in SUBSET AliasId /\ \A a \in S : AccountOn(a) /\ member[a] = "none"
    BY DEF Claimable
  <2>2. /\ claim = NoClaim
        /\ member' = [a \in AliasId |-> IF a \in S THEN "available" ELSE member[a]]
        /\ UNCHANGED <<account, lastAlias, owner, addr, holders, suspended, claim,
                       leaseState, leaseAlias, leaseAddr, leaseClient>>
    BY <1>7 DEF RefreshEnroll, PoolLockFree
  <2>3. member' = [a \in AliasId |-> IF a \in S /\ member[a] = "none" THEN "available" ELSE member[a]]
    BY <2>1, <2>2
  <2> HIDE DEF S
  <2> QED BY <2>1, <2>2, <2>3, EnrollSafe
<1>8. ASSUME NEW S \in SUBSET AliasId, EnrollPoolAliases(S) PROVE PoolSafe'
  <2>1. /\ claim = NoClaim /\ \A a \in S : AccountOn(a)
        /\ member' = [a \in AliasId |-> IF a \in S /\ member[a] = "none" THEN "available" ELSE member[a]]
        /\ UNCHANGED <<account, lastAlias, owner, addr, holders, suspended, claim,
                       leaseState, leaseAlias, leaseAddr, leaseClient>>
    BY <1>8 DEF EnrollPoolAliases, PoolLockFree
  <2> QED BY <2>1, EnrollSafe
<1>9. ASSUME NEW l \in LeaseId, ReleaseLease(l) \/ ExpireLease(l) PROVE PoolSafe'
  <2>1. claim = NoClaim /\ leaseState[l] = "leased"
        /\ \E final \in {"released", "expired"} : CloseLease(l, final)
    BY <1>9 DEF ReleaseLease, ExpireLease, PoolLockFree
  <2> QED BY <2>1, CloseLeaseSafe
<1>10. CASE AccountNext
  BY <1>10, <1>1, CreateAccountSafe, DeleteAccountSafe, DisableAccountSafe, EnableAccountSafe,
     CreateAliasSafe, ReconcileSafe DEF AccountNext
<1>11. CASE AliasNext
  BY <1>11, <1>2, DeleteAliasSafe, RotateSafe, SetPoolMemberSafe DEF AliasNext
<1>12. CASE ClaimNext
  BY <1>12, <1>6, ClaimSelectSafe, ClaimCommitSafe DEF ClaimNext
<1>13. CASE LeaseNext
  BY <1>13, <1>4, <1>9, CommitSafe, ReadLeaseSafe, RenewLeaseSafe DEF LeaseNext
<1> QED BY <1>3, <1>5, <1>7, <1>8, <1>10, <1>11, <1>12, <1>13 DEF Next

\* Every reachable state of the pool satisfies the inductive invariant: the
\* safety of membership, consumption and credentials for every size of pool.
THEOREM PoolSafety == Spec => []PoolInv
<1>1. Init => TypeOK /\ PoolSafe
  BY InitType, InitSafe
<1>2. TypeOK /\ PoolSafe /\ [Next]_vars => (TypeOK /\ PoolSafe)'
  BY TypeStep, SafeStep
<1>3. TypeOK /\ PoolSafe => PoolInv
  BY DEF PoolSafe, PoolInv
<1> QED BY <1>1, <1>2, <1>3, PTL DEF Spec

\* Membership rows always tell the truth about leases.
THEOREM MembershipIsSound == Spec => []MembershipSound
<1>1. PoolInv => MembershipSound  BY DEF PoolInv
<1> QED BY <1>1, PoolSafety, PTL

\* No address is ever consumed twice or handed out again.
THEOREM AddressConsumedOnce == Spec => []ConsumedOnce
<1>1. PoolInv => ConsumedOnce  BY DEF PoolInv
<1> QED BY <1>1, PoolSafety, PTL

\* Current credentials are known only to the project holding the lease.
THEOREM CredentialsAreExclusive == Spec => []CredentialsExclusive
<1>1. PoolInv => CredentialsExclusive  BY DEF PoolInv
<1> QED BY <1>1, PoolSafety, PTL

\* No pool operation moves a lease backwards.
LEMMA LifecycleStep ==
    ASSUME TypeOK, [Next]_vars, NEW l \in LeaseId
    PROVE  LeaseStep(l)
<1> USE DEF leaseVars, leaseKeys
<1>1. CASE UNCHANGED leaseState  BY <1>1 DEF LeaseStep
<1>2. ASSUME NEW c \in Account, NEW gone \in SUBSET AliasId, ReconcileAppleDirectory(c, gone)
      PROVE  LeaseStep(l)
  <2>1. leaseState'[l] # leaseState[l] => Live(l) /\ leaseAlias[l] \in gone /\ leaseState'[l] = "retired"
    BY <1>2 DEF ReconcileAppleDirectory
  <2>2. leaseAlias[l] \in gone => leaseAlias[l] # 0
    BY PoolAssumption DEF AliasId
  <2> QED BY <2>1, <2>2 DEF LeaseStep, Live, LiveState
<1>3. CASE ClaimCommit
  <2>1. PICK L \in SUBSET UnusedLeases : \E g \in [L -> claim.picked], t \in 1..MaxTTL : Issued(L, g, t)
    BY <1>3, ClaimIssues
  <2> QED BY <2>1 DEF Issued, LeaseStep, UnusedLeases
<1>4. ASSUME NEW k \in Client, NEW S \in SUBSET LeaseId, CommitPoolLeases(k, S)
      PROVE  LeaseStep(l)
  BY <1>4 DEF CommitPoolLeases, LeaseStep
<1>5. ASSUME NEW m \in LeaseId, ReleaseLease(m) \/ ExpireLease(m)
      PROVE  LeaseStep(l)
  <2>1. leaseState[m] = "leased" /\ \E final \in {"released", "expired"} :
           leaseState' = [leaseState EXCEPT ![m] = final]
    BY <1>5 DEF ReleaseLease, ExpireLease, CloseLease
  <2> QED BY <2>1 DEF LeaseStep, TypeOK
<1>6. UNCHANGED leaseState \/ ClaimCommit
      \/ (\E c \in Account, gone \in SUBSET AliasId : ReconcileAppleDirectory(c, gone))
      \/ (\E k \in Client, S \in SUBSET LeaseId : CommitPoolLeases(k, S))
      \/ (\E m \in LeaseId : ReleaseLease(m) \/ ExpireLease(m))
  <2>1. CASE AccountNext
    BY <2>1 DEF AccountNext, CreateAccount, DeleteAccount, DisableAccount, EnableAccount,
       SetPoolAccount, CreateAlias
  <2>2. CASE AliasNext
    BY <2>2 DEF AliasNext, SetAliasEnabled, DeleteAlias, RotateAliasCredentials, SetPoolMember
  <2>3. CASE ClaimNext
    BY <2>3 DEF ClaimNext, ClaimSelect, ClaimAbort
  <2>4. CASE LeaseNext
    BY <2>4 DEF LeaseNext, ReadLease, RenewLease, Tick
  <2>5. CASE RefreshEnroll \/ (\E S \in SUBSET AliasId : EnrollPoolAliases(S))
             \/ (\E k \in Client, on \in BOOLEAN : UpdatePoolClient(k, on)) \/ UNCHANGED vars
    BY <2>5 DEF RefreshEnroll, EnrollPoolAliases, UpdatePoolClient, vars
  <2> QED BY <2>1, <2>2, <2>3, <2>4, <2>5 DEF Next
<1> QED BY <1>1, <1>2, <1>3, <1>4, <1>5, <1>6

\* A closed lease never comes back and a used one is never handed back.
THEOREM LeasesMoveForward == Spec => LeaseLifecycle
<1>1. TypeOK /\ [Next]_vars => [\A l \in LeaseId : LeaseStep(l)]_vars
  BY LifecycleStep
<1> QED BY <1>1, PoolTypes, PTL DEF Spec, LeaseLifecycle

-----------------------------------------------------------------------------
(***************************************************************************)
(* A request owns as many leases as it asked for.                          *)
(***************************************************************************)

LeasesOf(k, r) == {l \in LeaseId : leaseState[l] # "none" /\ leaseClient[l] = k /\ leaseReq[l] = r}

\* While a claim is open its request has no row yet.
FulfilledInv ==
    /\ RequestFulfilled
    /\ claim # NoClaim => request[claim.client][claim.req] = 0

LEMMA LeasesFinite ==
    ASSUME NEW S \in SUBSET LeaseId
    PROVE  IsFiniteSet(S)
<1>1. IsFiniteSet(LeaseId)
  BY FS_Interval, PoolAssumption DEF LeaseId
<1> QED BY <1>1, FS_Subset

\* A step that issues no lease, and opens or closes at most the claim.
LEMMA FulfilledQuiet ==
    ASSUME FulfilledInv, UNCHANGED <<request, leaseClient, leaseReq>>,
           \A l \in LeaseId : leaseState'[l] # "none" <=> leaseState[l] # "none",
           claim' = claim \/ claim' = NoClaim
    PROVE  FulfilledInv'
<1>1. \A k \in Client, r \in Request : LeasesOf(k, r)' = LeasesOf(k, r)
  BY DEF LeasesOf
<1>2. RequestFulfilled'
  BY <1>1 DEF FulfilledInv, RequestFulfilled, LeasesOf
<1> QED BY <1>2 DEF FulfilledInv

\* A claim that commits issues one lease for each address it picked.
LEMMA AsManyLeases ==
    ASSUME TypeOK, claim # NoClaim, NEW L \in SUBSET UnusedLeases, NEW g \in [L -> claim.picked],
           Numbering(g, L, claim.picked)
    PROVE  Cardinality(L) = Cardinality(claim.picked) /\ IsFiniteSet(L)
<1>1. L \subseteq LeaseId /\ LeaseId \subseteq Int
  BY DEF UnusedLeases, LeaseId
<1>2. claim.picked \subseteq Int
  <2>1. claim.picked \in SUBSET AliasId
    BY DEF TypeOK
  <2> QED BY <2>1 DEF AliasId
<1>3. \A l, m \in L : g[l] = g[m] => l = m
  <2> SUFFICES ASSUME NEW l \in L, NEW m \in L, g[l] = g[m], l # m PROVE FALSE
    OBVIOUS
  <2>1. l < m \/ m < l
    BY <1>1
  <2>2. g[l] < g[m] \/ g[m] < g[l]
    BY <2>1 DEF Numbering
  <2>3. g[l] \in Int /\ g[m] \in Int
    BY <1>2
  <2> QED BY <2>2, <2>3
<1>4. \A a \in claim.picked : \E l \in L : g[l] = a
  BY DEF Numbering
<1>5. g \in Bijection(L, claim.picked)
  BY <1>3, <1>4 DEF Bijection, Injection, IsInjective, Surjection
<1>6. IsFiniteSet(L)
  BY <1>1, LeasesFinite
<1> QED BY <1>5, <1>6, FS_Bijection DEF ExistsBijection

LEMMA FulfilledCommit ==
    ASSUME TypeOK, FulfilledInv, ClaimCommit
    PROVE  FulfilledInv'
<1>1. claim \in [client : Client, req : Request, picked : SUBSET AliasId] /\ claim # NoClaim
  BY DEF ClaimCommit, TypeOK
<1>2. PICK L \in SUBSET UnusedLeases : \E g \in [L -> claim.picked], t \in 1..MaxTTL : Issued(L, g, t)
  BY ClaimIssues
<1>3. PICK g \in [L -> claim.picked], t \in 1..MaxTTL : Issued(L, g, t)
  BY <1>2
<1>4. Cardinality(L) = Cardinality(claim.picked) /\ IsFiniteSet(L)
  BY <1>1, <1>3, AsManyLeases DEF Issued
<1>5. L \subseteq LeaseId /\ \A l \in L : leaseState[l] = "none"
  BY DEF UnusedLeases
<1>6. request' = [request EXCEPT ![claim.client][claim.req] = Cardinality(claim.picked)] /\ claim' = NoClaim
  BY DEF ClaimCommit
<1>7. ASSUME NEW k \in Client, NEW r \in Request
      PROVE  request'[k][r] = Cardinality(LeasesOf(k, r)')
  <2>1. request[k][r] = Cardinality(LeasesOf(k, r)) /\ IsFiniteSet(LeasesOf(k, r))
    BY LeasesFinite DEF FulfilledInv, RequestFulfilled, LeasesOf
  <2>2. CASE k = claim.client /\ r = claim.req
    <3>1. LeasesOf(k, r) = {}
      BY <1>1, <2>1, <2>2, FS_EmptySet DEF FulfilledInv
    <3>2. LeasesOf(k, r)' = L
      BY <1>3, <1>5, <2>2, <3>1 DEF Issued, LeasesOf
    <3>3. request'[k][r] = Cardinality(claim.picked)
      BY <1>1, <1>6, <2>2 DEF TypeOK
    <3> QED BY <1>4, <3>2, <3>3
  <2>3. CASE ~(k = claim.client /\ r = claim.req)
    <3>1. LeasesOf(k, r)' = LeasesOf(k, r)
      BY <1>3, <1>5, <2>3 DEF Issued, LeasesOf
    <3>2. request'[k][r] = request[k][r]
      BY <1>1, <1>6, <2>3 DEF TypeOK
    <3> QED BY <2>1, <3>1, <3>2
  <2> QED BY <2>2, <2>3
<1> QED BY <1>6, <1>7 DEF FulfilledInv, RequestFulfilled, LeasesOf

\* Which steps touch requests and leases at all.
LEMMA FulfilledStep ==
    ASSUME TypeOK, FulfilledInv, [Next]_vars
    PROVE  FulfilledInv'
<1> USE DEF leaseVars, leaseKeys
<1>1. ASSUME NEW k \in Client, NEW r \in Request, NEW n, NEW scope, ClaimSelect(k, r, n, scope)
      PROVE  FulfilledInv'
  <2>1. UNCHANGED <<request, leaseState, leaseClient, leaseReq>> /\ request[k][r] = 0
    BY <1>1 DEF ClaimSelect
  <2>2. claim'.client = k /\ claim'.req = r
    BY <1>1 DEF ClaimSelect
  <2>3. RequestFulfilled'
    BY <2>1 DEF FulfilledInv, RequestFulfilled
  <2> QED BY <2>1, <2>2, <2>3 DEF FulfilledInv
<1>2. CASE ClaimCommit
  BY <1>2, FulfilledCommit
<1>3. ASSUME NEW c \in Account, NEW gone \in SUBSET AliasId, ReconcileAppleDirectory(c, gone)
      PROVE  FulfilledInv'
  <2>1. \A l \in LeaseId : leaseState'[l] # "none" <=> leaseState[l] # "none"
    BY <1>3 DEF ReconcileAppleDirectory, Live, LiveState
  <2> QED BY <1>3, <2>1, FulfilledQuiet DEF ReconcileAppleDirectory
<1>4. ASSUME NEW k \in Client, NEW S \in SUBSET LeaseId, CommitPoolLeases(k, S) PROVE FulfilledInv'
  <2>1. \A l \in LeaseId : leaseState'[l] # "none" <=> leaseState[l] # "none"
    BY <1>4 DEF CommitPoolLeases
  <2> QED BY <1>4, <2>1, FulfilledQuiet DEF CommitPoolLeases
<1>5. ASSUME NEW m \in LeaseId, ReleaseLease(m) \/ ExpireLease(m) PROVE FulfilledInv'
  <2>1. leaseState[m] = "leased" /\ \E final \in {"released", "expired"} : CloseLease(m, final)
    BY <1>5 DEF ReleaseLease, ExpireLease
  <2>2. \A l \in LeaseId : leaseState'[l] # "none" <=> leaseState[l] # "none"
    BY <2>1 DEF CloseLease, TypeOK
  <2> QED BY <2>1, <2>2, FulfilledQuiet DEF CloseLease
<1>6. CASE AccountNext
  <2>1. PICK c \in Account :
          \/ CreateAccount(c) \/ DeleteAccount(c) \/ DisableAccount(c) \/ EnableAccount(c)
          \/ \E auto \in BOOLEAN : SetPoolAccount(c, auto)
          \/ \E x \in Address, on \in BOOLEAN : CreateAlias(c, x, on)
          \/ \E gone \in SUBSET AliasId : ReconcileAppleDirectory(c, gone)
    BY <1>6 DEF AccountNext
  <2>2. CASE \E gone \in SUBSET AliasId : ReconcileAppleDirectory(c, gone)
    BY <1>3, <2>2
  <2>3. CASE ~\E gone \in SUBSET AliasId : ReconcileAppleDirectory(c, gone)
    <3>1. UNCHANGED <<request, leaseState, leaseClient, leaseReq, claim>>
      BY <2>1, <2>3 DEF CreateAccount, DeleteAccount, DisableAccount, EnableAccount, SetPoolAccount, CreateAlias
    <3> QED BY <3>1, FulfilledQuiet
  <2> QED BY <2>2, <2>3
<1>7. CASE AliasNext \/ RefreshEnroll \/ (\E S \in SUBSET AliasId : EnrollPoolAliases(S))
           \/ (\E k \in Client, on \in BOOLEAN : UpdatePoolClient(k, on)) \/ UNCHANGED vars
  <2>1. UNCHANGED <<request, leaseState, leaseClient, leaseReq, claim>>
    BY <1>7 DEF AliasNext, SetAliasEnabled, DeleteAlias, RotateAliasCredentials, SetPoolMember, RefreshEnroll,
       EnrollPoolAliases, UpdatePoolClient, vars
  <2> QED BY <2>1, FulfilledQuiet
<1>8. CASE ClaimNext
  <2>1. CASE ClaimAbort
    <3>1. UNCHANGED <<request, leaseState, leaseClient, leaseReq>> /\ claim' = NoClaim
      BY <2>1 DEF ClaimAbort
    <3> QED BY <3>1, FulfilledQuiet
  <2> QED BY <1>1, <1>2, <1>8, <2>1 DEF ClaimNext
<1>9. CASE LeaseNext
  <2>1. ASSUME Tick \/ \E l \in LeaseId : ReadLease(l) \/ \E t \in 1..MaxTTL : RenewLease(l, t)
        PROVE  FulfilledInv'
    <3>1. UNCHANGED <<request, leaseState, leaseClient, leaseReq, claim>>
      BY <2>1 DEF Tick, ReadLease, RenewLease
    <3> QED BY <3>1, FulfilledQuiet
  <2> QED BY <1>4, <1>5, <1>9, <2>1 DEF LeaseNext
<1> QED BY <1>6, <1>7, <1>8, <1>9 DEF Next

LEMMA InitFulfilled == Init => FulfilledInv
<1> SUFFICES ASSUME Init PROVE FulfilledInv
  OBVIOUS
<1>1. ASSUME NEW k \in Client, NEW r \in Request PROVE LeasesOf(k, r) = {} /\ request[k][r] = 0
  BY <1>1 DEF Init, LeasesOf
<1>2. Cardinality({}) = 0
  BY FS_EmptySet
<1>3. claim = NoClaim
  BY DEF Init
<1> QED BY <1>1, <1>2, <1>3 DEF FulfilledInv, RequestFulfilled, LeasesOf

\* Every recorded request is answered in full and once, for claims of any
\* size, however they are retried.
THEOREM RequestsAreFulfilled == Spec => []RequestFulfilled
<1>1. Init => TypeOK /\ FulfilledInv
  BY InitType, InitFulfilled
<1>2. TypeOK /\ FulfilledInv /\ [Next]_vars => (TypeOK /\ FulfilledInv)'
  BY TypeStep, FulfilledStep
<1>3. FulfilledInv => RequestFulfilled
  BY DEF FulfilledInv
<1> QED BY <1>1, <1>2, <1>3, PTL DEF Spec

-----------------------------------------------------------------------------
(***************************************************************************)
(* Retirement: its own steps keep the pool safe.                           *)
(***************************************************************************)

\* A step that moves consumed leases among used, retiring and, without an
\* alias, retired keeps the invariant if the rows follow.
LEMMA ReclassSafe ==
    ASSUME TypeOK, PoolSafe, claim' = NoClaim,
           UNCHANGED <<account, lastAlias, owner, addr, holders, leaseAlias, leaseAddr, leaseClient>>,
           \A l \in LeaseId : \/ leaseState'[l] = leaseState[l]
                              \/ /\ leaseState[l] \in ConsumedState /\ leaseState'[l] \in ConsumedState
                                 /\ leaseAlias[l] # 0 => Live(l) /\ leaseState'[l] \in LiveState,
           OneTable', RowMatchesLease',
           \A a \in AliasId : ~Exists(a) => member'[a] = "none" /\ suspended'[a] = "none",
           \A a \in AliasId : PoolRow(a)' \in {"leased", "used"} => \E l \in LeaseId : Live(l) /\ leaseAlias[l] = a
    PROVE  PoolSafe'
<1>1. \A l \in LeaseId : /\ leaseState'[l] \in ConsumedState <=> leaseState[l] \in ConsumedState
                         /\ leaseState'[l] = "leased" <=> leaseState[l] = "leased"
                         /\ leaseState'[l] = "none" <=> leaseState[l] = "none"
  BY DEF ConsumedState
<1>2. \A l \in LeaseId : leaseAlias[l] # 0 => (Live(l)' <=> Live(l))
  BY DEF Live
<1>3. \A l \in LeaseId, a \in AliasId : leaseAlias[l] = a => leaseAlias[l] # 0
  BY PoolAssumption DEF AliasId
<1>4. RowsBound'
  <2>1. \A a \in AliasId : Exists(a)' <=> Exists(a)
    BY DEF Exists
  <2>2. \A l \in LeaseId : leaseAlias[l] # 0 =>
          /\ Exists(leaseAlias[l])' /\ leaseAddr'[l] = addr'[leaseAlias[l]] /\ leaseState'[l] # "none"
    BY <1>1 DEF RowsBound, PoolSafe, Exists
  <2>3. \A a \in AliasId : Exists(a)' => a <= lastAlias' /\ account'[owner'[a]] # "absent"
    BY <2>1 DEF RowsBound, PoolSafe
  <2>4. \A a \in AliasId : ~Exists(a)' => member'[a] = "none" /\ suspended'[a] = "none" /\ holders'[a] = {}
    BY <2>1 DEF RowsBound, PoolSafe
  <2> QED BY <2>1, <2>2, <2>3, <2>4 DEF RowsBound, PoolSafe
<1>5. OneLiveLease'
  BY <1>2 DEF OneLiveLease, MembershipSound, PoolSafe
<1>6. HeldRowHasLease'
  <2> SUFFICES ASSUME NEW a \in AliasId, PoolRow(a)' \in {"leased", "used"}
               PROVE  \E l \in LeaseId : Live(l)' /\ leaseAlias'[l] = a
    BY DEF HeldRowHasLease
  <2>1. PICK l \in LeaseId : Live(l) /\ leaseAlias[l] = a
    OBVIOUS
  <2> QED BY <1>2, <1>3, <2>1
<1>7. ConsumedOnce'
  BY <1>1 DEF ConsumedOnce, PoolSafe
<1>8. CredentialsExclusive'
  <2> SUFFICES ASSUME NEW a \in AliasId, NEW k \in holders[a]
               PROVE  \E l \in LeaseId : leaseAlias[l] = a /\ Live(l)' /\ leaseClient[l] = k
    BY DEF CredentialsExclusive
  <2>1. PICK l \in LeaseId : leaseAlias[l] = a /\ Live(l) /\ leaseClient[l] = k
    BY DEF CredentialsExclusive, PoolSafe
  <2> QED BY <1>2, <1>3, <2>1
<1> QED BY <1>4, <1>5, <1>6, <1>7, <1>8, NoClaimSound DEF PoolSafe, MembershipSound

\* One lease with its alias becomes used or retiring, and its row with it.
LEMMA RetagSafe ==
    ASSUME TypeOK, PoolSafe, claim' = NoClaim, NEW l \in LeaseId, leaseAlias[l] # 0,
           leaseState[l] \in {"used", "retiring"}, PoolRow(leaseAlias[l]) # "none",
           NEW s \in {"used", "retiring"}, leaseState' = [leaseState EXCEPT ![l] = s],
           WriteMembers({leaseAlias[l]}, IF s = "used" THEN "used" ELSE "paused"),
           UNCHANGED <<account, lastAlias, owner, addr, holders, leaseAlias, leaseAddr, leaseClient>>
    PROVE  PoolSafe'
<1> DEFINE b == leaseAlias[l]
           w == IF s = "used" THEN "used" ELSE "paused"
<1>1. b \in AliasId /\ b # 0 /\ w \in {"used", "paused"}
  BY DEF TypeOK
<1>2. /\ \A a \in AliasId : /\ AccountOn(a)' <=> AccountOn(a)
                            /\ a # b => PoolRow(a)' = PoolRow(a)
                            /\ a = b => PoolRow(a)' = w
      /\ OneTable'
      /\ \A a \in AliasId : ~Exists(a) => member'[a] = "none" /\ suspended'[a] = "none"
  BY <1>1, WriteMembersRows
<1>3. Live(l) /\ leaseState'[l] = s /\ \A m \in LeaseId : m # l => leaseState'[m] = leaseState[m]
  BY DEF TypeOK, Live, LiveState
<1>4. RowMatchesLease'
  <2> SUFFICES ASSUME NEW m \in LeaseId, Live(m)', leaseAlias[m] # 0
               PROVE  PoolRow(leaseAlias[m])' \in RowsFor(leaseState'[m])
    BY DEF RowMatchesLease, RowsFor
  <2>0. leaseAlias[m] \in AliasId /\ leaseAlias' = leaseAlias
    BY DEF TypeOK
  <2>1. CASE m = l
    <3>1. PoolRow(b)' = w
      BY <1>1, <1>2
    <3>2. w \in RowsFor(s)
      BY DEF RowsFor
    <3> QED BY <1>3, <2>1, <3>1, <3>2
  <2>2. CASE m # l
    <3>1. Live(m) /\ leaseState'[m] = leaseState[m]
      BY <1>3, <2>2 DEF Live
    <3>2. leaseAlias[m] # b
      BY <1>3, <2>2, <3>1 DEF OneLiveLease, MembershipSound, PoolSafe
    <3>3. PoolRow(leaseAlias[m])' = PoolRow(leaseAlias[m])
      BY <1>2, <2>0, <3>2
    <3> QED BY <3>1, <3>3 DEF RowMatchesLease, MembershipSound, PoolSafe
  <2> QED BY <2>1, <2>2
<1>5. ASSUME NEW a \in AliasId, PoolRow(a)' \in {"leased", "used"}
      PROVE  \E m \in LeaseId : Live(m) /\ leaseAlias[m] = a
  <2>1. CASE a = b
    BY <1>3, <2>1
  <2>2. CASE a # b
    BY <1>2, <1>5, <2>2 DEF HeldRowHasLease, MembershipSound, PoolSafe
  <2> QED BY <2>1, <2>2
<1>6. \A m \in LeaseId : \/ leaseState'[m] = leaseState[m]
                         \/ /\ leaseState[m] \in ConsumedState /\ leaseState'[m] \in ConsumedState
                            /\ leaseAlias[m] # 0 => Live(m) /\ leaseState'[m] \in LiveState
  BY <1>3 DEF ConsumedState, LiveState
<1> QED BY <1>2, <1>4, <1>5, <1>6, ReclassSafe

\* Leases become retiring or are retired without an alias; rows stay.
LEMMA CloseSafe ==
    ASSUME TypeOK, PoolSafe, claim' = NoClaim,
           UNCHANGED <<account, lastAlias, owner, addr, holders, member, suspended,
                       leaseAlias, leaseAddr, leaseClient>>,
           \A l \in LeaseId : \/ leaseState'[l] = leaseState[l]
                              \/ leaseState[l] = "used" /\ leaseState'[l] = "retiring"
                              \/ /\ leaseState[l] \in ConsumedState /\ leaseState'[l] = "retired"
                                 /\ leaseAlias[l] = 0
    PROVE  PoolSafe'
<1>1. \A l \in LeaseId : \/ leaseState'[l] = leaseState[l]
                         \/ /\ leaseState[l] \in ConsumedState /\ leaseState'[l] \in ConsumedState
                            /\ leaseAlias[l] # 0 => Live(l) /\ leaseState'[l] \in LiveState
  BY DEF ConsumedState, Live, LiveState
<1>2. \A a \in AliasId : PoolRow(a)' = PoolRow(a) /\ (Exists(a)' <=> Exists(a)) /\ (AccountOn(a)' <=> AccountOn(a))
  BY DEF PoolRow, AccountOn, Exists
<1>3. OneTable'
  BY <1>2 DEF OneTable, MembershipSound, PoolSafe
<1>4. RowMatchesLease'
  <2> SUFFICES ASSUME NEW l \in LeaseId, Live(l)', leaseAlias[l] # 0
               PROVE  PoolRow(leaseAlias[l])' \in RowsFor(leaseState'[l])
    BY DEF RowMatchesLease, RowsFor
  <2>1. leaseAlias[l] \in AliasId /\ leaseAlias' = leaseAlias
    BY DEF TypeOK
  <2>2. Live(l) /\ (leaseState'[l] = leaseState[l] \/ (leaseState[l] = "used" /\ leaseState'[l] = "retiring"))
    BY DEF Live, LiveState
  <2>3. PoolRow(leaseAlias[l]) \in RowsFor(leaseState[l])
    BY <2>2 DEF RowMatchesLease, MembershipSound, PoolSafe
  <2> QED BY <1>2, <2>1, <2>2, <2>3 DEF RowsFor
<1>5. \A a \in AliasId : ~Exists(a) => member'[a] = "none" /\ suspended'[a] = "none"
  BY TableOf
<1>6. \A a \in AliasId : PoolRow(a)' \in {"leased", "used"} => \E l \in LeaseId : Live(l) /\ leaseAlias[l] = a
  BY <1>2 DEF HeldRowHasLease, MembershipSound, PoolSafe
<1> QED BY <1>1, <1>3, <1>4, <1>5, <1>6, ReclassSafe

\* The lease of a gone address is closed and its alias deleted.
LEMMA RetireLeaseSafe ==
    ASSUME TypeOK, PoolSafe, PoolLockFree, NEW op, NEW l \in LeaseId, RetireLease(op, l),
           leaseState[l] \in {"used", "retiring"}
    PROVE  PoolSafe' /\ TypeOK'
<1>1. /\ DropAliases({leaseAlias[l]} \ {0}) /\ leaseState' = [leaseState EXCEPT ![l] = "retired"]
      /\ UNCHANGED <<account, autoEnroll, enrollAfter, clientOn, request, leaseAddr, leaseClient, leaseReq, ttl, claim>>
      /\ claim = NoClaim
  BY DEF RetireLease, accountVars, leaseKeys, PoolLockFree
<1>2. {leaseAlias[l]} \ {0} \subseteq AliasId
  BY DEF TypeOK
<1>3. leaseState' \in [LeaseId -> LeaseState]
  BY <1>1 DEF TypeOK, LeaseState
<1>4. TypeOK'
  BY <1>1, <1>3, PoolAssumption DEF TypeOK, DropAliases, MemberState, AliasId, LeaseId
<1>5. PoolSafe'
  <2>1. CASE leaseAlias[l] # 0
    <3>1. \A m \in LeaseId : \/ leaseState'[m] = leaseState[m]
                             \/ /\ leaseState'[m] = "retired" /\ Live(m)
                                /\ leaseAlias[m] \in {leaseAlias[l]} \ {0} /\ claim = NoClaim
      BY <1>1, <2>1 DEF TypeOK, Live, LiveState
    <3>2. \A a \in AliasId : Exists(a) /\ a \notin {leaseAlias[l]} \ {0} => account'[owner[a]] = account[owner[a]]
      BY <1>1
    <3> QED BY <1>1, <1>2, <1>3, <3>1, <3>2, DropSafe
  <2>2. CASE leaseAlias[l] = 0
    <3>1. UNCHANGED <<lastAlias, owner, addr, holders, member, suspended, leaseAlias>>
      BY <1>1, <2>2 DEF DropAliases, TypeOK
    <3>2. \A m \in LeaseId : \/ leaseState'[m] = leaseState[m]
                             \/ leaseState[m] = "used" /\ leaseState'[m] = "retiring"
                             \/ /\ leaseState[m] \in ConsumedState /\ leaseState'[m] = "retired"
                                /\ leaseAlias[m] = 0
      BY <1>1, <2>2 DEF TypeOK, ConsumedState
    <3> QED BY <1>1, <3>1, <3>2, CloseSafe
  <2> QED BY <2>1, <2>2
<1> QED BY <1>4, <1>5

\* A used lease whose deletion is taken back, or a job that resumes it.
LEMMA RetagTypes ==
    ASSUME TypeOK, NEW l \in LeaseId, NEW s \in {"used", "retiring"}, NEW S, NEW w \in {"used", "paused"},
           leaseState' = [leaseState EXCEPT ![l] = s], WriteMembers(S, w),
           UNCHANGED <<accountVars, aliasVars, holders, clientOn, request, leaseAlias, leaseKeys, ttl, claim>>
    PROVE  TypeOK'
<1>1. leaseState' \in [LeaseId -> LeaseState]
  BY DEF TypeOK, LeaseState
<1>2. member' \in [AliasId -> MemberState] /\ suspended' \in [AliasId -> MemberState]
  BY DEF TypeOK, WriteMembers, MemberState
<1> QED BY <1>1, <1>2 DEF TypeOK, accountVars, aliasVars, leaseKeys

\* An item's transaction keeps the pool safe, whichever it is.
LEMMA ItemSafe ==
    ASSUME TypeOK, PoolSafe, PoolLockFree, NEW op \in Op, NEW l \in LeaseId,
           \/ Finalize(op, l) \/ Restore(op, l) \/ RecordReview(op, l) \/ FinalizeReconciled(op, l)
           \/ CanPrepare(op, l) /\ PrepareResume(op, l)
    PROVE  TypeOK' /\ PoolSafe'
<1> USE DEF accountVars, aliasVars, memberVars, leaseVars, leaseKeys
<1>1. CASE UnchangedPool
  <2>1. UNCHANGED vars
    BY <1>1 DEF UnchangedPool, vars
  <2> QED BY <2>1, TypeStep, SafeStep
<1>2. CASE RetireLease(op, l) /\ leaseState[l] \in {"used", "retiring"}
  BY <1>2, RetireLeaseSafe
<1>3. ASSUME CanRestore(op, l), leaseState' = [leaseState EXCEPT ![l] = "used"], WriteMembers({leaseAlias[l]}, "used"),
             UNCHANGED <<accountVars, aliasVars, holders, clientOn, request, leaseAlias, leaseKeys, ttl, claim>>
      PROVE  TypeOK' /\ PoolSafe'
  <2>1. TypeOK'
    BY <1>3, RetagTypes
  <2>2. leaseAlias[l] # 0 /\ leaseState[l] = "retiring" /\ PoolRow(leaseAlias[l]) # "none" /\ claim' = NoClaim
    BY <1>3 DEF CanRestore, CanFinalize, PoolLockFree
  <2>3. PoolSafe'
    <3>1. WriteMembers({leaseAlias[l]}, IF "used" = "used" THEN "used" ELSE "paused")
      BY <1>3
    <3>2. UNCHANGED <<account, lastAlias, owner, addr, holders, leaseAlias, leaseAddr, leaseClient>>
      BY <1>3
    <3> QED BY <1>3, <2>2, <3>1, <3>2, RetagSafe
  <2> QED BY <2>1, <2>3
<1>4. ASSUME CanPrepare(op, l), PrepareResume(op, l) PROVE TypeOK' /\ PoolSafe'
  <2>1. TypeOK'
    BY <1>4, RetagTypes DEF PrepareResume
  <2>2. leaseAlias[l] # 0 /\ leaseState[l] \in {"used", "retiring"} /\ PoolRow(leaseAlias[l]) # "none"
    BY <1>4 DEF CanPrepare, Bound
  <2>3. PoolSafe'
    <3>1. WriteMembers({leaseAlias[l]}, IF "retiring" = "used" THEN "used" ELSE "paused")
      BY <1>4 DEF PrepareResume
    <3>2. /\ UNCHANGED <<account, lastAlias, owner, addr, holders, leaseAlias, leaseAddr, leaseClient>>
          /\ leaseState' = [leaseState EXCEPT ![l] = "retiring"] /\ claim' = NoClaim
      BY <1>4 DEF PrepareResume, PoolLockFree
    <3> QED BY <2>2, <3>1, <3>2, RetagSafe
  <2> QED BY <2>1, <2>3
<1>5. CASE Finalize(op, l)
  BY <1>1, <1>2, <1>5 DEF Finalize, CanFinalize, RecordReview
<1>6. CASE Restore(op, l)
  BY <1>1, <1>3, <1>6 DEF Restore, RecordReview
<1>7. CASE FinalizeReconciled(op, l)
  BY <1>1, <1>2, <1>7 DEF FinalizeReconciled, CanFinalizeReconciled, RecordReview
<1>8. CASE RecordReview(op, l)
  BY <1>1, <1>8 DEF RecordReview
<1> QED BY <1>4, <1>5, <1>6, <1>7, <1>8

\* Every step of the composition keeps the pool safe.
LEMMA ComposedSafe ==
    ASSUME TypeOK, PoolSafe, [RNext]_allVars
    PROVE  TypeOK' /\ PoolSafe'
<1> USE DEF accountVars, aliasVars, memberVars, leaseVars, leaseKeys
<1>1. CASE UNCHANGED vars
  BY <1>1, TypeStep, SafeStep
<1>2. CASE Next
  BY <1>2, TypeStep, SafeStep
<1>3. ASSUME NEW k \in Client, NEW op \in Op, NEW S \in SUBSET LeaseId, StartRetirement(k, op, S)
      PROVE  TypeOK' /\ PoolSafe'
  <2>1. \A l \in LeaseId : \/ leaseState'[l] = leaseState[l]
                           \/ leaseState[l] = "used" /\ leaseState'[l] = "retiring"
    BY <1>3 DEF StartRetirement
  <2>2. TypeOK'
    BY <1>3 DEF StartRetirement, TypeOK, LeaseState
  <2>3. claim' = NoClaim /\ UNCHANGED <<account, lastAlias, owner, addr, holders, member, suspended,
                                        leaseAlias, leaseAddr, leaseClient>>
    BY <1>3 DEF StartRetirement, PoolLockFree
  <2> QED BY <2>1, <2>2, <2>3, CloseSafe
<1>4. ASSUME NEW op \in Op, NEW l \in LeaseId, RecoverSnapshot(op, l) PROVE TypeOK' /\ PoolSafe'
  <2>1. leaseState[l] = "used" /\ leaseState' = [leaseState EXCEPT ![l] = "retiring"]
    BY <1>4 DEF RecoverSnapshot
  <2>2. TypeOK'
    <3>1. leaseState' \in [LeaseId -> LeaseState]
      BY <2>1 DEF TypeOK, LeaseState
    <3> QED BY <1>4, <3>1 DEF RecoverSnapshot, TypeOK
  <2>3. claim' = NoClaim /\ UNCHANGED <<account, lastAlias, owner, addr, holders, member, suspended,
                                        leaseAlias, leaseAddr, leaseClient>>
    BY <1>4 DEF RecoverSnapshot, PoolLockFree
  <2>4. \A m \in LeaseId : \/ leaseState'[m] = leaseState[m]
                           \/ leaseState[m] = "used" /\ leaseState'[m] = "retiring"
    BY <2>1 DEF TypeOK
  <2> QED BY <2>2, <2>3, <2>4, CloseSafe
<1>5. CASE CrashRestart
  <2>1. TypeOK' /\ claim' = NoClaim
    BY <1>5 DEF CrashRestart, TypeOK
  <2>2. UNCHANGED <<account, lastAlias, owner, addr, holders, member, suspended,
                    leaseState, leaseAlias, leaseAddr, leaseClient>>
    BY <1>5 DEF CrashRestart
  <2> QED BY <2>1, <2>2, CloseSafe
<1>6. ASSUME NEW op \in Op, NEW l \in LeaseId, RecordOutcome(op, l) \/ ApplyObservation(op, l)
      PROVE  TypeOK' /\ PoolSafe'
  <2>1. /\ PoolLockFree
        /\ \/ Finalize(op, l) \/ Restore(op, l) \/ RecordReview(op, l) \/ FinalizeReconciled(op, l)
           \/ CanPrepare(op, l) /\ PrepareResume(op, l)
    BY <1>6 DEF RecordOutcome, ApplyObservation
  <2> QED BY <2>1, ItemSafe
<1>7. ASSUME NEW op \in Op, WorkerStep(op) PROVE TypeOK' /\ PoolSafe'
  <2>1. UNCHANGED vars \/ \E l \in LeaseId : RecordOutcome(op, l) \/ ApplyObservation(op, l)
    BY <1>7 DEF WorkerStep, BeginDelete, AppleDelete, DeleteReturns, InterruptDelete, Interrupt, ComputeVerdict,
       WriteVerdict, ReadDirectory, ContinueDelete, CompleteReconcile, InterruptReconcile
  <2> QED BY <1>1, <1>6, <2>1
<1>8. CASE PoolStep
  <2>1. Next
    BY <1>8 DEF PoolStep, Next, AccountNext
  <2> QED BY <1>2, <2>1
<1>9. ASSUME NEW c \in Account, NEW gone \in SUBSET AliasId, DirectorySettles(c, gone) PROVE TypeOK' /\ PoolSafe'
  <2>1. Next
    BY <1>9 DEF DirectorySettles, Next, AccountNext
  <2> QED BY <1>2, <2>1
<1>10. ASSUME NEW op \in Op, NEW res \in BOOLEAN, AcquireReconcile(op, res) PROVE TypeOK' /\ PoolSafe'
  BY <1>1, <1>10 DEF AcquireReconcile
<1>11. ASSUME NEW x \in Address, OwnerDeletes(x) PROVE TypeOK' /\ PoolSafe'
  BY <1>1, <1>11 DEF OwnerDeletes
<1>12. CASE UNCHANGED allVars
  BY <1>1, <1>12 DEF allVars
<1> QED BY <1>3, <1>4, <1>5, <1>7, <1>8, <1>9, <1>10, <1>11, <1>12 DEF RNext

\* The pool is as safe with retirement as without, for any number of jobs:
\* deleting, restoring and recovering addresses keeps membership, consumption
\* and credentials.
THEOREM RetirementKeepsPool == RSpec => []PoolInv
<1>1. RInit => TypeOK /\ PoolSafe
  BY InitType, InitSafe DEF RInit
<1>2. TypeOK /\ PoolSafe /\ [RNext]_allVars => (TypeOK /\ PoolSafe)'
  BY ComposedSafe
<1>3. TypeOK /\ PoolSafe => PoolInv
  BY DEF PoolSafe, PoolInv
<1> QED BY <1>1, <1>2, <1>3, PTL DEF RSpec

-----------------------------------------------------------------------------
(***************************************************************************)
(* Jobs, their items and what they believe to be gone.                     *)
(***************************************************************************)

RetireTypes ==
    /\ job \in [Op -> JobStatus] /\ item \in [Op -> [LeaseId -> ItemState]]
    /\ phase \in [Op -> Phase] /\ todo \in [Op -> SUBSET LeaseId]
    /\ evidence \in [Op -> [LeaseId -> Evidence]]
    /\ verdict \in [Op -> {"none", "completed", "review"}]

\* Items and leases agree; an item is of a lease that was issued.
ItemsInv ==
    /\ \A l \in LeaseId :
          /\ leaseState[l] = "retiring" <=> \E op \in Op : Unresolved(op, l)
          /\ \A o1, o2 \in Op : Unresolved(o1, l) /\ Unresolved(o2, l) => o1 = o2
    /\ \A op \in Op, l \in LeaseId : item[op][l] # "none" => leaseState[l] # "none"

\* The status of a job, the goroutine and the items.
StatusInv ==
    \A op \in Op :
        /\ job[op] = "none" => phase[op] = "idle" /\ Items(op) = {}
        /\ job[op] \in Active => phase[op] # "idle"
        /\ job[op] = "completed" \/ (phase[op] = "closing" /\ verdict[op] = "completed")
             => \A l \in LeaseId : ~Unresolved(op, l)
        /\ phase[op] = "closing" => verdict[op] # "none"

\* What a goroutine believes gone is an item of its job and is gone.
EvidenceInv ==
    \A op \in Op : /\ todo[op] \subseteq Items(op)
                   /\ \A l \in LeaseId : evidence[op][l] = "gone" =>
                         item[op][l] # "none" /\ leaseAddr[l] \notin apple

RetireInv == RetireTypes /\ ItemsInv /\ StatusInv /\ EvidenceInv /\ RetiredGone

LEMMA RetireInitially == RInit => RetireInv
<1> SUFFICES ASSUME RInit PROVE RetireInv
  OBVIOUS
<1>1. /\ job = [op \in Op |-> "none"] /\ item = [op \in Op |-> [l \in LeaseId |-> "none"]]
      /\ phase = [op \in Op |-> "idle"] /\ todo = [op \in Op |-> {}]
      /\ evidence = [op \in Op |-> [l \in LeaseId |-> "none"]] /\ verdict = [op \in Op |-> "none"]
      /\ leaseState = [l \in LeaseId |-> "none"]
  BY DEF RInit, RetireInit, RetireInitWith, Init
<1>2. RetireTypes
  BY <1>1 DEF RetireTypes, JobStatus, ItemState, Phase, Evidence
<1>3. ItemsInv /\ StatusInv /\ EvidenceInv /\ RetiredGone
  BY <1>1 DEF ItemsInv, StatusInv, EvidenceInv, RetiredGone, Unresolved, Items, Active
<1> QED BY <1>2, <1>3 DEF RetireInv

\* What a pool operation does to leases that jobs know of.
LeasesKept ==
    \A l \in LeaseId :
        /\ leaseState[l] # "none" => leaseState'[l] # "none" /\ leaseAddr'[l] = leaseAddr[l]
        /\ leaseState'[l] = "retiring" <=> leaseState[l] = "retiring"
        /\ leaseState'[l] = "retired" => leaseState[l] = "retired"

LEMMA PoolLeavesLeases ==
    ASSUME TypeOK, PoolStep
    PROVE  LeasesKept
<1> USE DEF leaseVars, leaseKeys
<1>1. CASE UNCHANGED <<leaseState, leaseAddr>>
  BY <1>1 DEF LeasesKept
<1>2. CASE ClaimCommit
  <2>1. PICK L \in SUBSET UnusedLeases : \E g \in [L -> claim.picked], t \in 1..MaxTTL : Issued(L, g, t)
    BY <1>2, ClaimIssues
  <2>2. PICK g \in [L -> claim.picked], t \in 1..MaxTTL : Issued(L, g, t)
    BY <2>1
  <2> QED BY <2>2 DEF Issued, LeasesKept, UnusedLeases
<1>3. ASSUME NEW k \in Client, NEW S \in SUBSET LeaseId, CommitPoolLeases(k, S) PROVE LeasesKept
  BY <1>3 DEF CommitPoolLeases, LeasesKept
<1>4. ASSUME NEW m \in LeaseId, ReleaseLease(m) \/ ExpireLease(m) PROVE LeasesKept
  <2>1. leaseState[m] = "leased" /\ leaseAddr' = leaseAddr
        /\ \E final \in {"released", "expired"} : leaseState' = [leaseState EXCEPT ![m] = final]
    BY <1>4 DEF ReleaseLease, ExpireLease, CloseLease
  <2> QED BY <2>1 DEF LeasesKept, TypeOK
<1>5. \/ UNCHANGED <<leaseState, leaseAddr>> \/ ClaimCommit
      \/ (\E k \in Client, S \in SUBSET LeaseId : CommitPoolLeases(k, S))
      \/ (\E m \in LeaseId : ReleaseLease(m) \/ ExpireLease(m))
  <2>1. CASE AliasNext
    BY <2>1 DEF AliasNext, SetAliasEnabled, DeleteAlias, RotateAliasCredentials, SetPoolMember
  <2>2. CASE ClaimNext
    BY <2>2 DEF ClaimNext, ClaimSelect, ClaimAbort
  <2>3. CASE LeaseNext
    BY <2>3 DEF LeaseNext, ReadLease, RenewLease, Tick
  <2>4. CASE RefreshEnroll \/ (\E S \in SUBSET AliasId : EnrollPoolAliases(S))
             \/ (\E k \in Client, on \in BOOLEAN : UpdatePoolClient(k, on))
    BY <2>4 DEF RefreshEnroll, EnrollPoolAliases, UpdatePoolClient
  <2>5. ASSUME NEW c \in Account,
               \/ CreateAccount(c) \/ DeleteAccount(c) \/ DisableAccount(c) \/ EnableAccount(c)
               \/ \E auto \in BOOLEAN : SetPoolAccount(c, auto)
               \/ \E x \in Address, on \in BOOLEAN : CreateAlias(c, x, on)
        PROVE  UNCHANGED <<leaseState, leaseAddr>>
    BY <2>5 DEF CreateAccount, DeleteAccount, DisableAccount, EnableAccount, SetPoolAccount, CreateAlias
  <2> QED BY <2>1, <2>2, <2>3, <2>4, <2>5 DEF PoolStep
<1> QED BY <1>1, <1>2, <1>3, <1>4, <1>5

\* A step that leaves items alone and does no more to leases.
LEMMA StillItems ==
    ASSUME RetireInv, LeasesKept, item' = item
    PROVE  ItemsInv'
<1>1. \A op \in Op, l \in LeaseId : Unresolved(op, l)' <=> Unresolved(op, l)
  BY DEF Unresolved
<1> QED BY <1>1 DEF RetireInv, ItemsInv, LeasesKept

LEMMA StillGone ==
    ASSUME RetireInv, LeasesKept, item' = item, apple' \subseteq apple,
           \A op \in Op : todo'[op] \subseteq Items(op),
           \A op \in Op, l \in LeaseId : evidence'[op][l] = "gone" =>
              evidence[op][l] = "gone" \/ (item[op][l] # "none" /\ leaseAddr[l] \notin apple')
    PROVE  EvidenceInv' /\ RetiredGone'
<1>1. \A op \in Op : Items(op)' = Items(op)
  BY DEF Items
<1>2. \A op \in Op, l \in LeaseId : item[op][l] # "none" => leaseState[l] # "none" /\ leaseAddr'[l] = leaseAddr[l]
  BY DEF RetireInv, ItemsInv, LeasesKept
<1>3. EvidenceInv'
  BY <1>1, <1>2 DEF RetireInv, EvidenceInv
<1>4. RetiredGone'
  BY DEF RetireInv, RetiredGone, LeasesKept
<1> QED BY <1>3, <1>4

LEMMA PoolKeepsJobs ==
    ASSUME TypeOK, RetireInv, PoolStep
    PROVE  RetireInv'
<1>1. LeasesKept
  BY PoolLeavesLeases
<1>2. UNCHANGED <<job, item, phase, todo, evidence, verdict, apple>>
  BY DEF PoolStep, retireVars, jobVars, workVars
<1>3. ItemsInv'
  BY <1>1, <1>2, StillItems
<1>4. EvidenceInv' /\ RetiredGone'
  <2>1. \A op \in Op : todo[op] \subseteq Items(op)
    BY DEF RetireInv, EvidenceInv
  <2> QED BY <1>1, <1>2, <2>1, StillGone
<1>5. RetireTypes' /\ StatusInv'
  BY <1>2 DEF RetireInv, RetireTypes, StatusInv, Unresolved, Items
<1> QED BY <1>3, <1>4, <1>5 DEF RetireInv

-----------------------------------------------------------------------------
(* The transactions of an item. *)

\* The item and its lease move together, and nobody else has the item open.
ItemMove(op, l) ==
    \E i \in ItemState \ {"none"}, s \in LeaseState \ {"none"} :
        /\ item' = [item EXCEPT ![op][l] = i] /\ leaseState' = [leaseState EXCEPT ![l] = s]
        /\ i \in {"retiring", "review"} <=> s = "retiring"
        /\ s = "retired" => evidence[op][l] = "gone"
        /\ i \in {"retiring", "review"} => Unresolved(op, l) \/ job[op] = "running"
        /\ \A o \in Op \ {op} : ~Unresolved(o, l)

ItemStays == item' = item /\ leaseState' = leaseState

LEMMA ReviewMoves ==
    ASSUME TypeOK, RetireInv, NEW op \in Op, NEW l \in LeaseId, RecordReview(op, l)
    PROVE  ItemMove(op, l) \/ ItemStays
<1>1. leaseState' = leaseState
  BY DEF RecordReview, UnchangedPool, leaseVars
<1>2. CASE CanReview(op, l)
  <2>1. item' = [item EXCEPT ![op][l] = "review"] /\ leaseState[l] = "retiring" /\ Unresolved(op, l)
    BY <1>2 DEF RecordReview, SetItem, CanReview
  <2>2. \A o \in Op \ {op} : ~Unresolved(o, l)
    BY <2>1 DEF RetireInv, ItemsInv
  <2>3. leaseState' = [leaseState EXCEPT ![l] = "retiring"]
    BY <1>1, <2>1 DEF TypeOK
  <2> QED BY <2>1, <2>2, <2>3 DEF ItemMove, ItemState, LeaseState
<1>3. CASE ~CanReview(op, l)
  <2>1. item' = item
    BY <1>3 DEF RecordReview, SetItem, RetireInv, RetireTypes
  <2> QED BY <1>1, <2>1 DEF ItemStays
<1> QED BY <1>2, <1>3

LEMMA RetireMoves ==
    ASSUME RetireInv, NEW op \in Op, NEW l \in LeaseId, RetireLease(op, l), evidence[op][l] = "gone",
           \A o \in Op \ {op} : ~Unresolved(o, l)
    PROVE  ItemMove(op, l)
<1>1. item' = [item EXCEPT ![op][l] = "retired"] /\ leaseState' = [leaseState EXCEPT ![l] = "retired"]
  BY DEF RetireLease, SetItem
<1> QED BY <1>1 DEF ItemMove, ItemState, LeaseState

LEMMA ItemMoves ==
    ASSUME TypeOK, RetireInv, NEW op \in Op, NEW l \in LeaseId,
           \/ evidence[op][l] = "gone" /\ (Finalize(op, l) \/ FinalizeReconciled(op, l))
           \/ Restore(op, l) \/ RecordReview(op, l)
           \/ CanPrepare(op, l) /\ PrepareResume(op, l)
    PROVE  ItemMove(op, l) \/ ItemStays
<1>1. item[op][l] = "retiring" => \A o \in Op \ {op} : ~Unresolved(o, l)
  BY DEF RetireInv, ItemsInv, Unresolved
<1>2. SoleOwner(op, l) => \A o \in Op \ {op} : ~Unresolved(o, l)
  BY DEF SoleOwner, Unresolved
<1>3. UNCHANGED item /\ UnchangedPool => ItemStays
  BY DEF UnchangedPool, leaseVars, ItemStays
<1>4. CASE evidence[op][l] = "gone" /\ Finalize(op, l)
  BY <1>1, <1>3, <1>4, ReviewMoves, RetireMoves DEF Finalize, CanFinalize
<1>5. CASE evidence[op][l] = "gone" /\ FinalizeReconciled(op, l)
  BY <1>2, <1>5, ReviewMoves, RetireMoves DEF FinalizeReconciled, CanFinalizeReconciled
<1>6. CASE Restore(op, l)
  <2>1. ASSUME CanRestore(op, l), SetItem(op, l, "used"), leaseState' = [leaseState EXCEPT ![l] = "used"]
        PROVE  ItemMove(op, l)
    BY <1>1, <2>1 DEF CanRestore, CanFinalize, SetItem, ItemMove, ItemState, LeaseState
  <2> QED BY <1>3, <1>6, <2>1, ReviewMoves DEF Restore
<1>7. CASE CanPrepare(op, l) /\ PrepareResume(op, l)
  <2>1. /\ item' = [item EXCEPT ![op][l] = "retiring"] /\ leaseState' = [leaseState EXCEPT ![l] = "retiring"]
        /\ job[op] = "running" /\ SoleOwner(op, l)
    BY <1>7 DEF CanPrepare, PrepareResume, SetItem
  <2> QED BY <1>2, <2>1 DEF ItemMove, ItemState, LeaseState
<1> QED BY <1>4, <1>5, <1>6, <1>7, ReviewMoves


LEMMA TransactionKeepsJobs ==
    ASSUME TypeOK, RetireInv, NEW op \in Op, NEW l \in LeaseId, RecordOutcome(op, l) \/ ApplyObservation(op, l)
    PROVE  RetireInv'
<1>1. /\ phase[op] \in {"recording", "applying"} /\ Done(op, l)
      /\ UNCHANGED <<job, phase, verdict, apple, leaseAddr>>
  <2>1. phase[op] \in {"recording", "applying"} /\ Done(op, l) /\ UNCHANGED <<job, phase, verdict, apple>>
    BY DEF RecordOutcome, ApplyObservation
  <2>2. leaseAddr' = leaseAddr
    BY DEF RecordOutcome, ApplyObservation, Finalize, Restore, FinalizeReconciled, RecordReview, PrepareResume,
       RetireLease, UnchangedPool, leaseVars, leaseKeys
  <2> QED BY <2>1, <2>2
<1>2. ItemMove(op, l) \/ ItemStays
  BY ItemMoves DEF RecordOutcome, ApplyObservation
<1>3. /\ todo' = [todo EXCEPT ![op] = @ \ {l}] /\ evidence' = [evidence EXCEPT ![op][l] = "none"]
      /\ todo' \in [Op -> SUBSET LeaseId] /\ evidence' \in [Op -> [LeaseId -> Evidence]]
      /\ \A o \in Op : todo'[o] \subseteq todo[o]
      /\ \A o \in Op, m \in LeaseId : evidence'[o][m] = "gone" => evidence[o][m] = "gone"
  BY <1>1 DEF Done, RetireInv, RetireTypes, Evidence
<1>4. /\ item' \in [Op -> [LeaseId -> ItemState]]
      /\ \A o \in Op, m \in LeaseId : item[o][m] # "none" => item'[o][m] # "none"
      /\ \A o \in Op \ {op} : item'[o] = item[o]
  <2>1. CASE ItemStays
    BY <2>1 DEF RetireInv, RetireTypes, ItemStays
  <2>2. CASE ItemMove(op, l)
    <3>1. PICK i \in ItemState \ {"none"} : item' = [item EXCEPT ![op][l] = i]
      BY <2>2 DEF ItemMove
    <3>2. item' \in [Op -> [LeaseId -> ItemState]]
      BY <3>1 DEF RetireInv, RetireTypes
    <3>3. \A o \in Op, m \in LeaseId : item'[o][m] = IF o = op /\ m = l THEN i ELSE item[o][m]
      BY <3>1 DEF RetireInv, RetireTypes
    <3>4. \A o \in Op \ {op} : item'[o] = item[o]
      BY <3>1 DEF RetireInv, RetireTypes
    <3> QED BY <3>2, <3>3, <3>4
  <2> QED BY <1>2, <2>1, <2>2
<1>5. RetireTypes'
  BY <1>1, <1>3, <1>4 DEF RetireInv, RetireTypes
<1>6. ItemsInv'
  <2>1. CASE ItemStays
    BY <2>1 DEF ItemStays, RetireInv, ItemsInv, Unresolved
  <2>2. CASE ItemMove(op, l)
    <3>1. PICK i \in ItemState \ {"none"}, s \in LeaseState \ {"none"} :
            /\ item' = [item EXCEPT ![op][l] = i] /\ leaseState' = [leaseState EXCEPT ![l] = s]
            /\ i \in {"retiring", "review"} <=> s = "retiring"
            /\ \A o \in Op \ {op} : ~Unresolved(o, l)
      BY <2>2 DEF ItemMove
    <3>2. /\ item'[op][l] = i /\ leaseState'[l] = s
          /\ \A o \in Op, m \in LeaseId : o # op \/ m # l => item'[o][m] = item[o][m]
          /\ \A m \in LeaseId : m # l => leaseState'[m] = leaseState[m]
      BY <3>1 DEF RetireInv, RetireTypes, TypeOK
    <3>3. \A o \in Op, m \in LeaseId : Unresolved(o, m)' <=>
            IF m = l THEN o = op /\ s = "retiring" ELSE Unresolved(o, m)
      BY <3>1, <3>2 DEF Unresolved
    <3>4. ASSUME NEW m \in LeaseId
          PROVE  /\ leaseState'[m] = "retiring" <=> \E o \in Op : Unresolved(o, m)'
                 /\ \A o1, o2 \in Op : Unresolved(o1, m)' /\ Unresolved(o2, m)' => o1 = o2
      <4>1. CASE m = l
        BY <3>2, <3>3, <4>1
      <4>2. CASE m # l
        BY <3>2, <3>3, <4>2 DEF RetireInv, ItemsInv
      <4> QED BY <4>1, <4>2
    <3>5. \A o \in Op, m \in LeaseId : item'[o][m] # "none" => leaseState'[m] # "none"
      BY <3>1, <3>2 DEF RetireInv, ItemsInv
    <3> QED BY <3>4, <3>5 DEF ItemsInv
  <2> QED BY <1>2, <2>1, <2>2
<1>7. StatusInv'
  <2>0. job[op] # "none" /\ phase[op] \notin {"idle", "closing"}
    BY <1>1 DEF RetireInv, StatusInv
  <2>1. \A o \in Op \ {op} : Items(o)' = Items(o) /\ \A m \in LeaseId : Unresolved(o, m)' <=> Unresolved(o, m)
    BY <1>4 DEF Items, Unresolved
  <2>2. \A m \in LeaseId : Unresolved(op, m)' => Unresolved(op, m) \/ job[op] = "running"
    <3>1. CASE ItemStays
      BY <3>1 DEF ItemStays, Unresolved
    <3>2. CASE ItemMove(op, l)
      BY <3>2 DEF ItemMove, Unresolved, RetireInv, RetireTypes
    <3> QED BY <1>2, <3>1, <3>2
  <2>3. ASSUME NEW o \in Op
        PROVE  /\ job[o] = "none" => phase[o] = "idle" /\ Items(o)' = {}
               /\ job[o] \in Active => phase[o] # "idle"
               /\ job[o] = "completed" \/ (phase[o] = "closing" /\ verdict[o] = "completed")
                    => \A m \in LeaseId : ~Unresolved(o, m)'
               /\ phase[o] = "closing" => verdict[o] # "none"
    <3>1. CASE o = op
      BY <2>0, <2>2, <3>1 DEF RetireInv, StatusInv, Active
    <3>2. CASE o # op
      BY <2>1, <3>2 DEF RetireInv, StatusInv
    <3> QED BY <3>1, <3>2
  <2> QED BY <1>1, <2>3 DEF StatusInv
<1>8. EvidenceInv'
  <2>1. \A o \in Op : todo'[o] \subseteq Items(o)'
    BY <1>3, <1>4 DEF RetireInv, EvidenceInv, Items
  <2>2. \A o \in Op, m \in LeaseId : evidence'[o][m] = "gone" => item'[o][m] # "none" /\ leaseAddr'[m] \notin apple'
    BY <1>1, <1>3, <1>4 DEF RetireInv, EvidenceInv
  <2> QED BY <2>1, <2>2 DEF EvidenceInv
<1>9. RetiredGone'
  <2> SUFFICES ASSUME NEW m \in LeaseId, leaseState'[m] = "retired" PROVE leaseAddr[m] \notin apple
    BY <1>1 DEF RetiredGone
  <2>1. leaseState[m] = "retired" \/ (m = l /\ evidence[op][l] = "gone")
    BY <1>2 DEF ItemMove, ItemStays, TypeOK
  <2> QED BY <2>1 DEF RetireInv, RetiredGone, EvidenceInv
<1> QED BY <1>5, <1>6, <1>7, <1>8, <1>9 DEF RetireInv

-----------------------------------------------------------------------------
(* The requests. *)

LEMMA StartKeepsJobs ==
    ASSUME TypeOK, RetireInv, NEW k \in Client, NEW op \in Op, NEW S \in SUBSET LeaseId, StartRetirement(k, op, S)
    PROVE  RetireInv'
<1>1. /\ job[op] = "none" /\ \A l \in S : leaseState[l] = "used"
      /\ job' = [job EXCEPT ![op] = "queued"] /\ phase' = [phase EXCEPT ![op] = "starting"]
      /\ item' = [item EXCEPT ![op] = [l \in LeaseId |-> IF l \in S THEN "retiring" ELSE "none"]]
      /\ leaseState' = [l \in LeaseId |-> IF l \in S THEN "retiring" ELSE leaseState[l]]
      /\ UNCHANGED <<todo, evidence, verdict, apple, leaseAddr>>
  BY DEF StartRetirement, leaseKeys
<1>2. phase[op] = "idle" /\ \A l \in LeaseId : item[op][l] = "none"
  BY <1>1 DEF RetireInv, StatusInv, Items
<1>3. RetireTypes'
  BY <1>1 DEF RetireInv, RetireTypes, JobStatus, ItemState, Phase
<1>4. \A o \in Op, l \in LeaseId :
        /\ o # op => item'[o][l] = item[o][l]
        /\ item'[op][l] = IF l \in S THEN "retiring" ELSE "none"
  BY <1>1 DEF RetireInv, RetireTypes
<1>5. ItemsInv'
  <2>1. \A o \in Op, l \in LeaseId : Unresolved(o, l)' <=> IF l \in S THEN o = op ELSE Unresolved(o, l)
    <3>1. \A o \in Op, l \in S : ~Unresolved(o, l)
      BY <1>1 DEF RetireInv, ItemsInv
    <3> QED BY <1>2, <1>4, <3>1 DEF Unresolved
  <2>2. ASSUME NEW l \in LeaseId
        PROVE  /\ leaseState'[l] = "retiring" <=> \E o \in Op : Unresolved(o, l)'
               /\ \A o1, o2 \in Op : Unresolved(o1, l)' /\ Unresolved(o2, l)' => o1 = o2
    <3>1. CASE l \in S
      BY <1>1, <2>1, <3>1
    <3>2. CASE l \notin S
      BY <1>1, <2>1, <3>2 DEF RetireInv, ItemsInv
    <3> QED BY <3>1, <3>2
  <2>3. \A o \in Op, l \in LeaseId : item'[o][l] # "none" => leaseState'[l] # "none"
    BY <1>1, <1>4 DEF RetireInv, ItemsInv
  <2> QED BY <2>2, <2>3 DEF ItemsInv
<1>6. StatusInv'
  <2> SUFFICES ASSUME NEW o \in Op
               PROVE  /\ job'[o] = "none" => phase'[o] = "idle" /\ Items(o)' = {}
                      /\ job'[o] \in Active => phase'[o] # "idle"
                      /\ job'[o] = "completed" \/ (phase'[o] = "closing" /\ verdict'[o] = "completed")
                           => \A m \in LeaseId : ~Unresolved(o, m)'
                      /\ phase'[o] = "closing" => verdict'[o] # "none"
    BY DEF StatusInv
  <2>1. CASE o = op
    BY <1>1, <2>1 DEF RetireInv, RetireTypes, Active
  <2>2. CASE o # op
    <3>1. job'[o] = job[o] /\ phase'[o] = phase[o] /\ verdict' = verdict /\ Items(o)' = Items(o)
      BY <1>1, <1>4, <2>2 DEF RetireInv, RetireTypes, Items
    <3>2. \A m \in LeaseId : Unresolved(o, m)' <=> Unresolved(o, m)
      BY <1>4, <2>2 DEF Unresolved
    <3> QED BY <3>1, <3>2 DEF RetireInv, StatusInv
  <2> QED BY <2>1, <2>2
<1>7. EvidenceInv'
  BY <1>1, <1>2, <1>4 DEF RetireInv, EvidenceInv, Items
<1>8. RetiredGone'
  BY <1>1 DEF RetireInv, RetiredGone
<1> QED BY <1>3, <1>5, <1>6, <1>7, <1>8 DEF RetireInv

LEMMA RecoverKeepsJobs ==
    ASSUME TypeOK, RetireInv, NEW op \in Op, NEW k \in LeaseId, RecoverSnapshot(op, k)
    PROVE  RetireInv'
<1>1. /\ job[op] = "none" /\ leaseState[k] = "used"
      /\ job' = [job EXCEPT ![op] = "review"] /\ item' = [item EXCEPT ![op][k] = "review"]
      /\ leaseState' = [leaseState EXCEPT ![k] = "retiring"]
      /\ UNCHANGED <<phase, todo, evidence, verdict, apple, leaseAddr>>
  BY DEF RecoverSnapshot, SetItem, leaseKeys, workVars
<1>2. phase[op] = "idle" /\ \A l \in LeaseId : item[op][l] = "none"
  BY <1>1 DEF RetireInv, StatusInv, Items
<1>3. RetireTypes'
  BY <1>1 DEF RetireInv, RetireTypes, JobStatus, ItemState
<1>4. /\ item'[op][k] = "review" /\ leaseState'[k] = "retiring"
      /\ \A o \in Op, l \in LeaseId : o # op \/ l # k => item'[o][l] = item[o][l]
      /\ \A l \in LeaseId : l # k => leaseState'[l] = leaseState[l]
  BY <1>1 DEF RetireInv, RetireTypes, TypeOK
<1>5. ItemsInv'
  <2>1. \A o \in Op, l \in LeaseId : Unresolved(o, l)' <=> IF l = k THEN o = op ELSE Unresolved(o, l)
    <3>1. \A o \in Op : ~Unresolved(o, k)
      BY <1>1 DEF RetireInv, ItemsInv
    <3> QED BY <1>4, <3>1 DEF Unresolved
  <2>2. ASSUME NEW l \in LeaseId
        PROVE  /\ leaseState'[l] = "retiring" <=> \E o \in Op : Unresolved(o, l)'
               /\ \A o1, o2 \in Op : Unresolved(o1, l)' /\ Unresolved(o2, l)' => o1 = o2
    <3>1. CASE l = k
      BY <1>4, <2>1, <3>1
    <3>2. CASE l # k
      BY <1>4, <2>1, <3>2 DEF RetireInv, ItemsInv
    <3> QED BY <3>1, <3>2
  <2>3. \A o \in Op, l \in LeaseId : item'[o][l] # "none" => leaseState'[l] # "none"
    BY <1>4 DEF RetireInv, ItemsInv
  <2> QED BY <2>2, <2>3 DEF ItemsInv
<1>6. StatusInv'
  <2> SUFFICES ASSUME NEW o \in Op
               PROVE  /\ job'[o] = "none" => phase'[o] = "idle" /\ Items(o)' = {}
                      /\ job'[o] \in Active => phase'[o] # "idle"
                      /\ job'[o] = "completed" \/ (phase'[o] = "closing" /\ verdict'[o] = "completed")
                           => \A m \in LeaseId : ~Unresolved(o, m)'
                      /\ phase'[o] = "closing" => verdict'[o] # "none"
    BY DEF StatusInv
  <2>1. CASE o = op
    BY <1>1, <1>2, <2>1 DEF RetireInv, RetireTypes, Active
  <2>2. CASE o # op
    <3>1. job'[o] = job[o] /\ UNCHANGED <<phase, verdict>> /\ Items(o)' = Items(o)
      BY <1>1, <1>4, <2>2 DEF RetireInv, RetireTypes, Items
    <3>2. \A m \in LeaseId : Unresolved(o, m)' <=> Unresolved(o, m)
      BY <1>4, <2>2 DEF Unresolved
    <3> QED BY <3>1, <3>2 DEF RetireInv, StatusInv
  <2> QED BY <2>1, <2>2
<1>7. EvidenceInv'
  <2>1. \A o \in Op : Items(o) \subseteq Items(o)'
    BY <1>4 DEF Items
  <2>2. \A o \in Op, l \in LeaseId : item[o][l] # "none" => item'[o][l] # "none"
    BY <1>4
  <2> QED BY <1>1, <2>1, <2>2 DEF RetireInv, EvidenceInv
<1>8. RetiredGone'
  BY <1>1, <1>4 DEF RetireInv, RetiredGone
<1> QED BY <1>3, <1>5, <1>6, <1>7, <1>8 DEF RetireInv


-----------------------------------------------------------------------------
(* The goroutine. *)

\* A step that leaves items, leases and Apple alone.
LEMMA StillJobs ==
    ASSUME RetireInv, UNCHANGED <<vars, item, apple>>, RetireTypes',
           \A op \in Op : /\ todo'[op] \subseteq Items(op)
                          /\ \A l \in LeaseId : evidence'[op][l] = "gone" =>
                                evidence[op][l] = "gone" \/ (item[op][l] # "none" /\ leaseAddr[l] \notin apple),
           \A op \in Op :
              /\ job'[op] = "none" => phase'[op] = "idle" /\ Items(op) = {}
              /\ job'[op] \in Active => phase'[op] # "idle"
              /\ job'[op] = "completed" \/ (phase'[op] = "closing" /\ verdict'[op] = "completed")
                   => \A l \in LeaseId : ~Unresolved(op, l)
              /\ phase'[op] = "closing" => verdict'[op] # "none"
    PROVE  RetireInv'
<1>1. LeasesKept
  BY DEF LeasesKept, vars, leaseVars, leaseKeys
<1>2. ItemsInv'
  BY <1>1, StillItems
<1>3. EvidenceInv' /\ RetiredGone'
  BY <1>1, StillGone
<1>4. StatusInv'
  BY DEF StatusInv, Items, Unresolved
<1> QED BY <1>2, <1>3, <1>4 DEF RetireInv

\* A round starts on some of the job's items.
LEMMA RoundKeepsJobs ==
    ASSUME RetireInv, NEW op \in Op, NEW p \in {"reading", "deleting"}, NEW T \in SUBSET Items(op),
           job' = [job EXCEPT ![op] = "running"], phase' = [phase EXCEPT ![op] = p],
           todo' = [todo EXCEPT ![op] = T], UNCHANGED <<vars, item, evidence, verdict, apple>>
    PROVE  RetireInv'
<1>1. RetireTypes'
  BY DEF RetireInv, RetireTypes, JobStatus, Phase, Items
<1>2. \A o \in Op : o # op => job'[o] = job[o] /\ phase'[o] = phase[o] /\ todo'[o] = todo[o]
  BY DEF RetireInv, RetireTypes
<1>3. job'[op] = "running" /\ phase'[op] = p /\ todo'[op] = T
  BY DEF RetireInv, RetireTypes
<1>4. \A o \in Op : todo'[o] \subseteq Items(o)
  BY <1>2, <1>3 DEF RetireInv, EvidenceInv
<1>5. \A o \in Op :
        /\ job'[o] = "none" => phase'[o] = "idle" /\ Items(o) = {}
        /\ job'[o] \in Active => phase'[o] # "idle"
        /\ job'[o] = "completed" \/ (phase'[o] = "closing" /\ verdict'[o] = "completed")
             => \A l \in LeaseId : ~Unresolved(o, l)
        /\ phase'[o] = "closing" => verdict'[o] # "none"
  BY <1>2, <1>3 DEF RetireInv, StatusInv
<1> QED BY <1>1, <1>4, <1>5, StillJobs

\* The goroutine goes on to another point of its round.
LEMMA MoveKeepsJobs ==
    ASSUME RetireInv, NEW op \in Op, NEW p \in Phase \ {"idle", "closing"}, phase[op] # "idle",
           phase' = [phase EXCEPT ![op] = p], UNCHANGED <<vars, job, item, todo, verdict, apple>>,
           evidence' \in [Op -> [LeaseId -> Evidence]],
           \A o \in Op, l \in LeaseId : evidence'[o][l] = "gone" =>
              evidence[o][l] = "gone" \/ (item[o][l] # "none" /\ leaseAddr[l] \notin apple)
    PROVE  RetireInv'
<1>1. RetireTypes'
  BY DEF RetireInv, RetireTypes
<1>2. \A o \in Op : todo'[o] \subseteq Items(o)
  BY DEF RetireInv, EvidenceInv
<1>3. phase'[op] = p /\ \A o \in Op : o # op => phase'[o] = phase[o]
  BY DEF RetireInv, RetireTypes
<1>4. job[op] # "none"
  BY DEF RetireInv, StatusInv
<1>5. \A o \in Op :
        /\ job'[o] = "none" => phase'[o] = "idle" /\ Items(o) = {}
        /\ job'[o] \in Active => phase'[o] # "idle"
        /\ job'[o] = "completed" \/ (phase'[o] = "closing" /\ verdict'[o] = "completed")
             => \A l \in LeaseId : ~Unresolved(o, l)
        /\ phase'[o] = "closing" => verdict'[o] # "none"
  BY <1>3, <1>4 DEF RetireInv, StatusInv
<1> QED BY <1>1, <1>2, <1>5, StillJobs

LEMMA ReadKeepsJobs ==
    ASSUME RetireInv, NEW op \in Op, NEW unsure \in SUBSET LeaseId, ReadDirectory(op, unsure)
    PROVE  RetireInv'
<1>1. /\ phase[op] = "reading" /\ phase' = [phase EXCEPT ![op] = "applying"]
      /\ UNCHANGED <<vars, job, item, todo, verdict, apple>>
  BY DEF ReadDirectory, GoTo, jobVars
<1> DEFINE f == [l \in LeaseId |->
                   IF l \notin todo[op] THEN "none"
                   ELSE IF l \in unsure THEN "unknown"
                   ELSE IF leaseAddr[l] \in apple THEN "kept" ELSE "gone"]
<1>2. evidence' = [evidence EXCEPT ![op] = f]
  BY DEF ReadDirectory
<1>3. f \in [LeaseId -> Evidence]
  BY DEF Evidence
<1>4. \A l \in LeaseId : f[l] = "gone" => l \in todo[op] /\ leaseAddr[l] \notin apple
  OBVIOUS
<1> HIDE DEF f
<1>5. evidence' \in [Op -> [LeaseId -> Evidence]]
  BY <1>2, <1>3 DEF RetireInv, RetireTypes
<1>6. \A o \in Op, l \in LeaseId : evidence'[o][l] = IF o = op THEN f[l] ELSE evidence[o][l]
  BY <1>2 DEF RetireInv, RetireTypes
<1>7. \A l \in LeaseId : l \in todo[op] => item[op][l] # "none"
  BY DEF RetireInv, EvidenceInv, Items
<1> QED BY <1>1, <1>4, <1>5, <1>6, <1>7, MoveKeepsJobs DEF Phase

LEMMA AppleKeepsJobs ==
    ASSUME RetireInv, NEW op \in Op, NEW l \in LeaseId, AppleDelete(op, l)
    PROVE  RetireInv'
<1>1. /\ l \in todo[op] /\ UNCHANGED <<vars, job, item, phase, todo, verdict>> /\ apple' \subseteq apple
      /\ \E e \in {"gone", "kept", "unknown"} :
            /\ evidence' = [evidence EXCEPT ![op][l] = e]
            /\ e = "gone" => leaseAddr[l] \notin apple'
  BY DEF AppleDelete, jobVars
<1>2. item[op][l] # "none"
  BY <1>1 DEF RetireInv, EvidenceInv, Items
<1>3. RetireTypes'
  BY <1>1 DEF RetireInv, RetireTypes, Evidence
<1>4. \A o \in Op, m \in LeaseId : evidence'[o][m] = "gone" =>
        evidence[o][m] = "gone" \/ (item[o][m] # "none" /\ leaseAddr[m] \notin apple')
  BY <1>1, <1>2 DEF RetireInv, RetireTypes
<1>5. LeasesKept
  BY <1>1 DEF LeasesKept, vars, leaseVars, leaseKeys
<1>6. \A o \in Op : todo'[o] \subseteq Items(o)
  BY <1>1 DEF RetireInv, EvidenceInv
<1>7. ItemsInv' /\ EvidenceInv' /\ RetiredGone'
  BY <1>1, <1>4, <1>5, <1>6, StillItems, StillGone
<1>8. StatusInv'
  BY <1>1 DEF RetireInv, StatusInv, Items, Unresolved
<1> QED BY <1>3, <1>7, <1>8 DEF RetireInv


\* The goroutine ends and writes the job's status.
LEMMA RestKeepsJobs ==
    ASSUME RetireInv, NEW op \in Op, NEW s \in {"completed", "review", "interrupted"}, Rest(op),
           job' = [job EXCEPT ![op] = s], UNCHANGED <<vars, apple>>,
           item' \in [Op -> [LeaseId -> ItemState]],
           \A o \in Op, l \in LeaseId : /\ item'[o][l] = "none" <=> item[o][l] = "none"
                                        /\ Unresolved(o, l)' <=> Unresolved(o, l),
           s = "completed" => \A l \in LeaseId : ~Unresolved(op, l)
    PROVE  RetireInv'
<1>1. /\ phase'[op] = "idle" /\ todo'[op] = {} /\ verdict'[op] = "none" /\ job'[op] = s
      /\ \A l \in LeaseId : evidence'[op][l] = "none"
      /\ \A o \in Op : o # op => /\ phase'[o] = phase[o] /\ todo'[o] = todo[o] /\ verdict'[o] = verdict[o]
                                 /\ job'[o] = job[o] /\ evidence'[o] = evidence[o]
  BY DEF Rest, RetireInv, RetireTypes
<1>2. RetireTypes'
  BY DEF Rest, RetireInv, RetireTypes, JobStatus, Phase, Evidence
<1>3. UNCHANGED <<leaseState, leaseAddr>>
  BY DEF vars, leaseVars, leaseKeys
<1>4. ItemsInv'
  BY <1>3 DEF RetireInv, ItemsInv
<1>5. \A o \in Op : Items(o)' = Items(o)
  BY DEF Items
<1>6. StatusInv'
  BY <1>1, <1>5 DEF RetireInv, StatusInv, Active
<1>7. EvidenceInv'
  BY <1>1, <1>3, <1>5 DEF RetireInv, EvidenceInv
<1>8. RetiredGone'
  BY <1>3 DEF RetireInv, RetiredGone
<1> QED BY <1>2, <1>4, <1>6, <1>7, <1>8 DEF RetireInv

LEMMA InterruptKeepsJobs ==
    ASSUME RetireInv, NEW op \in Op, Interrupt(op)
    PROVE  RetireInv'
<1>1. /\ item' = [item EXCEPT ![op] = [l \in LeaseId |->
            IF item[op][l] = "retiring" /\ CanReview(op, l) THEN "review" ELSE item[op][l]]]
      /\ job' = [job EXCEPT ![op] = "interrupted"] /\ Rest(op) /\ UNCHANGED <<vars, apple>>
  BY DEF Interrupt
<1>2. item' \in [Op -> [LeaseId -> ItemState]]
  BY <1>1 DEF RetireInv, RetireTypes, ItemState
<1>3. \A o \in Op, l \in LeaseId : item'[o][l] = item[o][l] \/ (item[o][l] = "retiring" /\ item'[o][l] = "review")
  BY <1>1 DEF RetireInv, RetireTypes
<1>4. \A o \in Op, l \in LeaseId : /\ item'[o][l] = "none" <=> item[o][l] = "none"
                                   /\ Unresolved(o, l)' <=> Unresolved(o, l)
  BY <1>3 DEF Unresolved
<1> QED BY <1>1, <1>2, <1>4, RestKeepsJobs

LEMMA CloseKeepsJobs ==
    ASSUME RetireInv, NEW op \in Op, WriteVerdict(op) \/ CompleteReconcile(op)
    PROVE  RetireInv'
<1>1. PICK s \in {verdict[op], Outcome(op)} :
        /\ job' = [job EXCEPT ![op] = s]
        /\ s = verdict[op] => phase[op] = "closing" \/ s = Outcome(op)
  BY DEF WriteVerdict, CompleteReconcile
<1>2. Rest(op) /\ UNCHANGED <<vars, item, apple>>
  BY DEF WriteVerdict, CompleteReconcile
<1>3. s \in {"completed", "review"} /\ (s = "completed" => \A l \in LeaseId : ~Unresolved(op, l))
  BY <1>1 DEF RetireInv, RetireTypes, StatusInv, Outcome
<1>4. /\ item' \in [Op -> [LeaseId -> ItemState]]
      /\ \A o \in Op, l \in LeaseId : /\ item'[o][l] = "none" <=> item[o][l] = "none"
                                      /\ Unresolved(o, l)' <=> Unresolved(o, l)
  BY <1>2 DEF RetireInv, RetireTypes, Unresolved
<1> QED BY <1>1, <1>2, <1>3, <1>4, RestKeepsJobs

LEMMA VerdictKeepsJobs ==
    ASSUME RetireInv, NEW op \in Op, ComputeVerdict(op)
    PROVE  RetireInv'
<1>1. /\ phase[op] = "recording" /\ verdict' = [verdict EXCEPT ![op] = Outcome(op)]
      /\ phase' = [phase EXCEPT ![op] = "closing"] /\ UNCHANGED <<vars, job, item, todo, evidence, apple>>
  BY DEF ComputeVerdict, GoTo, jobVars
<1>2. RetireTypes'
  BY <1>1 DEF RetireInv, RetireTypes, Phase, Outcome
<1>3. /\ phase'[op] = "closing" /\ verdict'[op] = Outcome(op) /\ job[op] # "none"
      /\ \A o \in Op : o # op => phase'[o] = phase[o] /\ verdict'[o] = verdict[o]
  BY <1>1 DEF RetireInv, RetireTypes, StatusInv
<1>4. \A o \in Op : todo'[o] \subseteq Items(o)
  BY <1>1 DEF RetireInv, EvidenceInv
<1>5. Outcome(op) # "none" /\ (Outcome(op) = "completed" => \A l \in LeaseId : ~Unresolved(op, l))
  BY DEF Outcome
<1>6. \A o \in Op :
        /\ job'[o] = "none" => phase'[o] = "idle" /\ Items(o) = {}
        /\ job'[o] \in Active => phase'[o] # "idle"
        /\ job'[o] = "completed" \/ (phase'[o] = "closing" /\ verdict'[o] = "completed")
             => \A l \in LeaseId : ~Unresolved(o, l)
        /\ phase'[o] = "closing" => verdict'[o] # "none"
  BY <1>1, <1>3, <1>5 DEF RetireInv, StatusInv
<1> QED BY <1>1, <1>2, <1>4, <1>6, StillJobs

\* Any step of a goroutine.
LEMMA WorkerKeepsJobs ==
    ASSUME TypeOK, RetireInv, NEW op \in Op, WorkerStep(op)
    PROVE  RetireInv'
<1>1. CASE BeginDelete(op)
  <2>1. /\ {l \in Items(op) : item[op][l] = "retiring"} \in SUBSET Items(op)
        /\ job' = [job EXCEPT ![op] = "running"] /\ phase' = [phase EXCEPT ![op] = "deleting"]
        /\ todo' = [todo EXCEPT ![op] = {l \in Items(op) : item[op][l] = "retiring"}]
        /\ UNCHANGED <<vars, item, evidence, verdict, apple>>
    BY <1>1 DEF BeginDelete, GoTo
  <2> QED BY <2>1, RoundKeepsJobs
<1>2. ASSUME NEW l \in LeaseId, AppleDelete(op, l) PROVE RetireInv'
  BY <1>2, AppleKeepsJobs
<1>3. ASSUME NEW l \in LeaseId, RecordOutcome(op, l) \/ ApplyObservation(op, l) PROVE RetireInv'
  BY <1>3, TransactionKeepsJobs
<1>4. ASSUME NEW p \in {"recording", "starting"}, phase[op] # "idle", phase' = [phase EXCEPT ![op] = p],
             UNCHANGED <<vars, jobVars, todo, evidence, verdict, apple>>
      PROVE  RetireInv'
  BY <1>4, MoveKeepsJobs DEF Phase, jobVars, RetireInv, RetireTypes
<1>5. ASSUME NEW cut \in BOOLEAN, DeleteReturns(op, cut) PROVE RetireInv'
  BY <1>4, <1>5 DEF DeleteReturns, GoTo
<1>6. CASE ContinueDelete(op)
  BY <1>4, <1>6 DEF ContinueDelete, GoTo
<1>7. CASE InterruptDelete(op) \/ InterruptReconcile(op)
  BY <1>7, InterruptKeepsJobs DEF InterruptDelete, InterruptReconcile
<1>8. CASE ComputeVerdict(op)
  BY <1>8, VerdictKeepsJobs
<1>9. CASE WriteVerdict(op) \/ CompleteReconcile(op)
  BY <1>9, CloseKeepsJobs
<1>10. ASSUME NEW unsure \in SUBSET LeaseId, ReadDirectory(op, unsure) PROVE RetireInv'
  BY <1>10, ReadKeepsJobs
<1> QED BY <1>1, <1>2, <1>3, <1>5, <1>6, <1>7, <1>8, <1>9, <1>10 DEF WorkerStep

-----------------------------------------------------------------------------
(* The process and the world around it. *)

\* InterruptPoolAliasRetirementJobs leaves nothing queued or running.
LEMMA CrashKeepsJobs ==
    ASSUME RetireInv, CrashRestart
    PROVE  RetireInv'
<1>1. /\ item' = [op \in Op |-> [l \in LeaseId |->
            IF job[op] \in Active /\ item[op][l] = "retiring" THEN "review" ELSE item[op][l]]]
      /\ job' = [op \in Op |-> IF job[op] \in Active THEN "interrupted" ELSE job[op]]
      /\ phase' = [op \in Op |-> "idle"] /\ todo' = [op \in Op |-> {}]
      /\ evidence' = [op \in Op |-> [l \in LeaseId |-> "none"]] /\ verdict' = [op \in Op |-> "none"]
      /\ UNCHANGED <<leaseState, leaseAddr, apple>>
  BY DEF CrashRestart, leaseVars, leaseKeys
<1>2. RetireTypes'
  BY <1>1 DEF RetireInv, RetireTypes, JobStatus, ItemState, Phase, Evidence
<1>3. \A op \in Op, l \in LeaseId : /\ item'[op][l] = "none" <=> item[op][l] = "none"
                                    /\ Unresolved(op, l)' <=> Unresolved(op, l)
  BY <1>1 DEF Unresolved
<1>4. ItemsInv'
  BY <1>1, <1>3 DEF RetireInv, ItemsInv
<1>5. \A op \in Op : Items(op)' = Items(op)
  BY <1>3 DEF Items
<1>6. StatusInv'
  BY <1>1, <1>3, <1>5 DEF RetireInv, StatusInv, Active
<1>7. EvidenceInv' /\ RetiredGone'
  BY <1>1 DEF RetireInv, EvidenceInv, RetiredGone
<1> QED BY <1>2, <1>4, <1>6, <1>7 DEF RetireInv

LEMMA OwnerKeepsJobs ==
    ASSUME RetireInv, NEW x \in Address, OwnerDeletes(x)
    PROVE  RetireInv'
<1>1. apple' \subseteq apple /\ UNCHANGED <<vars, job, item, phase, todo, evidence, verdict>>
  BY DEF OwnerDeletes, jobVars, workVars
<1>2. LeasesKept
  BY <1>1 DEF LeasesKept, vars, leaseVars, leaseKeys
<1>3. \A op \in Op : todo'[op] \subseteq Items(op)
  BY <1>1 DEF RetireInv, EvidenceInv
<1>4. ItemsInv' /\ EvidenceInv' /\ RetiredGone'
  BY <1>1, <1>2, <1>3, StillItems, StillGone
<1>5. RetireTypes' /\ StatusInv'
  BY <1>1 DEF RetireInv, RetireTypes, StatusInv, Items, Unresolved
<1> QED BY <1>4, <1>5 DEF RetireInv

\* The directory reconciliation settles items behind the goroutines' backs.
LEMMA SettleKeepsJobs ==
    ASSUME TypeOK, PoolSafe, RetireInv, NEW c \in Account, NEW gone \in SUBSET AliasId, DirectorySettles(c, gone)
    PROVE  RetireInv'
<1> DEFINE settled(op, l) == leaseAlias[l] \in gone /\ item[op][l] # "none"
<1>1. /\ item' = [op \in Op |-> [l \in LeaseId |-> IF settled(op, l) THEN "retired" ELSE item[op][l]]]
      /\ job' = [op \in Op |-> IF /\ \E l \in LeaseId : settled(op, l)
                                  /\ \A l \in Items(op) : settled(op, l) \/ item[op][l] = "retired"
                               THEN "completed" ELSE job[op]]
      /\ leaseState' = [l \in LeaseId |-> IF leaseAlias[l] \in gone /\ Live(l) THEN "retired" ELSE leaseState[l]]
      /\ UNCHANGED <<phase, todo, evidence, verdict, leaseAddr, apple>>
      /\ \A a \in gone : addr[a] \notin apple
  BY DEF DirectorySettles, ReconcileAppleDirectory, workVars, leaseKeys
<1>2. RetireTypes'
  BY <1>1 DEF RetireInv, RetireTypes, JobStatus, ItemState
<1>3. \A op \in Op, l \in LeaseId :
        /\ item'[op][l] = "none" <=> item[op][l] = "none"
        /\ Unresolved(op, l)' <=> Unresolved(op, l) /\ leaseAlias[l] \notin gone
  BY <1>1 DEF Unresolved
<1>4. \A l \in LeaseId :
        /\ leaseState'[l] = "retiring" <=> leaseState[l] = "retiring" /\ leaseAlias[l] \notin gone
        /\ leaseState[l] # "none" => leaseState'[l] # "none"
        /\ leaseState'[l] = "retired" => leaseState[l] = "retired" \/ leaseAlias[l] \in gone
  BY <1>1 DEF Live, LiveState
<1>5. ItemsInv'
  BY <1>3, <1>4 DEF RetireInv, ItemsInv
<1>6. \A op \in Op : Items(op)' = Items(op)
  BY <1>3 DEF Items
<1>7. StatusInv'
  <2>1. \A op \in Op : \/ job'[op] = job[op]
                       \/ /\ job'[op] = "completed" /\ Items(op) # {}
                          /\ \A l \in LeaseId : ~Unresolved(op, l)'
    BY <1>1, <1>3 DEF Items, Unresolved
  <2> QED BY <1>1, <1>3, <1>6, <2>1 DEF RetireInv, StatusInv, Active
<1>8. EvidenceInv'
  BY <1>1, <1>3, <1>6 DEF RetireInv, EvidenceInv
<1>9. RetiredGone'
  <2>1. \A l \in LeaseId : leaseAlias[l] \in gone => leaseAddr[l] = addr[leaseAlias[l]]
    BY PoolAssumption DEF PoolSafe, RowsBound, AliasId
  <2> QED BY <1>1, <1>4, <2>1 DEF RetireInv, RetiredGone
<1> QED BY <1>2, <1>5, <1>7, <1>8, <1>9 DEF RetireInv

LEMMA RetireStep ==
    ASSUME TypeOK, PoolSafe, RetireInv, [RNext]_allVars
    PROVE  RetireInv'
<1>1. CASE UNCHANGED allVars
  <2>1. UNCHANGED <<vars, job, item, phase, todo, evidence, verdict, apple>>
    BY <1>1 DEF allVars, retireVars, jobVars, workVars
  <2>2. UNCHANGED <<leaseState, leaseAddr>>
    BY <2>1 DEF vars, leaseVars, leaseKeys
  <2>3. RetireTypes' /\ ItemsInv' /\ StatusInv' /\ EvidenceInv' /\ RetiredGone'
    BY <2>1, <2>2 DEF RetireInv, RetireTypes, ItemsInv, StatusInv, EvidenceInv, RetiredGone, Unresolved, Items
  <2> QED BY <2>3 DEF RetireInv
<1>2. ASSUME NEW op \in Op, NEW res \in BOOLEAN, AcquireReconcile(op, res) PROVE RetireInv'
  <2>1. /\ {l \in Items(op) : item[op][l] # "retired"} \in SUBSET Items(op)
        /\ job' = [job EXCEPT ![op] = "running"] /\ phase' = [phase EXCEPT ![op] = "reading"]
        /\ todo' = [todo EXCEPT ![op] = {l \in Items(op) : item[op][l] # "retired"}]
        /\ UNCHANGED <<vars, item, evidence, verdict, apple>>
    BY <1>2 DEF AcquireReconcile
  <2> QED BY <2>1, RoundKeepsJobs
<1> QED BY <1>1, <1>2, PoolKeepsJobs, StartKeepsJobs, WorkerKeepsJobs, RecoverKeepsJobs, CrashKeepsJobs,
           OwnerKeepsJobs, SettleKeepsJobs DEF RNext

LEMMA RetirementInvariant == RSpec => [](TypeOK /\ PoolSafe /\ RetireInv)
<1>1. RInit => TypeOK /\ PoolSafe /\ RetireInv
  BY InitType, InitSafe, RetireInitially DEF RInit
<1>2. TypeOK /\ PoolSafe /\ RetireInv /\ [RNext]_allVars => (TypeOK /\ PoolSafe /\ RetireInv)'
  BY ComposedSafe, RetireStep
<1> QED BY <1>1, <1>2, PTL DEF RSpec

\* A lease is recorded as retired only when its address is gone at Apple, for
\* any number of jobs, leases and projects: no job acts on evidence that a
\* restart, another job or the owner made stale.
THEOREM RetiredAreGone == RSpec => []RetiredGone
<1>1. RetireInv => RetiredGone
  BY DEF RetireInv
<1> QED BY <1>1, RetirementInvariant, PTL

\* Jobs, items and leases agree whatever interrupts a job, whoever else has
\* recorded the same lease and whenever the directory settles an item.
THEOREM JobsAreHonest == RSpec => []JobsHonest
<1>1. RetireInv => JobsHonest
  BY DEF RetireInv, ItemsInv, StatusInv, JobsHonest
<1> QED BY <1>1, RetirementInvariant, PTL

\* Jobs change neither requests nor which leases were issued for them.
LEMMA RetirementFulfilledStep ==
    ASSUME TypeOK, RetireInv, FulfilledInv, [RNext]_allVars
    PROVE  FulfilledInv'
<1> USE DEF leaseKeys
<1>1. CASE [Next]_vars
  BY <1>1, FulfilledStep
<1>2. ASSUME NEW k \in Client, NEW op \in Op, NEW S \in SUBSET LeaseId, StartRetirement(k, op, S)
      PROVE  FulfilledInv'
  <2>1. \A l \in LeaseId : leaseState'[l] # "none" <=> leaseState[l] # "none"
    BY <1>2 DEF StartRetirement
  <2> QED BY <1>2, <2>1, FulfilledQuiet DEF StartRetirement
<1>3. ASSUME NEW op \in Op, NEW k \in LeaseId, RecoverSnapshot(op, k) PROVE FulfilledInv'
  <2>1. \A l \in LeaseId : leaseState'[l] # "none" <=> leaseState[l] # "none"
    BY <1>3 DEF RecoverSnapshot, TypeOK
  <2> QED BY <1>3, <2>1, FulfilledQuiet DEF RecoverSnapshot
<1>4. ASSUME NEW op \in Op, NEW l \in LeaseId, RecordOutcome(op, l) \/ ApplyObservation(op, l)
      PROVE  FulfilledInv'
  <2>1. ItemMove(op, l) \/ ItemStays
    BY <1>4, ItemMoves DEF RecordOutcome, ApplyObservation
  <2>2. leaseState[l] # "none"
    BY <1>4 DEF RecordOutcome, ApplyObservation, RetireInv, EvidenceInv, ItemsInv, Items
  <2>3. \A m \in LeaseId : leaseState'[m] # "none" <=> leaseState[m] # "none"
    BY <2>1, <2>2 DEF ItemMove, ItemStays, TypeOK
  <2>4. UNCHANGED <<request, leaseClient, leaseReq, claim>>
    BY <1>4 DEF RecordOutcome, ApplyObservation, Finalize, Restore, FinalizeReconciled, RecordReview, PrepareResume,
       RetireLease, UnchangedPool, leaseVars
  <2> QED BY <2>3, <2>4, FulfilledQuiet
<1>5. CASE CrashRestart
  BY <1>5, FulfilledQuiet DEF CrashRestart, leaseVars
<1>6. ASSUME NEW op \in Op, WorkerStep(op) PROVE FulfilledInv'
  <2>1. UNCHANGED vars \/ \E l \in LeaseId : RecordOutcome(op, l) \/ ApplyObservation(op, l)
    BY <1>6 DEF WorkerStep, BeginDelete, AppleDelete, DeleteReturns, InterruptDelete, Interrupt, ComputeVerdict,
       WriteVerdict, ReadDirectory, ContinueDelete, CompleteReconcile, InterruptReconcile
  <2> QED BY <1>1, <1>4, <2>1
<1>7. CASE PoolStep \/ \E c \in Account, gone \in SUBSET AliasId : DirectorySettles(c, gone)
  <2>1. Next
    BY <1>7 DEF PoolStep, DirectorySettles, Next, AccountNext
  <2> QED BY <1>1, <2>1
<1>8. CASE UNCHANGED allVars \/ (\E op \in Op, res \in BOOLEAN : AcquireReconcile(op, res))
           \/ (\E x \in Address : OwnerDeletes(x))
  <2>1. UNCHANGED vars
    BY <1>8 DEF allVars, AcquireReconcile, OwnerDeletes
  <2> QED BY <1>1, <2>1
<1> QED BY <1>2, <1>3, <1>5, <1>6, <1>7, <1>8 DEF RNext

\* Retirement takes no lease away from the request it was issued for: requests
\* stay answered in full while jobs close, retire and restore their leases.
THEOREM RetirementKeepsRequests == RSpec => []RequestFulfilled
<1>1. RInit => FulfilledInv
  BY InitFulfilled DEF RInit
<1>2. TypeOK /\ PoolSafe /\ RetireInv /\ FulfilledInv /\ [RNext]_allVars => FulfilledInv'
  BY RetirementFulfilledStep
<1>3. FulfilledInv => RequestFulfilled
  BY DEF FulfilledInv
<1> QED BY <1>1, <1>2, <1>3, RetirementInvariant, PTL DEF RSpec
=============================================================================
