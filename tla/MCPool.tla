------------------------------- MODULE MCPool -------------------------------
(***************************************************************************)
(* Small instances of Pool and PoolRetirement.  A run explores some of the *)
(* scenes below with one set of constants; what a scene leaves out of them *)
(* is never touched in it.                                                 *)
(*   "pool"    every pool operation, from an empty database                *)
(*   "retire"  one used lease, two jobs, every pool operation beside them  *)
(*   "expiry"  "pool" again for one address: expired leases are taken back *)
(*   "batch"   one job over all used leases, and what can upset it         *)
(* Retirement starts where Pool leads by CreateAlias, EnrollPoolAliases, a *)
(* claim and CommitPoolLeases: the seeded aliases are used by one project. *)
(* Without retirement, what exists at Apple is left open: nothing does.    *)
(***************************************************************************)
EXTENDS PoolRetirement, TLC

CONSTANT Scenes
VARIABLE scene

SafetyScenes == {"pool", "retire"}
Operations == Permutations(Op)
LivenessScenes == {"expiry", "batch"}

TheOp == CHOOSE op \in Op : TRUE

\* Alias n holds lease n.
UsedInit(seeded, k, r, addresses) ==
    /\ account = [c \in Account |-> "enabled"]
    /\ autoEnroll = [c \in Account |-> FALSE]
    /\ enrollAfter = [c \in Account |-> 0]
    /\ lastAlias = Cardinality(seeded)
    /\ owner = [a \in AliasId |-> IF a \in seeded THEN CHOOSE c \in Account : TRUE ELSE 0]
    /\ addr = addresses
    /\ aliasOn = [a \in AliasId |-> a \in seeded]
    /\ holders = [a \in AliasId |-> {}]
    /\ member = [a \in AliasId |-> IF a \in seeded THEN "used" ELSE "none"]
    /\ suspended = [a \in AliasId |-> "none"]
    /\ clientOn = [q \in Client |-> TRUE]
    /\ request = [q \in Client |-> [s \in Request |->
          IF q = k /\ s = r THEN Cardinality(seeded) ELSE 0]]
    /\ leaseState = [l \in LeaseId |-> IF l \in seeded THEN "used" ELSE "none"]
    /\ leaseAlias = [l \in LeaseId |-> IF l \in seeded THEN l ELSE 0]
    /\ leaseAddr = [l \in LeaseId |-> addresses[l]]
    /\ leaseClient = [l \in LeaseId |-> k]
    /\ leaseReq = [l \in LeaseId |-> r]
    /\ ttl = [l \in LeaseId |-> 0]
    /\ claim = NoClaim

TheClient == CHOOSE k \in Client : TRUE
TheRequest == CHOOSE r \in Request : TRUE
TheAddress == CHOOSE x \in Address : TRUE
Distinct == CHOOSE f \in [AliasId -> Address] : \A a, b \in AliasId : f[a] = f[b] => a = b

MCInit ==
    /\ scene \in Scenes
    /\ \/ scene \in {"pool", "expiry"} /\ Init
       \/ scene = "retire" /\ UsedInit({1}, TheClient, TheRequest, [a \in AliasId |-> TheAddress])
       \/ scene = "batch" /\ UsedInit(LeaseId, TheClient, TheRequest, Distinct)
    /\ RetireInitWith(IF scene \in {"pool", "expiry"} THEN {} ELSE Address)

\* Of the pool operations only those that can upset a job in flight.
UpsettingStep ==
    /\ \/ \E c \in Account : DisableAccount(c) \/ EnableAccount(c)
       \/ \E a \in AliasId : DeleteAlias(a)
       \/ \E on \in BOOLEAN : UpdatePoolClient(TheClient, on)
    /\ UNCHANGED retireVars

BatchNext ==
    \/ UpsettingStep
    \/ \E S \in SUBSET LeaseId : StartRetirement(TheClient, TheOp, S)
    \/ WorkerStep(TheOp)
    \/ \E res \in BOOLEAN : AcquireReconcile(TheOp, res)
    \/ CrashRestart
    \/ \E c \in Account, gone \in SUBSET AliasId : DirectorySettles(c, gone)

\* All aliases that are made have one address.
OneAddress == \A a \in AliasId : owner'[a] # 0 => addr'[a] = TheAddress

\* Only one project is ever switched off.
OthersOn == \A k \in Client \ {TheClient} : clientOn'[k]

\* One address, one lease and one project are all that is used; aliases are
\* enrolled by hand.
Single ==
    /\ OneAddress
    /\ leaseState'[2] = "none"
    /\ OthersOn /\ \A a \in AliasId : holders'[a] \subseteq {TheClient}
    /\ claim' = NoClaim /\ autoEnroll' = autoEnroll
    /\ Address \ {TheAddress} \subseteq apple'

MCNext ==
    /\ UNCHANGED scene
    /\ \/ scene = "pool" /\ Next /\ UNCHANGED retireVars /\ OthersOn
       \/ scene = "expiry" /\ Next /\ UNCHANGED retireVars /\ OneAddress
       \/ scene = "retire" /\ RNext /\ Single
       \/ scene = "batch" /\ BatchNext

MCVars == <<allVars, scene>>

SafetySpec == MCInit /\ [][MCNext]_MCVars

PoolOnly == UNCHANGED <<retireVars, scene>>

\* The fairness of Pool and PoolRetirement.
LivenessSpec ==
    /\ MCInit /\ [][MCNext]_MCVars
    /\ WF_MCVars(PoolOnly /\ (ClaimCommit \/ ClaimAbort))
    /\ \A l \in LeaseId : SF_MCVars(PoolOnly /\ scene = "expiry" /\ ExpireLease(l))
    /\ \A op \in Op : SF_MCVars(scene = "batch" /\ UNCHANGED scene /\ WorkerStep(op))
=============================================================================
