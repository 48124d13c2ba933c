---------------------------- MODULE StartupProofs ----------------------------
(***************************************************************************)
(* One key, one import, one address: for any number of processes that start *)
(* over one data directory and one database, however often they stop.       *)
(***************************************************************************)
EXTENDS Startup, SequenceTheorems, TLAPS

-----------------------------------------------------------------------------
(* The key. *)

LEMMA KeyInitially == Init => KeyInv
<1> SUFFICES ASSUME Init PROVE KeyInv
  OBVIOUS
<1>1. PICK s \in Scenes : /\ set = s.settings /\ keyFile = s.origin.keyFile
                          /\ bound = s.origin.bound /\ secrets = s.origin.secrets
  BY DEF Init
<1>2. ASSUME NEW p \in Process PROVE set[p].env \in Random \cup {None}
  <2>1. set[p] \in Setting
    BY <1>1, StartupConstants
  <2> QED
    BY <2>1 DEF Setting
<1>3. Bound
  BY <1>1, StartupConstants DEF Bound, Stored
<1>4. KeyTypes
  BY <1>1, <1>2, StartupConstants DEF Init, KeyTypes, BeforeTransaction, BeforeKey
<1> QED
  BY <1>3, <1>4 DEF Init, KeyInv, Alone, KeyHeld, BeforeTransaction, BeforeKey, Importing,
     InTransaction, Started

(* A step of a process that leaves the key file and the database as they are:    *)
(* where it goes, and the key and the import it takes there.                    *)
Phases == BeforeTransaction \cup InTransaction \cup Started
Moves(p, to, k, i) ==
    /\ pc' = [pc EXCEPT ![p] = to]
    /\ key' = [key EXCEPT ![p] = k]
    /\ imports' = [imports EXCEPT ![p] = i]
Fits(to, k, i) ==
    /\ to = "publish" => k # None
    /\ to \notin BeforeKey \cup {"publish"} => Stored(k)
    /\ to \in InTransaction => bound \in {None, k}
    /\ to \in Started => bound = k
    /\ to \in BeforeTransaction \cup Importing => ~i
    /\ to = "recheck" \/ i => sourceKey = k
    /\ to = "commit" => secrets \subseteq {k}

LEMMA MoveKeepsKeys ==
    ASSUME KeyInv, NEW p \in Process, UNCHANGED <<set, keyFile, bound, secrets, sourceKey>>,
           NEW to \in Phases, NEW k \in Random \cup {None}, NEW i \in BOOLEAN,
           Moves(p, to, k, i), Fits(to, k, i),
           to \in InTransaction => pc[p] \in InTransaction \/ LockFree
    PROVE  KeyInv'
<1>1. /\ pc'[p] = to /\ key'[p] = k /\ imports'[p] = i
      /\ \A q \in Process \ {p} : pc'[q] = pc[q] /\ key'[q] = key[q] /\ imports'[q] = imports[q]
  BY DEF KeyInv, KeyTypes, Moves
<1>2. KeyTypes'
  BY DEF KeyInv, KeyTypes, Moves, Phases
<1>3. Alone'
  BY <1>1 DEF KeyInv, Alone, LockFree
<1>4. Bound'
  BY DEF KeyInv, Bound, Stored
<1>5. ASSUME NEW q \in Process PROVE KeyHeld(q)'
  <2>1. CASE q = p
    BY <1>1, <2>1 DEF KeyHeld, Fits, Stored
  <2>2. CASE q # p
    BY <1>1, <2>2 DEF KeyInv, KeyHeld, Stored
  <2> QED
    BY <2>1, <2>2
<1> QED
  BY <1>2, <1>3, <1>4, <1>5 DEF KeyInv

LEMMA ExitKeepsKeys ==
    ASSUME KeyInv, NEW p \in Process, UNCHANGED <<set, keyFile, bound, secrets, sourceKey>>, Exit(p)
    PROVE  KeyInv'
<1>1. Moves(p, "off", None, FALSE) /\ "off" \in Phases
  BY DEF Exit, Moves, Phases, BeforeTransaction, BeforeKey
<1>2. Fits("off", None, FALSE)
  BY DEF Fits, BeforeTransaction, BeforeKey, InTransaction, Started, Importing
<1> QED
  BY <1>1, <1>2, MoveKeepsKeys DEF InTransaction

LEMMA GoKeepsKeys ==
    ASSUME KeyInv, NEW p \in Process, UNCHANGED <<set, keyFile, bound, secrets, sourceKey>>,
           NEW to \in Phases, Go(p, to), UNCHANGED <<key, imports>>, Fits(to, key[p], imports[p]),
           to \in InTransaction => pc[p] \in InTransaction \/ LockFree
    PROVE  KeyInv'
<1>1. Moves(p, to, key[p], imports[p]) /\ key[p] \in Random \cup {None} /\ imports[p] \in BOOLEAN
  BY DEF Go, Moves, KeyInv, KeyTypes
<1> QED
  BY <1>1, MoveKeepsKeys

(* The files of the management path and of the certificate do not matter here.   *)
LEMMA KeyInFiles ==
    ASSUME KeyInv, NEW p \in Process,
           LoadOrCreateAdminPath(p) \/ persistAdminPath(p) \/ WritePath(p) \/ WriteFails(p) \/ Start(p)
    PROVE  KeyInv'
<1>0. UNCHANGED <<set, keyFile, bound, secrets, sourceKey>>
  BY DEF LoadOrCreateAdminPath, persistAdminPath, WritePath, WriteFails, Start, Unsaved, files, tables, source
<1>1. pc[p] \in BeforeKey /\ ~imports[p]
  BY DEF LoadOrCreateAdminPath, persistAdminPath, WritePath, WriteFails, Start, KeyInv, KeyHeld, BeforeTransaction, BeforeKey
<1>2. \/ Exit(p)
      \/ \E to \in BeforeKey : Go(p, to) /\ UNCHANGED <<key, imports>>
  BY DEF LoadOrCreateAdminPath, persistAdminPath, WritePath, WriteFails, Start, Kept, BeforeKey
<1>3. \A to \in BeforeKey : /\ to \in Phases /\ to \notin InTransaction
                            /\ Fits(to, key[p], imports[p])
  BY <1>1 DEF Fits, Phases, BeforeTransaction, BeforeKey, InTransaction, Started, Importing
<1> QED
  BY <1>0, <1>2, <1>3, ExitKeepsKeys, GoKeepsKeys

LEMMA KeyLoaded ==
    ASSUME KeyInv, NEW p \in Process, LoadOrCreateMasterKey(p)
    PROVE  KeyInv'
<1>0. UNCHANGED <<set, keyFile, bound, secrets, sourceKey>>
  BY DEF LoadOrCreateMasterKey, Unsaved, files, tables, source
<1>1. pc[p] = "key" /\ ~imports[p] /\ imports[p] \in BOOLEAN /\ UNCHANGED imports
  BY DEF LoadOrCreateMasterKey, KeyInv, KeyTypes, KeyHeld, BeforeTransaction, BeforeKey
<1>2. \E to \in {"open", "publish"}, k \in Random :
         /\ pc' = [pc EXCEPT ![p] = to] /\ key' = [key EXCEPT ![p] = k]
         /\ to = "open" => Stored(k)
  <2>1. set[p].env # None => set[p].env \in Random /\ Stored(set[p].env)
    BY DEF KeyInv, KeyTypes, Stored
  <2>2. keyFile # None => keyFile \in Random /\ Stored(keyFile)
    BY DEF KeyInv, KeyTypes, Stored
  <2> QED
    BY <2>1, <2>2 DEF LoadOrCreateMasterKey, Go
<1>3. PICK to \in {"open", "publish"}, k \in Random :
         /\ pc' = [pc EXCEPT ![p] = to] /\ key' = [key EXCEPT ![p] = k]
         /\ to = "open" => Stored(k)
  BY <1>2
<1>4. Moves(p, to, k, imports[p]) /\ to \in Phases /\ to \notin InTransaction
  BY <1>1, <1>3 DEF Moves, KeyInv, KeyTypes, Phases, BeforeTransaction, InTransaction
<1>5. Fits(to, k, imports[p])
  BY <1>1, <1>3, StartupConstants DEF Fits, BeforeKey, InTransaction, Started
<1> QED
  BY <1>0, <1>1, <1>4, <1>5, MoveKeepsKeys

(* Whoever publishes first, the others take what is there: no key is forgotten.   *)
LEMMA KeyPublished ==
    ASSUME KeyInv, NEW p \in Process, publishMasterKey(p)
    PROVE  KeyInv'
<1>1. /\ pc[p] = "publish" /\ ~imports[p] /\ imports' = imports
      /\ UNCHANGED <<set, bound, secrets, sourceKey>>
  BY DEF publishMasterKey, KeyInv, KeyHeld, BeforeTransaction, tables, source
<1>2. key[p] \in Random /\ keyFile' \in Random /\ key' = [key EXCEPT ![p] = keyFile']
  BY <1>1 DEF publishMasterKey, Published, KeyInv, KeyTypes, KeyHeld
<1>3. /\ pc' = [pc EXCEPT ![p] = "open"]
      /\ keyFile # None => keyFile' = keyFile
  BY DEF publishMasterKey, Go
<1>4. \A k : Stored(k) => Stored(k)'
  BY <1>1, <1>3 DEF Stored
<1>5. Stored(key[p])'
  BY <1>2, StartupConstants DEF Stored, KeyInv, KeyTypes
<1>6. KeyTypes'
  BY <1>1, <1>2, <1>3 DEF KeyInv, KeyTypes, BeforeTransaction
<1>7. Alone' /\ Bound'
  BY <1>1, <1>3, <1>4 DEF KeyInv, KeyTypes, Alone, Bound, InTransaction
<1>8. ASSUME NEW q \in Process PROVE KeyHeld(q)'
  <2>1. CASE q = p
    BY <1>1, <1>3, <1>5, <2>1 DEF KeyInv, KeyTypes, KeyHeld, InTransaction, Started
  <2>2. CASE q # p
    BY <1>1, <1>2, <1>3, <1>4, <2>2 DEF KeyInv, KeyTypes, KeyHeld
  <2> QED
    BY <2>1, <2>2
<1> QED
  BY <1>6, <1>7, <1>8 DEF KeyInv

(* The transaction: one process at a time, and none leaves it but with the key     *)
(* the database is bound to.                                                   *)
LEMMA KeyInTransaction ==
    ASSUME KeyInv, NEW p \in Process,
           migratePostgres(p) \/ BeginLifecycle(p) \/ CheckTarget(p) \/ CopyAdmins(p) \/ CopyRest(p)
           \/ verifyLegacySQLiteSourceUnchanged(p) \/ validateStoredCiphertexts(p)
    PROVE  KeyInv'
<1>0. UNCHANGED <<set, keyFile, bound, secrets, sourceKey>>
  BY DEF migratePostgres, BeginLifecycle, Importable, CheckTarget, CopyAdmins, CopyRest, verifyLegacySQLiteSourceUnchanged,
         validateStoredCiphertexts, Unsaved, files, tables, source
<1>1. Stored(key[p]) /\ key[p] \in Random \cup {None} /\ imports[p] \in BOOLEAN
  BY DEF migratePostgres, BeginLifecycle, Importable, CheckTarget, CopyAdmins, CopyRest, verifyLegacySQLiteSourceUnchanged,
         validateStoredCiphertexts, KeyInv, KeyTypes, KeyHeld, BeforeKey
<1> DEFINE Leads(to, i) ==
        /\ pc' = [pc EXCEPT ![p] = to] /\ UNCHANGED key /\ imports' = [imports EXCEPT ![p] = i]
<1>2. ASSUME NEW to \in Phases, NEW i \in BOOLEAN, Leads(to, i), Fits(to, key[p], i),
             to \in InTransaction => pc[p] \in InTransaction \/ LockFree
      PROVE  KeyInv'
  <2>1. Moves(p, to, key[p], i)
    BY <1>2 DEF Moves, KeyInv, KeyTypes
  <2> QED
    BY <1>0, <1>1, <1>2, <2>1, MoveKeepsKeys
<1>3. CASE Exit(p)
  BY <1>0, <1>3, ExitKeepsKeys
<1>4. CASE migratePostgres(p) /\ ~Exit(p)
  <2>1. Leads("lifecycle", imports[p]) /\ ~imports[p] /\ "lifecycle" \in Phases
    BY <1>4 DEF migratePostgres, Go, Kept, KeyInv, KeyTypes, KeyHeld, Phases, BeforeTransaction
  <2>2. Fits("lifecycle", key[p], imports[p])
    BY <1>1, <2>1 DEF Fits, BeforeKey, InTransaction, Started
  <2> QED
    BY <1>1, <1>2, <2>1, <2>2 DEF InTransaction
<1>5. CASE BeginLifecycle(p) /\ ~Exit(p)
  <2>1. LockFree /\ Known(p) /\ ~imports[p]
    BY <1>5 DEF BeginLifecycle, Importable, KeyInv, KeyHeld, BeforeTransaction
  <2>2. PICK to \in {"target", "validate"} : Leads(to, imports[p])
    BY <1>5 DEF BeginLifecycle, Importable, Go, Kept, KeyInv, KeyTypes
  <2>3. Fits(to, key[p], imports[p]) /\ to \in Phases
    BY <1>1, <2>1 DEF Fits, Known, Phases, BeforeTransaction, BeforeKey, InTransaction, Started
  <2> QED
    BY <1>1, <1>2, <2>1, <2>2, <2>3
<1>6. CASE (CheckTarget(p) \/ CopyAdmins(p)) /\ ~Exit(p)
  <2>1. ~imports[p] /\ pc[p] \in InTransaction /\ bound \in {None, key[p]}
    BY <1>6 DEF CheckTarget, CopyAdmins, KeyInv, KeyHeld, InTransaction, Importing
  <2>2. PICK to \in {"copy", "rest"} : Leads(to, imports[p])
    BY <1>6 DEF CheckTarget, CopyAdmins, Go, Kept, KeyInv, KeyTypes
  <2>3. Fits(to, key[p], imports[p]) /\ to \in Phases
    BY <1>1, <2>1 DEF Fits, Phases, BeforeTransaction, BeforeKey, InTransaction, Started
  <2> QED
    BY <1>1, <1>2, <2>1, <2>2, <2>3
<1>7. CASE CopyRest(p) /\ ~Exit(p)
  <2>1. ~imports[p] /\ pc[p] \in InTransaction /\ bound \in {None, key[p]} /\ sourceKey = key[p]
    BY <1>7 DEF CopyRest, KeyInv, KeyHeld, InTransaction, Importing
  <2>2. Leads("recheck", imports[p]) /\ "recheck" \in Phases
    BY <1>7 DEF CopyRest, Go, KeyInv, KeyTypes, Phases, InTransaction
  <2>3. Fits("recheck", key[p], imports[p])
    BY <1>1, <2>1 DEF Fits, BeforeTransaction, BeforeKey, InTransaction, Started
  <2> QED
    BY <1>1, <1>2, <2>1, <2>2, <2>3
<1>8. CASE verifyLegacySQLiteSourceUnchanged(p) /\ ~Exit(p)
  <2>1. pc[p] \in InTransaction /\ bound \in {None, key[p]} /\ sourceKey = key[p]
    BY <1>8 DEF verifyLegacySQLiteSourceUnchanged, KeyInv, KeyHeld, InTransaction
  <2>2. Leads("validate", TRUE) /\ "validate" \in Phases
    BY <1>8 DEF verifyLegacySQLiteSourceUnchanged, Go, KeyInv, KeyTypes, Phases, InTransaction
  <2>3. Fits("validate", key[p], TRUE)
    BY <1>1, <2>1 DEF Fits, BeforeTransaction, BeforeKey, InTransaction, Importing, Started
  <2> QED
    BY <1>1, <1>2, <2>1, <2>2, <2>3
<1>9. CASE validateStoredCiphertexts(p) /\ ~Exit(p)
  <2>1. pc[p] \in InTransaction /\ bound \in {None, key[p]} /\ (imports[p] => sourceKey = key[p])
    BY <1>9 DEF validateStoredCiphertexts, KeyInv, KeyHeld, InTransaction
  <2>2. Leads("commit", imports[p]) /\ "commit" \in Phases /\ (bound = None => Opens(p))
    BY <1>9 DEF validateStoredCiphertexts, Go, Kept, KeyInv, KeyTypes, Phases, InTransaction
  <2>3. secrets \subseteq {key[p]}
    BY <2>1, <2>2 DEF Opens, KeyInv, Bound
  <2>4. Fits("commit", key[p], imports[p])
    BY <1>1, <2>1, <2>3 DEF Fits, BeforeTransaction, BeforeKey, InTransaction, Importing, Started
  <2> QED
    BY <1>1, <1>2, <2>1, <2>2, <2>4
<1> QED
  BY <1>3, <1>4, <1>5, <1>6, <1>7, <1>8, <1>9

LEMMA KeyCommitted ==
    ASSUME KeyInv, NEW p \in Process, CommitLifecycle(p)
    PROVE  KeyInv'
<1>1. /\ pc[p] = "commit" /\ pc[p] \in InTransaction /\ secrets \subseteq {key[p]} /\ Stored(key[p])
      /\ bound \in {None, key[p]} /\ (imports[p] => sourceKey = key[p])
  BY DEF CommitLifecycle, KeyInv, KeyHeld, InTransaction, BeforeKey
<1>2. /\ bound' = key[p] /\ secrets' \subseteq {key[p]}
      /\ UNCHANGED <<set, keyFile, key, imports, sourceKey>>
  BY <1>1 DEF CommitLifecycle, Kept, files, source
<1>3. PICK to \in {"admins", "credentials"} : pc' = [pc EXCEPT ![p] = to]
  BY DEF CommitLifecycle, Go
<1>4. \A q \in Process \ {p} : pc'[q] = pc[q] /\ pc'[q] \notin InTransaction
  BY <1>1, <1>3 DEF KeyInv, KeyTypes, Alone
<1>5. pc'[p] = to /\ to \in Started
  BY <1>3 DEF KeyInv, KeyTypes, Started
<1>6. KeyTypes'
  BY <1>1, <1>2, <1>3 DEF KeyInv, KeyTypes, Stored, Started
<1>7. Alone' /\ Bound'
  BY <1>1, <1>2, <1>4, <1>5 DEF Alone, Bound, Stored, InTransaction, Started
<1>8. ASSUME NEW q \in Process PROVE KeyHeld(q)'
  <2>1. CASE q = p
    BY <1>1, <1>2, <1>5, <2>1 DEF KeyInv, KeyHeld, Stored, BeforeTransaction, BeforeKey, Importing, InTransaction, Started
  <2>2. CASE q # p
    <3>1. pc[q] \in Started => bound = key[q] /\ Stored(key[q])
      BY DEF KeyInv, KeyHeld, Started, BeforeKey
    <3>2. pc[q] \in Started => key[q] = key[p]
      BY <1>1, <3>1 DEF Stored
    <3> QED
      BY <1>2, <1>4, <2>2, <3>2 DEF KeyInv, KeyHeld, Stored, InTransaction
  <2> QED
    BY <2>1, <2>2
<1> QED
  BY <1>6, <1>7, <1>8 DEF KeyInv

(* Once it is past the check a process stores under the key that is bound.        *)
LEMMA SecretsAdded ==
    ASSUME KeyInv, NEW p \in Process, pc[p] \in Started, UNCHANGED <<set, keyFile, bound, sourceKey, key, imports>>,
           secrets' \subseteq secrets \cup {key[p]},
           NEW to \in Started, pc' = [pc EXCEPT ![p] = to]
    PROVE  KeyInv'
<1>1. bound = key[p] /\ bound # None
  BY DEF KeyInv, KeyHeld, Stored, Started, BeforeKey
<1>2. KeyTypes' /\ Alone'
  BY DEF KeyInv, KeyTypes, Alone, InTransaction, Started
<1>3. Bound'
  BY <1>1 DEF KeyInv, Bound, Stored
<1>4. ASSUME NEW q \in Process PROVE KeyHeld(q)'
  <2>1. CASE q = p
    BY <1>1, <2>1 DEF KeyInv, KeyTypes, KeyHeld, Stored, BeforeTransaction, BeforeKey, Importing, InTransaction, Started
  <2>2. CASE q # p
    <3>1. pc'[q] = pc[q]
      BY <2>2 DEF KeyInv, KeyTypes
    <3>2. pc[q] = "commit" => key[q] = bound
      BY <1>1 DEF KeyInv, KeyHeld, InTransaction
    <3> QED
      BY <1>1, <3>1, <3>2 DEF KeyInv, KeyHeld, Stored
  <2> QED
    BY <2>1, <2>2
<1> QED
  BY <1>2, <1>3, <1>4 DEF KeyInv

LEMMA KeyInUse ==
    ASSUME KeyInv, NEW p \in Process,
           EnsureAliasCredentials(p) \/ checkAdminBootstrap(p) \/ resetAdminCredentials(p) \/ ResetAdmin(p)
           \/ CreateAdmin(p) \/ InsertAdmin(p) \/ LoadOrCreateTLSConfig(p) \/ WritePrivateKey(p)
           \/ WriteCertificate(p) \/ LoadPair(p) \/ Serve(p)
    PROVE  KeyInv'
<1>1. pc[p] \in Started /\ UNCHANGED <<set, keyFile, bound, sourceKey>>
  BY DEF EnsureAliasCredentials, checkAdminBootstrap, resetAdminCredentials, ResetAdmin, CreateAdmin, InsertAdmin,
         LoadOrCreateTLSConfig, WritePrivateKey, WriteCertificate, LoadPair, Serve, Unsaved, files, tables, source, Started
<1>2. CASE EnsureAliasCredentials(p) \/ Serve(p)
  <2>1. UNCHANGED <<key, imports>> /\ secrets' \subseteq secrets \cup {key[p]}
    BY <1>2 DEF EnsureAliasCredentials, Serve, Kept, local
  <2>2. \E to \in Started : pc' = [pc EXCEPT ![p] = to]
    BY <1>1, <1>2 DEF EnsureAliasCredentials, Serve, Go, local, KeyInv, KeyTypes, Started
  <2> QED
    BY <1>1, <2>1, <2>2, SecretsAdded
<1>3. CASE ~(EnsureAliasCredentials(p) \/ Serve(p))
  <2>1. UNCHANGED secrets
    BY <1>3 DEF checkAdminBootstrap, resetAdminCredentials, ResetAdmin, CreateAdmin, InsertAdmin,
         LoadOrCreateTLSConfig, WritePrivateKey, WriteCertificate, LoadPair, Unsaved, tables
  <2>2. Exit(p) \/ \E to \in Started : pc' = [pc EXCEPT ![p] = to] /\ UNCHANGED <<key, imports>>
    BY <1>3 DEF checkAdminBootstrap, resetAdminCredentials, ResetAdmin, CreateAdmin, InsertAdmin, AfterAdmins,
         LoadOrCreateTLSConfig, WritePrivateKey, WriteCertificate, LoadPair, Go, Kept, Started
  <2> QED
    BY <1>1, <2>1, <2>2, ExitKeepsKeys, SecretsAdded
<1> QED
  BY <1>2, <1>3

LEMMA KeyStep == KeyInv /\ [Next]_vars => KeyInv'
<1> SUFFICES ASSUME KeyInv, [Next]_vars PROVE KeyInv'
  OBVIOUS
<1>1. CASE UNCHANGED vars \/ WriteSource
  <2>1. UNCHANGED <<set, pc, key, imports, keyFile, bound, secrets, sourceKey>>
    BY <1>1 DEF vars, WriteSource, local, files, tables, source
  <2> QED
    BY <2>1 DEF KeyInv, KeyTypes, Alone, Bound, KeyHeld, Stored
<1>2. ASSUME NEW p \in Process, Stop(p) PROVE KeyInv'
  BY <1>2, ExitKeepsKeys DEF Stop, files, tables, source
<1>3. ASSUME NEW p \in Process, Step(p) \/ Serve(p) \/ WriteFails(p) PROVE KeyInv'
  BY <1>3, KeyInFiles, KeyLoaded, KeyPublished, KeyInTransaction, KeyCommitted, KeyInUse DEF Step
<1> QED
  BY <1>1, <1>2, <1>3 DEF Next

(* Every stored secret is under the one key the database is bound to, which is     *)
(* kept, for any number of processes (InitializeMasterKeyLifecycle).            *)
THEOREM KeyIsOne == Spec => []OneKey
<1>1. KeyInv => OneKey
  BY DEF KeyInv, Bound, Stored, KeyHeld, OneKey
<1> QED
  BY KeyInitially, KeyStep, <1>1, PTL DEF Spec

-----------------------------------------------------------------------------
(* The import. *)

LEMMA ImportInitially == Init => ImportInv
<1> SUFFICES ASSUME Init PROVE ImportInv
  OBVIOUS
<1>1. edition \in Nat
  BY StartupConstants DEF Init
<1> QED
  BY <1>1 DEF Init, ImportInv, ImportTypes, Imported, Read, Importing

LEMMA AppendedFirst ==
    ASSUME NEW v
    PROVE  Append(<< >>, v) = <<v>>
<1>1. << >> \in Seq({v}) /\ <<v>> \in Seq({v}) /\ Len(<< >>) = 0 /\ Len(<<v>>) = 1 /\ <<v>>[1] = v
  OBVIOUS
<1>2. /\ Append(<< >>, v) \in Seq({v}) /\ Len(Append(<< >>, v)) = 1
      /\ Append(<< >>, v)[1] = v
  BY <1>1, AppendProperties
<1> QED
  BY <1>1, <1>2, SeqEqual

LEMMA AppendedSecond ==
    ASSUME NEW v, NEW w
    PROVE  Append(<<v>>, w) = <<v, w>>
<1>1. /\ <<v>> \in Seq({v, w}) /\ <<v, w>> \in Seq({v, w}) /\ Len(<<v>>) = 1 /\ Len(<<v, w>>) = 2
      /\ <<v>>[1] = v /\ <<v, w>>[1] = v /\ <<v, w>>[2] = w
  OBVIOUS
<1>2. /\ Append(<<v>>, w) \in Seq({v, w}) /\ Len(Append(<<v>>, w)) = 2
      /\ Append(<<v>>, w)[1] = v /\ Append(<<v>>, w)[2] = w
  BY <1>1, AppendProperties
<1>3. \A i \in 1 .. Len(<<v, w>>) : Append(<<v>>, w)[i] = <<v, w>>[i]
  <2>1. \A i \in 1 .. 2 : i = 1 \/ i = 2
    OBVIOUS
  <2> QED
    BY <1>1, <1>2, <2>1
<1> QED
  BY <1>1, <1>2, <1>3, SeqEqual

Elsewhere(p) == \A q \in Process \ {p} :
    pc'[q] = pc[q] /\ seen'[q] = seen[q] /\ part'[q] = part[q] /\ imports'[q] = imports[q]

LEMMA ReadsKept ==
    ASSUME ImportInv, NEW p \in Process, UNCHANGED <<edition, marker, done>>,
           Elsewhere(p), ImportTypes', Read(p)'
    PROVE  ImportInv'
<1>1. Imported'
  BY DEF ImportInv, Imported
<1>2. ASSUME NEW q \in Process PROVE Read(q)'
  BY DEF ImportInv, Read, Elsewhere
<1> QED
  BY <1>1, <1>2 DEF ImportInv

Reads(p, to, n, r, i) ==
    /\ pc' = [pc EXCEPT ![p] = to] /\ seen' = [seen EXCEPT ![p] = n]
    /\ part' = [part EXCEPT ![p] = r] /\ imports' = [imports EXCEPT ![p] = i]

LEMMA ReadsElsewhere ==
    ASSUME KeyInv, ImportInv, NEW p \in Process, UNCHANGED edition,
           NEW to, NEW n \in Nat, NEW r, NEW i, Reads(p, to, n, r, i)
    PROVE  /\ Elsewhere(p) /\ ImportTypes'
           /\ pc'[p] = to /\ seen'[p] = n /\ part'[p] = r /\ imports'[p] = i
<1>1. DOMAIN pc = Process /\ DOMAIN imports = Process
  BY DEF KeyInv, KeyTypes
<1>2. seen \in [Process -> Nat] /\ part = [q \in Process |-> part[q]]
  BY DEF ImportInv, ImportTypes
<1>3. /\ Elsewhere(p)
      /\ pc'[p] = to /\ seen'[p] = n /\ part'[p] = r /\ imports'[p] = i
  BY <1>1, <1>2 DEF Reads, Elsewhere
<1>4. edition' \in Nat /\ seen' \in [Process -> Nat]
  BY <1>2 DEF Reads, ImportInv, ImportTypes
<1>5. part' = [q \in Process |-> part'[q]]
  BY <1>2 DEF Reads
<1> QED
  BY <1>3, <1>4, <1>5 DEF ImportTypes

(* Outside the transaction nothing that was read matters.                        *)
LEMMA NothingRead ==
    ASSUME KeyInv, ImportInv, NEW p \in Process, UNCHANGED <<edition, marker, done>>,
           \/ Exit(p)
           \/ \E to \in Phases \ (Importing \cup {"validate", "commit"}) : Go(p, to) /\ UNCHANGED <<seen, part, imports>>
    PROVE  ImportInv'
<1>1. Elsewhere(p)
  BY DEF Elsewhere, Exit, Go, KeyInv, KeyTypes, ImportInv, ImportTypes
<1>2. ImportTypes'
  BY DEF Exit, Go, ImportInv, ImportTypes
<1>3. Read(p)'
  BY DEF Exit, Go, Read, KeyInv, KeyTypes, Importing
<1> QED
  BY <1>1, <1>2, <1>3, ReadsKept

LEMMA ImportOutside ==
    ASSUME KeyInv, ImportInv, NEW p \in Process,
           \/ Start(p) \/ LoadOrCreateAdminPath(p) \/ persistAdminPath(p) \/ WritePath(p) \/ WriteFails(p)
           \/ LoadOrCreateMasterKey(p) \/ publishMasterKey(p) \/ migratePostgres(p)
           \/ EnsureAliasCredentials(p) \/ checkAdminBootstrap(p) \/ resetAdminCredentials(p) \/ ResetAdmin(p)
           \/ CreateAdmin(p) \/ InsertAdmin(p) \/ LoadOrCreateTLSConfig(p) \/ WritePrivateKey(p)
           \/ WriteCertificate(p) \/ LoadPair(p) \/ Serve(p) \/ Stop(p)
    PROVE  ImportInv'
<1> DEFINE Passes == \E to \in Phases \ (Importing \cup {"validate", "commit"}) : Go(p, to) /\ UNCHANGED <<seen, part, imports>>
<1>0. UNCHANGED <<edition, marker, done>>
  BY DEF Start, LoadOrCreateAdminPath, persistAdminPath, WritePath, WriteFails, LoadOrCreateMasterKey, publishMasterKey,
         migratePostgres, EnsureAliasCredentials, checkAdminBootstrap, resetAdminCredentials, ResetAdmin, CreateAdmin,
         InsertAdmin, LoadOrCreateTLSConfig, WritePrivateKey, WriteCertificate, LoadPair, Serve, Stop,
         Unsaved, files, tables, source
<1>1. \A to \in BeforeTransaction \cup Started : to \in Phases \ (Importing \cup {"validate", "commit"})
  BY DEF Phases, BeforeTransaction, BeforeKey, Started, Importing
<1>2. CASE Start(p) \/ LoadOrCreateAdminPath(p) \/ persistAdminPath(p) \/ WritePath(p) \/ WriteFails(p)
           \/ LoadOrCreateMasterKey(p) \/ publishMasterKey(p) \/ migratePostgres(p)
  <2>1. Exit(p) \/ \E to \in BeforeTransaction : Go(p, to) /\ UNCHANGED <<seen, part, imports>>
    BY <1>2 DEF Start, LoadOrCreateAdminPath, persistAdminPath, WritePath, WriteFails, LoadOrCreateMasterKey,
                publishMasterKey, migratePostgres, Kept, BeforeTransaction, BeforeKey
  <2> QED
    BY <1>0, <1>1, <2>1, NothingRead
<1>3. CASE EnsureAliasCredentials(p) \/ Serve(p)
  <2>1. pc[p] \in Started /\ UNCHANGED <<seen, part, imports>>
    BY <1>3 DEF EnsureAliasCredentials, Serve, Kept, local, Started
  <2>2. \E to \in Started : Go(p, to)
    BY <1>3, <2>1 DEF EnsureAliasCredentials, Serve, Go, local, KeyInv, KeyTypes, Started
  <2> QED
    BY <1>0, <1>1, <2>1, <2>2, NothingRead
<1>4. CASE checkAdminBootstrap(p) \/ resetAdminCredentials(p) \/ ResetAdmin(p) \/ CreateAdmin(p) \/ InsertAdmin(p)
  <2>1. Exit(p) \/ \E to \in Started : Go(p, to) /\ UNCHANGED <<seen, part, imports>>
    BY <1>4 DEF checkAdminBootstrap, resetAdminCredentials, ResetAdmin, CreateAdmin, InsertAdmin, AfterAdmins,
                Kept, Started
  <2> QED
    BY <1>0, <1>1, <2>1, NothingRead
<1>5. CASE LoadOrCreateTLSConfig(p) \/ WritePrivateKey(p) \/ WriteCertificate(p) \/ LoadPair(p) \/ Stop(p)
  <2>1. Exit(p) \/ \E to \in Started : Go(p, to) /\ UNCHANGED <<seen, part, imports>>
    BY <1>5 DEF LoadOrCreateTLSConfig, WritePrivateKey, WriteCertificate, LoadPair, Stop, Kept, Started
  <2> QED
    BY <1>0, <1>1, <2>1, NothingRead
<1> QED
  BY <1>2, <1>3, <1>4, <1>5

(* While it is read the database moves on: each table is read at a later state.   *)
LEMMA ImportReads ==
    ASSUME KeyInv, ImportInv, NEW p \in Process,
           BeginLifecycle(p) \/ CheckTarget(p) \/ CopyAdmins(p) \/ CopyRest(p)
           \/ verifyLegacySQLiteSourceUnchanged(p) \/ validateStoredCiphertexts(p)
    PROVE  ImportInv'
<1>0. UNCHANGED <<edition, marker, done>>
  BY DEF BeginLifecycle, Importable, CheckTarget, CopyAdmins, CopyRest, verifyLegacySQLiteSourceUnchanged,
         validateStoredCiphertexts, Unsaved, tables, source
<1>1. edition \in Nat /\ seen[p] \in Nat /\ Read(p)
  BY DEF ImportInv, ImportTypes
<1>2. CASE Exit(p)
  BY <1>0, <1>2, NothingRead
<1> DEFINE Same(to) == Reads(p, to, seen[p], part[p], imports[p])
<1>3. CASE BeginLifecycle(p) /\ ~Exit(p)
  <2>1. ~imports[p]
    BY <1>3 DEF BeginLifecycle, Importable, KeyInv, KeyHeld, BeforeTransaction
  <2>2. CASE ~marker /\ edition > 0 /\ Reads(p, "target", edition, part[p], imports[p])
    BY <1>0, <1>1, <2>1, <2>2, ReadsElsewhere, ReadsKept DEF Read, Importing
  <2>3. CASE Same("validate")
    BY <1>0, <1>1, <2>1, <2>3, ReadsElsewhere, ReadsKept DEF Read, Importing
  <2> QED
    BY <1>3, <2>2, <2>3 DEF BeginLifecycle, Importable, Go, Kept, Reads, KeyInv, KeyTypes, ImportInv, ImportTypes
<1>4. CASE (CheckTarget(p) \/ validateStoredCiphertexts(p)) /\ ~Exit(p)
  <2>1. \/ pc[p] = "target" /\ Same("copy")
        \/ pc[p] = "validate" /\ Same("commit")
    BY <1>4 DEF CheckTarget, validateStoredCiphertexts, Go, Kept, Reads, KeyInv, KeyTypes, ImportInv, ImportTypes
  <2>2. Elsewhere(p) /\ ImportTypes'
    BY <1>0, <1>1, <2>1, ReadsElsewhere
  <2>3. Read(p)'
    BY <1>0, <1>1, <2>1, ReadsElsewhere DEF Read, Importing
  <2> QED
    BY <1>0, <2>2, <2>3, ReadsKept
<1>5. CASE CopyAdmins(p) /\ ~Exit(p)
  <2>1. pc[p] = "copy" /\ Reads(p, "rest", seen[p], <<edition>>, imports[p])
    BY <1>5 DEF CopyAdmins, Go, Reads, KeyInv, KeyTypes, ImportInv, ImportTypes
  <2>2. ~marker /\ seen[p] \in 1 .. edition
    BY <1>1, <2>1 DEF Read, Importing
  <2>3. Read(p)'
    BY <1>0, <1>1, <2>1, <2>2, ReadsElsewhere DEF Read, Importing
  <2> QED
    BY <1>0, <1>1, <2>1, <2>3, ReadsElsewhere, ReadsKept
<1>6. CASE CopyRest(p) /\ ~Exit(p)
  <2>1. pc[p] = "rest" /\ Reads(p, "recheck", seen[p], Append(part[p], edition), imports[p])
    BY <1>6 DEF CopyRest, Go, Reads, KeyInv, KeyTypes, ImportInv, ImportTypes
  <2>2. ~marker /\ seen[p] \in 1 .. edition
    BY <1>1, <2>1 DEF Read, Importing
  <2>3. PICK v \in seen[p] .. edition : part[p] = <<v>>
    BY <1>1, <2>1 DEF Read
  <2>4. Append(part[p], edition) = <<v, edition>>
    BY <2>3, AppendedSecond
  <2>5. pc'[p] = "recheck" /\ seen'[p] = seen[p] /\ part'[p] = <<v, edition>>
    BY <1>0, <1>1, <2>1, <2>4, ReadsElsewhere
  <2>6. v \in seen[p] .. edition /\ edition \in v .. edition
    BY <1>1, <2>3
  <2>7. Read(p)'
    BY <1>0, <2>2, <2>5, <2>6 DEF Read, Importing
  <2> QED
    BY <1>0, <1>1, <2>1, <2>7, ReadsElsewhere, ReadsKept
<1>7. CASE verifyLegacySQLiteSourceUnchanged(p) /\ ~Exit(p)
  <2>1. pc[p] = "recheck" /\ edition = seen[p] /\ Reads(p, "validate", seen[p], part[p], TRUE)
    BY <1>7 DEF verifyLegacySQLiteSourceUnchanged, Unchanged, Go, Reads, KeyInv, KeyTypes, ImportInv, ImportTypes
  <2>2. ~marker /\ seen[p] \in 1 .. edition
    BY <1>1, <2>1 DEF Read, Importing
  <2>3. part[p] = <<edition, edition>>
    <3>1. PICK v \in seen[p] .. edition : \E w \in v .. edition : part[p] = <<v, w>>
      BY <1>1, <2>1 DEF Read
    <3>2. PICK w \in v .. edition : part[p] = <<v, w>>
      BY <3>1
    <3>3. v = edition /\ w = edition
      BY <1>1, <2>1, <3>1, <3>2
    <3> QED
      BY <3>2, <3>3
  <2>4. pc'[p] = "validate" /\ part'[p] = <<edition, edition>>
    BY <1>0, <1>1, <2>1, <2>3, ReadsElsewhere
  <2>5. Read(p)'
    BY <1>0, <1>1, <2>2, <2>4 DEF Read, Importing
  <2> QED
    BY <1>0, <1>1, <2>1, <2>5, ReadsElsewhere, ReadsKept
<1> QED
  BY <1>2, <1>3, <1>4, <1>5, <1>6, <1>7

LEMMA ImportCommitted ==
    ASSUME KeyInv, ImportInv, NEW p \in Process, CommitLifecycle(p)
    PROVE  ImportInv'
<1>1. pc[p] = "commit" /\ UNCHANGED <<edition, seen, part, imports>>
  BY DEF CommitLifecycle, Kept, source
<1>2. PICK to \in {"admins", "credentials"} : pc' = [pc EXCEPT ![p] = to]
  BY DEF CommitLifecycle, Go
<1>3. \A q \in Process : /\ q # p => pc'[q] = pc[q]
                         /\ pc'[q] \notin InTransaction
  BY <1>1, <1>2 DEF KeyInv, KeyTypes, Alone, InTransaction
<1>4. \A q \in Process : Read(q)'
  BY <1>3 DEF Read, Importing, InTransaction
<1>5. Imported'
  <2>1. CASE imports[p]
    <3>1. ~marker
      BY <1>1, <2>1 DEF ImportInv, Read
    <3>2. PICK v \in 1 .. edition : part[p] = <<v, v>>
      BY <1>1, <2>1 DEF ImportInv, Read
    <3>3. done = << >> /\ marker' = TRUE /\ done' = Append(done, part[p])
      BY <2>1, <3>1 DEF CommitLifecycle, ImportInv, Imported
    <3>4. done' = <<<<v, v>>>>
      BY <3>2, <3>3, AppendedFirst
    <3> QED
      BY <1>1, <3>3, <3>4 DEF Imported
  <2>2. CASE ~imports[p]
    BY <1>1, <2>2 DEF CommitLifecycle, ImportInv, Imported
  <2> QED
    BY <2>1, <2>2
<1> QED
  BY <1>1, <1>4, <1>5 DEF ImportInv, ImportTypes

LEMMA SourceWritten == ImportInv /\ WriteSource => ImportInv'
<1> SUFFICES ASSUME ImportInv, WriteSource PROVE ImportInv'
  OBVIOUS
<1>1. edition \in Nat /\ edition' = edition + 1 /\ UNCHANGED <<pc, seen, part, imports, marker, done>>
  BY DEF WriteSource, local, tables, ImportInv, ImportTypes
<1>2. 1 .. edition \subseteq 1 .. edition'
  BY <1>1
<1>3. Imported'
  BY <1>1, <1>2 DEF ImportInv, Imported
<1>4. ASSUME NEW q \in Process PROVE Read(q)'
  <2>1. seen[q] \in Nat /\ seen[q] .. edition \subseteq seen[q] .. edition'
    BY <1>1 DEF ImportInv, ImportTypes
  <2>2. \A v \in seen[q] .. edition : v .. edition \subseteq v .. edition'
    BY <1>1, <2>1
  <2>3. Read(q)
    BY DEF ImportInv
  <2> QED
    BY <1>1, <1>2, <2>1, <2>2, <2>3 DEF Read
<1> QED
  BY <1>1, <1>3, <1>4 DEF ImportInv, ImportTypes

LEMMA ImportStep == KeyInv /\ ImportInv /\ [Next]_vars => ImportInv'
<1> SUFFICES ASSUME KeyInv, ImportInv, [Next]_vars PROVE ImportInv'
  OBVIOUS
<1>1. CASE UNCHANGED vars
  BY <1>1 DEF vars, local, tables, source, ImportInv, ImportTypes, Imported, Read
<1>2. ASSUME NEW p \in Process, Step(p) \/ Serve(p) \/ WriteFails(p) \/ Stop(p) PROVE ImportInv'
  BY <1>2, ImportOutside, ImportReads, ImportCommitted DEF Step
<1> QED
  BY <1>1, <1>2, SourceWritten DEF Next

(* Whatever is written to the legacy database while it is read, and however often   *)
(* processes try, it is imported at most once and as it was at one moment           *)
(* (importLegacySQLiteWithValidatorTx).                                        *)
THEOREM ImportIsExact == Spec => []ImportExact
<1>1. ImportInv => ImportExact
  <2> SUFFICES ASSUME ImportInv PROVE ImportExact
    OBVIOUS
  <2>1. CASE done = << >> /\ ~marker
    BY <2>1 DEF ImportExact
  <2>2. ASSUME marker, NEW v \in 1 .. edition, done = <<<<v, v>>>> PROVE ImportExact
    <3>1. done # << >> /\ DOMAIN done = {1} /\ done[1] = <<v, v>>
      BY <2>2
    <3> QED
      BY <2>2, <3>1 DEF ImportExact
  <2> QED
    BY <2>1, <2>2 DEF ImportInv, Imported
<1> QED
  BY KeyInitially, KeyStep, ImportInitially, ImportStep, <1>1, PTL DEF Spec

-----------------------------------------------------------------------------
(* The management path and the certificate. *)

LEMMA AddressInitially == Init => AddressInv
<1> SUFFICES ASSUME Init PROVE AddressInv
  OBVIOUS
<1>1. ASSUME NEW p \in Process PROVE set[p].path \in Random \cup {None}
  <2>1. set[p] \in Setting
    BY StartupConstants DEF Init
  <2> QED
    BY <2>1 DEF Setting
<1> QED
  BY <1>1 DEF Init, AddressInv, FileTypes, Addressed, BeforeTransaction, BeforeKey

Carries(p, to, a, b) ==
    /\ pc' = [pc EXCEPT ![p] = to] /\ path' = [path EXCEPT ![p] = a] /\ pair' = [pair EXCEPT ![p] = b]
Outside == {"off", "path", "persist", "write"}
Suits(p, to, a, b) ==
    /\ to \in Phases \ {"write", "certificate"}
    /\ a \in Random \cup {None} /\ b \in Random \cup {None}
    /\ to = "persist" => a \in Random
    /\ set[p].mode = "serve" /\ to \notin Outside => a = pathFile /\ pathFile \in Random
    /\ to = "private" => b \in Random
    /\ to \in {"load", "running"} => tlsCert # None
    /\ to = "running" => b = tlsCert

LEMMA CarryTypes ==
    ASSUME AddressInv, NEW p \in Process, NEW to \in Phases, NEW a \in Random \cup {None}, NEW b \in Random \cup {None},
           Carries(p, to, a, b)
    PROVE  /\ pc' \in [Process -> Phases] /\ path' \in [Process -> Random \cup {None}]
           /\ pair' \in [Process -> Random \cup {None}]
           /\ pc'[p] = to /\ path'[p] = a /\ pair'[p] = b
           /\ \A q \in Process \ {p} : pc'[q] = pc[q] /\ path'[q] = path[q] /\ pair'[q] = pair[q]
BY DEF AddressInv, FileTypes, Carries, Phases

LEMMA AddressKept ==
    ASSUME AddressInv, NEW p \in Process, UNCHANGED <<set, pathFile, tlsKey, tlsCert>>,
           NEW to, NEW a, NEW b, Carries(p, to, a, b), Suits(p, to, a, b)
    PROVE  AddressInv'
<1>1. to \in Phases /\ a \in Random \cup {None} /\ b \in Random \cup {None}
  BY DEF Suits
<1>2. FileTypes' /\ pc' \in [Process -> Phases] /\ tlsCert' \in {None, tlsKey'}
  BY <1>1, CarryTypes DEF AddressInv, FileTypes
<1>3. ASSUME NEW q \in Process PROVE Addressed(q)'
  <2>1. CASE q = p
    BY <1>1, <2>1, CarryTypes DEF Addressed, Suits, Outside
  <2>2. CASE q # p
    BY <1>1, <2>2, CarryTypes DEF AddressInv, Addressed, Suits
  <2> QED
    BY <2>1, <2>2
<1> QED
  BY <1>2, <1>3 DEF AddressInv, Phases

LEMMA ExitKeepsAddress ==
    ASSUME AddressInv, NEW p \in Process, UNCHANGED <<set, pathFile, tlsKey, tlsCert>>, Exit(p)
    PROVE  AddressInv'
<1>1. Carries(p, "off", None, None) /\ Suits(p, "off", None, None)
  BY DEF Exit, Carries, Suits, Outside, Phases, BeforeTransaction, BeforeKey
<1> QED
  BY <1>1, AddressKept

(* Between the path and the certificate neither changes.                         *)
LEMMA GoKeepsAddress ==
    ASSUME AddressInv, NEW p \in Process, UNCHANGED <<set, pathFile, tlsKey, tlsCert, path, pair>>,
           pc[p] \notin Outside, NEW to \in Phases \ {"private", "load", "running", "persist", "write", "certificate"}, Go(p, to)
    PROVE  AddressInv'
<1>1. Carries(p, to, path[p], pair[p])
  BY DEF Go, Carries, AddressInv, FileTypes
<1>2. Suits(p, to, path[p], pair[p])
  BY DEF Suits, Outside, AddressInv, FileTypes, Addressed
<1> QED
  BY <1>1, <1>2, AddressKept

LEMMA AddressBetween ==
    ASSUME AddressInv, NEW p \in Process,
           \/ LoadOrCreateMasterKey(p) \/ publishMasterKey(p) \/ migratePostgres(p)
           \/ BeginLifecycle(p) \/ CheckTarget(p) \/ CopyAdmins(p) \/ CopyRest(p)
           \/ verifyLegacySQLiteSourceUnchanged(p) \/ validateStoredCiphertexts(p) \/ CommitLifecycle(p)
           \/ EnsureAliasCredentials(p) \/ checkAdminBootstrap(p) \/ resetAdminCredentials(p) \/ ResetAdmin(p)
           \/ CreateAdmin(p) \/ InsertAdmin(p) \/ Stop(p)
    PROVE  AddressInv'
<1> DEFINE Middle == Phases \ {"private", "load", "running", "persist", "write", "certificate"}
<1>1. UNCHANGED <<set, pathFile, tlsKey, tlsCert>>
  BY DEF LoadOrCreateMasterKey, publishMasterKey, migratePostgres, BeginLifecycle, Importable, CheckTarget, CopyAdmins, CopyRest,
         verifyLegacySQLiteSourceUnchanged, validateStoredCiphertexts, CommitLifecycle, EnsureAliasCredentials,
         checkAdminBootstrap, resetAdminCredentials, ResetAdmin, CreateAdmin, InsertAdmin, Stop, Unsaved, files
<1>2. CASE Exit(p)
  BY <1>1, <1>2, ExitKeepsAddress
<1>3. \A to \in {"open", "publish", "lifecycle", "target", "validate", "copy", "rest", "recheck", "commit", "credentials",
                 "admins", "bootstrap", "create", "reset", "insert", "tls", "done"} : to \in Middle
  BY DEF Phases, BeforeTransaction, BeforeKey, InTransaction, Started
<1>4. CASE (LoadOrCreateMasterKey(p) \/ publishMasterKey(p) \/ migratePostgres(p)) /\ ~Exit(p)
  BY <1>1, <1>3, <1>4, GoKeepsAddress DEF LoadOrCreateMasterKey, publishMasterKey, migratePostgres, Kept, Outside
<1>5. CASE (BeginLifecycle(p) \/ CheckTarget(p) \/ CopyAdmins(p) \/ CopyRest(p)) /\ ~Exit(p)
  BY <1>1, <1>3, <1>5, GoKeepsAddress DEF BeginLifecycle, Importable, CheckTarget, CopyAdmins, CopyRest, Kept, Outside
<1>6. CASE (verifyLegacySQLiteSourceUnchanged(p) \/ validateStoredCiphertexts(p) \/ CommitLifecycle(p)) /\ ~Exit(p)
  BY <1>1, <1>3, <1>6, GoKeepsAddress
     DEF verifyLegacySQLiteSourceUnchanged, validateStoredCiphertexts, CommitLifecycle, Kept, Outside
<1>7. CASE (EnsureAliasCredentials(p) \/ checkAdminBootstrap(p)) /\ ~Exit(p)
  <2>1. \E to \in Middle : Go(p, to)
    BY <1>3, <1>7 DEF EnsureAliasCredentials, checkAdminBootstrap, AfterAdmins, Go, AddressInv
  <2> QED
    BY <1>1, <1>7, <2>1, GoKeepsAddress DEF EnsureAliasCredentials, checkAdminBootstrap, Kept, Outside
<1>8. CASE (resetAdminCredentials(p) \/ ResetAdmin(p) \/ CreateAdmin(p) \/ InsertAdmin(p)) /\ ~Exit(p)
  BY <1>1, <1>3, <1>8, GoKeepsAddress
     DEF resetAdminCredentials, ResetAdmin, CreateAdmin, InsertAdmin, AfterAdmins, Kept, Outside
<1>9. Stop(p) => Exit(p)
  BY DEF Stop
<1> QED
  BY <1>2, <1>4, <1>5, <1>6, <1>7, <1>8, <1>9

(* One process makes the file of the path; what it wrote stays.                   *)
LEMMA AddressWritten ==
    ASSUME AddressInv, NEW p \in Process, pc[p] = "write", UNCHANGED <<set, tlsKey, tlsCert>>,
           \/ pathFile' = path[p] /\ Carries(p, "key", path[p], pair[p])
           \/ pathFile' = None /\ Carries(p, "off", None, None)
    PROVE  AddressInv'
<1>1. path[p] \in Random /\ pathFile = Torn /\ (\A q \in Process : pc[q] = "write" => p = q)
  BY DEF AddressInv, Addressed
<1>2. pair[p] \in Random \cup {None} /\ {"key", "off"} \subseteq Phases
  BY DEF AddressInv, FileTypes, Phases, BeforeTransaction, BeforeKey
<1>3. /\ pc' \in [Process -> Phases] /\ path' \in [Process -> Random \cup {None}]
      /\ pair' \in [Process -> Random \cup {None}]
      /\ \A q \in Process \ {p} : pc'[q] = pc[q] /\ path'[q] = path[q] /\ pair'[q] = pair[q]
      /\ \/ pc'[p] = "key" /\ path'[p] = pathFile' /\ pathFile' \in Random
         \/ pc'[p] = "off" /\ pathFile' = None
  BY <1>1, <1>2, CarryTypes
<1>4. FileTypes' /\ tlsCert' \in {None, tlsKey'}
  BY <1>3 DEF AddressInv, FileTypes
<1>5. ASSUME NEW q \in Process PROVE Addressed(q)'
  <2>1. CASE q = p
    BY <1>3, <2>1 DEF Addressed
  <2>2. CASE q # p
    <3>1. set[q].mode = "serve" => pc[q] \in Outside
      BY <1>1, StartupConstants DEF AddressInv, Addressed, Outside
    <3>2. pc[q] # "write"
      BY <1>1, <2>2
    <3> QED
      BY <1>3, <2>2, <3>1, <3>2 DEF AddressInv, Addressed, Outside
  <2> QED
    BY <2>1, <2>2
<1> QED
  BY <1>3, <1>4, <1>5 DEF AddressInv, Phases

LEMMA AddressClaimed ==
    ASSUME AddressInv, NEW p \in Process, pc[p] = "persist", pathFile = None, pathFile' = Torn,
           UNCHANGED <<set, tlsKey, tlsCert>>, Carries(p, "write", path[p], pair[p])
    PROVE  AddressInv'
<1>1. path[p] \in Random /\ pair[p] \in Random \cup {None} /\ "write" \in Phases
  BY DEF AddressInv, Addressed, FileTypes, Phases, BeforeTransaction, BeforeKey
<1>2. \A q \in Process : pc[q] # "write" /\ (set[q].mode = "serve" => pc[q] \in Outside)
  BY StartupConstants DEF AddressInv, Addressed, Outside
<1>3. FileTypes' /\ pc' \in [Process -> Phases] /\ tlsCert' \in {None, tlsKey'}
  BY <1>1, CarryTypes DEF AddressInv, FileTypes
<1>4. ASSUME NEW q \in Process PROVE Addressed(q)'
  <2>1. CASE q = p
    BY <1>1, <1>2, <2>1, CarryTypes DEF Addressed
  <2>2. CASE q # p
    BY <1>1, <1>2, <2>2, CarryTypes DEF AddressInv, Addressed, Outside
  <2> QED
    BY <2>1, <2>2
<1> QED
  BY <1>3, <1>4 DEF AddressInv, Phases

LEMMA AddressOfPath ==
    ASSUME AddressInv, NEW p \in Process,
           Start(p) \/ LoadOrCreateAdminPath(p) \/ persistAdminPath(p) \/ WritePath(p) \/ WriteFails(p)
    PROVE  AddressInv'
<1>0. UNCHANGED <<set, tlsKey, tlsCert>>
  BY DEF Start, LoadOrCreateAdminPath, persistAdminPath, WritePath, WriteFails, Unsaved, files
<1>1. path[p] \in Random \cup {None} /\ pair[p] \in Random \cup {None} /\ set[p].path \in Random \cup {None}
  BY DEF AddressInv, FileTypes
<1> DEFINE Here(to) == Carries(p, to, path[p], pair[p])
<1>2. CASE Start(p)
  <2>1. PICK to \in {"path", "key"} : Here(to) /\ (set[p].mode = "serve" => to = "path")
    BY <1>2 DEF Start, Go, Kept, Carries, AddressInv, FileTypes
  <2>2. Suits(p, to, path[p], pair[p]) /\ UNCHANGED pathFile
    BY <1>1, <1>2, <2>1 DEF Start, Unsaved, files, Suits, Outside, Phases, BeforeTransaction, BeforeKey
  <2> QED
    BY <1>0, <2>1, <2>2, AddressKept
<1>3. CASE LoadOrCreateAdminPath(p)
  <2>1. UNCHANGED pathFile
    BY <1>3 DEF LoadOrCreateAdminPath, Unsaved, files
  <2>2. \/ Exit(p)
        \/ \E a \in Random : Carries(p, "persist", a, pair[p])
        \/ pathFile \in Random /\ Carries(p, "key", pathFile, pair[p])
    BY <1>1, <1>3 DEF LoadOrCreateAdminPath, Go, Carries, AddressInv, FileTypes
  <2>3. \A a \in Random : Suits(p, "persist", a, pair[p])
    BY <1>1 DEF Suits, Outside, Phases, BeforeTransaction, BeforeKey
  <2>4. pathFile \in Random => Suits(p, "key", pathFile, pair[p])
    BY <1>1 DEF Suits, Outside, Phases, BeforeTransaction, BeforeKey
  <2> QED
    BY <1>0, <2>1, <2>2, <2>3, <2>4, AddressKept, ExitKeepsAddress
<1>4. CASE persistAdminPath(p)
  <2>1. CASE pathFile = None
    BY <1>0, <1>4, <2>1, AddressClaimed DEF persistAdminPath, Go, Kept, Carries, AddressInv, FileTypes
  <2>2. CASE pathFile # None /\ SamePath(p) /\ Here("key") /\ UNCHANGED pathFile
    <3>1. path[p] \in Random /\ path[p] = pathFile
      BY <1>4, <2>2 DEF persistAdminPath, SamePath, AddressInv, Addressed
    <3>2. Suits(p, "key", path[p], pair[p])
      BY <1>1, <3>1 DEF Suits, Outside, Phases, BeforeTransaction, BeforeKey
    <3> QED
      BY <1>0, <2>2, <3>2, AddressKept
  <2>3. CASE Exit(p) /\ UNCHANGED pathFile
    BY <1>0, <2>3, ExitKeepsAddress
  <2> QED
    BY <1>4, <2>1, <2>2, <2>3 DEF persistAdminPath, Go, Kept, Carries, AddressInv, FileTypes
<1>5. CASE WritePath(p)
  <2>1. Here("key") /\ pathFile' = path[p] /\ pc[p] = "write"
    BY <1>5 DEF WritePath, Go, Kept, Carries, AddressInv, FileTypes
  <2> QED
    BY <1>0, <1>5, <2>1, AddressWritten
<1>6. CASE WriteFails(p)
  <2>1. Carries(p, "off", None, None) /\ pathFile' = None /\ pc[p] = "write"
    BY <1>6 DEF WriteFails, Exit, Carries
  <2> QED
    BY <1>0, <2>1, AddressWritten
<1> QED
  BY <1>2, <1>3, <1>4, <1>5, <1>6

(* The private key is written first, by the process that writes the certificate.   *)
LEMMA PairClaimed ==
    ASSUME AddressInv, NEW p \in Process, pc[p] = "private", tlsKey = None, tlsKey' = pair[p],
           UNCHANGED <<set, pathFile, tlsCert>>, Carries(p, "certificate", path[p], pair[p])
    PROVE  AddressInv'
<1>1. /\ pair[p] \in Random /\ path[p] \in Random \cup {None} /\ tlsCert = None /\ "certificate" \in Phases
      /\ (set[p].mode = "serve" => path[p] = pathFile /\ pathFile \in Random)
  BY DEF AddressInv, Addressed, FileTypes, Phases, InTransaction, Started
<1>2. \A q \in Process : pc[q] # "certificate"
  BY StartupConstants DEF AddressInv, Addressed
<1>3. FileTypes' /\ pc' \in [Process -> Phases] /\ tlsCert' \in {None, tlsKey'}
  BY <1>1, CarryTypes DEF AddressInv, FileTypes
<1>4. ASSUME NEW q \in Process PROVE Addressed(q)'
  <2>1. CASE q = p
    BY <1>1, <1>2, <2>1, CarryTypes DEF Addressed
  <2>2. CASE q # p
    BY <1>1, <1>2, <2>2, CarryTypes DEF AddressInv, Addressed
  <2> QED
    BY <2>1, <2>2
<1> QED
  BY <1>3, <1>4 DEF AddressInv, Phases

LEMMA PairWritten ==
    ASSUME AddressInv, NEW p \in Process, pc[p] = "certificate", tlsCert' = pair[p],
           UNCHANGED <<set, pathFile, tlsKey>>, Carries(p, "load", path[p], pair[p])
    PROVE  AddressInv'
<1>1. /\ pair[p] \in Random /\ path[p] \in Random \cup {None} /\ tlsKey = pair[p] /\ tlsCert = None /\ "load" \in Phases
      /\ \A q \in Process : pc[q] = "certificate" => p = q
      /\ (set[p].mode = "serve" => path[p] = pathFile /\ pathFile \in Random)
  BY DEF AddressInv, Addressed, FileTypes, Phases, InTransaction, Started
<1>2. FileTypes' /\ pc' \in [Process -> Phases] /\ tlsCert' \in {None, tlsKey'}
  BY <1>1, CarryTypes DEF AddressInv, FileTypes
<1>3. ASSUME NEW q \in Process PROVE Addressed(q)'
  <2>1. CASE q = p
    BY <1>1, <2>1, CarryTypes, StartupConstants DEF Addressed
  <2>2. CASE q # p
    BY <1>1, <2>2, CarryTypes, StartupConstants DEF AddressInv, Addressed
  <2> QED
    BY <2>1, <2>2
<1> QED
  BY <1>2, <1>3 DEF AddressInv, Phases

LEMMA AddressOfPair ==
    ASSUME AddressInv, NEW p \in Process,
           LoadOrCreateTLSConfig(p) \/ WritePrivateKey(p) \/ WriteCertificate(p) \/ LoadPair(p)
    PROVE  AddressInv'
<1>0. UNCHANGED <<set, pathFile>>
  BY DEF LoadOrCreateTLSConfig, WritePrivateKey, WriteCertificate, LoadPair, Unsaved, files
<1>1. /\ path[p] \in Random \cup {None} /\ pair[p] \in Random \cup {None}
      /\ (set[p].mode = "serve" => path[p] = pathFile /\ pathFile \in Random)
  BY DEF AddressInv, FileTypes, Addressed, LoadOrCreateTLSConfig, WritePrivateKey, WriteCertificate, LoadPair
<1>2. CASE Exit(p) /\ UNCHANGED <<tlsKey, tlsCert>>
  BY <1>0, <1>2, ExitKeepsAddress
<1>3. CASE LoadOrCreateTLSConfig(p) /\ ~Exit(p)
  <2>1. \/ tlsCert # None /\ Carries(p, "load", path[p], pair[p])
        \/ \E v \in Random : Carries(p, "private", path[p], v)
    BY <1>3 DEF LoadOrCreateTLSConfig, Go, Kept, Carries, AddressInv, FileTypes
  <2>2. \A v \in Random : Suits(p, "private", path[p], v)
    BY <1>1 DEF Suits, Phases, InTransaction, Started
  <2>3. tlsCert # None => Suits(p, "load", path[p], pair[p])
    BY <1>1 DEF Suits, Phases, InTransaction, Started
  <2>4. UNCHANGED <<tlsKey, tlsCert>>
    BY <1>3 DEF LoadOrCreateTLSConfig, Unsaved, files
  <2> QED
    BY <1>0, <2>1, <2>2, <2>3, <2>4, AddressKept
<1>4. CASE WritePrivateKey(p) /\ tlsKey = None
  BY <1>0, <1>4, PairClaimed DEF WritePrivateKey, Go, Kept, Carries, AddressInv, FileTypes
<1>5. CASE WriteCertificate(p)
  <2>1. tlsCert = None
    BY <1>5 DEF WriteCertificate, AddressInv, Addressed
  <2> QED
    BY <1>0, <1>5, <2>1, PairWritten DEF WriteCertificate, Go, Kept, Carries, AddressInv, FileTypes
<1>6. CASE LoadPair(p) /\ ~Exit(p)
  <2>1. tlsKey = tlsCert /\ tlsCert \in Random /\ Carries(p, "running", path[p], tlsCert)
    BY <1>6 DEF LoadPair, Go, Carries, AddressInv, FileTypes, Addressed
  <2>2. Suits(p, "running", path[p], tlsCert)
    BY <1>1, <2>1, StartupConstants DEF Suits, Phases, InTransaction, Started
  <2>3. UNCHANGED <<tlsKey, tlsCert>>
    BY <1>6 DEF LoadPair, Unsaved, files
  <2> QED
    BY <1>0, <2>1, <2>2, <2>3, AddressKept
<1>7. LoadOrCreateTLSConfig(p) \/ LoadPair(p) \/ (WritePrivateKey(p) /\ tlsKey # None) => UNCHANGED <<tlsKey, tlsCert>>
  BY DEF LoadOrCreateTLSConfig, WritePrivateKey, LoadPair, Unsaved, files
<1>8. WritePrivateKey(p) /\ tlsKey # None => Exit(p)
  BY DEF WritePrivateKey
<1> QED
  BY <1>2, <1>3, <1>4, <1>5, <1>6, <1>7, <1>8

LEMMA AddressStep == AddressInv /\ [Next]_vars => AddressInv'
<1> SUFFICES ASSUME AddressInv, [Next]_vars PROVE AddressInv'
  OBVIOUS
<1>1. CASE UNCHANGED vars \/ WriteSource \/ \E p \in Process : Serve(p)
  <2>1. UNCHANGED <<set, pc, path, pair, pathFile, tlsKey, tlsCert>>
    BY <1>1 DEF vars, WriteSource, Serve, local, files
  <2> QED
    BY <2>1 DEF AddressInv, FileTypes, Addressed
<1>2. ASSUME NEW p \in Process, Step(p) \/ WriteFails(p) \/ Stop(p) PROVE AddressInv'
  BY <1>2, AddressBetween, AddressOfPath, AddressOfPair DEF Step
<1> QED
  BY <1>1, <1>2 DEF Next

(* Servers that race to make the path and the certificate, and stop while they do,  *)
(* are all reached under what the files say once they run                          *)
(* (LoadOrCreateAdminPath, LoadOrCreateTLSConfig).                               *)
THEOREM AddressIsOne == Spec => []OneAddress
<1>1. AddressInv => OneAddress
  BY DEF AddressInv, FileTypes, Addressed, OneAddress
<1> QED
  BY AddressInitially, AddressStep, <1>1, PTL DEF Spec

(* One installation: one key, one path, one certificate.                           *)
THEOREM InstallationIsOne == Spec => []OneInstallation
<1> QED
  BY KeyIsOne, AddressIsOne, PTL DEF OneInstallation
=============================================================================
