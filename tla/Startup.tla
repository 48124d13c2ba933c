------------------------------- MODULE Startup -------------------------------
(***************************************************************************)
(* The start of the program over one data directory and one database      *)
(* (cmd/icloud-api): the management path, the master key, the schema, the  *)
(* import of a legacy database and the binding of the key in one           *)
(* transaction, missing credentials, the first administrator and the IMAPS  *)
(* certificate. Servers, "verify" and "admin reset" start side by side,    *)
(* with the key from the environment or from the key file, stop anywhere    *)
(* and are started again, while the legacy database may still be written.   *)
(***************************************************************************)
EXTENDS Integers, Sequences, FiniteSets

CONSTANTS
    Process,    \* processes that may run at a time
    Random,     \* keys, paths and certificates: none is generated twice
    None, Torn, \* no value; a file that was created and not written yet
    Scenes,     \* the settings of the processes, and what is there before the first start
    MaxStops,   \* stops and failed steps
    MaxWrites   \* states of the legacy database

Setting == [mode : {"serve", "verify", "reset"}, env : Random \cup {None}, path : Random \cup {None},
            legacy : BOOLEAN, name : STRING, version : Nat]

\* A database that is bound was bound by the program: its secrets are under the key
\* it is bound to, and the operator still has that key. One that is not is from before
\* keys were bound: its secrets are in the four tables that the check at the binding
\* reads. Account sessions and credentials for automatic login, which it does not read,
\* are assumed to have been stored by bound programs only.
ASSUME StartupConstants ==
    /\ None \notin Random /\ Torn \notin Random /\ None # Torn
    /\ \A s \in Scenes :
          /\ s.settings \in [Process -> Setting]
          /\ s.origin.bound \in Random \cup {None} /\ s.origin.keyFile \in Random \cup {None}
          /\ s.origin.secrets \subseteq Random /\ s.origin.sourceKey \in Random
          /\ s.origin.edition \in Nat
          /\ s.origin.bound # None =>
                /\ s.origin.secrets \subseteq {s.origin.bound}
                /\ s.origin.bound \in {s.origin.keyFile} \cup {s.settings[p].env : p \in Process}
    /\ MaxStops \in Nat /\ MaxWrites \in Nat

VARIABLES
    set,                                    \* the settings of this behaviour
    pc, key, path, pair, seen, part, admin, imports,    \* of each process: where it is, what it holds
    keyFile, pathFile, tlsKey, tlsCert,     \* files of the keys volume
    schema, bound, marker, secrets,         \* version, fingerprint, import marker, keys of ciphertexts
    waiting,                                \* aliases that have no credentials yet
    admins, nextId,                         \* administrators [id, name, ver], and the sequence of their ids
    edition, sourceKey,                     \* the legacy database: 0 is missing
    done,                                   \* the imports that were committed, as read
    stops

local == <<pc, key, path, pair, seen, part, admin, imports>>
files == <<keyFile, pathFile, tlsKey, tlsCert>>
tables == <<schema, bound, marker, secrets, waiting, admins, nextId, done>>
source == <<edition, sourceKey>>
vars == <<set, local, files, tables, source, stops>>

LegacyAdmin == [id |-> 1, name |-> "legacy", ver |-> 1]
Nobody == [id |-> 0, name |-> "", ver |-> 0]

Init ==
    /\ pc = [p \in Process |-> "off"]
    /\ key = [p \in Process |-> None] /\ path = key /\ pair = key
    /\ seen = [p \in Process |-> 0] /\ admin = [p \in Process |-> Nobody]
    /\ part = [p \in Process |-> <<>>] /\ imports = [p \in Process |-> FALSE]
    /\ \E s \in Scenes : LET o == s.origin IN
          /\ set = s.settings
          /\ keyFile = o.keyFile /\ bound = o.bound /\ secrets = o.secrets
          /\ schema = o.schema /\ waiting = o.waiting /\ admins = o.admins
          /\ edition = o.edition /\ sourceKey = o.sourceKey
    /\ pathFile = None /\ tlsKey = None /\ tlsCert = None
    /\ marker = FALSE /\ nextId = 1 /\ done = <<>> /\ stops = 0

-----------------------------------------------------------------------------
(* A process goes on, or ends with an error; what it had not committed is gone. *)
Go(p, to) == pc' = [pc EXCEPT ![p] = to]
Exit(p) ==
    /\ pc' = [pc EXCEPT ![p] = "off"]
    /\ key' = [key EXCEPT ![p] = None] /\ path' = [path EXCEPT ![p] = None]
    /\ pair' = [pair EXCEPT ![p] = None] /\ seen' = [seen EXCEPT ![p] = 0]
    /\ part' = [part EXCEPT ![p] = <<>>] /\ admin' = [admin EXCEPT ![p] = Nobody]
    /\ imports' = [imports EXCEPT ![p] = FALSE]

Kept == <<key, path, pair, seen, part, admin, imports>>
Unsaved == UNCHANGED <<set, files, tables, source, stops>>

Start(p) ==
    /\ pc[p] = "off"
    /\ Go(p, IF set[p].mode = "serve" THEN "path" ELSE "key")
    /\ UNCHANGED Kept /\ Unsaved

(* Random values are new; which one it is makes no difference.                   *)
NewPath == CHOOSE v \in Random : v # pathFile /\ \A p \in Process : v \notin {path[p], set[p].path}
NewKey == CHOOSE v \in Random :
    v \notin {keyFile, bound, sourceKey} \cup secrets /\ \A p \in Process : v \notin {key[p], set[p].env}
NewPair == CHOOSE v \in Random : v \notin {tlsKey, tlsCert} /\ \A p \in Process : v # pair[p]

(* The management path: a configured one must be the one in the file.        *)
LoadOrCreateAdminPath(p) ==
    /\ pc[p] = "path"
    /\ \/ /\ set[p].path # None
          /\ path' = [path EXCEPT ![p] = set[p].path] /\ Go(p, "persist")
          /\ UNCHANGED <<key, pair, seen, part, admin, imports>>
       \/ /\ set[p].path = None /\ pathFile = None
          /\ \E v \in Random : v = NewPath /\ path' = [path EXCEPT ![p] = v]
          /\ Go(p, "persist")
          /\ UNCHANGED <<key, pair, seen, part, admin, imports>>
       \/ /\ set[p].path = None /\ pathFile \in Random
          /\ path' = [path EXCEPT ![p] = pathFile] /\ Go(p, "key")
          /\ UNCHANGED <<key, pair, seen, part, admin, imports>>
       \/ set[p].path = None /\ pathFile = Torn /\ Exit(p)
    /\ Unsaved

(* The file is created for this process alone; another one's must say the same. *)
SamePath(p) == pathFile = path[p]
persistAdminPath(p) ==
    /\ pc[p] = "persist"
    /\ IF pathFile = None THEN pathFile' = Torn /\ Go(p, "write") /\ UNCHANGED Kept
       ELSE /\ IF SamePath(p) THEN Go(p, "key") /\ UNCHANGED Kept ELSE Exit(p)
            /\ UNCHANGED pathFile
    /\ UNCHANGED <<set, keyFile, tlsKey, tlsCert, tables, source, stops>>
WritePath(p) ==
    /\ pc[p] = "write"
    /\ pathFile' = path[p] /\ Go(p, "key")
    /\ UNCHANGED Kept /\ UNCHANGED <<set, keyFile, tlsKey, tlsCert, tables, source, stops>>
WriteFails(p) ==
    /\ pc[p] = "write" /\ stops < MaxStops /\ stops' = stops + 1
    /\ pathFile' = None /\ Exit(p)
    /\ UNCHANGED <<set, keyFile, tlsKey, tlsCert, tables, source>>

(* The master key: of the environment, of the file, or a new one that is        *)
(* published whole, by a link, unless another process was first.              *)
LoadOrCreateMasterKey(p) ==
    /\ pc[p] = "key"
    /\ \/ set[p].env # None /\ key' = [key EXCEPT ![p] = set[p].env] /\ Go(p, "open")
       \/ set[p].env = None /\ keyFile # None /\ key' = [key EXCEPT ![p] = keyFile] /\ Go(p, "open")
       \/ /\ set[p].env = None /\ keyFile = None /\ Go(p, "publish")
          /\ \E v \in Random : v = NewKey /\ key' = [key EXCEPT ![p] = v]
    /\ UNCHANGED <<path, pair, seen, part, admin, imports>> /\ Unsaved
PublishedOwn(p) == key[p]
Published(p) == IF keyFile = None THEN key[p] ELSE keyFile
publishMasterKey(p) ==
    /\ pc[p] = "publish"
    /\ keyFile' = IF keyFile = None THEN key[p] ELSE keyFile
    /\ key' = [key EXCEPT ![p] = Published(p)]
    /\ Go(p, "open")
    /\ UNCHANGED <<path, pair, seen, part, admin, imports>>
    /\ UNCHANGED <<set, pathFile, tlsKey, tlsCert, tables, source, stops>>

(* The schema is brought to the version of the program in one transaction, under *)
(* a lock; a newer one is refused.                                            *)
migratePostgres(p) ==
    /\ pc[p] = "open"
    /\ IF schema > set[p].version THEN Exit(p) /\ UNCHANGED schema
       ELSE schema' = set[p].version /\ Go(p, "lifecycle") /\ UNCHANGED Kept
    /\ UNCHANGED <<set, files, bound, marker, secrets, waiting, admins, nextId, done, source, stops>>

-----------------------------------------------------------------------------
(* The key lifecycle: one transaction under a lock of the database. It sees what *)
(* others commit; what it writes they see when it commits.                     *)
InTransaction == {"target", "copy", "rest", "recheck", "validate", "commit"}
LockFree == \A q \in Process : pc[q] \notin InTransaction
Known(p) == bound \in {None, key[p]}

Importable(p) == set[p].legacy /\ ~marker /\ edition > 0
BeginLifecycle(p) ==
    /\ pc[p] = "lifecycle" /\ LockFree
    /\ \/ ~Known(p) /\ Exit(p)
       \/ /\ Known(p) /\ Importable(p)
          /\ seen' = [seen EXCEPT ![p] = edition] /\ Go(p, "target")
          /\ UNCHANGED <<key, path, pair, part, admin, imports>>
       \/ /\ Known(p) /\ ~Importable(p)
          /\ Go(p, "validate") /\ UNCHANGED Kept
    /\ Unsaved

TargetHasData == admins # {} \/ secrets # {} \/ waiting # {}
StillThere(p) == edition > 0
Unchanged(p) == edition = seen[p]
CheckTarget(p) ==
    /\ pc[p] = "target"
    /\ IF TargetHasData \/ ~Unchanged(p) THEN Exit(p) ELSE Go(p, "copy") /\ UNCHANGED Kept
    /\ Unsaved

(* Rows are read table by table; the administrators come first. Each ciphertext  *)
(* must open under the key.                                                   *)
Clash(a, b) == a.id = b.id \/ a.name = b.name
CopyAdmins(p) ==
    /\ pc[p] = "copy"
    /\ IF \E a \in admins : Clash(a, LegacyAdmin) THEN Exit(p)
       ELSE /\ part' = [part EXCEPT ![p] = <<edition>>] /\ Go(p, "rest")
            /\ UNCHANGED <<key, path, pair, seen, admin, imports>>
    /\ Unsaved
(* The sequence of ids is moved at once: no transaction takes that back.         *)
CopyRest(p) ==
    /\ pc[p] = "rest"
    /\ IF sourceKey # key[p] THEN Exit(p) /\ UNCHANGED nextId
       ELSE /\ part' = [part EXCEPT ![p] = Append(@, edition)] /\ Go(p, "recheck")
            /\ nextId' = LegacyAdmin.id + 1
            /\ UNCHANGED <<key, path, pair, seen, admin, imports>>
    /\ UNCHANGED <<set, files, schema, bound, marker, secrets, waiting, admins, done, source, stops>>
verifyLegacySQLiteSourceUnchanged(p) ==
    /\ pc[p] = "recheck"
    /\ IF ~Unchanged(p) THEN Exit(p)
       ELSE /\ imports' = [imports EXCEPT ![p] = TRUE] /\ Go(p, "validate")
            /\ UNCHANGED <<key, path, pair, seen, part, admin>>
    /\ Unsaved

(* Before a key is bound, and after an import, the ciphertexts of mail accounts,  *)
(* web sessions, aliases and waiting keys are opened: all that an unbound or a    *)
(* legacy database is taken to have (StartupConstants).                        *)
Opens(p) == secrets \subseteq {key[p]}
validateStoredCiphertexts(p) ==
    /\ pc[p] = "validate"
    /\ IF (bound = None \/ imports[p]) /\ ~Opens(p) THEN Exit(p)
       ELSE Go(p, "commit") /\ UNCHANGED Kept
    /\ Unsaved
CommitLifecycle(p) ==
    /\ pc[p] = "commit"
    /\ bound' = key[p]
    /\ IF imports[p]
       THEN /\ marker' = TRUE /\ done' = Append(done, part[p])
            /\ admins' = admins \cup {LegacyAdmin}
            /\ secrets' = secrets \cup {sourceKey} /\ waiting' = waiting \cup {"pending", "stale"}
       ELSE UNCHANGED <<marker, done, admins, secrets, waiting>>
    /\ Go(p, IF set[p].mode = "reset" THEN "admins" ELSE "credentials") /\ UNCHANGED Kept
    /\ UNCHANGED <<set, files, schema, nextId, source, stops>>

-----------------------------------------------------------------------------
(* Aliases without credentials get them one by one: new ones, or ones around the *)
(* key that waits to be picked up; a waiting key that was replaced is dropped.   *)
SettleCurrent(w) == IF w = "stale" THEN waiting ELSE waiting \ {w}
Settle(w) == waiting \ {w}
EnsureAliasCredentials(p) ==
    /\ pc[p] = "credentials"
    /\ IF waiting = {}
       THEN Go(p, IF set[p].mode = "serve" THEN "bootstrap" ELSE "done") /\ UNCHANGED <<waiting, secrets>>
       ELSE /\ \E w \in waiting :
                  /\ waiting' = Settle(w)
                  /\ secrets' = IF w = "stale" THEN secrets ELSE secrets \cup {key[p]}
            /\ UNCHANGED pc
    /\ UNCHANGED Kept
    /\ UNCHANGED <<set, files, schema, bound, marker, admins, nextId, done, source, stops>>

(* The first administrator, who is there already, or is created; a reset changes   *)
(* the one of that name, or the only one.                                      *)
AfterAdmins(p) == IF set[p].mode = "serve" THEN "tls" ELSE "done"
checkAdminBootstrap(p) ==
    /\ pc[p] = "bootstrap"
    /\ Go(p, IF admins # {} THEN AfterAdmins(p) ELSE "create")
    /\ UNCHANGED Kept /\ Unsaved
Named(p) == {a \in admins : a.name = set[p].name}
ToReset(p) == IF Named(p) # {} THEN Named(p) ELSE admins
resetAdminCredentials(p) ==
    /\ pc[p] = "admins"
    /\ \/ admins = {} /\ Go(p, "bootstrap") /\ UNCHANGED Kept
       \/ Cardinality(ToReset(p)) > 1 /\ Exit(p)
       \/ /\ Cardinality(ToReset(p)) = 1
          /\ \E a \in ToReset(p) : admin' = [admin EXCEPT ![p] = a]
          /\ Go(p, "reset") /\ UNCHANGED <<key, path, pair, seen, part, imports>>
    /\ Unsaved
ResetAdmin(p) ==
    /\ pc[p] = "reset"
    /\ LET a == [admin[p] EXCEPT !.name = set[p].name, !.ver = @ + 1]
       IN  IF admin[p] \notin admins \/ \E b \in admins \ {admin[p]} : Clash(a, b)
           THEN Exit(p) /\ UNCHANGED admins
           ELSE admins' = (admins \ {admin[p]}) \cup {a} /\ Go(p, "done") /\ UNCHANGED Kept
    /\ UNCHANGED <<set, files, schema, bound, marker, secrets, waiting, nextId, done, source, stops>>

CreateAdmin(p) ==
    /\ pc[p] = "create"
    /\ admin' = [admin EXCEPT ![p] = [id |-> nextId, name |-> set[p].name, ver |-> 1]]
    /\ nextId' = nextId + 1 /\ Go(p, "insert")
    /\ UNCHANGED <<key, path, pair, seen, part, imports>>
    /\ UNCHANGED <<set, files, schema, bound, marker, secrets, waiting, admins, done, source, stops>>
(* It waits for a transaction that has inserted a row with the same id or name.  *)
InsertAdmin(p) ==
    /\ pc[p] = "insert"
    /\ \A q \in Process : pc[q] \in InTransaction /\ part[q] # <<>> => ~Clash(admin[p], LegacyAdmin)
    /\ IF \E b \in admins : Clash(admin[p], b) THEN Exit(p) /\ UNCHANGED admins
       ELSE admins' = admins \cup {admin[p]} /\ Go(p, AfterAdmins(p)) /\ UNCHANGED Kept
    /\ UNCHANGED <<set, files, schema, bound, marker, secrets, waiting, nextId, done, source, stops>>

-----------------------------------------------------------------------------
(* The IMAPS certificate: the private key is written first, each file by the     *)
(* process that creates it. Half a pair is refused for good.                     *)
LoadOrCreateTLSConfig(p) ==
    /\ pc[p] = "tls"
    /\ \/ (tlsKey = None) # (tlsCert = None) /\ Exit(p)
       \/ tlsKey # None /\ tlsCert # None /\ Go(p, "load") /\ UNCHANGED Kept
       \/ /\ tlsKey = None /\ tlsCert = None /\ Go(p, "private")
          /\ \E v \in Random : v = NewPair /\ pair' = [pair EXCEPT ![p] = v]
          /\ UNCHANGED <<key, path, seen, part, admin, imports>>
    /\ Unsaved
WritePrivateKey(p) ==
    /\ pc[p] = "private"
    /\ IF tlsKey # None THEN Exit(p) /\ UNCHANGED tlsKey
       ELSE tlsKey' = pair[p] /\ Go(p, "certificate") /\ UNCHANGED Kept
    /\ UNCHANGED <<set, keyFile, pathFile, tlsCert, tables, source, stops>>
WriteCertificate(p) ==
    /\ pc[p] = "certificate"
    /\ IF tlsCert # None THEN tlsKey' = None /\ Exit(p) /\ UNCHANGED tlsCert
       ELSE tlsCert' = pair[p] /\ Go(p, "load") /\ UNCHANGED <<tlsKey, Kept>>
    /\ UNCHANGED <<set, keyFile, pathFile, tables, source, stops>>
LoadPair(p) ==
    /\ pc[p] = "load"
    /\ IF tlsKey # tlsCert THEN Exit(p)
       ELSE /\ pair' = [pair EXCEPT ![p] = tlsCert] /\ Go(p, "running")
            /\ UNCHANGED <<key, path, seen, part, admin, imports>>
    /\ Unsaved

(* A server stores secrets under its key.                                       *)
Serve(p) ==
    /\ pc[p] = "running" /\ secrets' = secrets \cup {key[p]}
    /\ UNCHANGED local
    /\ UNCHANGED <<set, files, schema, bound, marker, waiting, admins, nextId, done, source, stops>>

(* A process stops, or a step of it fails.                                       *)
Stop(p) ==
    /\ pc[p] \notin {"off", "done"} /\ stops < MaxStops /\ stops' = stops + 1
    /\ Exit(p) /\ UNCHANGED <<set, files, tables, source>>

(* The legacy database is put there, or its program writes it.                   *)
WriteSource ==
    /\ edition < MaxWrites /\ edition' = edition + 1
    /\ UNCHANGED <<set, local, files, tables, sourceKey, stops>>

Step(p) ==
    \/ Start(p) \/ LoadOrCreateAdminPath(p) \/ persistAdminPath(p) \/ WritePath(p)
    \/ LoadOrCreateMasterKey(p) \/ publishMasterKey(p) \/ migratePostgres(p)
    \/ BeginLifecycle(p) \/ CheckTarget(p) \/ CopyAdmins(p) \/ CopyRest(p)
    \/ verifyLegacySQLiteSourceUnchanged(p) \/ validateStoredCiphertexts(p) \/ CommitLifecycle(p)
    \/ EnsureAliasCredentials(p) \/ checkAdminBootstrap(p) \/ resetAdminCredentials(p) \/ ResetAdmin(p) \/ CreateAdmin(p) \/ InsertAdmin(p)
    \/ LoadOrCreateTLSConfig(p) \/ WritePrivateKey(p) \/ WriteCertificate(p) \/ LoadPair(p)

Next ==
    \/ \E p \in Process : Step(p) \/ Serve(p) \/ WriteFails(p) \/ Stop(p)
    \/ WriteSource

Spec == Init /\ [][Next]_vars

(* The container runtime starts a server again whenever it ends (compose.yaml);  *)
(* the locks of the database are granted in the order they are asked for.        *)
FairSpec == Spec /\ \A p \in Process : SF_vars(Step(p))

-----------------------------------------------------------------------------
(* Properties *)

Started == {"credentials", "admins", "bootstrap", "reset", "create", "insert", "tls", "private", "certificate", "load",
            "running", "done"}

(* All stored secrets are under one key, the one the database is bound to,      *)
(* every process that got past the check has it, and it is kept: in the key     *)
(* file or in the environment, never only in the memory of a process that lost   *)
(* the race for the file (LoadOrCreateMasterKey, InitializeMasterKey...).        *)
OneKey ==
    /\ bound # None =>
         /\ secrets \subseteq {bound}
         /\ bound \in {keyFile} \cup {set[p].env : p \in Process}
    /\ \A p \in Process : pc[p] \in Started => key[p] = bound

(* The legacy database is imported once, whole, as it was at one moment, though   *)
(* its program may go on writing while it is read; the marker says so exactly   *)
(* when the rows are there (importLegacySQLiteWithValidatorTx).                *)
ImportExact ==
    /\ marker <=> done # <<>>
    /\ \A i \in DOMAIN done : i = 1 /\ \E v \in 1 .. edition : done[i] = <<v, v>>

(* All servers are reached under the path in the file and show the certificate   *)
(* in the files, however they raced to create them (LoadOrCreateAdminPath,      *)
(* LoadOrCreateTLSConfig).                                                     *)
OneAddress ==
    \A p \in Process : pc[p] = "running" /\ set[p].mode = "serve" =>
        path[p] = pathFile /\ pair[p] = tlsKey /\ tlsKey = tlsCert

(* However often it is started, it is one installation.                          *)
OneInstallation == OneKey /\ OneAddress

(* What keeps a server from starting until the operator steps in: settings that  *)
(* do not fit what is there, or a file that a stop left half made.             *)
KeyOf(p) == IF set[p].env # None THEN set[p].env ELSE keyFile
WrongKey(p) == bound \notin {None, KeyOf(p)} \/ (bound = None /\ ~(secrets \subseteq {KeyOf(p)}))
WrongPath(p) == set[p].path # None /\ pathFile \notin {None, Torn, set[p].path}
HalfMade ==
    \/ pathFile = Torn /\ \A q \in Process : pc[q] # "write"
    \/ (tlsKey = None) # (tlsCert = None) /\ \A q \in Process : pc[q] # "certificate"
ImportRefused(p) == Importable(p) /\ (TargetHasData \/ sourceKey # KeyOf(p))
MustBeMended(p) ==
    WrongKey(p) \/ WrongPath(p) \/ HalfMade \/ ImportRefused(p) \/ schema > set[p].version

(* A server that is started again whenever it ends comes up in the end, unless    *)
(* there is something only the operator can mend: no race with another process,  *)
(* no stop in the middle of any other step and no leftover of one keeps it out.  *)
ComesUp == \A p \in Process : set[p].mode = "serve" => <>[](pc[p] = "running" \/ MustBeMended(p))
-----------------------------------------------------------------------------
(* The inductive invariants behind them; StartupProofs proves them for any      *)
(* number of processes.                                                        *)

BeforeKey == {"off", "path", "persist", "write", "key"}
BeforeTransaction == BeforeKey \cup {"publish", "open", "lifecycle"}
Importing == {"target", "copy", "rest", "recheck"}
Alone == \A p, q \in Process : pc[p] \in InTransaction /\ pc[q] \in InTransaction => p = q

(* A key that was stored is found again. A process holds a stored key before it  *)
(* opens the database; in its transaction the database is bound to none or to   *)
(* that key.                                                                   *)
Stored(k) == k # None /\ k \in {keyFile} \cup {set[p].env : p \in Process}
Bound == bound # None => secrets \subseteq {bound} /\ Stored(bound)
KeyHeld(p) ==
    /\ pc[p] = "publish" => key[p] # None
    /\ pc[p] \notin BeforeKey \cup {"publish"} => Stored(key[p])
    /\ pc[p] \in InTransaction => bound \in {None, key[p]}
    /\ pc[p] \in Started => bound = key[p]
    /\ pc[p] \in BeforeTransaction \cup Importing => ~imports[p]
    /\ pc[p] = "recheck" \/ imports[p] => sourceKey = key[p]
    /\ pc[p] = "commit" => secrets \subseteq {key[p]}
KeyTypes ==
    /\ pc \in [Process -> BeforeTransaction \cup InTransaction \cup Started]
    /\ key \in [Process -> Random \cup {None}] /\ imports \in [Process -> BOOLEAN]
    /\ keyFile \in Random \cup {None} /\ bound \in Random \cup {None}
    /\ \A p \in Process : set[p].env \in Random \cup {None}
KeyInv == KeyTypes /\ Alone /\ Bound /\ \A p \in Process : KeyHeld(p)

(* What was read so far lies between the state the import began with and now.    *)
Read(p) ==
    /\ pc[p] \in Importing => ~marker /\ seen[p] \in 1 .. edition
    /\ pc[p] = "rest" => \E v \in seen[p] .. edition : part[p] = <<v>>
    /\ pc[p] = "recheck" => \E v \in seen[p] .. edition : \E w \in v .. edition : part[p] = <<v, w>>
    /\ pc[p] \in {"validate", "commit"} /\ imports[p] =>
          ~marker /\ \E v \in 1 .. edition : part[p] = <<v, v>>
Imported ==
    \/ done = <<>> /\ ~marker
    \/ marker /\ \E v \in 1 .. edition : done = <<<<v, v>>>>
ImportTypes ==
    edition \in Nat /\ seen \in [Process -> Nat] /\ part = [p \in Process |-> part[p]]
ImportInv == ImportTypes /\ Imported /\ \A p \in Process : Read(p)

(* The files of the keys volume are made by one process and stay as they are.    *)
Addressed(p) ==
    /\ pc[p] \in {"persist", "write"} => path[p] \in Random
    /\ pc[p] = "write" => pathFile = Torn /\ \A q \in Process : pc[q] = "write" => p = q
    /\ set[p].mode = "serve" /\ pc[p] \notin {"off", "path", "persist", "write"} =>
          path[p] = pathFile /\ pathFile \in Random
    /\ pc[p] = "private" => pair[p] \in Random
    /\ pc[p] = "certificate" =>
          /\ tlsKey = pair[p] /\ pair[p] \in Random /\ tlsCert = None
          /\ \A q \in Process : pc[q] = "certificate" => p = q
    /\ pc[p] \in {"load", "running"} => tlsCert # None
    /\ pc[p] = "running" => pair[p] = tlsCert
FileTypes ==
    /\ path \in [Process -> Random \cup {None}] /\ pair \in [Process -> Random \cup {None}]
    /\ pathFile \in Random \cup {None, Torn} /\ tlsKey \in Random \cup {None}
    /\ \A p \in Process : set[p].path \in Random \cup {None}
AddressInv ==
    /\ pc \in [Process -> BeforeTransaction \cup InTransaction \cup Started]
    /\ FileTypes /\ tlsCert \in {None, tlsKey} /\ \A p \in Process : Addressed(p)
=============================================================================
