--------------------------- MODULE MailSyncProofs ----------------------------
(***************************************************************************)
(* Proofs about MailSync: for any aliases, mailboxes, windows, batches and *)
(* bounds, and whatever is edited, evicted or stopped on the way, no       *)
(* message of an earlier mailbox is shown, no content disappears but by    *)
(* eviction, no account is paused by a password it no longer has, and what *)
(* a cursor has passed is filed for everyone it is owed to.                *)
(***************************************************************************)
EXTENDS MailSync, FiniteSetTheorems, WellFoundedInduction, TLAPS

IsAccount(row) ==
    row = [on |-> row.on, config |-> row.config, transport |-> row.transport, web |-> row.web,
           src |-> row.src, good |-> row.good, paused |-> row.paused]
IsRow(r) ==
    r = [gen |-> r.gen, uid |-> r.uid, src |-> r.src, at |-> r.at, aliases |-> r.aliases,
         state |-> r.state, path |-> r.path, digest |-> r.digest]
IsPrepared(r) ==
    r = [phase |-> "prepared", kind |-> r.kind, acct |-> r.acct, known |-> r.known,
         target |-> r.target, prev |-> r.prev]

(* The account row, and a refusal that has not been recorded yet.           *)
AccountInv ==
    /\ IsAccount(acct)
    /\ read.phase = "prepared" => IsPrepared(read)
    /\ read.phase = "refused" => ~read.acct.good
    /\ acct.paused => ~acct.good

(* The archive directory is away only between the rename of a source change *)
(* and its end, or until the next start.                                    *)
DirectoryInv ==
    /\ trash # NoDir => /\ trash.kind = "dir" /\ DOMAIN files = {}
                        /\ edit # None \/ read.phase = "down"
    /\ edit.kind = "committed" => rows = {}
    /\ read.phase \in {"staged", "done"} => edit = None

Archive == IF trash = NoDir THEN files ELSE trash.files

PathsOf(gen, u) == {<<gen, u, "plain">>, <<gen, u, "imap">>}

Raced(r) == <<r.gen, r.uid>> \in raced

(* A row: of the present source, and, when available, with its content.     *)
Sound(r) ==
    /\ IsRow(r) /\ r.src = acct.src
    /\ r.state = "available" =>
         /\ r.path \in PathsOf(r.gen, r.uid)
         /\ Raced(r) \/ (r.path \in DOMAIN Archive /\ Archive[r.path] = r.digest)

RowsInv == \A r \in rows : Sound(r)

(* A publication: its content is in place, and what it would remove again   *)
(* belongs to no row.                                                       *)
InPlace(u) == read.staged[u] \in DOMAIN files /\ files[read.staged[u]] = Content(u)
StagedInv ==
    /\ read.phase = "staged" =>
         /\ \A u \in DOMAIN read.staged :
              /\ read.staged[u] \in PathsOf(read.result.gen, u)
              /\ InPlace(u) \/ <<read.result.gen, u>> \in raced
         /\ \A r \in rows : r.state = "available" /\ ~Raced(r) => r.path \notin read.created
    /\ read.phase = "done" =>
         \A r \in rows : r.state = "available" /\ ~Raced(r) => r.path \notin read.junk

MailInv == AccountInv /\ DirectoryInv /\ RowsInv /\ StagedInv

-----------------------------------------------------------------------------
LEMMA MailImplies == MailInv => NoForeignMail /\ PauseIsCurrent /\ ContentKept
<1> SUFFICES ASSUME MailInv PROVE NoForeignMail /\ PauseIsCurrent /\ ContentKept
  OBVIOUS
<1>1. PauseIsCurrent
  BY DEF MailInv, AccountInv, PauseIsCurrent
<1>2. NoForeignMail
  BY DEF MailInv, DirectoryInv, RowsInv, Sound, Raced, Archive, NoForeignMail
<1>3. ContentKept
  BY DEF MailInv, DirectoryInv, RowsInv, Sound, Raced, Archive, ContentKept
<1> QED
  BY <1>1, <1>2, <1>3

LEMMA MailInit == Init => MailInv
<1> SUFFICES ASSUME Init PROVE MailInv
  OBVIOUS
<1>1. AccountInv
  BY DEF Init, AccountInv, IsAccount, Idle
<1>2. DirectoryInv
  BY DEF Init, DirectoryInv, Idle, None
<1>3. RowsInv /\ StagedInv
  BY DEF Init, RowsInv, StagedInv, Idle
<1> QED
  BY <1>1, <1>2, <1>3 DEF MailInv

-----------------------------------------------------------------------------
(* The account row: an edit clears the pause, and a refusal counts only      *)
(* against the password it was met with.                                    *)
LEMMA AccountKept == ASSUME AccountInv, Next PROVE AccountInv'
<1> USE DEF AccountInv
<1>1. CASE UNCHANGED <<acct, read>>
  BY <1>1 DEF IsPrepared, IsAccount
<1>2. CASE \E active \in BOOLEAN : PrepareAccount(active)
  BY <1>2 DEF PrepareAccount, IsPrepared, IsAccount, mailVars
<1>3. CASE \E a \in Alias : PrepareAlias(a)
  BY <1>3 DEF PrepareAlias, IsPrepared, IsAccount, mailVars
<1>4. CASE Refused
  BY <1>4 DEF Refused, IsPrepared, IsAccount, mailVars
<1>5. CASE RecordRefusal
  <2>1. StillObserved => acct.good = read.acct.good
    BY DEF StillObserved, Observed
  <2>2. read' = Idle /\ read.phase = "refused"
    BY <1>5 DEF RecordRefusal
  <2>3. CASE StillObserved
    <3>1. acct' = [acct EXCEPT !.paused = TRUE]
      BY <1>5, <2>3 DEF RecordRefusal
    <3> QED
      BY <2>1, <2>2, <2>3, <3>1 DEF IsAccount, Idle
  <2>4. CASE ~StillObserved
    BY <1>5, <2>2, <2>4 DEF RecordRefusal, IsAccount, Idle
  <2> QED
    BY <2>3, <2>4
<1>6. CASE UNCHANGED acct /\ read'.phase \notin {"prepared", "refused"}
  BY <1>6 DEF IsAccount
<1>7. CASE Commit
  BY <1>7 DEF Commit, IsAccount
<1>8. CASE DisableAccount \/ SwitchTransport
  BY <1>8 DEF DisableAccount, SwitchTransport, IsAccount, IsPrepared, diskVars
<1>9. CASE CommitSource \/ EnableAccount \/ \E good \in BOOLEAN : ChangePassword(good)
  BY <1>9 DEF CommitSource, EnableAccount, ChangePassword, Withdraw, IsAccount, IsPrepared, diskVars
<1>10. ASSUME Fetch(0) \/ Fetch(1) \/ Abandon \/ Stage \/ Discard \/ Finish \/ Crash \/ Startup
       PROVE  UNCHANGED acct /\ read'.phase \notin {"prepared", "refused"}
  BY <1>10 DEF Fetch, Abandon, Stage, Discard, Finish, Crash, Startup, Idle, Down, mailVars, diskVars
<1>11. ASSUME NEW a \in Alias, EnableAlias(a) \/ DisableAlias(a) \/ DeleteAlias(a) PROVE UNCHANGED <<acct, read>>
  BY <1>11 DEF EnableAlias, DisableAlias, DeleteAlias, diskVars
<1>12. ASSUME QuarantineArchive \/ DiscardQuarantine \/ RestoreQuarantine \/ Renumber \/ Tick \/ EvictRow
              \/ (\E r \in rows : EvictFile(r)) \/ \E to \in SUBSET Alias : Arrive(to)
       PROVE  UNCHANGED <<acct, read>>
  BY <1>12 DEF QuarantineArchive, DiscardQuarantine, RestoreQuarantine, Renumber, Tick, EvictRow, EvictFile, Arrive,
              mailVars, diskVars
<1> QED
  BY <1>1, <1>2, <1>3, <1>4, <1>5, <1>6, <1>7, <1>8, <1>9, <1>10, <1>11, <1>12
     DEF Next, Reading, Management, Environment

-----------------------------------------------------------------------------
(* The archive lock keeps source changes and publications apart.            *)
LEMMA DirectoryKept == ASSUME AccountInv, DirectoryInv, Next PROVE DirectoryInv'
<1> USE DEF DirectoryInv
<1>1. CASE /\ UNCHANGED <<trash, edit>> /\ (rows = {} => rows' = {}) /\ (DOMAIN files = {} => DOMAIN files' = {})
           /\ (read.phase = "down" <=> read'.phase = "down") /\ (read'.phase \in {"staged", "done"} => edit = None)
  BY <1>1
<1>2. CASE Reading
  <2>1. ASSUME (\E active \in BOOLEAN : PrepareAccount(active)) \/ (\E a \in Alias : PrepareAlias(a))
               \/ (\E slack \in {0, 1} : Fetch(slack)) \/ Refused \/ Abandon \/ RecordRefusal
        PROVE  /\ UNCHANGED <<trash, edit, rows, files>> /\ read.phase # "down"
               /\ read'.phase \in {"prepared", "fetched", "refused", "idle"}
    <3>1. CASE Refused
      BY <3>1 DEF Refused, AccountInv, IsPrepared, mailVars, diskVars
    <3>2. ASSUME NEW active \in BOOLEAN, PrepareAccount(active)
          PROVE  read.phase = "idle" /\ read'.phase = "prepared" /\ UNCHANGED <<diskVars, edit>>
      BY <3>2 DEF PrepareAccount
    <3>3. ASSUME NEW a \in Alias, PrepareAlias(a)
          PROVE  read.phase = "idle" /\ read'.phase = "prepared" /\ UNCHANGED <<diskVars, edit>>
      BY <3>3 DEF PrepareAlias
    <3>4. CASE \E slack \in {0, 1} : Fetch(slack)
      BY <3>4 DEF Fetch, mailVars, diskVars
    <3>5. CASE Abandon \/ RecordRefusal
      BY <3>5 DEF Abandon, RecordRefusal, Idle, diskVars, mailVars
    <3> QED
      BY <2>1, <3>1, <3>2, <3>3, <3>4, <3>5 DEF diskVars
  <2>2. CASE Stage
    <3>1. read.phase = "fetched" /\ edit = None /\ trash = NoDir /\ UNCHANGED <<trash, edit, rows>>
      BY <2>2 DEF Stage, ArchiveLockFree, mailVars
    <3> QED
      BY <3>1 DEF None
  <2>3. CASE Commit \/ Discard
    <3>1. read.phase = "staged" /\ read'.phase = "done" /\ UNCHANGED <<trash, edit, files>>
      BY <2>3 DEF Commit, Discard, mailVars, diskVars
    <3> QED
      BY <3>1 DEF None
  <2>4. CASE Finish
    <3>1. read.phase = "done" /\ read'.phase = "idle" /\ UNCHANGED <<trash, edit, rows>>
      BY <2>4 DEF Finish, Idle, mailVars
    <3> QED
      BY <3>1 DEF None
  <2> QED
    BY <1>2, <2>1, <2>2, <2>3, <2>4 DEF Reading
<1>3. CASE QuarantineArchive
  <2>1. edit' = [kind |-> "renamed"] /\ edit = None /\ read.phase \notin {"staged", "done", "down"} /\ UNCHANGED read
    BY <1>3 DEF QuarantineArchive, ArchiveLockFree
  <2>2. DOMAIN files' = {} /\ (trash' = trash \/ trash'.kind = "dir")
    BY <1>3 DEF QuarantineArchive, Without
  <2> QED
    BY <2>1, <2>2 DEF None
<1>4. CASE CommitSource
  BY <1>4 DEF CommitSource, None
<1>5. CASE DiscardQuarantine
  BY <1>5 DEF DiscardQuarantine, None
<1>6. CASE RestoreQuarantine
  BY <1>6 DEF RestoreQuarantine, None
<1>7. CASE Crash
  BY <1>7 DEF Crash, Down, None
<1>8. CASE Startup
  <2>1. trash' = NoDir /\ edit' = edit /\ read'.phase = "idle" /\ (rows = {} => rows' = {})
    BY <1>8 DEF Startup, Idle
  <2> QED
    BY <2>1
<1>9. ASSUME (\E a \in Alias : EnableAlias(a) \/ DisableAlias(a) \/ DeleteAlias(a))
             \/ (\E good \in BOOLEAN : ChangePassword(good)) \/ EnableAccount \/ DisableAccount \/ SwitchTransport
             \/ (\E to \in SUBSET Alias : Arrive(to)) \/ Renumber \/ Tick
      PROVE  UNCHANGED <<trash, edit, read, files>> /\ (rows = {} => rows' = {})
  BY <1>9 DEF EnableAlias, DisableAlias, DeleteAlias, ChangePassword, EnableAccount, DisableAccount, SwitchTransport,
             Arrive, Renumber, Tick, mailVars, diskVars
<1>10. ASSUME EvictRow \/ \E r \in rows : EvictFile(r)
       PROVE  UNCHANGED <<trash, edit, read>> /\ (rows = {} => rows' = {}) /\ (DOMAIN files = {} => DOMAIN files' = {})
  BY <1>10 DEF EvictRow, EvictFile, Without, mailVars
<1>11. UNCHANGED <<trash, edit, read>> /\ (rows = {} => rows' = {}) /\ (DOMAIN files = {} => DOMAIN files' = {})
       => DirectoryInv'
  OBVIOUS
<1> QED
  BY <1>2, <1>3, <1>4, <1>5, <1>6, <1>7, <1>8, <1>9, <1>10, <1>11 DEF Next, Management, Environment

-----------------------------------------------------------------------------
(* Rows that change in one field.                                           *)
LEMMA LostRow ==
    ASSUME NEW r, IsRow(r), NEW state, NEW q, q = Lost(r, state)
    PROVE  IsRow(q) /\ q.src = r.src /\ q.state = state /\ q.gen = r.gen /\ q.uid = r.uid
  BY DEF IsRow, Lost

LEMMA SharedRow ==
    ASSUME NEW r, IsRow(r), NEW as, NEW q, q = [r EXCEPT !.aliases = as]
    PROVE  /\ IsRow(q) /\ q.src = r.src /\ q.state = r.state /\ q.path = r.path
           /\ q.digest = r.digest /\ q.gen = r.gen /\ q.uid = r.uid
  BY DEF IsRow

(* The two places of a message's content are its own.                       *)
LEMMA PathOf == ASSUME NEW g, NEW u, NEW path \in PathsOf(g, u) PROVE path[1] = g /\ path[2] = u
<1>1. path = <<g, u, "plain">> \/ path = <<g, u, "imap">>
  BY DEF PathsOf
<1>2. <<g, u, "plain">>[1] = g /\ <<g, u, "plain">>[2] = u /\ <<g, u, "imap">>[1] = g /\ <<g, u, "imap">>[2] = u
  OBVIOUS
<1> QED
  BY <1>1, <1>2

LEMMA OwnPaths ==
    ASSUME NEW g, NEW u, NEW h, NEW v, NEW path \in PathsOf(g, u), path \in PathsOf(h, v)
    PROVE  g = h /\ u = v
  BY PathOf

(* Stage: content goes where the message belongs, and nothing is replaced.   *)
LEMMA DestinationOwn ==
    ASSUME RowsInv, NEW u
    PROVE  Destination(u).path \in PathsOf(read.result.gen, u)
<1> DEFINE kept == {r \in RowOf(read.result.gen, u) : r.state = "available"}
<1>1. \A r \in kept : r.path \in PathsOf(read.result.gen, u)
  BY DEF RowsInv, Sound, RowOf
<1>2. Plain(u) \in PathsOf(read.result.gen, u) /\ FullMime(u) \in PathsOf(read.result.gen, u)
  BY DEF Plain, FullMime, PathsOf
<1>3. CASE kept = {}
  BY <1>2, <1>3 DEF Destination
<1>4. CASE kept # {}
  <2>1. (CHOOSE r \in kept : TRUE) \in kept
    BY <1>4
  <2> QED
    BY <1>1, <1>2, <1>4, <2>1 DEF Destination
<1> QED
  BY <1>3, <1>4

LEMMA StageKeeps ==
    ASSUME RowsInv, DirectoryInv, Stage
    PROVE  /\ trash = NoDir /\ trash' = NoDir /\ UNCHANGED <<rows, raced, acct>>
           /\ \A path \in DOMAIN files : path \in DOMAIN files' /\ files'[path] = files[path]
           /\ read'.phase \in {"idle", "staged"}
           /\ read'.phase = "staged" =>
                /\ \A u \in DOMAIN read'.staged :
                     read'.staged[u] \in PathsOf(read'.result.gen, u) /\ InPlace(u)'
                /\ \A path \in read'.created : path \notin DOMAIN files
<1>1. trash = NoDir /\ trash' = NoDir /\ UNCHANGED <<rows, raced, acct>>
  BY DEF Stage, ArchiveLockFree, DirectoryInv, mailVars
<1>2. CASE Conflicts # {}
  BY <1>1, <1>2 DEF Stage, Idle
<1>3. CASE Conflicts = {}
  <2> DEFINE paths == {Destination(u).path : u \in Carried}
  <2>1. /\ files' = [path \in DOMAIN files \cup paths |-> IF path \in DOMAIN files THEN files[path] ELSE Content(path[2])]
        /\ read' = [phase |-> "staged", kind |-> read.kind, acct |-> read.acct,
                     known |-> read.known, result |-> read.result, copy |-> read.copy,
                     staged |-> [u \in Carried |-> Destination(u).path],
                     created |-> paths \ DOMAIN files,
                     superseded |-> UNION {Destination(u).superseded : u \in Carried}]
    BY <1>3 DEF Stage
  <2>2. ASSUME NEW u \in Carried
        PROVE  /\ read'.staged[u] = Destination(u).path /\ read'.result.gen = read.result.gen
               /\ Content(u)' = Content(u)
    BY <2>1 DEF Content, Projection, Message
  <2>3. ASSUME NEW u \in Carried PROVE read'.staged[u] \in PathsOf(read'.result.gen, u) /\ InPlace(u)'
    <3>1. Destination(u).path \in PathsOf(read.result.gen, u)
      BY DestinationOwn
    <3>2. Destination(u).path[2] = u
      BY <3>1, PathOf
    <3>3. Destination(u).path \in DOMAIN files => files[Destination(u).path] = Content(u)
      BY <1>3 DEF Conflicts
    <3>4. Destination(u).path \in DOMAIN files' /\ files'[Destination(u).path] = Content(u)
      BY <2>1, <3>2, <3>3
    <3> QED
      BY <2>2, <3>1, <3>4 DEF InPlace
  <2>4. DOMAIN read'.staged = Carried /\ read'.created = paths \ DOMAIN files /\ read'.phase = "staged"
    BY <2>1
  <2> QED
    BY <1>1, <2>1, <2>3, <2>4
<1> QED
  BY <1>2, <1>3

(* Commit: a row written is the row that was there, or has staged content.   *)
LEMMA WrittenRow ==
    ASSUME MailInv, read.phase = "staged", StillObserved, NEW u
    PROVE  /\ Sound(Written(u))
           /\ Written(u).state = "available" =>
                \/ u \in DOMAIN read.staged /\ Written(u).path = read.staged[u]
                \/ \E r \in rows : /\ r.state = "available" /\ r.path = Written(u).path
                                    /\ (Raced(r) <=> Raced(Written(u)))
<1> DEFINE old  == RowOf(read.result.gen, u)
           has  == UNION {r.aliases : r \in old}
           new  == [gen |-> read.result.gen, uid |-> u, src |-> read.acct.src,
                    at |-> box[read.acct.src].mail[u].at, aliases |-> {},
                    state |-> "metadata", path |-> <<>>, digest |-> <<>>]
           base == IF old = {} THEN new ELSE CHOOSE r \in old : TRUE
           body == IF u \in DOMAIN read.staged
                   THEN [base EXCEPT !.state = "available", !.path = read.staged[u], !.digest = Content(u)]
                   ELSE base
<1>1. read.acct.src = acct.src
  BY DEF StillObserved, Observed
<1>2. PICK b : b = base
  OBVIOUS
<1>3. /\ IsRow(b) /\ b.src = acct.src /\ b.gen = read.result.gen /\ b.uid = u
      /\ b \in rows \/ b.state = "metadata"
  <2>1. CASE old = {}
    <3>1. b = new
      BY <1>2, <2>1
    <3> HIDE DEF old
    <3> QED
      BY <1>1, <3>1 DEF IsRow
  <2>2. CASE old # {}
    <3>1. (CHOOSE r \in old : TRUE) \in old
      BY <2>2
    <3>2. b \in rows /\ b.gen = read.result.gen /\ b.uid = u
      BY <1>2, <2>2, <3>1 DEF RowOf
    <3> QED
      BY <3>2 DEF MailInv, RowsInv, Sound
  <2> QED
    BY <2>1, <2>2
<1>4. PICK c : c = body
  OBVIOUS
<1>5. PICK w : w = [c EXCEPT !.aliases = has \cup Recipients(u)]
  OBVIOUS
<1>6. w = Written(u)
  BY <1>4, <1>5 DEF Written
<1>7. CASE u \in DOMAIN read.staged
  <2>1. c = [b EXCEPT !.state = "available", !.path = read.staged[u], !.digest = Content(u)]
    BY <1>2, <1>4, <1>7
  <2>2. /\ IsRow(c) /\ c.src = b.src /\ c.state = "available" /\ c.path = read.staged[u]
        /\ c.digest = Content(u) /\ c.gen = b.gen /\ c.uid = b.uid
    <3> HIDE DEF old, has, new, base, body
    <3>1. IsRow(b)
      BY <1>3
    <3> QED
      BY <2>1, <3>1 DEF IsRow
  <2>3. /\ IsRow(w) /\ w.src = acct.src /\ w.path = read.staged[u] /\ w.digest = Content(u)
        /\ w.gen = read.result.gen /\ w.uid = u
    BY <1>3, <1>5, <2>2, SharedRow
  <2>4. trash = NoDir
    BY DEF MailInv, DirectoryInv
  <2>5. read.staged[u] \in PathsOf(read.result.gen, u) /\ (InPlace(u) \/ <<read.result.gen, u>> \in raced)
    BY <1>7 DEF MailInv, StagedInv
  <2>6. Sound(w)
    BY <2>3, <2>4, <2>5 DEF Sound, InPlace, Raced, Archive
  <2> QED
    BY <1>6, <1>7, <2>3, <2>6
<1>8. CASE u \notin DOMAIN read.staged
  <2>1. c = b
    BY <1>2, <1>4, <1>8
  <2>2. /\ IsRow(w) /\ w.src = b.src /\ w.state = b.state /\ w.path = b.path
        /\ w.digest = b.digest /\ w.gen = b.gen /\ w.uid = b.uid
    BY <1>3, <1>5, <2>1, SharedRow
  <2>3. Raced(w) <=> Raced(b)
    BY <2>2 DEF Raced
  <2>4. CASE b \in rows
    <3>1. Sound(b)
      BY <2>4 DEF MailInv, RowsInv
    <3>2. Sound(w)
      BY <1>3, <2>2, <2>3, <3>1 DEF Sound
    <3> QED
      BY <1>6, <2>2, <2>3, <2>4, <3>2
  <2>5. CASE b.state = "metadata"
    BY <1>3, <1>6, <2>2, <2>5 DEF Sound
  <2> QED
    BY <1>3, <2>4, <2>5
<1> QED
  BY <1>7, <1>8

LEMMA CommitKeeps ==
    ASSUME MailInv, Commit PROVE RowsInv' /\ StagedInv'
<1>1. /\ read.phase = "staged" /\ StillObserved /\ acct'.src = acct.src
      /\ UNCHANGED <<files, trash, raced>>
      /\ \A r \in rows' : r \in rows \/ \E u \in Filed : r = Written(u)
  BY DEF Commit, Publishes, MailInv, AccountInv, IsAccount
<1>2. /\ read'.phase = "done"
      /\ read'.junk = read.created \ {read.staged[u] : u \in Filed \cap DOMAIN read.staged}
  BY DEF Commit
<1>3. Archive' = Archive
  BY <1>1 DEF Archive
<1>4. ASSUME NEW r \in rows' PROVE Sound(r)
  BY <1>1, <1>4, WrittenRow DEF MailInv, RowsInv
<1>5. ASSUME NEW r \in rows', r.state = "available", ~Raced(r) PROVE r.path \notin read'.junk
  <2>1. CASE r \in rows
    BY <1>1, <1>2, <1>5, <2>1 DEF MailInv, StagedInv
  <2>2. CASE \E u \in Filed : r = Written(u)
    <3>1. PICK u \in Filed : r = Written(u)
      BY <2>2
    <3>2. \/ u \in DOMAIN read.staged /\ r.path = read.staged[u]
          \/ \E o \in rows : o.state = "available" /\ o.path = r.path /\ ~Raced(o)
      BY <1>1, <1>5, <3>1, WrittenRow
    <3> QED
      BY <1>1, <1>2, <3>2 DEF MailInv, StagedInv
  <2> QED
    BY <1>1, <2>1, <2>2
<1>6. RowsInv'
  BY <1>1, <1>3, <1>4 DEF RowsInv, Sound, Raced
<1>7. StagedInv'
  BY <1>1, <1>2, <1>5 DEF StagedInv, Raced
<1> QED
  BY <1>6, <1>7

-----------------------------------------------------------------------------
(* A read observes, and an edit of the account or its aliases leaves, the    *)
(* archive alone.                                                           *)
Quiet == UNCHANGED <<rows, files, trash, raced>> /\ acct'.src = acct.src

LEMMA QuietSteps ==
    ASSUME MailInv,
           \/ (\E active \in BOOLEAN : PrepareAccount(active)) \/ (\E a \in Alias : PrepareAlias(a))
           \/ (\E slack \in {0, 1} : Fetch(slack)) \/ Refused \/ Abandon \/ RecordRefusal \/ Discard
           \/ (\E a \in Alias : EnableAlias(a) \/ DisableAlias(a))
           \/ (\E good \in BOOLEAN : ChangePassword(good)) \/ EnableAccount \/ DisableAccount \/ SwitchTransport
           \/ (\E to \in SUBSET Alias : Arrive(to)) \/ Renumber \/ Tick \/ Crash
    PROVE  Quiet
<1> USE DEF Quiet, mailVars, diskVars
<1>1. CASE (\E active \in BOOLEAN : PrepareAccount(active)) \/ \E a \in Alias : PrepareAlias(a)
  BY <1>1 DEF PrepareAccount, PrepareAlias
<1>2. CASE (\E slack \in {0, 1} : Fetch(slack)) \/ Refused \/ Abandon \/ Discard \/ Crash
  BY <1>2 DEF Fetch, Refused, Abandon, Discard, Crash
<1>3. CASE RecordRefusal
  BY <1>3 DEF RecordRefusal, MailInv, AccountInv, IsAccount
<1>4. CASE \E a \in Alias : EnableAlias(a) \/ DisableAlias(a)
  BY <1>4 DEF EnableAlias, DisableAlias
<1>5. CASE (\E good \in BOOLEAN : ChangePassword(good)) \/ EnableAccount
  BY <1>5 DEF ChangePassword, EnableAccount, Withdraw, MailInv, AccountInv, IsAccount
<1>6. CASE DisableAccount \/ SwitchTransport
  BY <1>6 DEF DisableAccount, SwitchTransport, MailInv, AccountInv, IsAccount
<1>7. CASE (\E to \in SUBSET Alias : Arrive(to)) \/ Renumber \/ Tick
  BY <1>7 DEF Arrive, Renumber, Tick
<1> QED
  BY <1>1, <1>2, <1>3, <1>4, <1>5, <1>6, <1>7

(* Every row stays sound: content is removed with a trace in `raced', a      *)
(* renamed directory comes back, and a row without content says so.         *)
LEMMA RowsKept == ASSUME MailInv, Next PROVE RowsInv'
<1>1. CASE Quiet
  BY <1>1 DEF Quiet, MailInv, RowsInv, Sound, Raced, Archive
<1>2. CASE Stage
  BY <1>2, StageKeeps DEF MailInv, RowsInv, Sound, Raced, Archive
<1>3. CASE Commit
  BY <1>3, CommitKeeps
<1>4. CASE Finish
  <2>1. /\ read.phase = "done" /\ UNCHANGED <<rows, trash, raced, acct>>
        /\ files' = Without(files, read.junk \cup (read.superseded \ {r.path : r \in rows}))
    BY <1>4 DEF Finish, mailVars
  <2>2. trash = NoDir
    BY <2>1 DEF MailInv, DirectoryInv
  <2>3. ASSUME NEW r \in rows PROVE Sound(r)'
    <3>1. r.state = "available" /\ ~Raced(r) => r.path \notin read.junk
      BY <2>1 DEF MailInv, StagedInv
    <3> QED
      BY <2>1, <2>2, <3>1 DEF MailInv, RowsInv, Sound, Raced, Archive, Without
  <2> QED
    BY <2>1, <2>3 DEF RowsInv
<1>5. ASSUME NEW a \in Alias, DeleteAlias(a) PROVE RowsInv'
  <2>1. /\ UNCHANGED <<acct, files, trash, raced>>
        /\ rows' = {[r EXCEPT !.aliases = r.aliases \ {a}] : r \in rows}
    BY <1>5 DEF DeleteAlias
  <2>2. ASSUME NEW q \in rows' PROVE Sound(q)'
    <3>1. PICK r \in rows : q = [r EXCEPT !.aliases = r.aliases \ {a}]
      BY <2>1
    <3>2. Sound(r)
      BY DEF MailInv, RowsInv
    <3>3. /\ IsRow(q) /\ q.src = r.src /\ q.state = r.state /\ q.path = r.path
          /\ q.digest = r.digest /\ q.gen = r.gen /\ q.uid = r.uid
      BY <3>1, <3>2, SharedRow DEF Sound
    <3> QED
      BY <2>1, <3>2, <3>3 DEF Sound, Raced, Archive
  <2> QED
    BY <2>2 DEF RowsInv
<1>6. CASE QuarantineArchive
  <2>1. /\ UNCHANGED <<rows, raced, acct>> /\ trash = NoDir /\ DOMAIN files' = {}
        /\ IF DOMAIN files = {} THEN trash' = trash ELSE trash' = [kind |-> "dir", files |-> files]
    BY <1>6 DEF QuarantineArchive, ArchiveLockFree, MailInv, DirectoryInv, Without, mailVars
  <2>2. DOMAIN files = {} \/ Archive' = Archive
    BY <2>1 DEF Archive, NoDir
  <2> QED
    BY <2>1, <2>2 DEF MailInv, RowsInv, Sound, Raced, Archive
<1>7. CASE CommitSource
  BY <1>7 DEF CommitSource, RowsInv
<1>8. CASE DiscardQuarantine
  BY <1>8 DEF DiscardQuarantine, MailInv, DirectoryInv, RowsInv, mailVars
<1>9. CASE RestoreQuarantine
  <2>1. UNCHANGED <<rows, raced, acct>> /\ Archive' = Archive
    BY <1>9 DEF RestoreQuarantine, Archive, mailVars
  <2> QED
    BY <2>1 DEF MailInv, RowsInv, Sound, Raced
<1>10. ASSUME NEW o \in rows, EvictFile(o) PROVE RowsInv'
  <2>1. /\ UNCHANGED <<rows, acct, trash>> /\ o.state = "available" /\ files' = Without(files, {o.path})
        /\ raced' = raced \cup {<<o.gen, o.uid>>}
    BY <1>10 DEF EvictFile, Oldest, mailVars
  <2>2. ASSUME NEW r \in rows PROVE Sound(r)'
    <3>1. Sound(r) /\ Sound(o)
      BY DEF MailInv, RowsInv
    <3>2. CASE r.state = "available" /\ r.path = o.path
      <4>1. r.gen = o.gen /\ r.uid = o.uid
        BY <2>1, <3>1, <3>2, OwnPaths DEF Sound
      <4>2. Raced(r)'
        BY <2>1, <4>1 DEF Raced
      <4> QED
        BY <2>1, <3>1, <4>2 DEF Sound
    <3>3. CASE r.state = "available" => r.path # o.path
      BY <2>1, <3>1, <3>3 DEF Sound, Raced, Archive, Without
    <3> QED
      BY <3>2, <3>3
  <2> QED
    BY <2>1, <2>2 DEF RowsInv
<1>11. CASE EvictRow
  <2>1. /\ UNCHANGED <<files, trash, raced, acct>>
        /\ \A q \in rows' : \E r \in rows : q = r \/ q = Lost(r, "evicted")
    BY <1>11 DEF EvictRow, mailVars
  <2>2. ASSUME NEW q \in rows' PROVE Sound(q)'
    <3>1. PICK r \in rows : q = r \/ q = Lost(r, "evicted")
      BY <2>1
    <3>2. Sound(r)
      BY DEF MailInv, RowsInv
    <3>3. CASE q = r
      BY <2>1, <3>2, <3>3 DEF Sound, Raced, Archive
    <3>4. CASE q = Lost(r, "evicted")
      <4>1. IsRow(q) /\ q.src = r.src /\ q.state = "evicted"
        BY <3>2, <3>4, LostRow DEF Sound
      <4> QED
        BY <2>1, <3>2, <4>1 DEF Sound
    <3> QED
      BY <3>1, <3>3, <3>4
  <2> QED
    BY <2>2 DEF RowsInv
<1>12. CASE Startup
  <2>1. /\ UNCHANGED <<raced, acct>> /\ files' = Recovered /\ trash' = NoDir
        /\ \A q \in rows' : \E r \in rows :
             \/ q = r /\ (r.state = "available" => r.path \in DOMAIN Recovered)
             \/ q = Lost(r, "missing")
    BY <1>12 DEF Startup, mailVars
  <2>2. rows # {} => Recovered = Archive
    BY DEF Recovered, Archive, MailInv, DirectoryInv
  <2>3. ASSUME NEW q \in rows' PROVE Sound(q)'
    <3>1. PICK r \in rows : \/ q = r /\ (r.state = "available" => r.path \in DOMAIN Recovered)
                            \/ q = Lost(r, "missing")
      BY <2>1
    <3>2. Sound(r)
      BY DEF MailInv, RowsInv
    <3>3. CASE q = r
      BY <2>1, <2>2, <3>2, <3>3 DEF Sound, Raced, Archive
    <3>4. CASE q = Lost(r, "missing")
      <4>1. IsRow(q) /\ q.src = r.src /\ q.state = "missing"
        BY <3>2, <3>4, LostRow DEF Sound
      <4> QED
        BY <2>1, <3>2, <4>1 DEF Sound
    <3> QED
      BY <3>1, <3>3, <3>4
  <2> QED
    BY <2>3 DEF RowsInv
<1> QED
  BY <1>1, <1>2, <1>3, <1>4, <1>5, <1>6, <1>7, <1>8, <1>9, <1>10, <1>11, <1>12, QuietSteps
     DEF Next, Reading, Management, Environment

(* What a publication may remove again stays apart from what rows refer to.  *)
LEMMA StagedKept == ASSUME MailInv, Next PROVE StagedInv'
<1>1. CASE read'.phase \notin {"staged", "done"}
  BY <1>1 DEF StagedInv
<1>2. CASE UNCHANGED <<read, rows, files, raced>>
  BY <1>2 DEF MailInv, StagedInv, InPlace, Content, Projection, Message, Raced
<1>3. CASE Stage
  BY <1>3, StageKeeps DEF MailInv, StagedInv, RowsInv, Sound, Raced, Archive
<1>4. CASE Commit
  BY <1>4, CommitKeeps
<1>5. CASE Discard
  <2>1. read.phase = "staged" /\ read'.phase = "done" /\ read'.junk = read.created /\ UNCHANGED <<rows, raced>>
    BY <1>5 DEF Discard, diskVars
  <2> QED
    BY <2>1 DEF MailInv, StagedInv, Raced
<1>6. ASSUME NEW a \in Alias, DeleteAlias(a) PROVE StagedInv'
  <2>1. /\ UNCHANGED <<read, files, raced>>
        /\ rows' = {[r EXCEPT !.aliases = r.aliases \ {a}] : r \in rows}
    BY <1>6 DEF DeleteAlias
  <2>2. ASSUME NEW q \in rows', q.state = "available", ~Raced(q)
        PROVE  \E r \in rows : r.state = "available" /\ ~Raced(r) /\ r.path = q.path
    <3>1. PICK r \in rows : q = [r EXCEPT !.aliases = r.aliases \ {a}]
      BY <2>1
    <3>2. IsRow(r)
      BY DEF MailInv, RowsInv, Sound
    <3>3. q.state = r.state /\ q.path = r.path /\ q.gen = r.gen /\ q.uid = r.uid
      BY <3>1, <3>2, SharedRow
    <3> QED
      BY <2>2, <3>3 DEF Raced
  <2> QED
    BY <2>1, <2>2 DEF MailInv, StagedInv, InPlace, Content, Projection, Message, Raced
<1>7. ASSUME NEW o \in rows, EvictFile(o) PROVE StagedInv'
  <2>1. /\ UNCHANGED <<read, rows>> /\ o.state = "available" /\ files' = Without(files, {o.path})
        /\ raced' = raced \cup {<<o.gen, o.uid>>}
    BY <1>7 DEF EvictFile, Oldest
  <2>2. o.path \in PathsOf(o.gen, o.uid)
    BY <2>1 DEF MailInv, RowsInv, Sound
  <2>3. ASSUME read.phase = "staged", NEW u \in DOMAIN read.staged
        PROVE  InPlace(u)' \/ <<read.result.gen, u>> \in raced'
    <3>1. read.staged[u] \in PathsOf(read.result.gen, u) /\ (InPlace(u) \/ <<read.result.gen, u>> \in raced)
      BY <2>3 DEF MailInv, StagedInv
    <3>2. CASE read.staged[u] = o.path
      <4>1. read.result.gen = o.gen /\ u = o.uid
        BY <2>2, <3>1, <3>2, OwnPaths
      <4> QED
        BY <2>1, <4>1
    <3>3. CASE read.staged[u] # o.path
      BY <2>1, <3>1, <3>3 DEF InPlace, Content, Projection, Message, Without
    <3> QED
      BY <3>2, <3>3
  <2>4. \A r \in rows : ~Raced(r)' => ~Raced(r)
    BY <2>1 DEF Raced
  <2> QED
    BY <2>1, <2>3, <2>4 DEF MailInv, StagedInv
<1>8. CASE EvictRow
  <2>1. /\ UNCHANGED <<read, files, raced>>
        /\ \A q \in rows' : \E r \in rows : q = r \/ q = Lost(r, "evicted")
    BY <1>8 DEF EvictRow, mailVars
  <2>2. ASSUME NEW q \in rows', q.state = "available" PROVE q \in rows
    <3>1. PICK r \in rows : q = r \/ q = Lost(r, "evicted")
      BY <2>1
    <3>2. q = Lost(r, "evicted") => q.state = "evicted"
      BY LostRow DEF MailInv, RowsInv, Sound
    <3> QED
      BY <2>2, <3>1, <3>2
  <2> QED
    BY <2>1, <2>2 DEF MailInv, StagedInv, InPlace, Content, Projection, Message, Raced
<1>9. ASSUME \/ (\E active \in BOOLEAN : PrepareAccount(active)) \/ (\E a \in Alias : PrepareAlias(a))
             \/ (\E slack \in {0, 1} : Fetch(slack)) \/ Abandon \/ RecordRefusal \/ Finish \/ Crash \/ Startup
      PROVE  read'.phase \notin {"staged", "done"}
  <2>1. /\ \A active \in BOOLEAN : PrepareAccount(active) => read'.phase = "prepared"
        /\ \A a \in Alias : PrepareAlias(a) => read'.phase = "prepared"
    BY DEF PrepareAccount, PrepareAlias
  <2>2. CASE (\E slack \in {0, 1} : Fetch(slack)) \/ Abandon \/ RecordRefusal
    BY <2>2 DEF Fetch, Abandon, RecordRefusal, Idle
  <2>3. CASE Finish \/ Crash \/ Startup
    BY <2>3 DEF Finish, Crash, Startup, Idle, Down
  <2> QED
    BY <1>9, <2>1, <2>2, <2>3
<1>10. ASSUME Refused PROVE read'.phase \notin {"staged", "done"}
  BY <1>10 DEF Refused, MailInv, AccountInv, IsPrepared
<1>11. ASSUME \/ (\E a \in Alias : EnableAlias(a) \/ DisableAlias(a)) \/ (\E good \in BOOLEAN : ChangePassword(good))
              \/ EnableAccount \/ DisableAccount \/ SwitchTransport
              \/ (\E to \in SUBSET Alias : Arrive(to)) \/ Renumber \/ Tick
       PROVE  UNCHANGED <<read, rows, files, raced>>
  BY <1>11 DEF EnableAlias, DisableAlias, ChangePassword, EnableAccount, DisableAccount, SwitchTransport,
              Arrive, Renumber, Tick, mailVars, diskVars
<1>12. ASSUME QuarantineArchive \/ CommitSource \/ DiscardQuarantine \/ RestoreQuarantine
       PROVE  read'.phase \notin {"staged", "done"}
  BY <1>12 DEF QuarantineArchive, CommitSource, DiscardQuarantine, RestoreQuarantine, ArchiveLockFree,
              MailInv, DirectoryInv, None
<1> QED
  BY <1>1, <1>2, <1>3, <1>4, <1>5, <1>6, <1>7, <1>8, <1>9, <1>10, <1>11, <1>12
     DEF Next, Reading, Management, Environment

-----------------------------------------------------------------------------
(* The archive of an account stays sound whatever is read, edited, evicted   *)
(* or stopped (MailInv).                                                    *)
THEOREM MailInvariant == Spec => []MailInv
<1>1. MailInv /\ [Next]_vars => MailInv'
  <2> SUFFICES ASSUME MailInv, [Next]_vars PROVE MailInv'
    OBVIOUS
  <2>1. CASE Next
    BY <2>1, AccountKept, DirectoryKept, RowsKept, StagedKept DEF MailInv
  <2>2. CASE UNCHANGED vars
    <3>1. UNCHANGED <<acct, read, edit, trash, files, rows, raced>>
      BY <2>2 DEF vars, mailVars, diskVars
    <3>2. AccountInv' /\ DirectoryInv'
      BY <3>1 DEF MailInv, AccountInv, DirectoryInv, IsAccount, IsPrepared
    <3>3. RowsInv'
      BY <3>1 DEF MailInv, RowsInv, Sound, Raced, Archive
    <3>4. StagedInv'
      BY <3>1 DEF MailInv, StagedInv, Raced, InPlace, Content, Projection, Message
    <3> QED
      BY <3>2, <3>3, <3>4 DEF MailInv
  <2> QED
    BY <2>1, <2>2
<1> QED
  BY <1>1, MailInit, PTL DEF Spec

(* No message of an earlier mailbox source is shown under the present one,   *)
(* and a file holds what its row was committed with (UpdateAccount,         *)
(* stageArchiveMessages, applyMailboxSync).                                 *)
THEOREM MailIsOwn == Spec => []NoForeignMail
BY MailInvariant, MailImplies, PTL

(* A refusal met with an earlier password never pauses the account          *)
(* (recordMailboxSyncFailure).                                              *)
THEOREM MailPauseIsCurrent == Spec => []PauseIsCurrent
BY MailInvariant, MailImplies, PTL

(* Content an available row refers to is there, but for the messages an      *)
(* eviction has touched (EnforceMailArchiveLimit, ReconcileMailArchive,     *)
(* cleanupPublishedArchive).                                                *)
THEOREM MailContentIsKept == Spec => []ContentKept
BY MailInvariant, MailImplies, PTL

-----------------------------------------------------------------------------
(* Counting mail. *)

LEMMA LeastUid ==
    ASSUME NEW S \in SUBSET Nat, S # {}
    PROVE  \E x \in S : \A y \in S : x <= y
<1> DEFINE R == OpToRel(<, Nat)
<1>1. IsWellFoundedOn(R, Nat)
  BY NatLessThanWellFounded, Zenon
<1>2. \A x, y \in Nat : y < x => <<y, x>> \in R
  BY DEF OpToRel
<1> HIDE DEF R
<1>3. \E x \in S : \A y \in S : ~ (<<y, x>> \in R)
  BY <1>1, WFMin, Zenon
<1>4. \E x \in S : \A y \in S : ~ (y < x)
  BY <1>2, <1>3, Zenon
<1>5. \A x, y \in Nat : ~ (y < x) => x <= y
  OBVIOUS
<1> HIDE <1>2, <1>3
<1> QED
  BY <1>4, <1>5

LEMMA GreatestUid ==
    ASSUME NEW n \in Nat, NEW S \in SUBSET (0 .. n), S # {}
    PROVE  \E x \in S : \A y \in S : y <= x
<1> DEFINE T == {z \in 0 .. n : n - z \in S}
<1>1. PICK y \in S : TRUE
  OBVIOUS
<1>2. n - y \in 0 .. n /\ n - (n - y) = y
  BY <1>1
<1>3. n - y \in T
  BY <1>1, <1>2
<1>4. T \in SUBSET Nat
  OBVIOUS
<1>5. PICK z \in T : \A v \in T : z <= v
  BY <1>3, <1>4, LeastUid
<1>6. ASSUME NEW v \in S PROVE v <= n - z
  <2>1. n - v \in 0 .. n /\ n - (n - v) = v
    OBVIOUS
  <2>2. z <= n - v
    BY <1>5, <2>1
  <2> QED
    BY <1>5, <2>2
<1> QED
  BY <1>5, <1>6

LEMMA Uids ==
    ASSUME NEW n \in Nat, NEW S \in SUBSET (1 .. n)
    PROVE  IsFiniteSet(S) /\ Cardinality(S) \in Nat /\ Cardinality(S) <= n
<1>1. IsFiniteSet(1 .. n) /\ Cardinality(1 .. n) = n
  BY FS_Interval
<1>2. IsFiniteSet(S) /\ Cardinality(S) <= Cardinality(1 .. n)
  BY <1>1, FS_Subset
<1>3. Cardinality(S) \in Nat
  BY <1>2, FS_CardinalityType
<1> QED
  BY <1>1, <1>2, <1>3

(* In a mailbox sorted by arrival, the mail older than `since' comes first.  *)
LEMMA BeforeBounds ==
    ASSUME NEW b, Upper(b) \in Nat, NEW since \in Nat,
           \A u \in 1 .. Upper(b) : b.mail[u].at \in Nat,
           \A u \in 1 .. Upper(b) : \A v \in u .. Upper(b) : b.mail[u].at <= b.mail[v].at
    PROVE  /\ Before(b, since) \in Nat
           /\ \A u \in 1 .. Upper(b) : u > Before(b, since) => b.mail[u].at >= since
<1> DEFINE old == {u \in 1 .. Upper(b) : b.mail[u].at < since}
<1>1. old \in SUBSET (1 .. Upper(b)) /\ IsFiniteSet(old) /\ Cardinality(old) \in Nat
  BY Uids
<1>2. ASSUME NEW u \in 1 .. Upper(b), b.mail[u].at < since PROVE u <= Cardinality(old)
  <2>1. ASSUME NEW v \in 1 .. u PROVE v \in old
    <3>1. v \in 1 .. Upper(b) /\ u \in v .. Upper(b)
      OBVIOUS
    <3>2. b.mail[v].at <= b.mail[u].at /\ b.mail[v].at \in Nat /\ b.mail[u].at \in Nat
      BY <3>1
    <3> QED
      BY <1>2, <3>1, <3>2
  <2>2. (1 .. u) \in SUBSET old
    BY <2>1
  <2>3. Cardinality(1 .. u) <= Cardinality(old)
    BY <1>1, <2>2, FS_Subset
  <2>4. Cardinality(1 .. u) = u
    BY FS_Interval
  <2> QED
    BY <2>3, <2>4
<1>3. Before(b, since) = Cardinality(old)
  BY DEF Before
<1> HIDE DEF old
<1>4. ASSUME NEW u \in 1 .. Upper(b), u > Before(b, since) PROVE b.mail[u].at >= since
  BY <1>1, <1>2, <1>3, <1>4
<1> QED
  BY <1>1, <1>3, <1>4

(* Of a set of UIDs, those with at most `n' up to themselves are its first. *)
LEMMA FirstUids ==
    ASSUME NEW end \in Nat, NEW hits \in SUBSET (1 .. end), NEW n \in Nat, n >= 1,
           NEW first, first = {u \in hits : Cardinality({v \in hits : v <= u}) <= n}, first # hits
    PROVE  \E last \in first : /\ \A v \in first : v <= last
                               /\ \A u \in hits : u <= last => u \in first
<1> DEFINE upto(u) == {v \in hits : v <= u}
<1>1. ASSUME NEW u \in hits PROVE IsFiniteSet(upto(u)) /\ Cardinality(upto(u)) \in Nat
  <2>1. upto(u) \in SUBSET (1 .. end)
    OBVIOUS
  <2> QED
    BY <2>1, Uids
<1>2. \A u : u \in first <=> u \in hits /\ Cardinality(upto(u)) <= n
  OBVIOUS
<1>3. hits \in SUBSET Nat /\ hits # {}
  BY <1>2
<1>4. PICK least \in hits : \A y \in hits : least <= y
  BY <1>3, LeastUid
<1>5. upto(least) = {least}
  <2>1. \A v \in hits : v <= least => v = least
    BY <1>3, <1>4
  <2>2. least <= least
    BY <1>3
  <2> QED
    BY <2>1, <2>2
<1>6. Cardinality(upto(least)) = 1
  BY <1>5, FS_Singleton
<1> HIDE DEF upto
<1>7. least \in first
  BY <1>2, <1>6
<1>8. first \in SUBSET (0 .. end)
  <2>1. \A u \in first : u \in 0 .. end
    BY <1>2
  <2> QED
    BY <2>1, Zenon
<1>9. PICK last \in first : \A v \in first : v <= last
  BY <1>7, <1>8, GreatestUid
<1>10. ASSUME NEW u \in hits, u <= last PROVE u \in first
  <2>1. last \in hits /\ last \in Nat /\ u \in Nat
    BY <1>2, <1>3, <1>9
  <2>2. ASSUME NEW v \in upto(u) PROVE v \in upto(last)
    <3>1. v \in hits /\ v <= u /\ v \in Nat
      BY <1>3 DEF upto
    <3> QED
      BY <1>10, <2>1, <3>1 DEF upto
  <2>3. upto(u) \in SUBSET upto(last)
    BY <2>2
  <2>4. Cardinality(upto(u)) <= Cardinality(upto(last))
    BY <1>1, <2>1, <2>3, FS_Subset
  <2>5. Cardinality(upto(last)) <= n /\ Cardinality(upto(last)) \in Nat /\ Cardinality(upto(u)) \in Nat
    BY <1>1, <1>2, <2>1
  <2> QED
    BY <1>2, <2>4, <2>5
<1> QED
  BY <1>9, <1>10

(* A search for one alias deals with all its mail up to where it ends.       *)
LEMMA TargetEnds ==
    ASSUME NEW b, Upper(b) \in Nat, NEW from \in Nat, from <= Upper(b), NEW a
    PROVE  /\ TargetHits(b, from, a) \in SUBSET Nat
           /\ TargetEnd(b, from, a) \in Nat /\ TargetEnd(b, from, a) <= Upper(b)
           /\ \A u \in from + 1 .. TargetEnd(b, from, a) :
                a \in b.mail[u].to => u \in TargetHits(b, from, a)
<1> DEFINE end   == Smaller(Upper(b), from + Span)
           hits  == Addressed(b, from + 1 .. end, {a})
           first == TargetHits(b, from, a)
<1>1. Span \in Nat /\ Batch \in Nat /\ Batch >= 1
  BY MailConstants
<1>2. end \in Nat /\ end <= Upper(b) /\ from <= end
  BY <1>1 DEF Smaller
<1>3. hits \in SUBSET (1 .. end)
  <2>1. \A u \in hits : u \in from + 1 .. end
    BY DEF Addressed
  <2> HIDE DEF end, hits
  <2>2. \A u \in hits : u \in 1 .. end
    BY <1>2, <2>1
  <2> QED
    BY <2>2
<1>4. first = {u \in hits : Cardinality({v \in hits : v <= u}) <= Batch}
  BY DEF TargetHits
<1>5. \A u \in from + 1 .. end : a \in b.mail[u].to => u \in hits
  BY DEF Addressed
<1>6. TargetEnd(b, from, a) = IF first = hits THEN end ELSE CHOOSE u \in first : \A v \in first : v <= u
  BY DEF TargetEnd
<1>7. first \in SUBSET hits
  BY <1>4
<1> HIDE DEF end, hits
<1>8. CASE first = hits
  <2> HIDE DEF first
  <2>1. TargetEnd(b, from, a) = end /\ first \in SUBSET Nat
    BY <1>2, <1>3, <1>6, <1>8
  <2>2. \A u \in from + 1 .. end : a \in b.mail[u].to => u \in first
    BY <1>5, <1>8
  <2> QED
    BY <1>2, <2>1, <2>2 DEF first
<1>9. CASE first # hits
  <2> HIDE DEF first
  <2>1. PICK last \in first : /\ \A v \in first : v <= last
                             /\ \A u \in hits : u <= last => u \in first
    BY <1>1, <1>2, <1>3, <1>4, <1>9, FirstUids
  <2>2. first \in SUBSET (1 .. end) /\ last \in 1 .. end
    BY <1>3, <1>7
  <2>3. \A x, y \in 1 .. end : x <= y /\ y <= x => x = y
    BY <1>2
  <2>4. (CHOOSE u \in first : \A v \in first : v <= u) = last
    BY <2>1, <2>2, <2>3
  <2>5. TargetEnd(b, from, a) = last
    BY <1>6, <1>9, <2>4
  <2>6. ASSUME NEW u \in from + 1 .. last, a \in b.mail[u].to PROVE u \in first
    <3>1. u \in from + 1 .. end /\ u <= last
      BY <1>2, <2>2
    <3> QED
      BY <1>5, <2>1, <2>6, <3>1
  <2>7. first \in SUBSET Nat /\ last \in Nat /\ last <= Upper(b)
    BY <1>2, <2>2
  <2> QED
    BY <2>5, <2>6, <2>7 DEF first
<1> QED
  BY <1>8, <1>9

-----------------------------------------------------------------------------
(***************************************************************************)
(* What a cursor has passed is filed.                                      *)
(***************************************************************************)

Place == 1 .. Sources
Kinds == {"full", "active", "alias", "web"}
Stamp == Alias \X Nat
Mail == [to : SUBSET Alias, at : Nat, owed : SUBSET Stamp]
Cursor == [gen : Nat, last : Nat, since : Nat, floor : Nat, at : Nat]
Account == [on : BOOLEAN, config : Nat, transport : Nat, web : BOOLEAN, src : Place,
            good : BOOLEAN, paused : BOOLEAN]
Result == [gen : Nat, reset : BOOLEAN, last : Nat, more : BOOLEAN, since : Nat, floor : Nat,
           at : Nat, msgs : SUBSET Nat]

FilingTypes ==
    /\ clock \in Nat /\ clock > Window
    /\ box \in [Place -> [gen : Nat, mail : Seq(Mail)]]
    /\ acct \in Account
    /\ alias \in [Alias -> [on : BOOLEAN, stamp : Nat]]
    /\ cursor \in Cursor \cup {None} /\ acursor \in [Alias -> Cursor \cup {None}]
    /\ edit.kind = "renamed" => acct.src < Sources

Present(p) == alias[p[1]].on /\ alias[p[1]].stamp = p[2]

(* Mail is in the order of its arrival, and is owed to recipients whose     *)
(* stamps have been given out.                                              *)
BoxInv ==
    \A s \in Place : \A u \in 1 .. Upper(box[s]) :
        /\ box[s].mail[u].at <= clock
        /\ \A v \in u .. Upper(box[s]) : box[s].mail[u].at <= box[s].mail[v].at
        /\ \A p \in box[s].mail[u].owed : p[1] \in box[s].mail[u].to /\ p[2] <= alias[p[1]].stamp

(* Behind the floor of a pinned window there is no mail older than it.      *)
WindowHolds(c, b) == c.since # Unlimited =>
    /\ c.since <= clock
    /\ \A u \in 1 .. Upper(b) : u > c.floor => b.mail[u].at >= c.since

CursorInv ==
    /\ cursor # None => cursor.last <= Upper(box[acct.src]) /\ WindowHolds(cursor, box[acct.src])
    /\ \A a \in Alias : acursor[a] # None => acursor[a].last <= Upper(box[acct.src])

(* What a read knows, as long as its observation of the account holds.      *)
Observes ==
    /\ read.kind \in Kinds /\ read.acct \in Account /\ read.known \subseteq Stamp
    /\ read.acct.config <= acct.config /\ read.acct.transport <= acct.transport
    /\ \A p \in read.known : p[2] <= alias[p[1]].stamp
    /\ read.kind \in {"alias", "web"} => \E q \in read.known : read.known = {q}

Whole == read.kind \in {"full", "active"} /\ StillObserved
Single(a) == read.kind = "alias" /\ StillObserved /\ a \in Kept

PreparedInv ==
    read.phase = "prepared" =>
        /\ Observes
        /\ read.target = {p[1] : p \in read.known} /\ read.prev \in Cursor \cup {None}
        /\ Whole => /\ read.prev = cursor
                    /\ \A u \in 1 .. Upper(box[acct.src]) : \A p \in box[acct.src].mail[u].owed :
                          Present(p) => p \in read.known
        /\ \A a \in Alias : Single(a) => read.prev = acursor[a]

FetchedInv ==
    read.phase \in {"fetched", "staged"} =>
        /\ Observes
        /\ read.result \in Result /\ read.result.last <= Upper(Source)
        /\ Whole => /\ WindowHolds(read.result, Source)
                    /\ \A u \in read.result.floor + 1 .. read.result.last : \A p \in Source.mail[u].owed :
                          Present(p) => \/ FiledFor(p[1], read.result.gen, u)
                                        \/ p \in read.known /\ u \in read.result.msgs
        /\ \A a \in Alias : Single(a) =>
              \A u \in read.result.floor + 1 .. read.result.last :
                 a \in Source.mail[u].to => FiledFor(a, read.result.gen, u) \/ u \in read.result.msgs

FilingInv == FilingTypes /\ BoxInv /\ CursorInv /\ PreparedInv /\ FetchedInv /\ FiledBehindCursor

-----------------------------------------------------------------------------
(* What one batch of the account's mail leaves out.                          *)

LEMMA BoxFacts ==
    ASSUME FilingTypes, NEW s \in Place
    PROVE  /\ Upper(box[s]) \in Nat /\ box[s].gen \in Nat /\ box[s].mail \in Seq(Mail)
           /\ \A u \in 1 .. Upper(box[s]) :
                /\ box[s].mail[u].at \in Nat
                /\ box[s].mail[u].owed \subseteq Stamp
<1>1. box[s] \in [gen : Nat, mail : Seq(Mail)]
  BY DEF FilingTypes
<1>2. box[s].gen \in Nat /\ box[s].mail \in Seq(Mail)
  BY <1>1
<1>3. Len(box[s].mail) \in Nat
  BY <1>2
<1>4. ASSUME NEW u \in 1 .. Len(box[s].mail) PROVE box[s].mail[u] \in Mail
  BY <1>2
<1> QED
  BY <1>2, <1>3, <1>4 DEF Upper, Mail

LEMMA OlderFirst ==
    ASSUME FilingTypes, BoxInv, NEW s \in Place, NEW since \in Nat
    PROVE  /\ Before(box[s], since) \in Nat
           /\ \A u \in 1 .. Upper(box[s]) : u > Before(box[s], since) => box[s].mail[u].at >= since
<1>1. /\ Upper(box[s]) \in Nat
      /\ \A u \in 1 .. Upper(box[s]) : box[s].mail[u].at \in Nat
  BY BoxFacts
<1>2. \A u \in 1 .. Upper(box[s]) : \A v \in u .. Upper(box[s]) : box[s].mail[u].at <= box[s].mail[v].at
  BY DEF BoxInv
<1> QED
  BY <1>1, <1>2, BeforeBounds

LEMMA BaselineIs ==
    ASSUME NEW b, Upper(b) \in Nat
    PROVE  Baseline(b) \in Nat /\ Baseline(b) <= Upper(b)
BY MailConstants DEF Baseline, Larger

(* What a batch is asked, and what its answer accounts for.                  *)
Follows(prev, b) == prev # None => WindowHolds(prev, b)

BatchAsked(prev, b, target, slack) ==
    /\ prev \in Cursor \cup {None} /\ target \in SUBSET Alias /\ slack \in {0, 1}
    /\ prev # None /\ prev.gen = b.gen => prev.last <= Upper(b)

BatchOf(prev, b, kind, target, slack) == IncrementalResult(prev, b, kind = "active", target, slack)

BatchAnswer(prev, b, target, r) ==
    /\ r \in Result /\ r.last <= Upper(b)
    /\ Follows(prev, b) =>
         /\ WindowHolds(r, b)
         /\ \A u \in r.floor + 1 .. r.last :
              \/ target = {}
              \/ prev # None /\ prev.gen = b.gen /\ u \in prev.floor + 1 .. prev.last
              \/ b.mail[u].to \cap target # {} => u \in r.msgs

LEMMA IncrementalSound ==
    ASSUME FilingTypes, BoxInv, NEW s \in Place, NEW b, b = box[s],
           NEW prev, NEW kind, NEW target, NEW slack, BatchAsked(prev, b, target, slack),
           NEW r, r = BatchOf(prev, b, kind, target, slack)
    PROVE  BatchAnswer(prev, b, target, r)
<1> DEFINE active   == kind = "active"
           reset    == Resets(prev, b)
           pending  == Pinned(prev, b)
           since    == IF pending THEN prev.since ELSE clock - Window
           recovers == active /\ ~pending /\ (reset \/ clock - prev.at > Window)
           start    == IF reset THEN 0 ELSE prev.last
           from     == IF recovers THEN RecoveryStart(b, since, start, slack) ELSE start
           through  == IF target = {} THEN Upper(b) ELSE BatchEnd(b, from)
           more     == through < Upper(b)
           windowed == active \/ pending
           floor    == Floor(prev, b, active)
           msgs     == {u \in Addressed(b, from + 1 .. through, target) : windowed => b.mail[u].at >= since}
           behind   == Follows(prev, b)
<1>0. /\ prev \in Cursor \cup {None} /\ target \in SUBSET Alias /\ slack \in {0, 1}
      /\ prev # None /\ prev.gen = b.gen => prev.last <= Upper(b)
  BY DEF BatchAsked
<1>1. Upper(b) \in Nat /\ b.gen \in Nat /\ clock \in Nat /\ clock > Window
      /\ Window \in Nat /\ Batch \in Nat
  BY BoxFacts, MailConstants DEF FilingTypes
<1>2. Baseline(b) \in Nat /\ Baseline(b) <= Upper(b)
  BY <1>1, BaselineIs
<1>3. /\ reset <=> prev = None \/ prev.gen # b.gen
      /\ pending <=> ~reset /\ prev.since # 0
  BY DEF Resets, Pinned, Unlimited
<1>4. ~reset => /\ prev # None /\ prev.gen = b.gen /\ prev.last <= Upper(b)
                /\ prev.last \in Nat /\ prev.since \in Nat /\ prev.floor \in Nat /\ prev.at \in Nat
  BY <1>0, <1>3 DEF Cursor
<1>5. CASE target # {} /\ reset /\ ~active
  <2>1. r = [gen |-> b.gen, reset |-> TRUE, last |-> Baseline(b), more |-> Upper(b) > 0,
             since |-> 0, floor |-> Baseline(b), at |-> clock, msgs |-> {}]
    BY <1>5 DEF BatchOf, IncrementalResult, Unlimited
  <2>2. r.floor = Baseline(b) /\ r.last = Baseline(b) /\ r.since = 0 /\ r.gen = b.gen
    BY <2>1
  <2>3. r \in Result
    BY <1>1, <1>2, <2>1 DEF Result
  <2>4. \A u \in r.floor + 1 .. r.last : FALSE
    BY <1>2, <2>2
  <2> QED
    BY <1>2, <2>2, <2>3, <2>4 DEF WindowHolds, Unlimited, BatchAnswer
<1>6. CASE ~(target # {} /\ reset /\ ~active)
  <2>1. r = [gen |-> b.gen, reset |-> reset, last |-> through, more |-> more,
             since |-> IF windowed /\ more THEN since ELSE 0,
             floor |-> floor, at |-> clock, msgs |-> msgs]
    BY <1>6 DEF BatchOf, IncrementalResult, Unlimited
  <2>2. since \in Nat
    BY <1>1, <1>3, <1>4
  <2>3. /\ Before(b, clock - Window) \in Nat
        /\ \A u \in 1 .. Upper(b) : u > Before(b, clock - Window) => b.mail[u].at >= clock - Window
    <3>1. clock - Window \in Nat
      BY <1>1
    <3> QED
      BY <3>1, OlderFirst
  <2>4. start \in Nat /\ start <= Upper(b)
    BY <1>1, <1>4
  <2>5. recovers => since = clock - Window
    OBVIOUS
  <2>6. recovers => from = (IF start < Before(b, clock - Window) - slack THEN Before(b, clock - Window) - slack ELSE start)
    BY <2>5 DEF RecoveryStart, Larger
  <2>7. Before(b, clock - Window) <= Upper(b)
    <3>1. {u \in 1 .. Upper(b) : b.mail[u].at < clock - Window} \in SUBSET (1 .. Upper(b))
      OBVIOUS
    <3> QED
      BY <1>1, <3>1, Uids DEF Before
  <2>8. from \in Nat /\ from <= Upper(b)
    <3>1. CASE recovers
      <4> HIDE DEF recovers, from, start
      <4> QED
        BY <1>0, <1>1, <2>3, <2>4, <2>6, <2>7, <3>1
    <3>2. CASE ~recovers
      BY <2>4, <3>2
    <3> QED
      BY <3>1, <3>2
  <2>9. floor = (IF active /\ ~pending
                 THEN (IF (IF reset THEN 0 ELSE prev.floor) < Before(b, clock - Window)
                       THEN Before(b, clock - Window) ELSE (IF reset THEN 0 ELSE prev.floor))
                 ELSE (IF reset THEN 0 ELSE prev.floor))
    BY DEF Floor, Larger, Pinned, Resets, Unlimited
  <2> HIDE DEF floor
  <2>10. floor \in Nat
    BY <1>4, <2>3, <2>9
  <2>11. through \in Nat /\ through <= Upper(b) /\ (target # {} => from <= through)
    <3> HIDE DEF from
    <3> QED
      BY <1>1, <2>8 DEF BatchEnd, Smaller
  <2>12. msgs \in SUBSET Nat
    <3> HIDE DEF from, through
    <3> QED
      BY <2>8, <2>11 DEF Addressed
  <2>13. r \in Result /\ r.gen = b.gen /\ r.last = through /\ r.floor = floor /\ r.msgs = msgs
         /\ r.since = IF windowed /\ more THEN since ELSE 0
    <3> HIDE DEF through, msgs, since, windowed, more
    <3>1. more \in BOOLEAN /\ reset \in BOOLEAN
      BY DEF more, Resets
    <3> QED
      BY <1>1, <2>1, <2>2, <2>10, <2>11, <2>12, <3>1 DEF Result
  <2>14. target = {} => ~more
    BY <1>1
  <2>15. ASSUME windowed, behind, NEW u \in 1 .. Upper(b), u > floor
         PROVE  since <= clock /\ b.mail[u].at >= since
    <3>1. CASE pending
      <4>1. since = prev.since /\ prev.since # 0 /\ floor = prev.floor /\ prev # None
        BY <1>3, <1>4, <2>9, <3>1
      <4> HIDE DEF since
      <4> QED
        BY <2>15, <4>1 DEF Follows, WindowHolds, Unlimited
    <3>2. CASE ~pending
      <4>1. since = clock - Window /\ floor >= Before(b, clock - Window)
        BY <1>4, <2>3, <2>9, <2>15, <3>2
      <4> HIDE DEF since
      <4> QED
        BY <1>1, <2>3, <2>10, <2>15, <4>1
    <3> QED
      BY <3>1, <3>2
  <2>16. behind /\ windowed => since <= clock
    <3>1. CASE pending
      BY <1>3, <1>4, <3>1 DEF Follows, WindowHolds, Unlimited
    <3>2. CASE ~pending
      BY <1>1, <3>2
    <3> QED
      BY <3>1, <3>2
  <2>17. behind => WindowHolds(r, b)
    <3> HIDE DEF since, windowed, behind, more
    <3> QED
      BY <2>13, <2>15, <2>16 DEF WindowHolds, Unlimited
  <2>18. ASSUME target # {}, NEW u \in floor + 1 .. through, u <= from
         PROVE  ~reset /\ u \in prev.floor + 1 .. prev.last
    <3>1. u \in Nat /\ u > floor /\ u >= 1
      BY <2>10, <2>11
    <3>2. ~reset => floor >= prev.floor
      BY <1>4, <2>3, <2>9
    <3>3. recovers => floor >= Before(b, clock - Window)
      BY <1>4, <2>3, <2>9
    <3>4. u <= start
      <4> HIDE DEF start, recovers
      <4>1. CASE recovers
        <5> HIDE DEF from
        <5>1. u > Before(b, clock - Window) - slack
          BY <1>0, <2>3, <2>10, <3>1, <3>3, <4>1
        <5> QED
          BY <1>0, <2>3, <2>4, <2>6, <2>18, <3>1, <4>1, <5>1
      <4>2. CASE ~recovers
        BY <2>18, <4>2
      <4> QED
        BY <4>1, <4>2
    <3>5. ~reset
      BY <3>1, <3>4
    <3> QED
      BY <1>4, <2>10, <3>1, <3>2, <3>4, <3>5
  <2>19. ASSUME target # {}, behind, NEW u \in floor + 1 .. through, u > from, b.mail[u].to \cap target # {}
         PROVE  u \in msgs
    <3> HIDE DEF from, through, since, windowed, behind
    <3>1. u \in from + 1 .. through
      BY <2>8, <2>10, <2>11, <2>19
    <3>2. u \in Addressed(b, from + 1 .. through, target)
      BY <2>19, <3>1 DEF Addressed
    <3>3. u \in 1 .. Upper(b) /\ u > floor
      BY <1>1, <2>10, <2>11
    <3> QED
      BY <2>15, <2>19, <3>2, <3>3
  <2>20. ASSUME behind, NEW u \in r.floor + 1 .. r.last
         PROVE  \/ target = {}
                \/ prev # None /\ prev.gen = b.gen /\ u \in prev.floor + 1 .. prev.last
                \/ b.mail[u].to \cap target # {} => u \in r.msgs
    <3> HIDE DEF from, through, msgs, behind
    <3>1. u \in floor + 1 .. through
      BY <2>13, <2>20
    <3>2. u <= from \/ u > from
      BY <2>8, <2>10, <2>11, <3>1
    <3> QED
      BY <1>4, <2>13, <2>18, <2>19, <2>20, <3>1, <3>2
  <2> QED
    BY <2>11, <2>13, <2>17, <2>20 DEF BatchAnswer
<1> QED
  BY <1>5, <1>6

(* What a read on behalf of one alias leaves out.                            *)
LEMMA TargetSound ==
    ASSUME FilingTypes, NEW s \in Place, NEW prev \in Cursor \cup {None}, NEW a, NEW b, b = box[s],
           prev # None /\ prev.gen = b.gen => prev.last <= Upper(b),
           NEW r, r = TargetResult(prev, b, a)
    PROVE  /\ r \in Result /\ r.last <= Upper(b)
           /\ \A u \in r.floor + 1 .. r.last :
                \/ prev # None /\ prev.gen = b.gen /\ u \in prev.floor + 1 .. prev.last
                \/ a \in b.mail[u].to => u \in r.msgs
<1> DEFINE reset   == Resets(prev, b)
           from    == IF reset THEN Larger(0, Upper(b) - Span) ELSE prev.last
           through == TargetEnd(b, from, a)
           floor   == IF reset THEN from ELSE prev.floor
           msgs    == TargetHits(b, from, a)
<1>1. Upper(b) \in Nat /\ b.gen \in Nat /\ clock \in Nat /\ Span \in Nat
  BY BoxFacts, MailConstants DEF FilingTypes
<1>2. reset <=> prev = None \/ prev.gen # b.gen
  BY DEF Resets
<1>3. ~reset => /\ prev # None /\ prev.gen = b.gen /\ prev.last <= Upper(b)
                /\ prev.last \in Nat /\ prev.floor \in Nat
  BY <1>2 DEF Cursor
<1>4. r = [gen |-> b.gen, reset |-> reset, last |-> through, more |-> through < Upper(b),
           since |-> 0, floor |-> floor, at |-> clock, msgs |-> msgs]
  BY DEF TargetResult, Unlimited
<1>5. reset \in BOOLEAN
  BY DEF Resets
<1> HIDE DEF reset
<1>6. from \in Nat /\ from <= Upper(b)
  BY <1>1, <1>3 DEF Larger
<1>7. floor \in Nat
  BY <1>3, <1>6
<1> HIDE DEF from
<1>8. /\ msgs \in SUBSET Nat /\ through \in Nat /\ through <= Upper(b)
      /\ \A u \in from + 1 .. through : a \in b.mail[u].to => u \in msgs
  BY <1>1, <1>6, TargetEnds
<1> HIDE DEF through, msgs
<1>9. r \in Result
  <2> HIDE DEF floor
  <2> QED
    BY <1>1, <1>4, <1>5, <1>7, <1>8 DEF Result
<1>10. r.gen = b.gen /\ r.last = through /\ r.floor = floor /\ r.msgs = msgs /\ r.since = 0
  BY <1>4
<1>11. ASSUME NEW u \in floor + 1 .. through, u <= from PROVE ~reset /\ u \in prev.floor + 1 .. prev.last
  <2>1. ~reset
    BY <1>6, <1>7, <1>8, <1>11
  <2> QED
    BY <1>3, <1>6, <1>7, <1>8, <1>11, <2>1 DEF from
<1>12. ASSUME NEW u \in r.floor + 1 .. r.last
       PROVE  \/ prev # None /\ prev.gen = b.gen /\ u \in prev.floor + 1 .. prev.last
              \/ a \in b.mail[u].to => u \in r.msgs
  <2>1. u \in floor + 1 .. through
    BY <1>10, <1>12
  <2>2. CASE u <= from
    BY <1>3, <1>11, <2>1, <2>2
  <2>3. CASE ~(u <= from)
    <3> HIDE DEF floor
    <3>1. u \in from + 1 .. through
      BY <1>6, <1>7, <1>8, <2>1, <2>3
    <3> QED
      BY <1>8, <1>10, <3>1
  <2> QED
    BY <2>2, <2>3
<1> HIDE DEF floor
<1> QED
  BY <1>8, <1>9, <1>10, <1>12

LEMMA WebType ==
    ASSUME FilingTypes, NEW s \in Place, NEW a
    PROVE  WebResult(box[s], a) \in Result /\ WebResult(box[s], a).last <= Upper(box[s])
<1> DEFINE msgs == Addressed(box[s], Baseline(box[s]) + 1 .. Upper(box[s]), {a})
<1>1. Upper(box[s]) \in Nat /\ box[s].gen \in Nat /\ clock \in Nat
  BY BoxFacts DEF FilingTypes
<1>2. Baseline(box[s]) \in Nat
  BY <1>1, BaselineIs
<1>3. msgs \in SUBSET Nat
  <2>1. \A u \in msgs : u \in Baseline(box[s]) + 1 .. Upper(box[s])
    BY DEF Addressed
  <2> HIDE DEF msgs
  <2> QED
    BY <1>1, <1>2, <2>1
<1>4. WebResult(box[s], a) =
        [gen |-> box[s].gen, reset |-> FALSE, last |-> Upper(box[s]), more |-> FALSE,
         since |-> 0, floor |-> 0, at |-> clock, msgs |-> msgs]
  BY DEF WebResult, Unlimited
<1> HIDE DEF msgs
<1> QED
  BY <1>1, <1>3, <1>4 DEF Result

-----------------------------------------------------------------------------
(* Where a message is filed.                                                *)

LEMMA FiledMeans ==
    ASSUME NEW a, NEW g, NEW u
    PROVE  FiledFor(a, g, u) <=> \E r \in rows : r.gen = g /\ r.uid = u /\ a \in r.aliases
BY DEF FiledFor, RowOf

LEMMA WrittenFor ==
    ASSUME RowsInv, NEW u
    PROVE  /\ Written(u).gen = read.result.gen /\ Written(u).uid = u
           /\ Recipients(u) \subseteq Written(u).aliases
           /\ \A r \in RowOf(read.result.gen, u) : r.aliases \subseteq Written(u).aliases
<1> DEFINE old  == RowOf(read.result.gen, u)
           new  == [gen |-> read.result.gen, uid |-> u, src |-> read.acct.src,
                    at |-> box[read.acct.src].mail[u].at, aliases |-> {},
                    state |-> "metadata", path |-> <<>>, digest |-> <<>>]
           base == IF old = {} THEN new ELSE CHOOSE r \in old : TRUE
           body == IF u \in DOMAIN read.staged
                   THEN [base EXCEPT !.state = "available", !.path = read.staged[u], !.digest = Content(u)]
                   ELSE base
           has  == UNION {r.aliases : r \in old}
<1>1. IsRow(base) /\ base.gen = read.result.gen /\ base.uid = u
  <2>1. CASE old = {}
    BY <2>1 DEF IsRow
  <2>2. CASE old # {}
    <3>1. base \in old
      BY <2>2
    <3> HIDE DEF base
    <3> QED
      BY <3>1 DEF RowOf, RowsInv, Sound
  <2> QED
    BY <2>1, <2>2
<1>2. Written(u) = [body EXCEPT !.aliases = has \cup Recipients(u)]
  BY DEF Written
<1> HIDE DEF base, old
<1>3. IsRow(body) /\ body.gen = read.result.gen /\ body.uid = u
  BY <1>1 DEF IsRow
<1> HIDE DEF body
<1>4. Written(u) = [gen |-> body.gen, uid |-> body.uid, src |-> body.src, at |-> body.at,
                    aliases |-> has \cup Recipients(u),
                    state |-> body.state, path |-> body.path, digest |-> body.digest]
  BY <1>2, <1>3 DEF IsRow
<1>5. \A r \in old : r.aliases \subseteq has
  OBVIOUS
<1> HIDE DEF has
<1> QED
  BY <1>3, <1>4, <1>5 DEF old

(* What is filed for an alias stays filed.                                   *)
Keeps(a) == \A g, u : FiledFor(a, g, u) => FiledFor(a, g, u)'

RowsRemain(dropped) ==
    \A r \in rows : \E q \in rows' : q.gen = r.gen /\ q.uid = r.uid /\ r.aliases \ dropped \subseteq q.aliases

LEMMA RowsKeep ==
    ASSUME NEW dropped, RowsRemain(dropped)
    PROVE  \A a : a \notin dropped => Keeps(a)
<1> SUFFICES ASSUME NEW a, a \notin dropped, NEW g, NEW u, FiledFor(a, g, u) PROVE FiledFor(a, g, u)'
  BY DEF Keeps
<1>1. PICK r \in rows : r.gen = g /\ r.uid = u /\ a \in r.aliases
  BY FiledMeans
<1>2. PICK q \in rows' : q.gen = r.gen /\ q.uid = r.uid /\ r.aliases \ dropped \subseteq q.aliases
  BY DEF RowsRemain
<1>3. a \in q.aliases
  BY <1>1, <1>2
<1> QED
  BY <1>1, <1>2, <1>3 DEF FiledFor, RowOf

LEMMA CommitRemembers ==
    ASSUME MailInv, Commit
    PROVE  /\ \A a : Keeps(a)
           /\ \A g : g = read.result.gen =>
                \A u \in read.result.msgs : \A a \in Recipients(u) : FiledFor(a, g, u)'
<1>1. rows' = {r \in rows : r.gen # read.result.gen \/ r.uid \notin Filed} \cup {Written(u) : u \in Filed}
  BY DEF Commit
<1>2. RowsInv
  BY DEF MailInv
<1>3. ASSUME NEW a, NEW g, NEW u, FiledFor(a, g, u) PROVE FiledFor(a, g, u)'
  <2>1. PICK r \in rows : r.gen = g /\ r.uid = u /\ a \in r.aliases
    BY <1>3, FiledMeans
  <2>2. CASE g = read.result.gen /\ u \in Filed
    <3>1. r \in RowOf(read.result.gen, u)
      BY <2>1, <2>2 DEF RowOf
    <3>2. /\ Written(u).gen = g /\ Written(u).uid = u
          /\ r.aliases \subseteq Written(u).aliases
      BY <1>2, <2>2, <3>1, WrittenFor
    <3>3. Written(u) \in rows'
      BY <1>1, <2>2
    <3>4. \E o \in rows' : o.gen = g /\ o.uid = u /\ a \in o.aliases
      BY <2>1, <3>2, <3>3
    <3> QED
      BY <3>4 DEF FiledFor, RowOf
  <2>3. CASE ~(g = read.result.gen /\ u \in Filed)
    <3>1. r \in rows'
      BY <1>1, <2>1, <2>3
    <3> QED
      BY <2>1, <3>1 DEF FiledFor, RowOf
  <2> QED
    BY <2>2, <2>3
<1>4. ASSUME NEW g, g = read.result.gen, NEW u \in read.result.msgs, NEW a \in Recipients(u)
      PROVE  FiledFor(a, g, u)'
  <2>1. u \in Filed
    BY DEF Filed
  <2>2. Written(u) \in rows'
    BY <1>1, <2>1
  <2>3. Written(u).gen = g /\ Written(u).uid = u /\ a \in Written(u).aliases
    BY <1>2, <1>4, WrittenFor
  <2>4. \E o \in rows' : o.gen = g /\ o.uid = u /\ a \in o.aliases
    BY <2>2, <2>3
  <2> QED
    BY <2>4 DEF FiledFor, RowOf
<1> QED
  BY <1>3, <1>4 DEF Keeps

-----------------------------------------------------------------------------
(* Steps that begin no read, reach no mailbox and publish nothing: what they *)
(* may do to the mail, the aliases, the account, the archive and the read.  *)

SameAccount == /\ acct'.on = acct.on /\ acct'.config = acct.config /\ acct'.transport = acct.transport
               /\ acct'.src = acct.src /\ acct'.good = acct.good

SteadyMail ==
    /\ clock <= clock'
    /\ \A s \in Place :
         /\ Upper(box[s]) <= Upper(box'[s])
         /\ \A u \in 1 .. Upper(box[s]) : box'[s].mail[u] = box[s].mail[u]
         /\ \A u \in 1 .. Upper(box'[s]) : u > Upper(box[s]) =>
              /\ box'[s].mail[u].at = clock
              /\ \A p \in box'[s].mail[u].owed :
                   /\ p[1] \in box'[s].mail[u].to /\ p[1] \in Alias /\ p[2] <= alias'[p[1]].stamp
                   /\ read'.phase = "prepared" /\ read.kind \in {"full", "active"} => p \in read.known

SteadyAccount ==
    /\ acct.config <= acct'.config /\ acct.transport <= acct'.transport
    /\ acct'.config = acct.config /\ acct'.transport = acct.transport => SameAccount /\ UNCHANGED cursor
    /\ cursor' # None => cursor' = cursor /\ acct'.src = acct.src

SteadyAlias ==
    /\ \A a \in Alias : alias[a].stamp <= alias'[a].stamp
    /\ SameAccount => \A p \in Stamp : p[2] <= alias[p[1]].stamp /\ Present(p)' =>
         Present(p) /\ Keeps(p[1]) /\ acursor'[p[1]] = acursor[p[1]]
    /\ cursor' # None => \A p \in Stamp : p[2] <= alias[p[1]].stamp /\ Present(p)' => Present(p) /\ Keeps(p[1])
    /\ \A a \in Alias : acursor'[a] # None => acursor'[a] = acursor[a] /\ acct'.src = acct.src /\ Keeps(a)

SteadyRead ==
    \/ UNCHANGED read
    \/ read'.phase \notin {"prepared", "fetched", "staged"}
    \/ /\ read.phase = "fetched" /\ read'.phase = "staged"
       /\ read'.kind = read.kind /\ read'.acct = read.acct /\ read'.known = read.known
       /\ read'.result = read.result

Steady == SteadyMail /\ SteadyAccount /\ SteadyAlias /\ SteadyRead

LEMMA SourceIs ==
    ASSUME FilingTypes, read.acct \in Account
    PROVE  /\ acct.src \in Place /\ read.acct.src \in Place
           /\ StillObserved => read.acct.src = acct.src /\ Source = box[acct.src]
<1>1. acct.src \in Place /\ read.acct.src \in Place
  BY DEF FilingTypes, Account
<1>2. ASSUME StillObserved PROVE read.acct.src = acct.src
  BY <1>2 DEF StillObserved, Observed
<1> QED
  BY <1>1, <1>2 DEF Source

LEMMA OwedIs ==
    ASSUME FilingTypes, NEW s \in Place, NEW u \in 1 .. Upper(box[s]), NEW p \in box[s].mail[u].owed
    PROVE  p \in Stamp /\ p[1] \in Alias /\ p[2] \in Nat
<1>1. p \in Stamp
  BY BoxFacts
<1> QED
  BY <1>1 DEF Stamp

LEMMA BehindIs ==
    ASSUME FilingTypes, CursorInv
    PROVE  /\ acct.src \in Place
           /\ cursor # None => \A u \in cursor.floor + 1 .. cursor.last : u \in 1 .. Upper(box[acct.src])
           /\ \A a \in Alias : acursor[a] # None =>
                \A u \in acursor[a].floor + 1 .. acursor[a].last : u \in 1 .. Upper(box[acct.src])
<1>1. acct.src \in Place
  BY DEF FilingTypes, Account
<1>2. Upper(box[acct.src]) \in Nat
  BY <1>1, BoxFacts
<1>3. ASSUME NEW c \in Cursor, c.last <= Upper(box[acct.src]), NEW u \in c.floor + 1 .. c.last
      PROVE  u \in 1 .. Upper(box[acct.src])
  BY <1>2, <1>3 DEF Cursor
<1>4. cursor # None => cursor \in Cursor /\ cursor.last <= Upper(box[acct.src])
  BY DEF FilingTypes, CursorInv
<1>5. \A a \in Alias : acursor[a] # None => acursor[a] \in Cursor /\ acursor[a].last <= Upper(box[acct.src])
  BY DEF FilingTypes, CursorInv
<1> QED
  BY <1>1, <1>3, <1>4, <1>5

(* What the cursors have passed stays filed.                                 *)
LEMMA FiledStays ==
    ASSUME FilingInv, SteadyMail, SteadyAccount, SteadyAlias PROVE FiledBehindCursor'
<1>1. FilingTypes /\ BoxInv /\ CursorInv /\ FiledBehindCursor
  BY DEF FilingInv
<1>2. \A u \in 1 .. Upper(box[acct.src]) : box'[acct.src].mail[u] = box[acct.src].mail[u]
  BY <1>1, BehindIs DEF SteadyMail
<1>3. ASSUME cursor' # None, NEW u \in cursor'.floor + 1 .. cursor'.last,
             NEW p \in box'[acct'.src].mail[u].owed, alias'[p[1]].on, alias'[p[1]].stamp = p[2]
      PROVE  \A g : g = cursor'.gen => FiledFor(p[1], g, u)'
  <2>1. cursor' = cursor /\ acct'.src = acct.src /\ cursor # None
    BY <1>3 DEF SteadyAccount
  <2>2. u \in 1 .. Upper(box[acct.src]) /\ acct.src \in Place
    BY <1>1, <1>3, <2>1, BehindIs
  <2>3. p \in box[acct.src].mail[u].owed
    BY <1>2, <1>3, <2>1, <2>2
  <2>4. p \in Stamp /\ p[1] \in Alias /\ p[2] <= alias[p[1]].stamp
    BY <1>1, <2>2, <2>3, OwedIs DEF BoxInv
  <2>5. Present(p)'
    BY <1>3 DEF Present
  <2>6. Present(p) /\ Keeps(p[1])
    BY <1>3, <2>4, <2>5 DEF SteadyAlias
  <2>7. FiledFor(p[1], cursor.gen, u)
    BY <1>1, <1>3, <2>1, <2>3, <2>6 DEF FiledBehindCursor, Present
  <2> QED
    BY <2>1, <2>6, <2>7 DEF Keeps
<1>4. ASSUME NEW a \in Alias, acursor'[a] # None, NEW u \in acursor'[a].floor + 1 .. acursor'[a].last,
             a \in box'[acct'.src].mail[u].to
      PROVE  \A g : g = acursor'[a].gen => FiledFor(a, g, u)'
  <2>1. acursor'[a] = acursor[a] /\ acct'.src = acct.src /\ acursor[a] # None /\ Keeps(a)
    BY <1>4 DEF SteadyAlias
  <2>2. u \in 1 .. Upper(box[acct.src])
    BY <1>1, <1>4, <2>1, BehindIs
  <2>3. a \in box[acct.src].mail[u].to
    BY <1>2, <1>4, <2>1, <2>2
  <2>4. FiledFor(a, acursor[a].gen, u)
    BY <1>1, <1>4, <2>1, <2>3 DEF FiledBehindCursor
  <2> QED
    BY <2>1, <2>4 DEF Keeps
<1>5. cursor' # None =>
        \A u \in cursor'.floor + 1 .. cursor'.last : \A p \in box'[acct'.src].mail[u].owed :
           alias'[p[1]].on /\ alias'[p[1]].stamp = p[2] => \A g : g = cursor'.gen => FiledFor(p[1], g, u)'
  BY <1>3
<1>6. \A a \in Alias : acursor'[a] # None =>
        \A u \in acursor'[a].floor + 1 .. acursor'[a].last :
           a \in box'[acct'.src].mail[u].to => \A g : g = acursor'[a].gen => FiledFor(a, g, u)'
  BY <1>4
<1> QED
  BY <1>5, <1>6 DEF FiledBehindCursor, FiledFor, RowOf, None

LEMMA BoxStays ==
    ASSUME FilingInv, FilingTypes', SteadyMail, SteadyAlias PROVE BoxInv'
<1>1. FilingTypes /\ BoxInv /\ clock \in Nat /\ clock' \in Nat /\ clock <= clock'
  BY DEF FilingInv, FilingTypes, SteadyMail
<1>2. ASSUME NEW s \in Place, NEW u \in 1 .. Upper(box'[s])
      PROVE  /\ box'[s].mail[u].at <= clock'
             /\ \A v \in u .. Upper(box'[s]) : box'[s].mail[u].at <= box'[s].mail[v].at
             /\ \A p \in box'[s].mail[u].owed : p[1] \in box'[s].mail[u].to /\ p[2] <= alias'[p[1]].stamp
  <2>1. /\ Upper(box[s]) \in Nat /\ Upper(box[s]) <= Upper(box'[s])
        /\ \A v \in 1 .. Upper(box[s]) : box'[s].mail[v] = box[s].mail[v]
        /\ \A v \in 1 .. Upper(box'[s]) : v > Upper(box[s]) => box'[s].mail[v].at = clock
    BY <1>1, BoxFacts DEF SteadyMail
  <2>2. CASE u <= Upper(box[s])
    <3>1. u \in 1 .. Upper(box[s]) /\ box'[s].mail[u] = box[s].mail[u]
      BY <1>2, <2>1, <2>2
    <3>2. box[s].mail[u].at \in Nat /\ box[s].mail[u].at <= clock
      BY <1>1, <3>1, BoxFacts DEF BoxInv
    <3>3. ASSUME NEW v \in u .. Upper(box'[s]) PROVE box[s].mail[u].at <= box'[s].mail[v].at
      <4>1. CASE v <= Upper(box[s])
        <5>1. v \in 1 .. Upper(box[s]) /\ v \in u .. Upper(box[s])
          BY <2>1, <3>1, <3>3, <4>1
        <5>2. box'[s].mail[v] = box[s].mail[v] /\ box[s].mail[u].at <= box[s].mail[v].at
          BY <1>1, <2>1, <3>1, <5>1 DEF BoxInv
        <5> QED
          BY <5>2
      <4>2. CASE ~(v <= Upper(box[s]))
        <5>1. v \in 1 .. Upper(box'[s]) /\ v > Upper(box[s])
          BY <2>1, <3>1, <3>3, <4>2
        <5> QED
          BY <2>1, <3>2, <5>1
      <4> QED
        BY <4>1, <4>2
    <3>4. ASSUME NEW p \in box[s].mail[u].owed
          PROVE  p[1] \in box[s].mail[u].to /\ p[2] <= alias'[p[1]].stamp
      <4>1. p[1] \in Alias /\ p[2] \in Nat /\ p[1] \in box[s].mail[u].to /\ p[2] <= alias[p[1]].stamp
        BY <1>1, <3>1, OwedIs DEF BoxInv
      <4>2. alias[p[1]].stamp \in Nat /\ alias'[p[1]].stamp \in Nat
        BY <1>1, <4>1 DEF FilingTypes
      <4> QED
        BY <4>1, <4>2 DEF SteadyAlias
    <3> QED
      BY <1>1, <3>1, <3>2, <3>3, <3>4
  <2>3. CASE ~(u <= Upper(box[s]))
    <3>1. u > Upper(box[s])
      BY <2>1, <2>3
    <3>2. \A v \in u .. Upper(box'[s]) : box'[s].mail[v].at = clock
      BY <1>2, <2>1, <3>1
    <3>3. box'[s].mail[u].at = clock
      BY <1>2, <2>1, <3>1
    <3> QED
      BY <1>1, <1>2, <3>1, <3>2, <3>3 DEF SteadyMail
  <2> QED
    BY <2>2, <2>3
<1> QED
  BY <1>2 DEF BoxInv, Upper

LEMMA WindowStays ==
    ASSUME FilingTypes, FilingTypes', SteadyMail, NEW s \in Place, NEW c, c.since \in Nat, WindowHolds(c, box[s])
    PROVE  c.since # Unlimited =>
             /\ c.since <= clock'
             /\ \A u \in 1 .. Upper(box'[s]) : u > c.floor => box'[s].mail[u].at >= c.since
<1>1. clock \in Nat /\ clock' \in Nat /\ clock <= clock' /\ Upper(box[s]) \in Nat
  BY BoxFacts DEF FilingTypes, SteadyMail
<1>2. ASSUME c.since # Unlimited, NEW u \in 1 .. Upper(box'[s]), u > c.floor
      PROVE  box'[s].mail[u].at >= c.since
  <2>1. c.since <= clock
    BY <1>2 DEF WindowHolds
  <2>2. CASE u <= Upper(box[s])
    <3>1. u \in 1 .. Upper(box[s])
      BY <1>1, <1>2, <2>2
    <3> QED
      BY <1>2, <3>1 DEF SteadyMail, WindowHolds
  <2>3. CASE ~(u <= Upper(box[s]))
    <3>1. u > Upper(box[s])
      BY <1>1, <1>2, <2>3
    <3> QED
      BY <1>1, <1>2, <2>1, <3>1 DEF SteadyMail
  <2> QED
    BY <2>2, <2>3
<1> QED
  BY <1>1, <1>2 DEF WindowHolds

LEMMA CursorStays ==
    ASSUME FilingInv, FilingTypes', SteadyMail, SteadyAccount, SteadyAlias PROVE CursorInv'
<1>1. FilingTypes /\ CursorInv /\ acct.src \in Place
  BY BehindIs DEF FilingInv
<1>2. Upper(box[acct.src]) \in Nat /\ Upper(box[acct.src]) <= Upper(box'[acct.src])
  BY <1>1, BoxFacts DEF SteadyMail
<1>3. Upper(box'[acct.src]) \in Nat
  BY <1>1 DEF FilingTypes, Upper
<1>4. ASSUME cursor' # None
      PROVE  /\ cursor'.last <= Upper(box'[acct'.src])
             /\ cursor'.since # Unlimited =>
                  /\ cursor'.since <= clock'
                  /\ \A u \in 1 .. Upper(box'[acct'.src]) :
                       u > cursor'.floor => box'[acct'.src].mail[u].at >= cursor'.since
  <2>1. cursor' = cursor /\ acct'.src = acct.src /\ cursor \in Cursor
    BY <1>1, <1>4 DEF SteadyAccount, FilingTypes
  <2>2. cursor.since \in Nat /\ cursor.last \in Nat /\ cursor.last <= Upper(box[acct.src])
        /\ WindowHolds(cursor, box[acct.src])
    BY <1>1, <1>4, <2>1 DEF Cursor, CursorInv
  <2>3. cursor.since # Unlimited =>
          /\ cursor.since <= clock'
          /\ \A u \in 1 .. Upper(box'[acct.src]) : u > cursor.floor => box'[acct.src].mail[u].at >= cursor.since
    BY <1>1, <2>2, WindowStays
  <2>4. cursor.last <= Upper(box'[acct.src])
    BY <1>2, <1>3, <2>2
  <2> QED
    BY <2>1, <2>3, <2>4
<1>5. ASSUME NEW a \in Alias, acursor'[a] # None PROVE acursor'[a].last <= Upper(box'[acct'.src])
  <2>1. acursor'[a] = acursor[a] /\ acct'.src = acct.src /\ acursor[a] \in Cursor
    BY <1>1, <1>5 DEF SteadyAlias, FilingTypes
  <2>2. acursor[a].last \in Nat /\ acursor[a].last <= Upper(box[acct.src])
    BY <1>1, <1>5, <2>1 DEF Cursor, CursorInv
  <2>3. acursor[a].last <= Upper(box'[acct.src])
    BY <1>2, <1>3, <2>2
  <2> QED
    BY <2>1, <2>3
<1> QED
  BY <1>4, <1>5 DEF CursorInv, WindowHolds, Upper, None, Unlimited

(* An observation that still holds has held all the time.                    *)
LEMMA ObservedStays ==
    ASSUME FilingTypes, FilingTypes', Observes, SteadyAccount, SteadyAlias,
           read'.acct = read.acct, read'.known = read.known, read'.kind = read.kind
    PROVE  /\ Observes'
           /\ StillObserved' =>
                /\ StillObserved /\ SameAccount /\ cursor' = cursor
                /\ \A p \in Stamp : p[2] <= alias[p[1]].stamp /\ Present(p)' =>
                     Present(p) /\ Keeps(p[1]) /\ acursor'[p[1]] = acursor[p[1]]
                /\ \A a \in Kept' : a \in Kept /\ a \in Alias /\ Keeps(a) /\ acursor'[a] = acursor[a]
<1>1. /\ acct.config \in Nat /\ acct'.config \in Nat /\ acct.transport \in Nat /\ acct'.transport \in Nat
      /\ read.acct.config \in Nat /\ read.acct.transport \in Nat
  BY DEF FilingTypes, Observes, Account
<1>2. \A p \in Stamp : p[1] \in Alias /\ p[2] \in Nat
  BY DEF Stamp
<1>3. \A a \in Alias : alias[a].stamp \in Nat /\ alias'[a].stamp \in Nat
  BY DEF FilingTypes
<1>4. Observes'
  <2>1. read'.acct.config <= acct'.config /\ read'.acct.transport <= acct'.transport
    BY <1>1 DEF Observes, SteadyAccount
  <2>2. \A p \in read'.known : p[2] <= alias'[p[1]].stamp
    BY <1>2, <1>3 DEF Observes, SteadyAlias
  <2> QED
    BY <2>1, <2>2 DEF Observes
<1>5. ASSUME StillObserved' PROVE StillObserved /\ SameAccount /\ cursor' = cursor
  <2>1. /\ acct'.on = read.acct.on /\ acct'.config = read.acct.config /\ acct'.transport = read.acct.transport
        /\ acct'.src = read.acct.src /\ acct'.good = read.acct.good /\ acct'.on
    BY <1>5 DEF StillObserved, Observed
  <2>2. acct'.config = acct.config /\ acct'.transport = acct.transport
    BY <1>1, <2>1 DEF Observes, SteadyAccount
  <2>3. SameAccount /\ cursor' = cursor
    BY <2>2 DEF SteadyAccount
  <2> QED
    BY <2>1, <2>3 DEF StillObserved, Observed, SameAccount
<1>6. ASSUME SameAccount, NEW a \in Kept'
      PROVE  a \in Kept /\ a \in Alias /\ Keeps(a) /\ acursor'[a] = acursor[a]
  <2>1. PICK p \in read.known : p[1] = a /\ alias'[p[1]].on /\ alias'[p[1]].stamp = p[2]
    BY <1>6 DEF Kept
  <2>2. p \in Stamp /\ p[1] \in Alias /\ p[2] <= alias[p[1]].stamp /\ Present(p)'
    BY <1>2, <2>1 DEF Observes, Present
  <2>3. Present(p) /\ Keeps(p[1]) /\ acursor'[p[1]] = acursor[p[1]]
    BY <1>6, <2>2 DEF SteadyAlias
  <2> QED
    BY <2>1, <2>2, <2>3 DEF Present, Kept
<1> QED
  BY <1>4, <1>5, <1>6 DEF SteadyAlias

LEMMA PreparedStays ==
    ASSUME FilingInv, FilingTypes', Steady PROVE PreparedInv'
<1> SUFFICES ASSUME read'.phase = "prepared" PROVE PreparedInv'
  BY DEF PreparedInv
<1>1. FilingTypes /\ BoxInv /\ PreparedInv /\ read' = read
  BY DEF FilingInv, Steady, SteadyRead
<1>2. Observes /\ SteadyAccount /\ SteadyAlias /\ SteadyMail /\ read.phase = "prepared"
  BY <1>1 DEF PreparedInv, Steady
<1>3. /\ Observes'
      /\ StillObserved' =>
           /\ StillObserved /\ SameAccount /\ cursor' = cursor
           /\ \A p \in Stamp : p[2] <= alias[p[1]].stamp /\ Present(p)' => Present(p)
           /\ \A a \in Kept' : a \in Kept /\ a \in Alias /\ acursor'[a] = acursor[a]
  BY <1>1, <1>2, ObservedStays
<1>4. ASSUME Whole'
      PROVE  /\ read'.prev = cursor'
             /\ \A u \in 1 .. Upper(box'[acct'.src]) : \A p \in box'[acct'.src].mail[u].owed :
                  Present(p)' => p \in read'.known
  <2>1. StillObserved' /\ read.kind \in {"full", "active"} /\ Whole /\ acct'.src = acct.src /\ acct.src \in Place
    BY <1>1, <1>3, <1>4 DEF Whole, SameAccount, FilingTypes, Account
  <2>2. read.prev = cursor /\ cursor' = cursor
    BY <1>2, <1>3, <2>1, <1>1 DEF PreparedInv
  <2>3. ASSUME NEW u \in 1 .. Upper(box'[acct.src]), NEW p \in box'[acct.src].mail[u].owed, Present(p)'
        PROVE  p \in read.known
    <3>1. CASE u <= Upper(box[acct.src])
      <4>1. u \in 1 .. Upper(box[acct.src])
        BY <1>1, <2>1, <2>3, <3>1, BoxFacts
      <4>2. p \in box[acct.src].mail[u].owed
        BY <1>2, <2>1, <2>3, <4>1 DEF SteadyMail
      <4>3. p \in Stamp /\ p[2] <= alias[p[1]].stamp
        BY <1>1, <2>1, <4>1, <4>2, OwedIs DEF BoxInv
      <4>4. Present(p)
        BY <1>3, <2>1, <2>3, <4>3
      <4> QED
        BY <1>1, <1>2, <2>1, <4>1, <4>2, <4>4 DEF PreparedInv
    <3>2. CASE ~(u <= Upper(box[acct.src]))
      <4>1. u > Upper(box[acct.src])
        BY <1>1, <2>1, <2>3, <3>2, BoxFacts
      <4> QED
        BY <1>2, <2>1, <2>3, <4>1 DEF SteadyMail
    <3> QED
      BY <3>1, <3>2
  <2> QED
    BY <1>1, <2>1, <2>2, <2>3
<1>5. ASSUME NEW a \in Alias, Single(a)' PROVE read'.prev = acursor'[a]
  <2>1. Single(a) /\ acursor'[a] = acursor[a]
    BY <1>1, <1>3, <1>5 DEF Single
  <2> QED
    BY <1>1, <1>2, <2>1 DEF PreparedInv
<1>6. read'.target = {p[1] : p \in read'.known} /\ read'.prev \in Cursor \cup {None}
  BY <1>1, <1>2 DEF PreparedInv
<1> QED
  BY <1>3, <1>4, <1>5, <1>6 DEF PreparedInv, Upper, Cursor, None

LEMMA FetchedStays ==
    ASSUME FilingInv, FilingTypes', Steady PROVE FetchedInv'
<1> SUFFICES ASSUME read'.phase \in {"fetched", "staged"} PROVE FetchedInv'
  BY DEF FetchedInv
<1>1. FilingTypes /\ BoxInv /\ FetchedInv /\ read.phase \in {"fetched", "staged"}
      /\ read'.kind = read.kind /\ read'.acct = read.acct /\ read'.known = read.known
      /\ read'.result = read.result
  BY DEF FilingInv, Steady, SteadyRead
<1>2. /\ Observes /\ SteadyAccount /\ SteadyAlias /\ SteadyMail
      /\ read.result \in Result /\ read.result.last <= Upper(Source)
  BY <1>1 DEF FetchedInv, Steady
<1>3. read.acct.src \in Place /\ acct.src \in Place
      /\ (StillObserved => read.acct.src = acct.src)
  BY <1>1, <1>2, SourceIs DEF Observes
<1>4. /\ Observes'
      /\ StillObserved' =>
           /\ StillObserved /\ SameAccount /\ cursor' = cursor
           /\ \A p \in Stamp : p[2] <= alias[p[1]].stamp /\ Present(p)' => Present(p) /\ Keeps(p[1])
           /\ \A a \in Kept' : a \in Kept /\ a \in Alias /\ Keeps(a)
  BY <1>1, <1>2, ObservedStays
<1> DEFINE s == read.acct.src
           r == read.result
<1>5. /\ r.last \in Nat /\ r.floor \in Nat /\ r.since \in Nat
      /\ Upper(box[s]) \in Nat /\ r.last <= Upper(box[s])
  BY <1>1, <1>2, <1>3, BoxFacts DEF Result, Source
<1>6. /\ Upper(box[s]) <= Upper(box'[s]) /\ Len(box'[s].mail) \in Nat
      /\ \A u \in 1 .. Upper(box[s]) : box'[s].mail[u] = box[s].mail[u]
  BY <1>2, <1>3 DEF SteadyMail, FilingTypes
<1>7. r.last <= Upper(box'[s])
  BY <1>5, <1>6 DEF Upper
<1>8. \A u \in r.floor + 1 .. r.last : u \in 1 .. Upper(box[s]) /\ box'[s].mail[u] = box[s].mail[u]
  BY <1>5, <1>6
<1>9. ASSUME Whole'
      PROVE  /\ r.since # Unlimited =>
                  /\ r.since <= clock'
                  /\ \A u \in 1 .. Upper(box'[s]) : u > r.floor => box'[s].mail[u].at >= r.since
             /\ \A u \in r.floor + 1 .. r.last : \A p \in box'[s].mail[u].owed :
                  Present(p)' => \/ \A g : g = r.gen => FiledFor(p[1], g, u)'
                                 \/ p \in read.known /\ u \in r.msgs
  <2>1. StillObserved' /\ Whole
    BY <1>1, <1>4, <1>9 DEF Whole
  <2>2. WindowHolds(r, box[s])
    BY <1>1, <2>1 DEF FetchedInv, Source
  <2>3. r.since # Unlimited =>
          /\ r.since <= clock'
          /\ \A u \in 1 .. Upper(box'[s]) : u > r.floor => box'[s].mail[u].at >= r.since
    BY <1>1, <1>2, <1>3, <1>5, <2>2, WindowStays
  <2>4. ASSUME NEW u \in r.floor + 1 .. r.last, NEW p \in box'[s].mail[u].owed, Present(p)'
        PROVE  \/ \A g : g = r.gen => FiledFor(p[1], g, u)'
               \/ p \in read.known /\ u \in r.msgs
    <3>1. u \in 1 .. Upper(box[s]) /\ p \in box[s].mail[u].owed
      BY <1>8, <2>4
    <3>2. p \in Stamp /\ p[2] <= alias[p[1]].stamp
      BY <1>1, <1>3, <3>1, OwedIs DEF BoxInv
    <3>3. Present(p) /\ Keeps(p[1])
      BY <1>4, <2>1, <2>4, <3>2
    <3>4. FiledFor(p[1], r.gen, u) \/ (p \in read.known /\ u \in r.msgs)
      BY <1>1, <2>1, <2>4, <3>1, <3>3 DEF FetchedInv, Source
    <3> QED
      BY <3>3, <3>4 DEF Keeps
  <2> QED
    BY <2>3, <2>4
<1>10. ASSUME NEW a \in Alias, Single(a)', NEW u \in r.floor + 1 .. r.last, a \in box'[s].mail[u].to
       PROVE  (\A g : g = r.gen => FiledFor(a, g, u)') \/ u \in r.msgs
  <2>1. Single(a) /\ Keeps(a)
    BY <1>1, <1>4, <1>10 DEF Single
  <2>2. a \in box[s].mail[u].to
    BY <1>8, <1>10
  <2>3. FiledFor(a, r.gen, u) \/ u \in r.msgs
    BY <1>1, <1>10, <2>1, <2>2 DEF FetchedInv, Source
  <2> QED
    BY <2>1, <2>3 DEF Keeps
<1>11. Whole' => /\ WindowHolds(read.result, Source)'
                 /\ \A u \in read'.result.floor + 1 .. read'.result.last : \A p \in Source'.mail[u].owed :
                      Present(p)' => \/ FiledFor(p[1], read.result.gen, u)'
                                     \/ p \in read'.known /\ u \in read'.result.msgs
  BY <1>1, <1>9 DEF WindowHolds, Source, FiledFor, RowOf, Upper, Unlimited
<1>12. \A a \in Alias : Single(a)' =>
          \A u \in read'.result.floor + 1 .. read'.result.last :
             a \in Source'.mail[u].to => FiledFor(a, read.result.gen, u)' \/ u \in read'.result.msgs
  BY <1>1, <1>10 DEF Source, FiledFor, RowOf
<1>13. read'.result \in Result' /\ read'.result.last <= Upper(Source')
  BY <1>1, <1>2, <1>7 DEF Result, Source
<1> QED
  BY <1>4, <1>11, <1>12, <1>13 DEF FetchedInv, Upper, Source, Result

LEMMA SteadyKeeps ==
    ASSUME FilingInv, FilingTypes', Steady PROVE FilingInv'
<1>1. SteadyMail /\ SteadyAccount /\ SteadyAlias
  BY DEF Steady
<1> QED
  BY <1>1, FiledStays, BoxStays, CursorStays, PreparedStays, FetchedStays DEF FilingInv

-----------------------------------------------------------------------------
(* Which steps are steady.                                                   *)

LEMMA CalmSteady ==
    ASSUME FilingTypes, UNCHANGED <<alias, cursor, acursor>>, clock <= clock', SameAccount,
           \A s \in Place : box'[s].mail = box[s].mail, \A a : Keeps(a), SteadyRead
    PROVE  Steady
<1>1. SteadyMail
  <2>1. ASSUME NEW s \in Place PROVE Upper(box[s]) \in Nat /\ Upper(box'[s]) = Upper(box[s])
    BY BoxFacts DEF Upper
  <2>2. ASSUME NEW s \in Place, NEW u \in 1 .. Upper(box'[s]), u > Upper(box[s]) PROVE FALSE
    BY <2>1, <2>2
  <2> QED
    BY <2>1, <2>2 DEF SteadyMail
<1>2. SteadyAccount
  BY DEF SteadyAccount, SameAccount, FilingTypes, Account
<1>3. SteadyAlias
  <2>1. \A a \in Alias : alias[a].stamp \in Nat
    BY DEF FilingTypes
  <2>2. \A p : Present(p)' => Present(p)
    BY DEF Present
  <2>3. \A a \in Alias : alias[a].stamp <= alias'[a].stamp
    BY <2>1
  <2> QED
    BY <2>2, <2>3 DEF SteadyAlias, SameAccount
<1> QED
  BY <1>1, <1>2, <1>3 DEF Steady

LEMMA TypesStay ==
    ASSUME FilingTypes, UNCHANGED <<clock, box, acct, alias, cursor, acursor>>,
           UNCHANGED edit \/ edit' = None \/ edit'.kind # "renamed" \/ acct.src < Sources
    PROVE  FilingTypes'
<1>1. edit'.kind = "renamed" => acct'.src < Sources
  BY DEF FilingTypes, None
<1> QED
  BY <1>1 DEF FilingTypes, Account, Cursor, Mail, Stamp, Place, None

LEMMA ReadingFiles ==
    ASSUME MailInv, FilingInv,
           Refused \/ Abandon \/ RecordRefusal \/ Stage \/ Discard \/ Finish
    PROVE  FilingInv'
<1>1. FilingTypes /\ acct \in Account /\ clock \in Nat
  BY DEF FilingInv, FilingTypes
<1>2. UNCHANGED <<clock, box, alias, cursor, acursor, rows, edit>>
  BY DEF Refused, Abandon, RecordRefusal, Stage, Discard, Finish, mailVars, diskVars
<1>3. \A a : Keeps(a)
  BY <1>2 DEF Keeps, FiledFor, RowOf
<1>4. SteadyRead
  <2>1. CASE Refused
    BY <2>1 DEF Refused, SteadyRead, MailInv, AccountInv, IsPrepared
  <2>2. CASE Abandon \/ RecordRefusal \/ Discard \/ Finish
    BY <2>2 DEF Abandon, RecordRefusal, Discard, Finish, SteadyRead, Idle
  <2>3. CASE Stage
    BY <2>3 DEF Stage, SteadyRead, Idle
  <2> QED
    BY <2>1, <2>2, <2>3
<1>5. SameAccount /\ acct' \in Account
  <2>1. CASE RecordRefusal
    BY <1>1, <2>1 DEF RecordRefusal, SameAccount, Account
  <2>2. CASE ~RecordRefusal
    <3>1. UNCHANGED acct
      BY <2>2 DEF Refused, Abandon, Stage, Discard, Finish, mailVars
    <3> QED
      BY <1>1, <3>1 DEF SameAccount
  <2> QED
    BY <2>1, <2>2
<1>6. FilingTypes'
  BY <1>1, <1>2, <1>5 DEF FilingTypes, SameAccount, Account, Cursor, Mail, Stamp, Place, None
<1>7. Steady
  BY <1>1, <1>2, <1>3, <1>4, <1>5, CalmSteady
<1> QED
  BY <1>6, <1>7, SteadyKeeps

(* Quarantine, eviction, and the stop and start of the process.              *)
LEMMA ArchiveFiles ==
    ASSUME MailInv, FilingInv,
           \/ QuarantineArchive \/ DiscardQuarantine \/ RestoreQuarantine
           \/ (\E r \in rows : EvictFile(r)) \/ EvictRow \/ Crash \/ Startup
    PROVE  FilingInv'
<1>1. FilingTypes /\ clock \in Nat
  BY DEF FilingInv, FilingTypes
<1>2. UNCHANGED <<clock, box, acct, alias, cursor, acursor>>
  BY DEF QuarantineArchive, DiscardQuarantine, RestoreQuarantine, EvictFile, EvictRow, Crash, Startup, mailVars
<1>3. UNCHANGED edit \/ edit' = None \/ acct.src < Sources
  BY DEF QuarantineArchive, DiscardQuarantine, RestoreQuarantine, EvictFile, EvictRow, Crash, Startup
<1>4. SteadyRead
  <2>1. CASE Crash \/ Startup
    BY <2>1 DEF Crash, Startup, SteadyRead, Idle, Down
  <2>2. CASE ~Crash /\ ~Startup
    <3>1. UNCHANGED read
      BY <2>2 DEF QuarantineArchive, DiscardQuarantine, RestoreQuarantine, EvictFile, EvictRow
    <3> QED
      BY <3>1 DEF SteadyRead
  <2> QED
    BY <2>1, <2>2
<1>5. ASSUME NEW r \in rows, NEW state
      PROVE  Lost(r, state).gen = r.gen /\ Lost(r, state).uid = r.uid /\ Lost(r, state).aliases = r.aliases
  <2>1. IsRow(r)
    BY DEF MailInv, RowsInv, Sound
  <2> QED
    BY <2>1 DEF IsRow, Lost
<1>6. RowsRemain({})
  <2>1. CASE EvictRow
    <3> SUFFICES ASSUME NEW r \in rows
                 PROVE  \E q \in rows' : q.gen = r.gen /\ q.uid = r.uid /\ r.aliases \ {} \subseteq q.aliases
      BY DEF RowsRemain
    <3> DEFINE q == IF r.state = "available" /\ <<r.gen, r.uid, r.src>> = <<evict.gen, evict.uid, evict.src>>
                    THEN Lost(r, "evicted") ELSE r
    <3>1. q \in rows'
      BY <2>1 DEF EvictRow
    <3>2. q.gen = r.gen /\ q.uid = r.uid /\ r.aliases \ {} \subseteq q.aliases
      BY <1>5
    <3> QED
      BY <3>1, <3>2
  <2>2. CASE Startup
    <3> SUFFICES ASSUME NEW r \in rows
                 PROVE  \E q \in rows' : q.gen = r.gen /\ q.uid = r.uid /\ r.aliases \ {} \subseteq q.aliases
      BY DEF RowsRemain
    <3> DEFINE q == IF r.state = "available" /\ r.path \notin DOMAIN Recovered THEN Lost(r, "missing") ELSE r
    <3>1. q \in rows'
      BY <2>2 DEF Startup
    <3>2. q.gen = r.gen /\ q.uid = r.uid /\ r.aliases \ {} \subseteq q.aliases
      BY <1>5
    <3> QED
      BY <3>1, <3>2
  <2>3. CASE ~EvictRow /\ ~Startup
    <3>1. UNCHANGED rows
      BY <2>3 DEF QuarantineArchive, DiscardQuarantine, RestoreQuarantine, EvictFile, Crash
    <3> QED
      BY <3>1 DEF RowsRemain
  <2> QED
    BY <2>1, <2>2, <2>3
<1>7. \A a : Keeps(a)
  <2>1. \A a : a \notin {} => Keeps(a)
    BY <1>6, RowsKeep
  <2> QED
    BY <2>1
<1>8. FilingTypes'
  BY <1>1, <1>2, <1>3, TypesStay
<1>9. Steady
  BY <1>1, <1>2, <1>4, <1>7, CalmSteady DEF SameAccount
<1> QED
  BY <1>8, <1>9, SteadyKeeps

LEMMA TickFiles == ASSUME FilingInv, Tick PROVE FilingInv'
<1>1. FilingTypes /\ clock \in Nat /\ clock' = clock + 1 /\ UNCHANGED <<mailVars, diskVars, read, edit>>
  BY DEF FilingInv, FilingTypes, Tick
<1>2. \A a : Keeps(a)
  BY <1>1 DEF Keeps, FiledFor, RowOf, diskVars
<1>3. FilingTypes'
  <2>1. clock' \in Nat /\ clock' > Window
    BY <1>1, MailConstants DEF FilingTypes
  <2> QED
    BY <1>1, <2>1 DEF FilingTypes, mailVars, Account, Cursor, Mail, Stamp, Place, None
<1>4. Steady
  BY <1>1, <1>2, CalmSteady DEF mailVars, SameAccount, SteadyRead
<1> QED
  BY <1>3, <1>4, SteadyKeeps

LEMMA RenumberFiles == ASSUME FilingInv, Renumber PROVE FilingInv'
<1>1. /\ FilingTypes /\ clock \in Nat /\ acct.src \in Place /\ box \in [Place -> [gen : Nat, mail : Seq(Mail)]]
      /\ box' = [box EXCEPT ![acct.src].gen = @ + 1]
      /\ UNCHANGED <<clock, acct, alias, cursor, acursor, diskVars, read, edit>>
  BY DEF FilingInv, FilingTypes, Renumber, Account
<1>2. \A a : Keeps(a)
  BY <1>1 DEF Keeps, FiledFor, RowOf, diskVars
<1>3. \A s \in Place : box'[s].mail = box[s].mail
  BY <1>1
<1>4. box' \in [Place -> [gen : Nat, mail : Seq(Mail)]]
  <2>1. ASSUME NEW s \in Place PROVE box'[s] \in [gen : Nat, mail : Seq(Mail)]
    <3>1. box[s] \in [gen : Nat, mail : Seq(Mail)]
      BY <1>1
    <3>2. box'[s] = box[s] \/ box'[s] = [box[s] EXCEPT !.gen = box[s].gen + 1]
      BY <1>1
    <3> QED
      BY <3>1, <3>2
  <2>2. box' = [s \in Place |-> box'[s]]
    BY <1>1
  <2> QED
    BY <2>1, <2>2
<1>5. FilingTypes'
  BY <1>1, <1>4 DEF FilingTypes, Account, Cursor, Mail, Stamp, Place, None
<1>6. Steady
  BY <1>1, <1>2, <1>3, CalmSteady DEF SameAccount, SteadyRead
<1> QED
  BY <1>5, <1>6, SteadyKeeps

LEMMA WithdrawnRow ==
    ASSUME NEW row \in Account, Withdraw(row)
    PROVE  /\ acct' \in Account /\ acct'.src = row.src
           /\ acct'.config = row.config + 1 /\ acct'.transport = row.transport
<1>1. row.config + 1 \in Nat /\ acct' = [row EXCEPT !.paused = FALSE, !.config = row.config + 1]
  BY DEF Account, Withdraw
<1>2. acct' \in Account
  BY <1>1 DEF Account
<1>3. acct'.src = row.src /\ acct'.config = row.config + 1 /\ acct'.transport = row.transport
  BY <1>1 DEF Account
<1> QED
  BY <1>2, <1>3

(* Edits of the account: every observation made before them is stale, and    *)
(* the cursors stay, or are withdrawn with the settings they belong to.      *)
LEMMA AccountEditFiles ==
    ASSUME FilingInv,
           \/ (\E good \in BOOLEAN : ChangePassword(good)) \/ EnableAccount
           \/ DisableAccount \/ SwitchTransport \/ CommitSource
    PROVE  FilingInv'
<1>1. FilingTypes /\ acct \in Account /\ clock \in Nat
  BY DEF FilingInv, FilingTypes
<1>2. UNCHANGED <<clock, box, alias, read>>
  BY DEF ChangePassword, EnableAccount, DisableAccount, SwitchTransport, CommitSource
<1>3. CASE (\E good \in BOOLEAN : ChangePassword(good)) \/ EnableAccount \/ CommitSource
  <2>1. cursor' = None /\ acursor' = [a \in Alias |-> None]
    BY <1>3 DEF ChangePassword, EnableAccount, CommitSource, Withdraw
  <2>2. acct' \in Account /\ acct'.config = acct.config + 1 /\ acct'.transport = acct.transport
        /\ (edit'.kind = "renamed" => acct'.src < Sources)
    <3>1. CASE \E good \in BOOLEAN : ChangePassword(good)
      <4>1. PICK good \in BOOLEAN : ChangePassword(good)
        BY <3>1
      <4> DEFINE row == [acct EXCEPT !.good = good]
      <4>2. row \in Account /\ row.src = acct.src /\ row.config = acct.config /\ row.transport = acct.transport
        BY <1>1 DEF Account
      <4>3. Withdraw(row) /\ UNCHANGED edit
        BY <4>1 DEF ChangePassword
      <4> HIDE DEF row
      <4> QED
        BY <1>1, <4>2, <4>3, WithdrawnRow DEF FilingTypes
    <3>2. CASE EnableAccount
      <4> DEFINE row == [acct EXCEPT !.on = TRUE]
      <4>1. row \in Account /\ row.src = acct.src /\ row.config = acct.config /\ row.transport = acct.transport
        BY <1>1 DEF Account
      <4>2. Withdraw(row) /\ UNCHANGED edit
        BY <3>2 DEF EnableAccount
      <4> HIDE DEF row
      <4> QED
        BY <1>1, <4>1, <4>2, WithdrawnRow DEF FilingTypes
    <3>3. CASE CommitSource
      <4> DEFINE row == [acct EXCEPT !.src = acct.src + 1]
      <4>1. acct.src \in Place /\ acct.src < Sources /\ Sources \in Nat
        BY <1>1, <3>3, MailConstants DEF CommitSource, FilingTypes, Account
      <4>2. acct.src + 1 \in Place
        BY <4>1 DEF Place
      <4>3. row \in Account /\ row.config = acct.config /\ row.transport = acct.transport
        BY <1>1, <4>2 DEF Account
      <4>4. Withdraw(row) /\ edit'.kind = "committed"
        BY <3>3 DEF CommitSource
      <4> HIDE DEF row
      <4> QED
        BY <4>3, <4>4, WithdrawnRow
    <3> QED
      BY <1>3, <3>1, <3>2, <3>3
  <2>3. FilingTypes'
    BY <1>1, <1>2, <2>1, <2>2 DEF FilingTypes, Account, Cursor, Mail, Stamp, Place, None
  <2>4. acct'.config # acct.config /\ acct.config <= acct'.config /\ acct.transport <= acct'.transport
    BY <1>1, <2>2 DEF Account
  <2>5. SteadyAccount /\ ~SameAccount
    BY <2>1, <2>4 DEF SteadyAccount, SameAccount
  <2>6. SteadyAlias
    <3>1. \A a \in Alias : alias[a].stamp \in Nat
      BY <1>1 DEF FilingTypes
    <3>2. \A a \in Alias : alias[a].stamp <= alias'[a].stamp /\ acursor'[a] = None
      BY <1>2, <2>1, <3>1
    <3> QED
      BY <2>1, <2>5, <3>2 DEF SteadyAlias
  <2>7. SteadyMail /\ SteadyRead
    <3>1. ASSUME NEW s \in Place PROVE Upper(box[s]) \in Nat /\ Upper(box'[s]) = Upper(box[s])
      BY <1>1, <1>2, BoxFacts
    <3>2. ASSUME NEW s \in Place, NEW u \in 1 .. Upper(box'[s]), u > Upper(box[s]) PROVE FALSE
      BY <3>1, <3>2
    <3> QED
      BY <1>1, <1>2, <3>1, <3>2 DEF SteadyMail, SteadyRead
  <2> QED
    BY <2>3, <2>5, <2>6, <2>7, SteadyKeeps DEF Steady
<1>4. CASE DisableAccount \/ SwitchTransport
  <2>1. UNCHANGED <<cursor, acursor, rows, edit>>
    BY <1>4 DEF DisableAccount, SwitchTransport, diskVars
  <2>2. /\ acct' \in Account /\ acct'.src = acct.src
        /\ acct.config <= acct'.config /\ acct.transport <= acct'.transport
        /\ acct'.config # acct.config \/ acct'.transport # acct.transport
    <3> DEFINE changed == \/ acct' = [acct EXCEPT !.on = FALSE, !.config = acct.config + 1]
                          \/ acct' = [acct EXCEPT !.web = ~acct.web, !.transport = acct.transport + 1]
    <3>1. changed
      BY <1>4 DEF DisableAccount, SwitchTransport
    <3>2. acct.config + 1 \in Nat /\ acct.transport + 1 \in Nat /\ acct.config \in Nat /\ acct.transport \in Nat
      BY <1>1 DEF Account
    <3>3. acct' \in Account
      BY <1>1, <3>1, <3>2 DEF Account
    <3>4. acct'.src = acct.src
          /\ \/ acct'.config = acct.config + 1 /\ acct'.transport = acct.transport
             \/ acct'.transport = acct.transport + 1 /\ acct'.config = acct.config
      BY <1>1, <3>1 DEF Account
    <3> QED
      BY <3>2, <3>3, <3>4
  <2>3. FilingTypes'
    BY <1>1, <1>2, <2>1, <2>2 DEF FilingTypes, Account, Cursor, Mail, Stamp, Place, None
  <2>4. SteadyAccount /\ ~SameAccount
    BY <2>1, <2>2 DEF SteadyAccount, SameAccount
  <2>5. \A a : Keeps(a)
    BY <2>1 DEF Keeps, FiledFor, RowOf
  <2>6. SteadyAlias
    <3>1. \A a \in Alias : alias[a].stamp \in Nat
      BY <1>1 DEF FilingTypes
    <3>2. \A a \in Alias : alias[a].stamp <= alias'[a].stamp
      BY <1>2, <3>1
    <3>3. \A p : Present(p)' => Present(p)
      BY <1>2 DEF Present
    <3> QED
      BY <2>1, <2>2, <2>4, <2>5, <3>2, <3>3 DEF SteadyAlias
  <2>7. SteadyMail /\ SteadyRead
    <3>1. ASSUME NEW s \in Place PROVE Upper(box[s]) \in Nat /\ Upper(box'[s]) = Upper(box[s])
      BY <1>1, <1>2, BoxFacts
    <3>2. ASSUME NEW s \in Place, NEW u \in 1 .. Upper(box'[s]), u > Upper(box[s]) PROVE FALSE
      BY <3>1, <3>2
    <3> QED
      BY <1>1, <1>2, <3>1, <3>2 DEF SteadyMail, SteadyRead
  <2> QED
    BY <2>3, <2>4, <2>6, <2>7, SteadyKeeps DEF Steady
<1> QED
  BY <1>3, <1>4

(* Edits of one alias: its stamp moves on, so nothing owed to it, and no     *)
(* read that knew it, counts any longer.                                    *)
LEMMA AliasEditFiles ==
    ASSUME MailInv, FilingInv, NEW a \in Alias,
           EnableAlias(a) \/ DisableAlias(a) \/ DeleteAlias(a)
    PROVE  FilingInv'
<1>1. FilingTypes /\ acct \in Account /\ clock \in Nat /\ alias \in [Alias -> [on : BOOLEAN, stamp : Nat]]
      /\ acursor \in [Alias -> Cursor \cup {None}]
  BY DEF FilingInv, FilingTypes
<1>2. UNCHANGED <<clock, box, acct, cursor, read, edit>>
  BY DEF EnableAlias, DisableAlias, DeleteAlias
<1>3. PICK on \in BOOLEAN : alias' = [alias EXCEPT ![a] = [on |-> on, stamp |-> @.stamp + 1]]
  BY DEF EnableAlias, DisableAlias, DeleteAlias, SetAlias
<1>4. /\ \/ UNCHANGED acursor /\ RowsRemain({})
         \/ acursor' = [acursor EXCEPT ![a] = None]
      /\ RowsRemain({a})
  <2>1. CASE EnableAlias(a) \/ DisableAlias(a)
    <3>1. UNCHANGED <<acursor, rows>>
      BY <2>1 DEF EnableAlias, DisableAlias, diskVars
    <3> QED
      BY <3>1 DEF RowsRemain
  <2>2. CASE DeleteAlias(a)
    <3>1. acursor' = [acursor EXCEPT ![a] = None] /\ rows' = {[r EXCEPT !.aliases = r.aliases \ {a}] : r \in rows}
      BY <2>2 DEF DeleteAlias
    <3>2. ASSUME NEW r \in rows
          PROVE  \E q \in rows' : q.gen = r.gen /\ q.uid = r.uid /\ r.aliases \ {a} \subseteq q.aliases
      <4> DEFINE q == [r EXCEPT !.aliases = r.aliases \ {a}]
      <4>1. IsRow(r)
        BY DEF MailInv, RowsInv, Sound
      <4>2. q.gen = r.gen /\ q.uid = r.uid /\ q.aliases = r.aliases \ {a}
        BY <4>1 DEF IsRow
      <4>3. q \in rows'
        BY <3>1
      <4> QED
        BY <4>2, <4>3
    <3> QED
      BY <3>1, <3>2 DEF RowsRemain
  <2> QED
    BY <2>1, <2>2
<1>5. FilingTypes'
  <2>1. alias[a].stamp + 1 \in Nat
    BY <1>1
  <2>2. alias' \in [Alias -> [on : BOOLEAN, stamp : Nat]]
    BY <1>1, <1>3, <2>1
  <2>3. acursor' \in [Alias -> Cursor \cup {None}]
    BY <1>1, <1>4
  <2> QED
    BY <1>1, <1>2, <2>2, <2>3 DEF FilingTypes, Account, Cursor, Mail, Stamp, Place, None
<1>6. alias'[a].stamp = alias[a].stamp + 1 /\ \A b \in Alias : b # a => alias'[b] = alias[b]
  BY <1>1, <1>3
<1>7. \A b : b # a => Keeps(b)
  <2>1. \A b : b \notin {a} => Keeps(b)
    BY <1>4, RowsKeep
  <2> QED
    BY <2>1
<1>8. acursor'[a] # None => acursor' = acursor /\ Keeps(a)
  <2>1. RowsRemain({}) => \A b : b \notin {} => Keeps(b)
    BY RowsKeep
  <2> QED
    BY <1>1, <1>4, <2>1
<1>9. \A b \in Alias : b # a => acursor'[b] = acursor[b]
  BY <1>1, <1>4
<1>10. ASSUME NEW p \in Stamp, p[2] <= alias[p[1]].stamp, Present(p)' PROVE p[1] # a /\ p[1] \in Alias /\ Present(p)
  <2>1. p[1] \in Alias /\ p[2] \in Nat /\ alias[p[1]].stamp \in Nat /\ alias[a].stamp \in Nat
    BY <1>1 DEF Stamp
  <2>2. alias'[p[1]].on /\ alias'[p[1]].stamp = p[2]
    BY <1>10 DEF Present
  <2>3. p[1] # a
    BY <1>6, <1>10, <2>1, <2>2
  <2> QED
    BY <1>6, <2>1, <2>2, <2>3 DEF Present
<1>11. SteadyAlias
  <2>1. \A b \in Alias : alias[b].stamp <= alias'[b].stamp
    <3>1. \A b \in Alias : alias[b].stamp \in Nat
      BY <1>1
    <3> QED
      BY <1>6, <3>1
  <2>2. \A b \in Alias : acursor'[b] # None => acursor'[b] = acursor[b] /\ acct'.src = acct.src /\ Keeps(b)
    BY <1>2, <1>7, <1>8, <1>9
  <2> QED
    BY <1>7, <1>9, <1>10, <2>1, <2>2 DEF SteadyAlias
<1>12. SteadyMail /\ SteadyRead /\ SteadyAccount
  <2>1. ASSUME NEW s \in Place PROVE Upper(box[s]) \in Nat /\ Upper(box'[s]) = Upper(box[s])
    BY <1>1, <1>2, BoxFacts
  <2>2. ASSUME NEW s \in Place, NEW u \in 1 .. Upper(box'[s]), u > Upper(box[s]) PROVE FALSE
    BY <2>1, <2>2
  <2>3. SteadyMail
    BY <1>1, <1>2, <2>1, <2>2 DEF SteadyMail
  <2>4. SteadyRead /\ SteadyAccount
    BY <1>1, <1>2 DEF SteadyRead, SteadyAccount, SameAccount, Account
  <2> QED
    BY <2>3, <2>4
<1> QED
  BY <1>5, <1>11, <1>12, SteadyKeeps DEF Steady

(* Mail arrives behind everything else, and is owed only to recipients that  *)
(* a read under way has observed.                                           *)
LEMMA ArriveFiles == ASSUME FilingInv, NEW to \in SUBSET Alias, Arrive(to) PROVE FilingInv'
<1> DEFINE enabled == Stamped(to \cap Enabled)
           owed == IF read.phase = "prepared" /\ read.kind \in {"full", "active"}
                   THEN enabled \cap read.known ELSE enabled
           new == [to |-> to, at |-> clock, owed |-> owed]
           s == acct.src
<1>1. /\ FilingTypes /\ s \in Place /\ clock \in Nat
      /\ box \in [Place -> [gen : Nat, mail : Seq(Mail)]]
      /\ alias \in [Alias -> [on : BOOLEAN, stamp : Nat]]
  BY DEF FilingInv, FilingTypes, Account
<1>2. /\ box' = [box EXCEPT ![s].mail = Append(box[s].mail, new)]
      /\ UNCHANGED <<clock, acct, alias, cursor, acursor, diskVars, read, edit>>
  BY DEF Arrive
<1>3. ASSUME NEW p \in owed
      PROVE  /\ p \in Stamp /\ p[1] \in to /\ p[1] \in Alias /\ p[2] = alias[p[1]].stamp
             /\ read.phase = "prepared" /\ read.kind \in {"full", "active"} => p \in read.known
  <2>1. p \in enabled
    OBVIOUS
  <2>2. PICK a \in to \cap Enabled : p = <<a, alias[a].stamp>>
    BY <2>1 DEF Stamped
  <2>3. a \in to /\ a \in Alias /\ p[1] = a /\ p[2] = alias[a].stamp /\ alias[a].stamp \in Nat
    BY <1>1, <2>2
  <2>4. p \in Stamp
    BY <2>2, <2>3 DEF Stamp
  <2> QED
    BY <2>3, <2>4
<1>4. owed \in SUBSET Stamp
  <2> HIDE DEF owed
  <2> QED
    BY <1>3
<1> HIDE DEF owed
<1>5. new \in Mail
  BY <1>1, <1>4 DEF Mail
<1>6. new.at = clock /\ new.to = to /\ new.owed = owed
  OBVIOUS
<1> HIDE DEF new
<1>7. box[s].mail \in Seq(Mail) /\ Upper(box[s]) \in Nat
  BY <1>1, BoxFacts
<1>8. box'[s] = [box[s] EXCEPT !.mail = Append(box[s].mail, new)]
  BY <1>1, <1>2
<1>9. box'[s].mail = Append(box[s].mail, new) /\ box'[s] \in [gen : Nat, mail : Seq(Mail)]
  <2>1. Append(box[s].mail, new) \in Seq(Mail)
    BY <1>5, <1>7
  <2>2. box[s] \in [gen : Nat, mail : Seq(Mail)]
    BY <1>1
  <2> HIDE DEF s
  <2> QED
    BY <1>8, <2>1, <2>2
<1>10. \A t \in Place : t # s => box'[t] = box[t]
  BY <1>1, <1>2
<1>11. /\ Upper(box'[s]) = Upper(box[s]) + 1
       /\ box'[s].mail[Upper(box[s]) + 1] = new
       /\ \A u \in 1 .. Upper(box[s]) : box'[s].mail[u] = box[s].mail[u]
  BY <1>5, <1>7, <1>9 DEF Upper
<1>12. FilingTypes'
  <2>1. \A t \in Place : box'[t] \in [gen : Nat, mail : Seq(Mail)]
    BY <1>1, <1>9, <1>10
  <2>2. box' = [t \in Place |-> box'[t]]
    BY <1>1, <1>2
  <2>3. box' \in [Place -> [gen : Nat, mail : Seq(Mail)]]
    BY <2>1, <2>2
  <2> QED
    BY <1>1, <1>2, <2>3 DEF FilingTypes, Account, Cursor, Mail, Stamp, Place, None
<1>13. SteadyMail
  <2>1. ASSUME NEW t \in Place
        PROVE  /\ Upper(box[t]) <= Upper(box'[t])
               /\ \A u \in 1 .. Upper(box[t]) : box'[t].mail[u] = box[t].mail[u]
               /\ \A u \in 1 .. Upper(box'[t]) : u > Upper(box[t]) => t = s /\ u = Upper(box[s]) + 1
    <3>1. CASE t = s
      BY <1>7, <1>11, <3>1
    <3>2. CASE t # s
      <4>1. box'[t] = box[t] /\ Upper(box[t]) \in Nat
        BY <1>1, <1>10, <3>2, BoxFacts
      <4> HIDE DEF s
      <4> QED
        BY <4>1
    <3> QED
      BY <3>1, <3>2
  <2>2. /\ new.at = clock
        /\ \A p \in new.owed :
             /\ p[1] \in new.to /\ p[1] \in Alias /\ p[2] <= alias'[p[1]].stamp
             /\ read'.phase = "prepared" /\ read.kind \in {"full", "active"} => p \in read.known
    <3> SUFFICES ASSUME NEW p \in owed
                 PROVE  /\ p[1] \in to /\ p[1] \in Alias /\ p[2] <= alias'[p[1]].stamp
                        /\ read'.phase = "prepared" /\ read.kind \in {"full", "active"} => p \in read.known
      BY <1>6
    <3>1. p[2] = alias'[p[1]].stamp /\ p[1] \in Alias /\ alias[p[1]].stamp \in Nat
      BY <1>1, <1>2, <1>3
    <3> QED
      BY <1>2, <1>3, <3>1
  <2>3. clock <= clock'
    BY <1>1, <1>2
  <2>4. ASSUME NEW t \in Place, NEW u \in 1 .. Upper(box'[t]), u > Upper(box[t])
        PROVE  box'[t].mail[u] = new
    BY <1>11, <2>1, <2>4
  <2> QED
    BY <2>1, <2>2, <2>3, <2>4 DEF SteadyMail
<1>14. SteadyAccount /\ SteadyRead
  <2>1. acct \in Account
    BY <1>1 DEF FilingTypes
  <2> QED
    BY <1>2, <2>1 DEF SteadyAccount, SteadyRead, SameAccount, Account
<1>15. SteadyAlias
  <2>1. \A a : Keeps(a)
    BY <1>2 DEF Keeps, FiledFor, RowOf, diskVars
  <2>2. \A p : Present(p)' => Present(p)
    BY <1>2 DEF Present
  <2>3. \A a \in Alias : alias[a].stamp \in Nat
    BY <1>1
  <2> QED
    BY <1>2, <2>1, <2>2, <2>3 DEF SteadyAlias
<1> QED
  BY <1>12, <1>13, <1>14, <1>15, SteadyKeeps DEF Steady

-----------------------------------------------------------------------------
(* A read that begins, reaches its mailbox, and is published.                *)

(* A step of the read alone.                                                 *)
LEMMA ReadOnly ==
    ASSUME FilingInv, UNCHANGED <<clock, mailVars, diskVars, edit>>
    PROVE  FilingTypes' /\ BoxInv' /\ CursorInv' /\ FiledBehindCursor'
<1>1. UNCHANGED <<clock, box, acct, alias, cursor, acursor, rows, edit>>
  BY DEF mailVars, diskVars
<1>2. FilingTypes /\ BoxInv /\ CursorInv /\ FiledBehindCursor
  BY DEF FilingInv
<1>3. FilingTypes'
  BY <1>1, <1>2, TypesStay
<1>4. BoxInv'
  BY <1>1, <1>2 DEF BoxInv, Upper
<1>5. CursorInv'
  BY <1>1, <1>2 DEF CursorInv, Upper, WindowHolds
<1>6. FiledBehindCursor'
  BY <1>1, <1>2 DEF FiledBehindCursor, FiledFor, RowOf
<1> QED
  BY <1>3, <1>4, <1>5, <1>6

LEMMA PrepareFiles ==
    ASSUME FilingInv, (\E active \in BOOLEAN : PrepareAccount(active)) \/ (\E a \in Alias : PrepareAlias(a))
    PROVE  FilingInv'
<1>1. /\ FilingTypes /\ acct \in Account
      /\ alias \in [Alias -> [on : BOOLEAN, stamp : Nat]] /\ cursor \in Cursor \cup {None}
      /\ acursor \in [Alias -> Cursor \cup {None}]
  BY DEF FilingInv, FilingTypes
<1>2. UNCHANGED <<clock, mailVars, diskVars, edit>> /\ read'.phase = "prepared"
  <2>1. ASSUME NEW active \in BOOLEAN, PrepareAccount(active)
        PROVE  UNCHANGED <<clock, mailVars, diskVars, edit>> /\ read'.phase = "prepared"
    BY <2>1 DEF PrepareAccount
  <2>2. ASSUME NEW a \in Alias, PrepareAlias(a)
        PROVE  UNCHANGED <<clock, mailVars, diskVars, edit>> /\ read'.phase = "prepared"
    BY <2>2 DEF PrepareAlias
  <2> QED
    BY <2>1, <2>2
<1>3. FilingTypes' /\ BoxInv' /\ CursorInv' /\ FiledBehindCursor'
  BY <1>2, ReadOnly
<1>4. FetchedInv'
  BY <1>2 DEF FetchedInv
<1>5. UNCHANGED <<box, acct, alias, cursor, acursor>>
  BY <1>2 DEF mailVars
<1>6. acct.config <= acct.config /\ acct.transport <= acct.transport
  BY <1>1 DEF Account
<1>7. ASSUME NEW as \in SUBSET Alias
      PROVE  /\ Stamped(as) \subseteq Stamp /\ as = {p[1] : p \in Stamped(as)}
             /\ \A p \in Stamped(as) : p[1] \in as /\ p[2] <= alias[p[1]].stamp
  <2>1. ASSUME NEW p \in Stamped(as) PROVE p \in Stamp /\ p[1] \in as /\ p[2] <= alias[p[1]].stamp
    <3>1. PICK a \in as : p = <<a, alias[a].stamp>>
      BY DEF Stamped
    <3>2. a \in Alias /\ alias[a].stamp \in Nat
      BY <1>1
    <3>3. p[1] = a /\ p[2] = alias[a].stamp
      BY <3>1
    <3>4. p \in Stamp
      BY <3>1, <3>2 DEF Stamp
    <3>5. p[2] <= alias[p[1]].stamp
      BY <3>2, <3>3
    <3> QED
      BY <3>3, <3>4, <3>5
  <2>2. ASSUME NEW a \in as PROVE \E p \in Stamped(as) : p[1] = a
    <3>1. <<a, alias[a].stamp>> \in Stamped(as)
      BY DEF Stamped
    <3> QED
      BY <3>1
  <2> QED
    BY <2>1, <2>2
<1>8. CASE \E active \in BOOLEAN : PrepareAccount(active)
  <2>1. PICK active \in BOOLEAN : PrepareAccount(active)
    BY <1>8
  <2>2. /\ read'.kind = (IF active THEN "active" ELSE "full") /\ read'.acct = acct
        /\ read'.known = Stamped(Enabled) /\ read'.target = Enabled /\ read'.prev = cursor
    BY <2>1 DEF PrepareAccount
  <2>3. Enabled \in SUBSET Alias
    BY DEF Enabled
  <2>4. ASSUME NEW u \in 1 .. Upper(box[acct.src]), NEW p \in box[acct.src].mail[u].owed, Present(p)
        PROVE  p \in Stamped(Enabled)
    <3>1. p \in Stamp /\ acct.src \in Place
      BY <1>1, BoxFacts DEF Account
    <3>2. p[1] \in Alias /\ p = <<p[1], p[2]>>
      BY <3>1 DEF Stamp
    <3>3. p[1] \in Enabled /\ p = <<p[1], alias[p[1]].stamp>>
      BY <2>4, <3>2 DEF Present, Enabled
    <3> QED
      BY <3>3 DEF Stamped
  <2>5. Observes'
    BY <1>1, <1>5, <1>6, <1>7, <2>2, <2>3 DEF Observes, Kinds, Account, Stamp, Place
  <2>6. read'.target = {p[1] : p \in read'.known} /\ read'.prev \in Cursor \cup {None}
    BY <1>1, <1>7, <2>2, <2>3
  <2>7. read'.prev = cursor' /\ \A a \in Alias : ~Single(a)'
    BY <1>5, <2>2 DEF Single
  <2>8. \A u \in 1 .. Upper(box'[acct'.src]) : \A p \in box'[acct'.src].mail[u].owed :
           Present(p)' => p \in read'.known
    BY <1>5, <2>2, <2>4 DEF Present
  <2>9. PreparedInv'
    BY <2>5, <2>6, <2>7, <2>8 DEF PreparedInv, Upper, Cursor, None
  <2> QED
    BY <1>3, <1>4, <2>9 DEF FilingInv
<1>9. CASE \E a \in Alias : PrepareAlias(a)
  <2>1. PICK a \in Alias : PrepareAlias(a)
    BY <1>9
  <2>2. /\ read'.kind \in {"alias", "web"} /\ read'.acct = acct
        /\ read'.known = Stamped({a}) /\ read'.target = {a} /\ read'.prev = acursor[a]
    BY <2>1 DEF PrepareAlias
  <2>3. {a} \in SUBSET Alias /\ Stamped({a}) = {<<a, alias[a].stamp>>}
    BY DEF Stamped
  <2>4. Observes'
    <3>1. \E q \in read'.known : read'.known = {q}
      BY <2>2, <2>3
    <3>2. read'.known \subseteq Stamp /\ \A p \in read'.known : p[2] <= alias'[p[1]].stamp
      BY <1>5, <1>7, <2>2, <2>3
    <3>3. /\ read'.acct \in Account /\ read'.kind \in Kinds
          /\ read'.acct.config <= acct'.config /\ read'.acct.transport <= acct'.transport
      BY <1>1, <1>5, <1>6, <2>2 DEF Kinds
    <3> QED
      BY <3>1, <3>2, <3>3 DEF Observes, Kinds, Account, Stamp, Place
  <2>5. read'.target = {p[1] : p \in read'.known} /\ read'.prev \in Cursor \cup {None}
    BY <1>1, <1>7, <2>2, <2>3
  <2>6. ~Whole' /\ \A b \in Alias : Single(b)' => read'.prev = acursor'[b]
    <3>1. ~Whole'
      BY <2>2 DEF Whole
    <3>2. ASSUME NEW b \in Kept' PROVE b = a
      <4>1. PICK p \in read'.known : b = p[1]
        BY <3>2 DEF Kept
      <4> QED
        BY <1>7, <2>2, <2>3, <4>1
    <3> QED
      BY <1>5, <2>2, <3>1, <3>2 DEF Single
  <2>7. PreparedInv'
    BY <2>4, <2>5, <2>6 DEF PreparedInv, Cursor, None
  <2> QED
    BY <1>3, <1>4, <2>7 DEF FilingInv
<1> QED
  BY <1>8, <1>9

(* What a batch leaves out was filed before, or is filed with it.            *)
LEMMA BatchFiles ==
    ASSUME FilingInv, read.phase = "prepared", read.kind \in {"full", "active"}, NEW slack \in {0, 1},
           read.prev # None /\ read.prev.gen = Source.gen => read.prev.last <= Upper(Source),
           NEW r, r = IncrementalResult(read.prev, Source, read.kind = "active", read.target, slack)
    PROVE  /\ r \in Result /\ r.last <= Upper(Source)
           /\ Whole => /\ WindowHolds(r, Source)
                       /\ \A u \in r.floor + 1 .. r.last : \A p \in Source.mail[u].owed :
                            Present(p) => FiledFor(p[1], r.gen, u) \/ (p \in read.known /\ u \in r.msgs)
<1>1. FilingTypes /\ BoxInv /\ CursorInv /\ PreparedInv /\ FiledBehindCursor /\ Observes
  BY DEF FilingInv, PreparedInv
<1>2. /\ read.prev \in Cursor \cup {None} /\ read.target = {p[1] : p \in read.known}
      /\ read.acct.src \in Place /\ acct.src \in Place /\ read.known \subseteq Stamp
      /\ Whole => read.prev = cursor /\ read.acct.src = acct.src
  BY <1>1, SourceIs DEF PreparedInv, Observes, Whole
<1>3. read.target \in SUBSET Alias /\ \A p \in read.known : p[1] \in read.target
  BY <1>2 DEF Stamp
<1> DEFINE b == box[read.acct.src]
<1>4. Source = b
  BY DEF Source
<1>5. BatchAnswer(read.prev, b, read.target, r)
  <2>1. r = BatchOf(read.prev, b, read.kind, read.target, slack)
    BY <1>4 DEF BatchOf
  <2>2. BatchAsked(read.prev, b, read.target, slack)
    BY <1>2, <1>3, <1>4 DEF BatchAsked
  <2> QED
    BY <1>1, <1>2, <2>1, <2>2, IncrementalSound
<1>6. ASSUME Whole PROVE Follows(read.prev, b)
  BY <1>1, <1>2, <1>6 DEF CursorInv, Follows
<1>7. ASSUME Whole, NEW u \in r.floor + 1 .. r.last, NEW p \in b.mail[u].owed, Present(p)
      PROVE  FiledFor(p[1], r.gen, u) \/ (p \in read.known /\ u \in r.msgs)
  <2>1. u \in 1 .. Upper(b)
    BY <1>1, <1>2, <1>5, <1>7, BoxFacts DEF Result, BatchAnswer
  <2>2. p \in read.known /\ p[1] \in read.target /\ p[1] \in b.mail[u].to
    BY <1>1, <1>2, <1>3, <1>7, <2>1 DEF PreparedInv, BoxInv
  <2>3. CASE read.prev # None /\ read.prev.gen = b.gen /\ u \in read.prev.floor + 1 .. read.prev.last
    <3>1. FiledFor(p[1], cursor.gen, u)
      BY <1>1, <1>2, <1>7, <2>3 DEF FiledBehindCursor, Present
    <3>2. r.gen = b.gen
      BY <1>4 DEF IncrementalResult
    <3> QED
      BY <1>2, <1>7, <2>3, <3>1, <3>2
  <2>4. CASE b.mail[u].to \cap read.target # {} => u \in r.msgs
    BY <2>2, <2>4
  <2> QED
    BY <1>5, <1>6, <1>7, <2>2, <2>3, <2>4 DEF BatchAnswer
<1> QED
  BY <1>4, <1>5, <1>6, <1>7 DEF BatchAnswer

LEMMA TargetFiles ==
    ASSUME FilingInv, read.phase = "prepared", read.kind = "alias",
           read.prev # None /\ read.prev.gen = Source.gen => read.prev.last <= Upper(Source),
           NEW r, r = TargetResult(read.prev, Source, CHOOSE a \in read.target : TRUE)
    PROVE  /\ r \in Result /\ r.last <= Upper(Source)
           /\ \A a \in Alias : Single(a) =>
                \A u \in r.floor + 1 .. r.last :
                   a \in Source.mail[u].to => FiledFor(a, r.gen, u) \/ u \in r.msgs
<1>1. FilingTypes /\ CursorInv /\ PreparedInv /\ FiledBehindCursor /\ Observes
  BY DEF FilingInv, PreparedInv
<1>2. /\ read.prev \in Cursor \cup {None} /\ read.target = {p[1] : p \in read.known}
      /\ read.acct.src \in Place /\ acct.src \in Place
      /\ StillObserved => read.acct.src = acct.src
  BY <1>1, SourceIs DEF PreparedInv, Observes
<1>3. PICK q \in read.known : read.known = {q}
  BY <1>1 DEF Observes
<1>4. read.target = {q[1]}
  BY <1>2, <1>3
<1>5. (CHOOSE a \in read.target : TRUE) = q[1]
  BY <1>4
<1> DEFINE b == box[read.acct.src]
<1>6. Source = b
  BY DEF Source
<1>7. /\ r \in Result /\ r.last <= Upper(b)
      /\ \A u \in r.floor + 1 .. r.last :
           \/ read.prev # None /\ read.prev.gen = b.gen /\ u \in read.prev.floor + 1 .. read.prev.last
           \/ q[1] \in b.mail[u].to => u \in r.msgs
  <2>1. r = TargetResult(read.prev, b, q[1])
    BY <1>5, <1>6
  <2>2. read.prev # None /\ read.prev.gen = b.gen => read.prev.last <= Upper(b)
    BY <1>6
  <2> QED
    BY <1>1, <1>2, <2>1, <2>2, TargetSound
<1>8. ASSUME NEW a \in Alias, Single(a), NEW u \in r.floor + 1 .. r.last, a \in b.mail[u].to
      PROVE  FiledFor(a, r.gen, u) \/ u \in r.msgs
  <2>1. a = q[1] /\ StillObserved
    BY <1>3, <1>8 DEF Single, Kept
  <2>2. read.prev = acursor[a] /\ read.acct.src = acct.src
    BY <1>1, <1>2, <1>8, <2>1 DEF PreparedInv
  <2>3. CASE read.prev # None /\ read.prev.gen = b.gen /\ u \in read.prev.floor + 1 .. read.prev.last
    <3>1. FiledFor(a, acursor[a].gen, u)
      BY <1>1, <1>8, <2>2, <2>3 DEF FiledBehindCursor
    <3>2. r.gen = b.gen
      BY <1>6 DEF TargetResult
    <3> QED
      BY <2>2, <2>3, <3>1, <3>2
  <2> QED
    BY <1>7, <1>8, <2>1, <2>3
<1> QED
  BY <1>6, <1>7, <1>8

LEMMA FetchFiles == ASSUME FilingInv, NEW slack \in {0, 1}, Fetch(slack) PROVE FilingInv'
<1> DEFINE r == CASE read.kind = "web"   -> WebResult(Source, CHOOSE a \in read.target : TRUE)
                  [] read.kind = "alias" -> TargetResult(read.prev, Source, CHOOSE a \in read.target : TRUE)
                  [] OTHER -> IncrementalResult(read.prev, Source, read.kind = "active", read.target, slack)
<1>1. FilingTypes /\ PreparedInv /\ read.phase = "prepared" /\ Observes
      /\ (read.prev # None /\ read.prev.gen = Source.gen => read.prev.last <= Upper(Source))
  BY DEF FilingInv, PreparedInv, Fetch
<1>2. /\ UNCHANGED <<clock, mailVars, diskVars, edit>>
      /\ read' = [phase |-> "fetched", kind |-> read.kind, acct |-> read.acct,
                  known |-> read.known, result |-> r, copy |-> left["target"]]
  BY DEF Fetch
<1>3. /\ r \in Result /\ r.last <= Upper(Source)
      /\ Whole => /\ WindowHolds(r, Source)
                  /\ \A u \in r.floor + 1 .. r.last : \A p \in Source.mail[u].owed :
                       Present(p) => FiledFor(p[1], r.gen, u) \/ (p \in read.known /\ u \in r.msgs)
      /\ \A a \in Alias : Single(a) =>
            \A u \in r.floor + 1 .. r.last :
               a \in Source.mail[u].to => FiledFor(a, r.gen, u) \/ u \in r.msgs
  <2>1. CASE read.kind = "web"
    <3>1. r = WebResult(box[read.acct.src], CHOOSE a \in read.target : TRUE)
      BY <2>1 DEF Source
    <3>2. read.acct.src \in Place
      BY <1>1, SourceIs DEF Observes
    <3>3. ~Whole /\ \A a : ~Single(a)
      BY <2>1 DEF Whole, Single
    <3> HIDE DEF r
    <3> QED
      BY <1>1, <3>1, <3>2, <3>3, WebType DEF Source
  <2>2. CASE read.kind = "alias"
    <3>1. r = TargetResult(read.prev, Source, CHOOSE a \in read.target : TRUE)
      BY <2>2
    <3>2. ~Whole
      BY <2>2 DEF Whole
    <3> HIDE DEF r
    <3> QED
      BY <1>1, <2>2, <3>1, <3>2, TargetFiles
  <2>3. CASE read.kind \in {"full", "active"}
    <3>1. r = IncrementalResult(read.prev, Source, read.kind = "active", read.target, slack)
      BY <2>3
    <3>2. \A a : ~Single(a)
      BY <2>3 DEF Single
    <3> HIDE DEF r
    <3> QED
      BY <1>1, <2>3, <3>1, <3>2, BatchFiles
  <2> QED
    BY <1>1, <2>1, <2>2, <2>3 DEF Observes, Kinds
<1> HIDE DEF r
<1>4. FilingTypes' /\ BoxInv' /\ CursorInv' /\ FiledBehindCursor'
  BY <1>2, ReadOnly
<1>5. PreparedInv'
  BY <1>2 DEF PreparedInv
<1>6. /\ read'.phase = "fetched" /\ read'.kind = read.kind /\ read'.acct = read.acct
      /\ read'.known = read.known /\ read'.result = r
      /\ UNCHANGED <<clock, box, acct, alias, cursor, acursor, rows>>
  BY <1>2 DEF mailVars, diskVars
<1>7. Observes'
  BY <1>1, <1>6 DEF Observes
<1>8. (Whole' <=> Whole) /\ \A a : Single(a)' <=> Single(a)
  BY <1>6 DEF Whole, Single, StillObserved, Observed, Kept
<1>9. Source' = Source
  BY <1>6 DEF Source
<1>10. Whole' =>
         /\ WindowHolds(read.result, Source)'
         /\ \A u \in read'.result.floor + 1 .. read'.result.last : \A p \in Source'.mail[u].owed :
              Present(p)' => FiledFor(p[1], read.result.gen, u)' \/ (p \in read'.known /\ u \in read'.result.msgs)
  BY <1>3, <1>6, <1>8, <1>9 DEF WindowHolds, Upper, Present, FiledFor, RowOf
<1>11. \A a \in Alias : Single(a)' =>
         \A u \in read'.result.floor + 1 .. read'.result.last :
            a \in Source'.mail[u].to => FiledFor(a, read.result.gen, u)' \/ u \in read'.result.msgs
  BY <1>3, <1>6, <1>8, <1>9 DEF FiledFor, RowOf
<1>12. read'.result \in Result /\ read'.result.last <= Upper(Source')
  BY <1>3, <1>6, <1>9
<1>13. FetchedInv'
  BY <1>7, <1>10, <1>11, <1>12 DEF FetchedInv, Result, Upper
<1> QED
  BY <1>4, <1>5, <1>13 DEF FilingInv

LEMMA CommitFiles == ASSUME MailInv, FilingInv, Commit PROVE FilingInv'
<1>1. /\ FilingTypes /\ BoxInv /\ CursorInv /\ FetchedInv /\ FiledBehindCursor
      /\ read.phase = "staged" /\ StillObserved /\ Observes
      /\ read'.phase = "done" /\ UNCHANGED <<clock, box, alias, edit>>
      /\ acct' = [acct EXCEPT !.paused = FALSE]
  BY DEF FilingInv, FetchedInv, Commit, Publishes
<1> DEFINE r == read.result
           s == acct.src
<1>2. /\ r \in Result /\ s \in Place /\ read.acct.src = s /\ Source = box[s] /\ r.last <= Upper(box[s])
      /\ acct \in Account /\ acct' \in Account /\ acct'.src = s
  <2>1. acct \in Account
    BY <1>1 DEF FilingTypes
  <2>2. acct' \in Account /\ acct'.src = s
    BY <1>1, <2>1 DEF Account
  <2> QED
    BY <1>1, <2>1, <2>2, SourceIs DEF FetchedInv, Observes
<1>3. /\ \A a : Keeps(a)
      /\ \A g : g = r.gen => \A u \in r.msgs : \A a \in Recipients(u) : FiledFor(a, g, u)'
  BY CommitRemembers
<1>4. ASSUME NEW old \in Cursor \cup {None}
      PROVE  /\ NewCursor(old) \in Cursor /\ NewCursor(old).gen = r.gen
             /\ NewCursor(old).last = r.last /\ NewCursor(old).since = r.since /\ NewCursor(old).floor = r.floor
  <2> DEFINE at == IF old # None /\ old.gen = r.gen THEN Larger(old.at, r.at) ELSE r.at
  <2>1. r.gen \in Nat /\ r.last \in Nat /\ r.since \in Nat /\ r.floor \in Nat /\ r.at \in Nat
    BY <1>2 DEF Result
  <2>2. at \in Nat
    BY <2>1 DEF Cursor, Larger
  <2>3. NewCursor(old) = [gen |-> r.gen, last |-> r.last, since |-> r.since, floor |-> r.floor, at |-> at]
    BY DEF NewCursor
  <2> HIDE DEF at, r
  <2> QED
    BY <2>1, <2>2, <2>3 DEF Cursor
<1>5. /\ cursor \in Cursor \cup {None} /\ acursor \in [Alias -> Cursor \cup {None}]
      /\ cursor' = cursor \/ (Whole /\ cursor' = NewCursor(cursor))
      /\ \A a \in Alias : acursor'[a] = acursor[a] \/ (Single(a) /\ acursor'[a] = NewCursor(acursor[a]))
      /\ acursor' \in [Alias -> Cursor \cup {None}]
  <2>1. cursor \in Cursor \cup {None} /\ acursor \in [Alias -> Cursor \cup {None}]
    BY <1>1 DEF FilingTypes
  <2>2. CASE read.kind = "web"
    <3>1. UNCHANGED <<cursor, acursor>>
      BY <2>2 DEF Commit
    <3> QED
      BY <2>1, <3>1
  <2>3. CASE read.kind = "alias"
    <3>1. /\ acursor' = [a \in Alias |-> IF a \in Kept THEN NewCursor(acursor[a]) ELSE acursor[a]]
          /\ UNCHANGED cursor
      BY <2>3 DEF Commit
    <3>2. \A a \in Alias : NewCursor(acursor[a]) \in Cursor
      BY <1>4, <2>1
    <3> QED
      BY <1>1, <2>1, <2>3, <3>1, <3>2 DEF Single
  <2>4. CASE read.kind \in {"full", "active"}
    <3>1. cursor' = NewCursor(cursor) /\ UNCHANGED acursor
      BY <2>4 DEF Commit
    <3> QED
      BY <1>1, <2>1, <2>4, <3>1 DEF Whole
  <2> QED
    BY <1>1, <2>2, <2>3, <2>4 DEF Observes, Kinds
<1>6. FilingTypes'
  <2>1. cursor' \in Cursor \cup {None}
    BY <1>4, <1>5
  <2> QED
    BY <1>1, <1>2, <1>5, <2>1 DEF FilingTypes, Account, Cursor, Mail, Stamp, Place, None
<1>7. BoxInv' /\ PreparedInv' /\ FetchedInv'
  BY <1>1 DEF BoxInv, Upper, PreparedInv, FetchedInv
<1>8. CursorInv'
  <2>1. cursor' # None => cursor'.last <= Upper(box[s]) /\ WindowHolds(cursor, box[acct.src])'
    <3>1. CASE cursor' = cursor
      BY <1>1, <1>2, <3>1 DEF CursorInv, WindowHolds, Upper
    <3>2. CASE Whole /\ cursor' = NewCursor(cursor)
      <4>1. WindowHolds(r, box[s])
        BY <1>1, <1>2, <3>2 DEF FetchedInv
      <4>2. cursor'.last = r.last /\ cursor'.since = r.since /\ cursor'.floor = r.floor
        BY <1>4, <1>5, <3>2
      <4> QED
        BY <1>1, <1>2, <4>1, <4>2 DEF WindowHolds, Upper
    <3> QED
      BY <1>5, <3>1, <3>2
  <2>2. ASSUME NEW a \in Alias, acursor'[a] # None PROVE acursor'[a].last <= Upper(box[s])
    <3>1. acursor[a] \in Cursor \cup {None}
      BY <1>5
    <3>2. CASE acursor'[a] = acursor[a]
      BY <1>1, <2>2, <3>2 DEF CursorInv
    <3>3. CASE acursor'[a] = NewCursor(acursor[a])
      BY <1>2, <1>4, <3>1, <3>3
    <3> QED
      BY <1>5, <3>2, <3>3
  <2> QED
    BY <1>1, <1>2, <2>1, <2>2 DEF CursorInv, Upper, None
<1>9. ASSUME cursor' # None, NEW u \in cursor'.floor + 1 .. cursor'.last,
             NEW p \in box[s].mail[u].owed, alias[p[1]].on, alias[p[1]].stamp = p[2]
      PROVE  \A g : g = cursor'.gen => FiledFor(p[1], g, u)'
  <2>1. CASE cursor' = cursor
    <3>1. FiledFor(p[1], cursor.gen, u)
      BY <1>1, <1>9, <2>1 DEF FiledBehindCursor
    <3> QED
      BY <1>3, <2>1, <3>1 DEF Keeps
  <2>2. CASE Whole /\ cursor' = NewCursor(cursor)
    <3>1. cursor'.gen = r.gen /\ u \in r.floor + 1 .. r.last
      BY <1>4, <1>5, <1>9, <2>2
    <3>2. FiledFor(p[1], r.gen, u) \/ (p \in read.known /\ u \in r.msgs)
      BY <1>1, <1>2, <1>9, <2>2, <3>1 DEF FetchedInv, Present
    <3>3. u \in 1 .. Upper(box[s])
      BY <1>1, <1>2, <3>1, BoxFacts DEF Result
    <3>4. p[1] \in box[s].mail[u].to
      BY <1>1, <1>2, <1>9, <3>3 DEF BoxInv
    <3>5. p \in read.known => p[1] \in Recipients(u)
      BY <1>2, <1>9, <3>4 DEF Recipients, Kept
    <3> QED
      BY <1>3, <3>1, <3>2, <3>5 DEF Keeps
  <2> QED
    BY <1>5, <2>1, <2>2
<1>10. ASSUME NEW a \in Alias, acursor'[a] # None, NEW u \in acursor'[a].floor + 1 .. acursor'[a].last,
              a \in box[s].mail[u].to
       PROVE  \A g : g = acursor'[a].gen => FiledFor(a, g, u)'
  <2>1. CASE acursor'[a] = acursor[a]
    <3>1. FiledFor(a, acursor[a].gen, u)
      BY <1>1, <1>10, <2>1 DEF FiledBehindCursor
    <3> QED
      BY <1>3, <2>1, <3>1 DEF Keeps
  <2>2. CASE Single(a) /\ acursor'[a] = NewCursor(acursor[a])
    <3>1. acursor[a] \in Cursor \cup {None}
      BY <1>5
    <3>2. acursor'[a].gen = r.gen /\ u \in r.floor + 1 .. r.last
      BY <1>4, <1>10, <2>2, <3>1
    <3>3. FiledFor(a, r.gen, u) \/ u \in r.msgs
      BY <1>1, <1>2, <1>10, <2>2, <3>2 DEF FetchedInv
    <3>4. a \in Recipients(u)
      BY <1>2, <1>10, <2>2 DEF Single, Recipients
    <3> QED
      BY <1>3, <3>2, <3>3, <3>4 DEF Keeps
  <2> QED
    BY <1>5, <2>1, <2>2
<1>11. FiledBehindCursor'
  BY <1>1, <1>2, <1>9, <1>10 DEF FiledBehindCursor, FiledFor, RowOf, None
<1> QED
  BY <1>6, <1>7, <1>8, <1>11 DEF FilingInv

-----------------------------------------------------------------------------
LEMMA FilingInit == Init => FilingInv
<1> SUFFICES ASSUME Init PROVE FilingInv
  OBVIOUS
<1>1. FilingTypes
  <2>1. Window \in Nat /\ Sources \in Nat /\ Sources >= 1
    BY MailConstants
  <2>2. clock \in Nat /\ clock > Window
    BY <2>1 DEF Init
  <2>3. box \in [Place -> [gen : Nat, mail : Seq(Mail)]]
    BY DEF Init, Place
  <2>4. acct \in Account
    BY <2>1 DEF Init, Account, Place
  <2>5. alias \in [Alias -> [on : BOOLEAN, stamp : Nat]]
    BY DEF Init
  <2> QED
    BY <2>2, <2>3, <2>4, <2>5 DEF Init, FilingTypes, None
<1>2. \A s \in Place : Upper(box[s]) = 0
  BY DEF Init, Place, Upper
<1>3. BoxInv
  BY <1>2 DEF BoxInv
<1>4. CursorInv /\ FiledBehindCursor
  BY DEF Init, CursorInv, FiledBehindCursor
<1>5. PreparedInv /\ FetchedInv
  BY DEF Init, Idle, PreparedInv, FetchedInv
<1> QED
  BY <1>1, <1>3, <1>4, <1>5 DEF FilingInv

(* What the mailbox, the cursors and a read in flight know of the archive    *)
(* (FilingInv) holds always.                                                *)
THEOREM FilingInvariant == Spec => []FilingInv
<1>1. MailInv /\ FilingInv /\ [Next]_vars => FilingInv'
  <2> SUFFICES ASSUME MailInv, FilingInv, [Next]_vars PROVE FilingInv'
    OBVIOUS
  <2>1. CASE Reading
    BY <2>1, PrepareFiles, FetchFiles, ReadingFiles, CommitFiles DEF Reading
  <2>2. CASE Management
    BY <2>2, AliasEditFiles, AccountEditFiles, ArchiveFiles DEF Management
  <2>3. CASE Environment
    BY <2>3, ArriveFiles, RenumberFiles, TickFiles, ArchiveFiles DEF Environment
  <2>4. CASE UNCHANGED vars
    <3>1. /\ UNCHANGED <<clock, box, acct, alias, cursor, acursor, rows, edit, read>>
          /\ FilingTypes /\ clock \in Nat
      BY <2>4 DEF vars, mailVars, diskVars, FilingInv, FilingTypes
    <3>2. \A a : Keeps(a)
      BY <3>1 DEF Keeps, FiledFor, RowOf
    <3>3. FilingTypes'
      BY <3>1, TypesStay
    <3>4. Steady
      BY <3>1, <3>2, CalmSteady DEF SameAccount, SteadyRead
    <3> QED
      BY <3>3, <3>4, SteadyKeeps
  <2> QED
    BY <2>1, <2>2, <2>3, <2>4 DEF Next
<1> QED
  BY <1>1, FilingInit, MailInvariant, PTL DEF Spec

(* What a cursor has passed is in the archive of everyone it is owed to,     *)
(* whatever batches, pinned windows, resets and edits made it move          *)
(* (applyMailboxSync, fetchArchiveIncremental, discoverAliasArchiveUIDs).   *)
THEOREM MailIsFiled == Spec => []FiledBehindCursor
<1>1. FilingInv => FiledBehindCursor
  BY DEF FilingInv
<1> QED
  BY <1>1, FilingInvariant, PTL
=============================================================================
