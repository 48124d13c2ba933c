------------------------------ MODULE MailSync ------------------------------
(***************************************************************************)
(* Mail of one primary account, from the upstream mailbox into the local   *)
(* archive: how a read is prepared from the account row, the enabled       *)
(* aliases and the UID cursor (internal/syncer), how one bounded batch is  *)
(* chosen (internal/mail), and how the batch is staged as files and        *)
(* published in one transaction (internal/store), while the administrator  *)
(* edits the account and its aliases, other accounts evict old content and *)
(* the process may stop between any two steps.                             *)
(*                                                                         *)
(* Reads of one account are serialised by its IMAP lock (module Receiving) *)
(* so there is at most one `read' at a time.                               *)
(***************************************************************************)
EXTENDS Integers, Sequences, FiniteSets

CONSTANTS
    Alias,       \* aliases of the account
    Window,      \* length of the recovery window of the shared receiver
    Batch,       \* UIDs examined by one incremental read
    Recent,      \* messages kept by the baseline of a first full read
    Span,        \* UIDs searched by one read on behalf of a single alias
    Sources,     \* mailbox sources an account may point to, 1 .. n
    Scenarios    \* what each bounded instance may spend (see `left')

ASSUME MailConstants ==
    /\ {Window, Batch, Recent, Span, Sources} \subseteq Nat \ {0}
    /\ \A s \in Scenarios : \A k \in DOMAIN s : s[k] \in Nat

VARIABLES
    clock,    \* wall clock, in units of the window
    box,      \* upstream: source -> UIDVALIDITY and messages, in UID order
    acct,     \* the row of the account
    alias,    \* alias -> enabled, and a stamp of its creation and revisions
    cursor,   \* imap_sync_states and imap_active_windows of the account
    acursor,  \* alias -> alias_imap_sync_states
    rows,     \* archived_messages with their alias_messages
    files,    \* content of the account's archive directory
    trash,    \* quarantine left under .tmp by a source change, or NoDir
    read,     \* the read in progress
    edit,     \* a source change between its rename and its commit
    evict,    \* an eviction between its file and its row
    raced,    \* history: message keys an eviction has touched
    left      \* what is left of every bound of the instance

mailVars == <<box, acct, alias, cursor, acursor>>
diskVars == <<rows, files, trash, evict, raced>>
vars == <<clock, mailVars, diskVars, read, edit, left>>

None == [kind |-> "none"]
NoDir == [kind |-> "nodir"]
Idle == [phase |-> "idle"]
Down == [phase |-> "down"]
Unlimited == 0                       \* ActiveWindowSince.IsZero()

Larger(m, n) == IF m < n THEN n ELSE m
Smaller(m, n) == IF m < n THEN m ELSE n

(* Bounds of the instance: an environment action of kind k spends one unit. *)
Spend(k) == left[k] > 0 /\ left' = [left EXCEPT ![k] = @ - 1]

Upper(b) == Len(b.mail)
Before(b, since) == Cardinality({u \in 1 .. Upper(b) : b.mail[u].at < since})

Enabled == {a \in Alias : alias[a].on}
Stamped(as) == {<<a, alias[a].stamp>> : a \in as}

ObservedPlace(row) == [on |-> row.on, transport |-> row.transport, src |-> row.src]

(* What checkMailboxObservationTx compares of the account row. *)
Observed(row) == [on |-> row.on, config |-> row.config, transport |-> row.transport,
                  src |-> row.src, good |-> row.good]
StillEnabled == acct.on
StillObserved == acct.on /\ Observed(acct) = Observed(read.acct)

ArchiveLockFree == read.phase \notin {"staged", "done", "down"} /\ edit = None

RowOf(gen, u) == {r \in rows : r.gen = gen /\ r.uid = u}

-----------------------------------------------------------------------------
(* Choosing the batch: fetchArchiveIncremental for the whole account.       *)

Resets(prev, b) == prev = None \/ prev.gen # b.gen
NeverPinned(prev, b) == FALSE
Pinned(prev, b) == ~Resets(prev, b) /\ prev.since # Unlimited

(* History: a read of the shared receiver gives no promise for mail older   *)
(* than its window, unless an earlier batch has pinned the window.          *)
Floor(prev, b, active) ==
    LET base == IF Resets(prev, b) THEN 0 ELSE prev.floor
        pinned == ~Resets(prev, b) /\ prev.since # Unlimited
    IN  IF active /\ ~pinned THEN Larger(base, Before(b, clock - Window)) ELSE base

(* establishActiveArchiveCursor: SINCE is a date filter widened by a day, so *)
(* the boundary may lie up to `slack' messages before the window.           *)
RecoveryStart(b, since, start, slack) == Larger(start, Before(b, since) - slack)

(* establishArchiveRecentCursor: the first full read only sets the cursor.  *)
Baseline(b) == Larger(0, Upper(b) - Recent)

(* discoverArchiveUIDs: the last UID of the batch that starts after `from'. *)
BatchEnd(b, from) == Smaller(Upper(b), from + Batch)

(* fetchArchiveCandidateHeaders: the messages addressed to these aliases.   *)
Addressed(b, uids, as) == {u \in uids : b.mail[u].to \cap as # {}}

IncrementalResult(prev, b, active, known, slack) ==
    LET reset    == Resets(prev, b)
        pending  == Pinned(prev, b)
        since    == IF pending THEN prev.since ELSE clock - Window
        recovers == active /\ ~pending /\ (reset \/ clock - prev.at > Window)
        start    == IF reset THEN 0 ELSE prev.last
        from     == IF recovers THEN RecoveryStart(b, since, start, slack) ELSE start
        through  == IF known = {} THEN Upper(b) ELSE BatchEnd(b, from)
        more     == through < Upper(b)
        windowed == active \/ pending
    IN  IF known # {} /\ reset /\ ~active
        THEN [gen |-> b.gen, reset |-> TRUE, last |-> Baseline(b), more |-> Upper(b) > 0,
              since |-> Unlimited, floor |-> Baseline(b), at |-> clock, msgs |-> {}]
        ELSE [gen |-> b.gen, reset |-> reset, last |-> through, more |-> more,
              since |-> IF windowed /\ more THEN since ELSE Unlimited,
              floor |-> Floor(prev, b, active), at |-> clock,
              msgs |-> {u \in Addressed(b, from + 1 .. through, known) :
                          windowed => b.mail[u].at >= since}]

(* discoverAliasArchiveUIDs: the first hits of a search of Span UIDs, and   *)
(* the UID it has dealt with all mail up to.                                *)
TargetHits(b, from, a) ==
    LET hits == Addressed(b, from + 1 .. Smaller(Upper(b), from + Span), {a})
    IN  {u \in hits : Cardinality({v \in hits : v <= u}) <= Batch}
TargetEnd(b, from, a) ==
    LET end   == Smaller(Upper(b), from + Span)
        first == TargetHits(b, from, a)
    IN  IF first = Addressed(b, from + 1 .. end, {a}) THEN end
        ELSE CHOOSE u \in first : \A v \in first : v <= u

(* FetchAliasIncremental: a search limited to one alias, with its own cursor. *)
TargetResult(prev, b, a) ==
    LET reset   == Resets(prev, b)
        from    == IF reset THEN Larger(0, Upper(b) - Span) ELSE prev.last
        through == TargetEnd(b, from, a)
    IN  [gen |-> b.gen, reset |-> reset, last |-> through, more |-> through < Upper(b),
         since |-> Unlimited, floor |-> IF reset THEN from ELSE prev.floor, at |-> clock,
         msgs |-> TargetHits(b, from, a)]

(* ArchiveWebMail: the newest messages of the web list, no cursor. *)
WebResult(b, a) ==
    [gen |-> b.gen, reset |-> FALSE, last |-> Upper(b), more |-> FALSE,
     since |-> Unlimited, floor |-> 0, at |-> clock,
     msgs |-> Addressed(b, Baseline(b) + 1 .. Upper(b), {a})]

-----------------------------------------------------------------------------
(* The read in progress. *)

(* syncAccountLocked up to the wait for the fetch interval: transport,      *)
(* account, enabled aliases and cursor are read, in this order.             *)
PrepareAccount(active) ==
    /\ read.phase = "idle"
    /\ ~acct.web /\ acct.on /\ ~acct.paused /\ Spend("account")
    /\ read' = [phase |-> "prepared", kind |-> IF active THEN "active" ELSE "full",
                acct |-> acct, known |-> Stamped(Enabled), target |-> Enabled, prev |-> cursor]
    /\ UNCHANGED <<clock, mailVars, diskVars, edit>>

(* syncAliasDemand up to the fetch. *)
PrepareAlias(a) ==
    /\ read.phase = "idle"
    /\ acct.on /\ alias[a].on /\ (acct.paused => acct.web) /\ Spend("target")
    /\ read' = [phase |-> "prepared", kind |-> IF acct.web THEN "web" ELSE "alias",
                acct |-> acct, known |-> Stamped({a}), target |-> {a}, prev |-> acursor[a]]
    /\ UNCHANGED <<clock, mailVars, diskVars, edit>>

Source == box[read.acct.src]

(* The read reaches its mailbox: SELECT, discovery, headers and bodies.     *)
Fetch(slack) ==
    /\ read.phase = "prepared"
    /\ read.kind = "web" \/ read.acct.good
    /\ read.prev # None /\ read.prev.gen = Source.gen => read.prev.last <= Upper(Source)
    /\ LET result ==
             CASE read.kind = "web"   -> WebResult(Source, CHOOSE a \in read.target : TRUE)
               [] read.kind = "alias" -> TargetResult(read.prev, Source, CHOOSE a \in read.target : TRUE)
               [] OTHER -> IncrementalResult(read.prev, Source, read.kind = "active", read.target, slack)
       IN  read' = [phase |-> "fetched", kind |-> read.kind, acct |-> read.acct,
                    known |-> read.known, result |-> result, copy |-> left["target"]]
    /\ UNCHANGED <<clock, mailVars, diskVars, edit, left>>

(* The upstream refuses the password. *)
Refused ==
    /\ read.phase = "prepared" /\ read.kind # "web" /\ ~read.acct.good
    /\ read' = [read EXCEPT !.phase = "refused"]
    /\ UNCHANGED <<clock, mailVars, diskVars, edit, left>>

(* The connection fails, or the observation is abandoned: nothing is kept. *)
Abandon ==
    /\ read.phase \in {"prepared", "fetched"} /\ Spend("fault")
    /\ read' = Idle
    /\ UNCHANGED <<clock, mailVars, diskVars, edit>>

(* recordMailboxSyncFailure: the failure counts only against the settings   *)
(* it was observed with.                                                    *)
RecordRefusal ==
    /\ read.phase = "refused"
    /\ acct' = IF StillObserved THEN [acct EXCEPT !.paused = TRUE] ELSE acct
    /\ read' = Idle
    /\ UNCHANGED <<clock, box, alias, cursor, acursor, diskVars, edit, left>>

-----------------------------------------------------------------------------
(* Staging: the account's archive lock is taken and every fetched content   *)
(* moves to its final path before the transaction looks at anything.        *)

Plain(u) == <<read.result.gen, u, "plain">>
FullMime(u) == <<read.result.gen, u, "imap">>

(* A web projection is rebuilt with a fresh multipart boundary each time,   *)
(* a complete message always has the same bytes.                            *)
Projection(u) == <<"web", read.acct.src, u, read.copy>>
Message(u) == <<"imap", read.acct.src, u>>
Content(u) == IF read.kind = "web" THEN Projection(u) ELSE Message(u)

(* Messages that bring content: preserveExistingWebmailArchive drops what   *)
(* the archive already has.                                                 *)
Carried == {u \in read.result.msgs :
              read.kind = "web" => \A r \in RowOf(read.result.gen, u) : r.state # "available"}

(* archiveContentDestination *)
Destination(u) ==
    LET kept == {r \in RowOf(read.result.gen, u) : r.state = "available"}
    IN  IF kept = {} THEN [path |-> Plain(u), superseded |-> {}]
        ELSE LET r == CHOOSE r \in kept : TRUE
             IN  IF /\ read.kind # "web" /\ r.digest # Content(u) /\ r.digest[1] = "web"
                    /\ r.path \in DOMAIN files
                 THEN [path |-> FullMime(u), superseded |-> {r.path}]
                 ELSE [path |-> r.path, superseded |-> {}]

Conflicts == {u \in Carried : /\ Destination(u).path \in DOMAIN files
                              /\ files[Destination(u).path] # Content(u)}

Without(dir, paths) == [p \in DOMAIN dir \ paths |-> dir[p]]

(* stageArchiveMessages *)
Stage ==
    /\ read.phase = "fetched" /\ ArchiveLockFree
    /\ IF Conflicts # {}
       THEN read' = Idle /\ UNCHANGED files
       ELSE LET paths == {Destination(u).path : u \in Carried}
            IN  /\ files' = [p \in DOMAIN files \cup paths |->
                               IF p \in DOMAIN files THEN files[p] ELSE Content(p[2])]
                /\ read' = [phase |-> "staged", kind |-> read.kind, acct |-> read.acct,
                            known |-> read.known, result |-> read.result, copy |-> read.copy,
                            staged |-> [u \in Carried |-> Destination(u).path],
                            created |-> paths \ DOMAIN files,
                            superseded |-> UNION {Destination(u).superseded : u \in Carried}]
    /\ UNCHANGED <<clock, mailVars, rows, trash, evict, raced, edit, left>>

-----------------------------------------------------------------------------
(* Publication: one transaction under the account row.                      *)

(* filterMailboxRecipientsTx *)
Kept == {p[1] : p \in {q \in read.known : alias[q[1]].on /\ alias[q[1]].stamp = q[2]}}

Own(c) == IF read.kind = "alias" THEN acursor[CHOOSE a \in {p[1] : p \in read.known} : TRUE]
                                 ELSE c

(* The cursor never moves back, and only a reset may start one or replace   *)
(* another generation.                                                      *)
CursorAllows(old) ==
    IF old # None /\ old.gen = read.result.gen THEN old.last <= read.result.last
    ELSE read.result.reset /\ (read.kind = "alias" /\ old # None => read.result.at > old.at)

NewCursor(old) ==
    LET r == read.result
    IN  [gen |-> r.gen, last |-> r.last, since |-> r.since, floor |-> r.floor,
         at |-> IF old # None /\ old.gen = r.gen THEN Larger(old.at, r.at) ELSE r.at]

Recipients(u) == box[read.acct.src].mail[u].to \cap Kept
Filed == {u \in read.result.msgs : Recipients(u) # {}}

(* persistArchivedMessagesTx *)
Written(u) ==
    LET old  == RowOf(read.result.gen, u)
        has  == UNION {r.aliases : r \in old}
        base == IF old = {}
                THEN [gen |-> read.result.gen, uid |-> u, src |-> read.acct.src,
                      at |-> box[read.acct.src].mail[u].at, aliases |-> {},
                      state |-> "metadata", path |-> <<>>, digest |-> <<>>]
                ELSE CHOOSE r \in old : TRUE
        body == IF u \in DOMAIN read.staged
                THEN [base EXCEPT !.state = "available", !.path = read.staged[u],
                                  !.digest = Content(u)]
                ELSE base
    IN  [body EXCEPT !.aliases = has \cup Recipients(u)]

Publishes ==
    /\ StillObserved
    /\ read.kind \in {"alias", "web"} => Kept # {}
    /\ read.kind = "web" \/ CursorAllows(Own(cursor))

(* applyMailboxSync and applyAliasMailboxSync from the row lock to commit.  *)
Commit ==
    /\ read.phase = "staged" /\ Publishes
    /\ rows' = {r \in rows : r.gen # read.result.gen \/ r.uid \notin Filed}
                 \cup {Written(u) : u \in Filed}
    /\ CASE read.kind = "web" -> UNCHANGED <<cursor, acursor>>
         [] read.kind = "alias" ->
              /\ acursor' = [a \in Alias |-> IF a \in Kept THEN NewCursor(acursor[a]) ELSE acursor[a]]
              /\ UNCHANGED cursor
         [] OTHER -> cursor' = NewCursor(cursor) /\ UNCHANGED acursor
    /\ acct' = [acct EXCEPT !.paused = FALSE]
    /\ read' = [phase |-> "done",
                junk |-> read.created \ {read.staged[u] : u \in Filed \cap DOMAIN read.staged},
                superseded |-> read.superseded]
    /\ UNCHANGED <<clock, box, alias, files, trash, evict, raced, edit, left>>

DiscardStaged ==
    /\ read.phase = "staged"
    /\ IF Publishes THEN Spend("fault") ELSE UNCHANGED left
    /\ read' = [phase |-> "done", superseded |-> {},
                junk |-> {read.staged[u] : u \in DOMAIN read.staged}]
    /\ UNCHANGED <<clock, mailVars, diskVars, edit>>

(* The observation is stale, the cursor has moved on, or the transaction    *)
(* fails: what the publication created is removed again.                    *)
Discard ==
    /\ read.phase = "staged"
    /\ IF Publishes THEN Spend("fault") ELSE UNCHANGED left
    /\ read' = [phase |-> "done", junk |-> read.created, superseded |-> {}]
    /\ UNCHANGED <<clock, mailVars, diskVars, edit>>

(* cleanupPublishedArchive, cleanupSupersededArchive and the unlock. *)
Finish ==
    /\ read.phase = "done"
    /\ files' = Without(files, read.junk \cup (read.superseded \ {r.path : r \in rows}))
    /\ read' = Idle
    /\ UNCHANGED <<clock, mailVars, rows, trash, evict, raced, edit, left>>

-----------------------------------------------------------------------------
(* Management: aliases and the account row, at any time.                    *)

SetAlias(a, on) == alias' = [alias EXCEPT ![a] = [on |-> on, stamp |-> @.stamp + 1]]

(* CreateAlias, an import, or an alias enabled again: the cursor of the     *)
(* account stays where it is.                                               *)
EnableAlias(a) ==
    /\ ~alias[a].on /\ Spend("toggle")
    /\ SetAlias(a, TRUE)
    /\ UNCHANGED <<clock, box, acct, cursor, acursor, diskVars, read, edit>>

DisableAlias(a) ==
    /\ alias[a].on /\ Spend("toggle")
    /\ SetAlias(a, FALSE)
    /\ UNCHANGED <<clock, box, acct, cursor, acursor, diskVars, read, edit>>

(* DeleteAlias, with the rows that refer to the alias. *)
DeleteAlias(a) ==
    /\ alias[a].on /\ Spend("toggle")
    /\ SetAlias(a, FALSE)
    /\ acursor' = [acursor EXCEPT ![a] = None]
    /\ rows' = {[r EXCEPT !.aliases = @ \ {a}] : r \in rows}
    /\ UNCHANGED <<clock, box, acct, cursor, files, trash, evict, raced, read, edit>>

(* UpdateAccount when the cursors are withdrawn with the old credentials.   *)
Withdraw(row) ==
    /\ acct' = [row EXCEPT !.paused = FALSE, !.config = @ + 1]
    /\ cursor' = None
    /\ acursor' = [a \in Alias |-> None]

ChangePassword(good) ==
    /\ ArchiveLockFree /\ Spend("edit")
    /\ Withdraw([acct EXCEPT !.good = good])
    /\ UNCHANGED <<clock, box, alias, diskVars, read, edit>>

EnableAccount ==
    /\ ArchiveLockFree /\ ~acct.on /\ Spend("edit")
    /\ Withdraw([acct EXCEPT !.on = TRUE])
    /\ UNCHANGED <<clock, box, alias, diskVars, read, edit>>

DisableAccount ==
    /\ ArchiveLockFree /\ acct.on /\ Spend("edit")
    /\ acct' = [acct EXCEPT !.on = FALSE, !.config = @ + 1]
    /\ UNCHANGED <<clock, box, alias, cursor, acursor, diskVars, read, edit>>

(* SetAccountMailTransport *)
SwitchTransport ==
    /\ acct.on /\ edit = None /\ read.phase # "down" /\ Spend("edit")
    /\ acct' = [acct EXCEPT !.web = ~@, !.transport = @ + 1]
    /\ UNCHANGED <<clock, box, alias, cursor, acursor, diskVars, read, edit>>

(* UpdateAccount with another host, port or user: the archive directory is  *)
(* renamed away before the transaction that forgets the old source commits. *)
QuarantineArchive ==
    /\ ArchiveLockFree /\ acct.src < Sources /\ Spend("edit")
    /\ edit' = [kind |-> "renamed"]
    /\ files' = Without(files, DOMAIN files)
    /\ trash' = IF DOMAIN files = {} THEN trash ELSE [kind |-> "dir", files |-> files]
    /\ UNCHANGED <<clock, mailVars, rows, evict, raced, read>>

CommitSource ==
    /\ edit.kind = "renamed"
    /\ Withdraw([acct EXCEPT !.src = @ + 1])
    /\ rows' = {}
    /\ edit' = [kind |-> "committed"]
    /\ UNCHANGED <<clock, box, alias, files, trash, evict, raced, read, left>>

DiscardQuarantine ==
    /\ edit.kind = "committed"
    /\ trash' = NoDir /\ edit' = None
    /\ UNCHANGED <<clock, mailVars, rows, files, evict, raced, read, left>>

(* The commit fails: the directory is moved back. *)
RestoreQuarantine ==
    /\ edit.kind = "renamed"
    /\ files' = IF trash = NoDir THEN files ELSE trash.files
    /\ trash' = NoDir /\ edit' = None
    /\ UNCHANGED <<clock, mailVars, rows, evict, raced, read, left>>

-----------------------------------------------------------------------------
(* EnforceMailArchiveLimit on behalf of any account: the oldest content is  *)
(* removed, then its row updated, without this account's archive lock.      *)

Oldest(r) == r.state = "available" /\ \A o \in rows : o.state = "available" => r.at <= o.at

EvictFile(r) ==
    /\ read.phase # "down" /\ evict = None /\ Oldest(r) /\ Spend("evict")
    /\ files' = Without(files, {r.path})
    /\ evict' = [kind |-> "row", gen |-> r.gen, uid |-> r.uid, src |-> r.src]
    /\ raced' = raced \cup {<<r.gen, r.uid>>}
    /\ UNCHANGED <<clock, mailVars, rows, trash, read, edit>>

Lost(r, state) == [r EXCEPT !.state = state, !.path = <<>>]

EvictRow ==
    /\ evict # None
    /\ rows' = {IF r.state = "available" /\ <<r.gen, r.uid, r.src>> = <<evict.gen, evict.uid, evict.src>>
                THEN Lost(r, "evicted") ELSE r : r \in rows}
    /\ evict' = None
    /\ UNCHANGED <<clock, mailVars, files, trash, raced, read, edit, left>>

-----------------------------------------------------------------------------
(* Stop at any point, and start again. *)

Crash ==
    /\ read.phase # "down" /\ Spend("crash")
    /\ read' = Down /\ edit' = None /\ evict' = None
    /\ UNCHANGED <<clock, mailVars, rows, files, trash, raced>>

(* reconcileMailArchiveQuarantines: a directory in place, or no rows, means *)
(* that the source change committed.                                        *)
Recovered ==
    IF trash = NoDir \/ DOMAIN files # {} \/ rows = {} THEN files ELSE trash.files

(* ReconcileMailArchive *)
Startup ==
    /\ read.phase = "down"
    /\ files' = Recovered
    /\ trash' = NoDir
    /\ rows' = {IF r.state = "available" /\ r.path \notin DOMAIN Recovered
                THEN Lost(r, "missing") ELSE r : r \in rows}
    /\ read' = Idle
    /\ UNCHANGED <<clock, mailVars, evict, raced, edit, left>>

-----------------------------------------------------------------------------
(* The upstream server. *)

(* `owed': the aliases enabled when the message arrives, but for those that  *)
(* a read of the account which is already under way has not observed.        *)
Arrive(to) ==
    /\ Spend("mail")
    /\ LET enabled == Stamped(to \cap Enabled)
           owed == IF read.phase = "prepared" /\ read.kind \in {"full", "active"}
                   THEN enabled \cap read.known ELSE enabled
       IN  box' = [box EXCEPT ![acct.src].mail = Append(@, [to |-> to, at |-> clock, owed |-> owed])]
    /\ UNCHANGED <<clock, acct, alias, cursor, acursor, diskVars, read, edit>>

(* The server gives its messages a new UIDVALIDITY. *)
Renumber ==
    /\ Spend("renumber")
    /\ box' = [box EXCEPT ![acct.src].gen = @ + 1]
    /\ UNCHANGED <<clock, acct, alias, cursor, acursor, diskVars, read, edit>>

Tick ==
    /\ Spend("tick")
    /\ clock' = clock + 1
    /\ UNCHANGED <<mailVars, diskVars, read, edit>>

Init ==
    /\ clock = Window + 1
    /\ box = [s \in 1 .. Sources |-> [gen |-> 1, mail |-> <<>>]]
    /\ acct = [on |-> TRUE, config |-> 0, transport |-> 0, web |-> FALSE, src |-> 1,
               good |-> TRUE, paused |-> FALSE]
    /\ alias \in [Alias -> {[on |-> b, stamp |-> 0] : b \in BOOLEAN}]
    /\ cursor = None /\ acursor = [a \in Alias |-> None]
    /\ rows = {} /\ files = [p \in {} |-> <<>>] /\ trash = NoDir
    /\ read = Idle /\ edit = None /\ evict = None /\ raced = {}
    /\ left \in Scenarios

Reading ==
    \/ \E active \in BOOLEAN : PrepareAccount(active)
    \/ \E a \in Alias : PrepareAlias(a)
    \/ \E slack \in {0, 1} : Fetch(slack)
    \/ Refused \/ Abandon \/ RecordRefusal
    \/ Stage \/ Commit \/ Discard \/ Finish

Management ==
    \/ \E a \in Alias : EnableAlias(a) \/ DisableAlias(a) \/ DeleteAlias(a)
    \/ \E good \in BOOLEAN : ChangePassword(good)
    \/ EnableAccount \/ DisableAccount \/ SwitchTransport
    \/ QuarantineArchive \/ CommitSource \/ DiscardQuarantine \/ RestoreQuarantine

Environment ==
    \/ \E to \in SUBSET Alias : Arrive(to)
    \/ Renumber \/ Tick \/ Crash \/ Startup
    \/ \E r \in rows : EvictFile(r)
    \/ EvictRow

Next == Reading \/ Management \/ Environment

Spec == Init /\ [][Next]_vars

-----------------------------------------------------------------------------
(* Properties *)

FiledFor(a, gen, u) == \E r \in RowOf(gen, u) : a \in r.aliases

(* Behind a committed cursor nothing is left unfiled: every message of the  *)
(* generation that the cursor has passed, that is not older than a recovery *)
(* window or baseline, and that was addressed to an alias enabled since     *)
(* before it arrived (and since before the read that passed it began), is   *)
(* in the archive of that alias. For the cursor of one alias, every message *)
(* addressed to it. (applyMailboxSync, fetchArchiveIncremental: batches,    *)
(* pinned windows, resets, concurrent edits of account and aliases.)        *)
FiledBehindCursor ==
    LET mail == box[acct.src].mail
    IN  /\ cursor # None =>
             \A u \in cursor.floor + 1 .. cursor.last : \A p \in mail[u].owed :
                alias[p[1]].on /\ alias[p[1]].stamp = p[2] => FiledFor(p[1], cursor.gen, u)
        /\ \A a \in Alias : acursor[a] # None =>
             \A u \in acursor[a].floor + 1 .. acursor[a].last :
                a \in mail[u].to => FiledFor(a, acursor[a].gen, u)

(* No message of an earlier mailbox source is shown under the present one:  *)
(* archive rows are of the account's source, and a file a row refers to     *)
(* holds exactly the content the row was committed with, even though both   *)
(* sources use the same UIDVALIDITY and UIDs (UpdateAccount, a read that    *)
(* was under way across the change, quarantine and its recovery).           *)
NoForeignMail ==
    edit = None =>
        \A r \in rows : /\ r.src = acct.src
                        /\ /\ r.state = "available" /\ r.path \in DOMAIN files
                           /\ <<r.gen, r.uid>> \notin raced
                           => files[r.path] = r.digest

(* An account is paused for refused credentials only while its present      *)
(* credentials are the refused ones: a read that was under way when the     *)
(* password was changed cannot pause the account again                      *)
(* (recordMailboxSyncFailure).                                              *)
PauseIsCurrent == acct.paused => ~acct.good

(* Content the archive claims to have is there: only an eviction under way  *)
(* for that message may take the file of an available row, never the        *)
(* clean-up of a publication that failed, the replacement of a web          *)
(* projection, a source change that did not commit, or a stop in between.   *)
ContentKept ==
    edit = None /\ read.phase # "down" =>
        \A r \in rows : r.state = "available" =>
            r.path \in DOMAIN files \/ <<r.gen, r.uid>> \in raced
=============================================================================
