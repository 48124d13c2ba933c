--------------------------- MODULE AliasCreation ---------------------------
(***************************************************************************)
(* Creating one alias of an account at Apple (hmesync/service.go,           *)
(* hmesync/account_channel.go) and keeping the local aliases in step with   *)
(* Apple's directories (Service.SyncAliases).                              *)
(*                                                                         *)
(* A creation cannot be rolled back and its answer may be lost, so an        *)
(* address is written down as a disabled candidate before anything else is  *)
(* done with it, and a candidate closes its channel until it is confirmed.  *)
(* A run holds the account's operation lock and account lock to its end; a   *)
(* synchronisation holds the first, and takes the second to commit.  Apple,  *)
(* the clock and crashes take no lock.                                      *)
(***************************************************************************)
EXTENDS Integers, Sequences, FiniteSets

CONSTANTS
    Address,        \* the addresses Apple can hand out
    NoAddress,
    Places,         \* MaxEnabledAliasesPerAccount
    AccountLimit,   \* AppleAccountCreationHourlyLimit
    WebLimit,       \* ICloudWebCreationHourlyLimit
    WebOnlyLimit,   \* ICloudWebOnlyCreationHourlyLimit
    Hour,           \* window of the limits, and AppleCreationRateLimitCooldown
    LongestWait,    \* bound: the longest Retry-After of Apple, at least the cooldown
    StaleAge,       \* stalePendingAliasConfirmationAge
    OldAge,         \* staleAccountCandidateReviewAge
    Lag,            \* a live address is listed when its row is older than this
    MaxTime,        \* bound: the last tick explored
    MaxRuns,        \* bound: creations begun
    MaxSyncs,       \* bound: synchronisations begun
    MaxEvents       \* bound: disablings, deletions, session changes, removals at Apple, crashes

ASSUME AliasCreationAssumption ==
    /\ IsFiniteSet(Address) /\ NoAddress \notin Address
    /\ Places \in Nat \ {0}
    /\ {AccountLimit, WebLimit, WebOnlyLimit} \subseteq Nat \ {0}
    /\ WebLimit <= WebOnlyLimit
    /\ Hour \in Nat \ {0} /\ LongestWait \in Nat /\ Hour <= LongestWait
    /\ {MaxTime, MaxRuns, MaxSyncs, MaxEvents} \subseteq Nat
    /\ {StaleAge, OldAge, Lag} \subseteq Nat /\ StaleAge <= OldAge /\ Lag < OldAge

Channel == {"apple_account", "icloud_web"}
Time    == 0 .. MaxTime
Later(s, t) == IF s > t THEN s ELSE t

VARIABLES
    now,        \* the wall clock
    apple,      \* what Apple has done with each address
    session,    \* the Apple Account session is usable
    rows,       \* the aliases table with the candidates' provenance and review
    attempts,   \* apple_creation_channel_attempts
    pause,      \* apple_creation_channel_cooldowns
    cool,       \* Service.creationCooldowns, lost with the process
    run,        \* the creation in progress
    sync,       \* the synchronisation in progress
    spent,      \* bounded counters
    charged,    \* history: every attempt ever charged to a channel
    told        \* history: until when Apple told a background run to wait

budgetVars == <<attempts, pause, cool, charged, told>>
vars == <<now, apple, session, rows, attempts, pause, cool, run, sync, spent, charged, told>>

-----------------------------------------------------------------------------
(* Rows and candidates *)

\* late is history: the candidate was completed again when it was already old.
NoRow == [st |-> "none", via |-> "unknown", id |-> FALSE, born |-> 0, late |-> FALSE]
Candidate(via, id, born) ==
    [NoRow EXCEPT !.st = "pending", !.via = via, !.id = id, !.born = born]

\* Confirmed: its provenance is read of candidates only.
Issued(row) == [NoRow EXCEPT !.st = "enabled", !.born = row.born]

Known      == {a \in Address : rows[a].st # "none"}
Unresolved == {a \in Address : rows[a].st \in {"pending", "review"}}
Occupied   == {a \in Address : rows[a].st \in {"enabled", "pending", "review"}}
RoomBesideEnabled == Cardinality({a \in Address : rows[a].st = "enabled"}) < Places
HasRoom    == Cardinality(Occupied) < Places

Age(a) == now - rows[a].born

\* What a channel may list when it is read: live addresses only, and every one
\* whose row is older than Lag, but for one that was completed late.
Live == {a \in Address : apple[a] = "live"}
Directory == {D \in SUBSET Live : {a \in Live \cap Known : Age(a) > Lag /\ ~rows[a].late} \subseteq D}

\* The candidates that close a channel: its own, and those of unknown origin.
GateOfOwn(ch) == {a \in Address : rows[a].st = "pending" /\ rows[a].via = ch}
Gate(ch) == {a \in Address : rows[a].st = "pending" /\ rows[a].via \in {"unknown", ch}}

\* The candidate a run on channel ch takes up: the oldest that closes it.
Oldest(ch) ==
    IF Gate(ch) = {} THEN {NoAddress}
    ELSE {a \in Gate(ch) : \A b \in Gate(ch) : rows[a].born <= rows[b].born}

-----------------------------------------------------------------------------
(* Budgets of the channels *)

LimitOf(ch, webOnly) ==
    IF ch = "apple_account" THEN AccountLimit
    ELSE IF webOnly THEN WebOnlyLimit ELSE WebLimit

Recent(ch) == {t \in attempts[ch] : t > now - Hour}
Paused(ch) == Later(cool[ch], pause[ch]) > now
Exhausted(ch, webOnly) == Cardinality(Recent(ch)) >= LimitOf(ch, webOnly)

Refused(ch, webOnly) == Paused(ch) \/ Exhausted(ch, webOnly)

Charge(ch) ==
    /\ attempts' = [attempts EXCEPT ![ch] = Recent(ch) \cup {now}]
    /\ charged' = [charged EXCEPT ![ch] = @ \cup {now}]
    /\ UNCHANGED <<pause, cool, told>>

PauseInMemory(ch, until) ==
    /\ cool' = [cool EXCEPT ![ch] = Later(@, until)]
    /\ pause' = pause
Pause(ch, until) ==
    /\ cool' = [cool EXCEPT ![ch] = Later(@, until)]
    /\ pause' = [pause EXCEPT ![ch] = Later(@, until)]

\* Apple answers "too many": a background run remembers it, a probe does not.
Throttled(ch) ==
    /\ UNCHANGED <<attempts, charged>>
    /\ IF run.probe
       THEN UNCHANGED <<pause, cool, told>>
       ELSE \E until \in now + Hour .. now + LongestWait :
               Pause(ch, until) /\ told' = [told EXCEPT ![ch] = Later(@, until)]

-----------------------------------------------------------------------------
NoRun == [pc |-> "idle", probe |-> FALSE, channel |-> "auto", pref |-> "icloud_web",
          cand |-> NoAddress, todo |-> <<>>, ch |-> "icloud_web",
          webOnly |-> FALSE, reply |-> "none", made |-> {}]
NoSync == [pc |-> "idle", start |-> 0, seen |-> {}, ready |-> FALSE]

\* A candidate of unknown origin is what a version without provenance left.
Init ==
    /\ now = 0 /\ session \in BOOLEAN
    /\ \/ rows = [a \in Address |-> NoRow] /\ apple = [a \in Address |-> "none"]
       \/ \E a \in Address, s \in {"generated", "live"} :
             /\ rows = [b \in Address |-> IF b = a THEN Candidate("unknown", FALSE, 0) ELSE NoRow]
             /\ apple = [b \in Address |-> IF b = a THEN s ELSE "none"]
    /\ attempts = [c \in Channel |-> {}] /\ charged = attempts
    /\ pause = [c \in Channel |-> 0] /\ cool = pause /\ told = pause
    /\ run = NoRun /\ sync = NoSync
    /\ spent = [runs |-> 0, syncs |-> 0, events |-> 0]

Spend(what, bound) == spent[what] < bound /\ spent' = [spent EXCEPT ![what] = @ + 1]
Goto(pc) == run' = [run EXCEPT !.pc = pc]
Stop == run' = NoRun

\* createRemoteAliasWithMode: the channels to try, one after the other.
Channels ==
    IF run.channel # "auto" THEN <<run.channel>>
    ELSE IF ~session THEN <<"icloud_web">>
    ELSE IF run.pref = "icloud_web" /\ ~run.probe THEN <<"icloud_web", "apple_account">>
    ELSE <<"apple_account", "icloud_web">>
Create ==
    run' = [run EXCEPT !.pc = "channel", !.cand = NoAddress, !.todo = Channels,
                       !.webOnly = (run.channel = "auto" /\ ~session)]

\* The channel whose candidates the run looks for.
Selected(probe, channel, pref) ==
    IF channel # "auto" THEN channel
    ELSE IF ~probe THEN pref
    ELSE IF session THEN "apple_account" ELSE "icloud_web"

\* A background run (auto, with the slot's channel) or a probe of the operator.
\* Take both locks, look for a candidate; without one there must be room.
Begin ==
    /\ run.pc = "idle" /\ sync.pc = "idle"
    /\ Spend("runs", MaxRuns)
    /\ \E probe \in BOOLEAN, channel \in Channel \cup {"auto"}, pref \in Channel :
       \E a \in Oldest(Selected(probe, channel, pref)) :
          /\ a = NoAddress => HasRoom
          /\ IF probe THEN pref = "icloud_web" ELSE channel = "auto"
          /\ run' = [NoRun EXCEPT !.pc = "list", !.probe = probe, !.channel = channel,
                                  !.pref = pref, !.cand = a]
    /\ UNCHANGED <<now, apple, session, rows, budgetVars, sync>>

\* reviewOldAccountCandidate: an old, uncompleted candidate the list omits.
Reviewable(a, seen) ==
    /\ rows[a].via = "apple_account" /\ ~rows[a].id
    /\ Age(a) >= OldAge /\ a \notin seen

ListDirectory ==
    /\ run.pc = "list"
    /\ \E seen \in Directory :
          IF run.cand = NoAddress THEN Create
          ELSE Goto(IF Reviewable(run.cand, seen) THEN "review"
                    ELSE IF run.cand \in seen THEN "confirm"
                    ELSE IF rows[run.cand].via = "apple_account" /\ rows[run.cand].id THEN "detail"
                    ELSE "resume")
    /\ UNCHANGED <<now, apple, session, rows, budgetVars, sync, spent>>

\* The other directory is read: either shows the address, or both omit it and
\* the candidate is set aside so that creation can go on, if there is room.
Review ==
    /\ run.pc = "review" /\ session
    /\ \E seen \in Directory :
          IF run.cand \in seen
          THEN Goto("confirm") /\ UNCHANGED rows
          ELSE /\ rows' = [rows EXCEPT ![run.cand].st = "review"]
               /\ IF HasRoom THEN Create ELSE Stop
    /\ UNCHANGED <<now, apple, session, budgetVars, sync, spent>>

\* ConfirmPendingAutoAlias
Confirm ==
    /\ run.pc = "confirm"
    /\ rows[run.cand].st \in {"pending", "review"} /\ Cardinality(Occupied) <= Places
    /\ rows' = [rows EXCEPT ![run.cand] = Issued(@)]
    /\ Stop
    /\ UNCHANGED <<now, apple, session, budgetVars, sync, spent>>

\* A candidate no list shows: completing its address again is idempotent.
\* Whatever the answer, Apple may have completed it.
Uncertain(a) ==
    \E s \in IF apple[a] = "live" THEN {"live"} ELSE {"generated", "live"} :
       apple' = [apple EXCEPT ![a] = s]

Resume ==
    /\ run.pc = "resume"
    /\ rows[run.cand].via # "icloud_web" /\ session /\ apple[run.cand] # "gone"
    /\ run.probe \/ ~Paused("apple_account")
    /\ \/ /\ apple' = [apple EXCEPT ![run.cand] = "live"]
          /\ Goto("acknowledged") /\ UNCHANGED budgetVars
       \/ Uncertain(run.cand) /\ Goto("poll") /\ UNCHANGED budgetVars
       \/ Uncertain(run.cand) /\ Stop /\ Throttled("apple_account")
    /\ rows' = [rows EXCEPT ![run.cand].late = @ \/ Age(run.cand) >= OldAge]
    /\ UNCHANGED <<now, session, sync, spent>>

\* SaveAliasCreationCandidateDetail: the completed candidate's id is written down.
SaveDetail ==
    /\ run.pc = "acknowledged"
    /\ rows' = [rows EXCEPT ![run.cand].via = "apple_account", ![run.cand].id = TRUE]
    /\ run' = [run EXCEPT !.pc = "detail", !.reply = "id"]
    /\ UNCHANGED <<now, apple, session, budgetVars, sync, spent>>

\* DiscardStalePendingAutoAlias: nothing can resume a candidate of unknown origin.
DiscardStale ==
    /\ run.pc = "resume"
    /\ rows[run.cand].via = "unknown" /\ ~session /\ Age(run.cand) >= StaleAge
    /\ rows' = [rows EXCEPT ![run.cand] = NoRow]
    /\ IF Cardinality(Occupied \ {run.cand}) < Places
       THEN Create
       ELSE Stop
    /\ UNCHANGED <<now, apple, session, budgetVars, sync, spent>>

\* GetAccountAlias: the detail endpoint knows an address before the lists do.
ReadDetail ==
    /\ run.pc = "detail" /\ session
    /\ run.probe \/ ~Paused("apple_account")
    /\ \/ apple[run.cand] = "live" /\ Goto("confirm") /\ UNCHANGED budgetVars
       \/ /\ IF run.reply = "id" THEN Goto("poll") ELSE Stop
          /\ UNCHANGED budgetVars \/ Throttled("apple_account")
    /\ UNCHANGED <<now, apple, session, rows, sync, spent>>

\* A directory that omits the candidate leaves the run waiting (or failing).
AssumedListed(a, seen) == TRUE
Listed(a, seen) == a \in seen

PollDirectory ==
    /\ run.pc = "poll" /\ \E seen \in Directory : Listed(run.cand, seen)
    /\ Goto("confirm")
    /\ UNCHANGED <<now, apple, session, rows, budgetVars, sync, spent>>

-----------------------------------------------------------------------------
(* The channels: claim, ask Apple, write the candidate down *)

SkipChannel ==
    /\ run.pc = "channel" /\ run.todo # <<>>
    /\ LET ch == Head(run.todo)
       IN  Gate(ch) # {} \/ (~run.probe /\ Refused(ch, run.webOnly))
    /\ run' = [run EXCEPT !.todo = Tail(@)]
    /\ UNCHANGED <<now, apple, session, rows, budgetVars, sync, spent>>

ClaimChannel ==
    /\ run.pc = "channel" /\ run.todo # <<>>
    /\ LET ch == Head(run.todo)
       IN  /\ Gate(ch) = {}
           /\ IF run.probe
              THEN UNCHANGED budgetVars
              ELSE ~Refused(ch, run.webOnly) /\ now \notin attempts[ch] /\ Charge(ch)
           /\ run' = [run EXCEPT !.pc = "request", !.todo = Tail(@), !.ch = ch]
    /\ UNCHANGED <<now, apple, session, rows, sync, spent>>

\* The channel refused and nothing was made: the next one may be tried.
Fallback ==
    /\ Throttled(run.ch)
    /\ IF run.probe THEN Stop ELSE run' = [run EXCEPT !.pc = "channel", !.cand = NoAddress]

\* CreateAlias: an answer without an address made nothing; one that is not
\* complete, or lost, leaves the address to be looked for.
RequestWeb ==
    /\ run.pc = "request" /\ run.ch = "icloud_web"
    /\ \/ \E a \in Address, reply \in {"full", "unsure"} :
             /\ apple[a] = "none"
             /\ run' = [run EXCEPT !.pc = "save", !.cand = a, !.reply = reply, !.made = @ \cup {a}]
             /\ \/ reply = "full" /\ apple' = [apple EXCEPT ![a] = "live"] /\ UNCHANGED budgetVars
                \/ reply = "unsure" /\ Uncertain(a) /\ (UNCHANGED budgetVars \/ Throttled(run.ch))
       \/ Fallback /\ UNCHANGED apple
    /\ UNCHANGED <<now, session, rows, sync, spent>>

\* CreateAccountAlias generates an address, then completes it.
RequestAccount ==
    /\ run.pc = "request" /\ run.ch = "apple_account" /\ session
    /\ \/ /\ \E a \in Address :
                /\ apple[a] = "none" /\ apple' = [apple EXCEPT ![a] = "generated"]
                /\ run' = [run EXCEPT !.pc = "complete", !.cand = a, !.made = @ \cup {a}]
          /\ UNCHANGED <<session, budgetVars>>
       \/ Fallback /\ UNCHANGED <<apple, session>>
       \/ session' = FALSE /\ Stop /\ UNCHANGED <<apple, budgetVars>>
    /\ UNCHANGED <<now, rows, sync, spent>>

\* CompleteAccountAlias: a server error is followed by one replay; a refusal
\* clears the candidate, whatever the first request has done.
CompleteNew ==
    /\ run.pc \in {"complete", "replay"}
    /\ \/ /\ apple' = [apple EXCEPT ![run.cand] = "live"]
          /\ run' = [run EXCEPT !.pc = "save", !.reply = "id"]
          /\ UNCHANGED <<session, budgetVars>>
       \/ /\ Uncertain(run.cand)
          /\ \/ run' = [run EXCEPT !.pc = "save", !.reply = "unsure"]
             \/ run.pc = "complete" /\ Goto("replay")
          /\ UNCHANGED <<session, budgetVars>>
       \/ Fallback /\ UNCHANGED <<apple, session>>
       \/ session' = FALSE /\ Stop /\ UNCHANGED <<apple, budgetVars>>
    /\ UNCHANGED <<now, rows, sync, spent>>

\* createAutoAliasCandidate
SaveCandidate ==
    /\ run.pc = "save" /\ HasRoom /\ rows[run.cand].st = "none"
    /\ rows' = [rows EXCEPT ![run.cand] = Candidate(run.ch, run.reply = "id", now)]
    /\ run' = [NoRun EXCEPT !.pc = CASE run.reply = "full" -> "confirm" [] run.reply = "id" -> "detail"
                                     [] OTHER -> "poll",
                            !.probe = run.probe, !.cand = run.cand, !.reply = run.reply]
    /\ UNCHANGED <<now, apple, session, budgetVars, sync, spent>>

\* An error at any point ends the run, except between a generated address and
\* its completion, where the answer is never an error alone.
FailRun ==
    /\ run.pc \notin {"idle", "complete", "replay"}
    /\ Stop
    /\ UNCHANGED <<now, apple, session, rows, budgetVars, sync, spent>>

-----------------------------------------------------------------------------
(* Service.SyncAliases *)

\* What a cleanup leaves alone: rows younger than the read, and candidates
\* whose address may still be on its way into the directories.
ProtectedRow(a, start) == rows[a].born > start
Protected(a, start) ==
    \/ rows[a].born > start
    \/ rows[a].st \in {"pending", "review"} /\ rows[a].born > start - OldAge

MissingFrom(seen, start) == {a \in Known \ seen : ~Protected(a, start)}

\* The Web directory, or the Account one alone when Web has failed; the other
\* directory is consulted only when a row would be deleted.
SyncRead ==
    /\ Spend("syncs", MaxSyncs)
    /\ run.pc = "idle" /\ sync.pc = "idle"
    /\ \E seen \in Directory :
       \/ sync' = [pc |-> IF MissingFrom(seen, now) # {} /\ session THEN "cross" ELSE "commit",
                start |-> now, seen |-> seen, ready |-> TRUE]
       \/ /\ session
          /\ sync' = [pc |-> "commit", start |-> now, seen |-> seen,
                      ready |-> MissingFrom(seen, now) = {}]
    /\ UNCHANGED <<now, apple, session, rows, budgetVars, run>>

CrossCheck ==
    /\ sync.pc = "cross"
    /\ \/ \E seen \in Directory : sync' = [sync EXCEPT !.pc = "commit", !.seen = @ \cup seen]
       \/ sync' = [sync EXCEPT !.pc = "commit", !.ready = FALSE]
    /\ UNCHANGED <<now, apple, session, rows, budgetVars, run, spent>>

\* Import what is new (enabled while there is room), confirm what was set
\* aside and is listed, delete what both directories have lost.
SyncCommit ==
    /\ sync.pc = "commit"
    /\ LET fresh == sync.seen \ Known
           free  == Places - Cardinality(Occupied)
           gone  == IF sync.ready THEN MissingFrom(sync.seen, sync.start) ELSE {}
       IN  \E E \in SUBSET fresh :
              /\ Cardinality(E) = IF free < Cardinality(fresh) THEN free ELSE Cardinality(fresh)
              /\ rows' = [a \in Address |->
                    IF a \in fresh
                    THEN [NoRow EXCEPT !.st = IF a \in E THEN "enabled" ELSE "disabled", !.born = now]
                    ELSE IF a \in gone THEN NoRow
                    ELSE IF rows[a].st = "review" /\ a \in sync.seen
                    THEN Issued(rows[a])
                    ELSE rows[a]]
    /\ sync' = NoSync
    /\ UNCHANGED <<now, apple, session, budgetVars, run, spent>>

SyncFails ==
    /\ sync.pc # "idle" /\ sync' = NoSync
    /\ UNCHANGED <<now, apple, session, rows, budgetVars, run, spent>>

-----------------------------------------------------------------------------
(* The operator, Apple, the clock and the process *)

\* updateAliasState and DeleteAlias under the account lock: a candidate is neither
\* enabled nor deleted by hand.
EnableAlias(a) ==
    /\ run.pc = "idle" /\ rows[a].st = "disabled" /\ HasRoom
    /\ rows' = [rows EXCEPT ![a].st = "enabled"]
    /\ UNCHANGED <<now, apple, session, budgetVars, run, sync, spent>>

DisableAlias(a) ==
    /\ Spend("events", MaxEvents)
    /\ run.pc = "idle" /\ rows[a].st = "enabled"
    /\ rows' = [rows EXCEPT ![a].st = "disabled"]
    /\ UNCHANGED <<now, apple, session, budgetVars, run, sync>>

DeleteAlias(a) ==
    /\ Spend("events", MaxEvents)
    /\ run.pc = "idle" /\ rows[a].st \in {"enabled", "disabled"}
    /\ rows' = [rows EXCEPT ![a] = NoRow]
    /\ UNCHANGED <<now, apple, session, budgetVars, run, sync>>

\* The account session expires, is rejected elsewhere, or is renewed by a login.
SessionChanges ==
    /\ Spend("events", MaxEvents)
    /\ run.pc = "idle" /\ session' = ~session
    /\ UNCHANGED <<now, apple, rows, budgetVars, run, sync>>

RemoveAtApple(a) ==
    /\ Spend("events", MaxEvents)
    /\ apple[a] = "live" /\ apple' = [apple EXCEPT ![a] = "gone"]
    /\ UNCHANGED <<now, session, rows, budgetVars, run, sync>>

Tick ==
    /\ now < MaxTime /\ now' = now + 1
    /\ UNCHANGED <<apple, session, rows, budgetVars, run, sync, spent>>

Crash ==
    /\ Spend("events", MaxEvents)
    /\ Stop /\ sync' = NoSync
    /\ cool' = [c \in Channel |-> 0]
    /\ UNCHANGED <<now, apple, session, rows, attempts, pause, charged, told>>

RunNext ==
    \/ Begin \/ ListDirectory \/ Review \/ Confirm \/ Resume \/ SaveDetail \/ DiscardStale
    \/ ReadDetail \/ PollDirectory \/ SkipChannel \/ ClaimChannel
    \/ RequestWeb \/ RequestAccount \/ CompleteNew \/ SaveCandidate \/ FailRun
SyncNext  == SyncRead \/ CrossCheck \/ SyncCommit \/ SyncFails
AdminNext == \E a \in Address : EnableAlias(a) \/ DisableAlias(a) \/ DeleteAlias(a)
WorldNext ==
    \/ SessionChanges \/ Tick \/ Crash
    \/ \E a \in Address : RemoveAtApple(a)

Next == RunNext \/ SyncNext \/ AdminNext \/ WorldNext
Spec == Init /\ [][Next]_vars

-----------------------------------------------------------------------------
\* The reserved places of unconfirmed and set-aside candidates are never given
\* to anyone else: enabled aliases and candidates fit the account together,
\* whoever enables, imports, confirms or creates.
PlacesKept == Cardinality(Occupied) <= Places

\* A channel has one open candidate at most, and none beside a candidate of
\* unknown origin: no later run generates another address on it.
OneCandidatePerChannel ==
    LET open == {a \in Address : rows[a].st = "pending"}
    IN  \A a, b \in open : a # b => rows[a].via # rows[b].via /\ rows[a].via # "unknown"

\* Credentials are issued (a candidate enabled) only for an address that
\* Apple did complete, however its creation was answered.
IssuedOnlyIfMade == \A a \in Address : rows[a].st = "enabled" => apple[a] \in {"live", "gone"}

\* A background run asks a channel only after the time Apple told it to wait
\* until, also when the process was restarted in between.
ThrottleRemembered ==
    [][run.pc = "channel" /\ run'.pc = "request" /\ ~run.probe => told[run'.ch] <= now]_vars

\* A synchronisation never drops a candidate whose address exists at Apple: the
\* one that is not in the directories yet is still protected, unless its
\* completion was asked for again when the candidate was already old.
KeepsLiveCandidates ==
    [][\A a \in Unresolved : sync.pc = "commit" /\ sync' = NoSync /\ apple[a] = "live" /\ ~rows[a].late
          => rows'[a].st # "none"]_vars

\* A run that has made an address, or may have, does not make another one
\* ("an uncertain result or a returned candidate never triggers another
\* create", account_channel.go).
NothingMadeTwice == Cardinality({a \in run.made : apple[a] = "live"}) <= 1
=============================================================================
