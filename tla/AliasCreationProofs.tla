-------------------------- MODULE AliasCreationProofs --------------------------
(***************************************************************************)
(* Of the creation of aliases at Apple (AliasCreation), for any addresses,  *)
(* places, limits and delays: the places of candidates are kept, channels   *)
(* stay closed while a candidate is open, credentials are issued for        *)
(* addresses that exist only, and candidates that exist are not cleaned up. *)
(***************************************************************************)
EXTENDS AliasCreation, FiniteSetTheorems, TLAPS

RowSet == [st : {"none", "pending", "review", "enabled", "disabled"}, via : Channel \cup {"unknown"},
           id : BOOLEAN, born : Nat, late : BOOLEAN]
Looking == {"review", "confirm", "resume", "acknowledged", "detail", "poll"}    \* for what became of a candidate
Made == {"complete", "replay", "save"}                 \* an address that is not written down yet
Runs == [pc : Looking \cup Made \cup {"idle", "list", "channel", "request"}, probe : BOOLEAN,
         channel : Channel \cup {"auto"}, pref : Channel, cand : Address \cup {NoAddress}, todo : Seq(Channel),
         ch : Channel, webOnly : BOOLEAN, reply : {"none", "full", "id", "unsure"}, made : SUBSET Address]
Syncs == [pc : {"idle", "cross", "commit"}, start : Nat, seen : SUBSET Address, ready : BOOLEAN]

CreationTypes ==
    /\ now \in Nat /\ session \in BOOLEAN
    /\ apple \in [Address -> {"none", "generated", "live", "gone"}] /\ rows \in [Address -> RowSet]
    /\ run \in Runs /\ sync \in Syncs

Completed(a) == apple[a] \in {"live", "gone"}

(* What is known of the candidate in hand. A run excludes synchronisations    *)
(* and the operator, so that nothing changes between its steps but Apple.     *)
RunInv ==
    /\ run.pc # "idle" => sync.pc = "idle"
    /\ run.pc \in Looking => run.cand \in Address /\ rows[run.cand].st = "pending"
    /\ run.pc = "list" => run.cand = NoAddress \/ rows[run.cand].st = "pending"
    /\ run.pc \in Made => run.cand \in Address /\ rows[run.cand].st = "none" /\ apple[run.cand] # "none"
    /\ run.pc \in Made \cup {"request"} => Gate(run.ch) = {}
    /\ run.pc = "acknowledged" => rows[run.cand].via # "icloud_web"
    /\ run.pc = "confirm" \/ (run.pc = "save" /\ run.reply = "full") => Completed(run.cand)

(* What is known of the rows. *)
RowsInv ==
    /\ \A a \in Address : /\ rows[a].st # "none" => apple[a] # "none"
                          /\ rows[a].st \in {"enabled", "disabled"} => Completed(a)
    /\ OneCandidatePerChannel
    /\ sync.pc # "idle" => sync.seen \subseteq {a \in Address : Completed(a)}

(* A candidate that exists and is old enough to be cleaned up was listed.     *)
ListedInv ==
    sync.pc # "idle" =>
       \A a \in Unresolved : apple[a] = "live" /\ ~rows[a].late /\ rows[a].born <= sync.start - OldAge => a \in sync.seen

CreationInv == CreationTypes /\ RunInv /\ RowsInv /\ ListedInv

(* What Apple told a background run is in the database.                      *)
PauseInv == /\ pause \in [Channel -> Nat] /\ cool \in [Channel -> Nat] /\ told \in [Channel -> Nat]
            /\ \A c \in Channel : told[c] <= pause[c]

LEMMA CreationInitially == Init => CreationInv /\ PauseInv
<1> SUFFICES ASSUME Init PROVE CreationInv /\ PauseInv
  OBVIOUS
<1>1. NoRow \in RowSet /\ NoRow.st = "none"
  BY DEF NoRow, RowSet
<1>2. LET c == Candidate("unknown", FALSE, 0) IN c \in RowSet /\ c.st = "pending" /\ c.via = "unknown"
  BY <1>1 DEF Candidate, RowSet
<1>3. /\ rows \in [Address -> RowSet] /\ apple \in [Address -> {"none", "generated", "live", "gone"}]
      /\ \E b \in Address \cup {NoAddress} : \A a \in Address :
            rows[a].st = (IF a = b THEN "pending" ELSE "none") /\ (a = b => apple[a] # "none")
  <2>1. CASE rows = [a \in Address |-> NoRow] /\ apple = [a \in Address |-> "none"]
    BY <1>1, <2>1, AliasCreationAssumption
  <2>2. ASSUME NEW b \in Address, NEW s \in {"generated", "live"},
               rows = [a \in Address |-> IF a = b THEN Candidate("unknown", FALSE, 0) ELSE NoRow],
               apple = [a \in Address |-> IF a = b THEN s ELSE "none"]
        PROVE  <1>3!1 /\ <1>3!2
    <3>1. rows \in [Address -> RowSet] /\ apple \in [Address -> {"none", "generated", "live", "gone"}]
      BY <1>1, <1>2, <2>2
    <3>2. \A a \in Address : rows[a].st = (IF a = b THEN "pending" ELSE "none") /\ (a = b => apple[a] # "none")
      BY <1>1, <1>2, <2>2
    <3> QED
      BY <3>1, <3>2
  <2> QED
    BY <2>1, <2>2 DEF Init
<1>4. NoRun \in Runs /\ NoSync \in Syncs /\ NoRun.pc = "idle" /\ NoSync.pc = "idle" /\ NoSync.seen = {}
  BY DEF NoRun, Runs, NoSync, Syncs, Channel, Looking, Made
<1>5. now = 0 /\ session \in BOOLEAN /\ run = NoRun /\ sync = NoSync
  BY DEF Init
<1>6. CreationTypes /\ RunInv /\ ListedInv
  BY <1>3, <1>4, <1>5 DEF CreationTypes, RunInv, ListedInv, Looking, Made
<1>7. RowsInv
  BY <1>3, <1>4, <1>5 DEF RowsInv, OneCandidatePerChannel
<1>8. PauseInv
  BY DEF Init, PauseInv
<1> QED
  BY <1>6, <1>7, <1>8 DEF CreationInv

-----------------------------------------------------------------------------
(* What becomes of the run. *)

LEMMA GotoIs ==
    ASSUME run \in Runs, NEW p \in Looking \cup Made \cup {"idle", "list", "channel", "request"}, Goto(p)
    PROVE  run' \in Runs /\ run'.pc = p /\ run'.cand = run.cand /\ run'.ch = run.ch /\ run'.reply = run.reply
BY DEF Goto, Runs

LEMMA StopIs == ASSUME Stop PROVE run' \in Runs /\ run'.pc = "idle"
BY DEF Stop, NoRun, Runs, Channel, Looking, Made

LEMMA CreateIs == ASSUME run \in Runs, session \in BOOLEAN, Create PROVE run' \in Runs /\ run'.pc = "channel"
<1>1. Channels \in Seq(Channel)
  <2>1. "apple_account" \in Channel /\ "icloud_web" \in Channel /\ (run.channel # "auto" => run.channel \in Channel)
    BY DEF Channel, Runs
  <2> QED
    BY <2>1 DEF Channels
<1>2. (run.channel = "auto" /\ ~session) \in BOOLEAN
  OBVIOUS
<1> QED
  BY <1>1, <1>2 DEF Create, Runs

(* A run that has stopped or looks for a channel has no candidate in hand.      *)
LEMMA EmptyHanded ==
    ASSUME CreationTypes, RunInv, run.pc # "idle", UNCHANGED sync, run'.pc \in {"idle", "channel"}
    PROVE  RunInv'
BY DEF RunInv, Looking, Made

LEMMA SameRows ==
    ASSUME CreationInv, UNCHANGED <<rows, apple, sync>>
    PROVE  RowsInv' /\ ListedInv'
BY DEF CreationInv, RowsInv, ListedInv, OneCandidatePerChannel, Completed, Unresolved

LEMMA NotSyncing == ASSUME RunInv, run.pc # "idle", UNCHANGED sync PROVE ListedInv'
BY DEF RunInv, ListedInv

-----------------------------------------------------------------------------
(* Steps of a run that leave the rows and Apple alone. *)

LEMMA LooksKeep ==
    ASSUME CreationInv,
           Begin \/ ListDirectory \/ ReadDetail \/ PollDirectory \/ SkipChannel \/ ClaimChannel \/ FailRun
    PROVE  CreationInv'
<1>1. UNCHANGED <<now, apple, session, rows, sync>>
  BY DEF Begin, ListDirectory, ReadDetail, PollDirectory, SkipChannel, ClaimChannel, FailRun
<1>2. run' \in Runs /\ RunInv'
  <2> USE DEF CreationInv, CreationTypes
  <2>1. CASE Begin
    <3>1. PICK probe \in BOOLEAN, channel \in Channel \cup {"auto"}, pref \in Channel :
              \E a \in Oldest(Selected(probe, channel, pref)) :
                 /\ a = NoAddress => HasRoom
                 /\ IF probe THEN pref = "icloud_web" ELSE channel = "auto"
                 /\ run' = [NoRun EXCEPT !.pc = "list", !.probe = probe, !.channel = channel, !.pref = pref, !.cand = a]
      BY <2>1 DEF Begin
    <3>2. PICK a \in Oldest(Selected(probe, channel, pref)) :
              run' = [NoRun EXCEPT !.pc = "list", !.probe = probe, !.channel = channel, !.pref = pref, !.cand = a]
      BY <3>1, Zenon
    <3>3. a = NoAddress \/ (a \in Address /\ rows[a].st = "pending")
      BY <3>2 DEF Oldest, Gate
    <3>4. run' \in Runs /\ run'.pc = "list" /\ run'.cand = a
      <4>1. NoRun \in Runs /\ "list" \in Looking \cup Made \cup {"idle", "list", "channel", "request"}
        BY DEF NoRun, Runs, Channel
      <4>2. a \in Address \cup {NoAddress}
        BY <3>3
      <4> QED
        BY <3>2, <4>1, <4>2 DEF Runs
    <3>5. sync.pc = "idle"
      BY <2>1 DEF Begin
    <3> QED
      BY <1>1, <3>3, <3>4, <3>5 DEF RunInv, Looking, Made
  <2>2. CASE ListDirectory
    <3>1. run.pc = "list"
      BY <2>2 DEF ListDirectory
    <3>2. CASE Create
      BY <1>1, <3>1, <3>2, CreateIs, EmptyHanded
    <3>3. CASE run.cand # NoAddress
      <4>1. PICK seen \in Directory :
                Goto(IF Reviewable(run.cand, seen) THEN "review"
                     ELSE IF run.cand \in seen THEN "confirm"
                     ELSE IF rows[run.cand].via = "apple_account" /\ rows[run.cand].id THEN "detail"
                     ELSE "resume")
        BY <2>2, <3>3 DEF ListDirectory
      <4>2. run.cand \in Address /\ rows[run.cand].st = "pending"
        BY <3>1, <3>3 DEF RunInv, Runs
      <4>3. PICK p \in {"review", "confirm", "detail", "resume"} : Goto(p) /\ (p = "confirm" => run.cand \in seen)
        BY <4>1
      <4>4. run.cand \in seen => Completed(run.cand)
        BY DEF Directory, Live, Completed
      <4>5. run' \in Runs /\ run'.pc = p /\ run'.cand = run.cand
        BY <4>3, GotoIs DEF Looking
      <4> QED
        BY <1>1, <3>1, <4>2, <4>3, <4>4, <4>5 DEF RunInv, Looking, Made, Completed
    <3> QED
      BY <2>2, <3>2, <3>3 DEF ListDirectory
  <2>3. CASE ReadDetail
    <3>1. run.pc = "detail"
      BY <2>3 DEF ReadDetail
    <3>2. Stop \/ Goto("poll") \/ (Goto("confirm") /\ apple[run.cand] = "live")
      BY <2>3 DEF ReadDetail
    <3>3. CASE Stop
      BY <1>1, <3>1, <3>3, StopIs, EmptyHanded
    <3>4. CASE Goto("poll")
      <4>1. run' \in Runs /\ run'.pc = "poll" /\ run'.cand = run.cand
        BY <3>4, GotoIs DEF Looking
      <4> QED
        BY <1>1, <3>1, <4>1 DEF RunInv, Looking, Made
    <3>5. CASE Goto("confirm") /\ apple[run.cand] = "live"
      <4>1. run' \in Runs /\ run'.pc = "confirm" /\ run'.cand = run.cand
        BY <3>5, GotoIs DEF Looking
      <4> QED
        BY <1>1, <3>1, <3>5, <4>1 DEF RunInv, Looking, Made, Completed
    <3> QED
      BY <3>2, <3>3, <3>4, <3>5
  <2>4. CASE PollDirectory
    <3>1. run.pc = "poll" /\ apple[run.cand] = "live"
      BY <2>4 DEF PollDirectory, Listed, Directory, Live
    <3>2. run' \in Runs /\ run'.pc = "confirm" /\ run'.cand = run.cand
      BY <2>4, GotoIs DEF PollDirectory, Looking
    <3> QED
      BY <1>1, <3>1, <3>2 DEF RunInv, Looking, Made, Completed
  <2>5. CASE SkipChannel
    <3>1. run.pc = "channel" /\ run' = [run EXCEPT !.todo = Tail(run.todo)] /\ run.todo # <<>>
      BY <2>5 DEF SkipChannel
    <3>2. Tail(run.todo) \in Seq(Channel)
      BY <3>1 DEF Runs
    <3>3. run' \in Runs /\ run'.pc = "channel"
      BY <3>1, <3>2 DEF Runs
    <3> QED
      BY <1>1, <3>1, <3>3, EmptyHanded
  <2>6. CASE ClaimChannel
    <3> DEFINE ch == Head(run.todo)
    <3>1. run.pc = "channel" /\ run.todo # <<>> /\ Gate(ch) = {}
          /\ run' = [run EXCEPT !.pc = "request", !.todo = Tail(run.todo), !.ch = ch]
      BY <2>6 DEF ClaimChannel
    <3>2. ch \in Channel /\ Tail(run.todo) \in Seq(Channel)
      BY <3>1 DEF Runs
    <3>3. run' \in Runs /\ run'.pc = "request" /\ run'.ch = ch
      BY <3>1, <3>2 DEF Runs
    <3> HIDE DEF ch
    <3>4. Gate(run.ch)' = {}
      BY <1>1, <3>1, <3>3 DEF Gate
    <3> QED
      BY <1>1, <3>1, <3>3, <3>4 DEF RunInv, Looking, Made
  <2>7. CASE FailRun
    BY <1>1, <2>7, StopIs, EmptyHanded DEF FailRun
  <2> QED
    BY <2>1, <2>2, <2>3, <2>4, <2>5, <2>6, <2>7
<1> QED
  BY <1>1, <1>2, SameRows DEF CreationInv, CreationTypes

-----------------------------------------------------------------------------
(* Steps of a run that write. *)

(* A candidate is set aside, confirmed or dropped.                           *)
LEMMA CandidateResolved ==
    ASSUME CreationInv, NEW c \in Address, rows[c].st = "pending", NEW r \in RowSet, rows' = [rows EXCEPT ![c] = r],
           r.st \in {"none", "review", "enabled"}, r.st = "enabled" => Completed(c), UNCHANGED <<apple, sync>>
    PROVE  rows' \in [Address -> RowSet] /\ RowsInv'
<1>1. /\ rows' \in [Address -> RowSet] /\ rows'[c] = r
      /\ \A a \in Address \ {c} : rows'[a] = rows[a]
  BY DEF CreationInv, CreationTypes
<1>2. OneCandidatePerChannel'
  BY <1>1 DEF CreationInv, RowsInv, OneCandidatePerChannel
<1> QED
  BY <1>1, <1>2 DEF CreationInv, RowsInv, Completed

(* What Apple does with an address that has no row, or a candidate's.          *)
LEMMA AppleAnswers ==
    ASSUME CreationInv, run.pc # "idle", UNCHANGED <<rows, sync>>, NEW c \in Address, NEW s \in {"generated", "live"},
           apple' = [apple EXCEPT ![c] = s], rows[c].st \in {"none", "pending"}
    PROVE  apple' \in [Address -> {"none", "generated", "live", "gone"}] /\ RowsInv'
<1>1. /\ apple' \in [Address -> {"none", "generated", "live", "gone"}] /\ apple'[c] = s
      /\ \A a \in Address \ {c} : apple'[a] = apple[a]
  BY DEF CreationInv, CreationTypes
<1>2. sync.pc = "idle"
  BY DEF CreationInv, RunInv
<1> QED
  BY <1>1, <1>2 DEF CreationInv, RowsInv, OneCandidatePerChannel, Completed

LEMMA UncertainIs ==
    ASSUME NEW c \in Address, Uncertain(c)
    PROVE  \E s \in {"generated", "live"} : apple' = [apple EXCEPT ![c] = s]
BY DEF Uncertain

LEMMA ReviewKeeps == ASSUME CreationInv, Review PROVE CreationInv'
<1>1. run.pc = "review" /\ UNCHANGED <<now, apple, session, sync>>
  BY DEF Review
<1>2. run.cand \in Address /\ rows[run.cand].st = "pending"
  BY <1>1 DEF CreationInv, RunInv, Looking
<1>3. CASE Goto("confirm") /\ UNCHANGED rows /\ apple[run.cand] = "live"
  <2>1. run' \in Runs /\ run'.pc = "confirm" /\ run'.cand = run.cand
    BY <1>3, GotoIs DEF CreationInv, CreationTypes, Looking
  <2>2. RunInv'
    BY <1>1, <1>2, <1>3, <2>1 DEF CreationInv, RunInv, Looking, Made, Completed
  <2> QED
    BY <1>1, <1>3, <2>1, <2>2, SameRows DEF CreationInv, CreationTypes
<1>4. CASE rows' = [rows EXCEPT ![run.cand].st = "review"] /\ (Create \/ Stop)
  <2>1. rows' \in [Address -> RowSet] /\ RowsInv'
    <3> DEFINE r == [rows[run.cand] EXCEPT !.st = "review"]
    <3>1. r \in RowSet /\ r.st = "review" /\ rows' = [rows EXCEPT ![run.cand] = r]
      BY <1>2, <1>4 DEF CreationInv, CreationTypes, RowSet
    <3> HIDE DEF r
    <3> QED
      BY <1>1, <1>2, <3>1, CandidateResolved
  <2>2. run' \in Runs /\ run'.pc \in {"idle", "channel"}
    BY <1>4, CreateIs, StopIs DEF CreationInv, CreationTypes
  <2>3. RunInv' /\ ListedInv'
    BY <1>1, <2>2, EmptyHanded, NotSyncing DEF CreationInv
  <2> QED
    BY <1>1, <2>1, <2>2, <2>3 DEF CreationInv, CreationTypes
<1> QED
  BY <1>3, <1>4 DEF Review, Directory, Live

LEMMA ConfirmKeeps == ASSUME CreationInv, Confirm \/ DiscardStale PROVE CreationInv'
<1>1. /\ run.pc \in {"confirm", "resume"} /\ UNCHANGED <<now, apple, session, sync>> /\ (Stop \/ Create)
      /\ \/ run.pc = "confirm" /\ rows' = [rows EXCEPT ![run.cand] = Issued(rows[run.cand])]
         \/ rows' = [rows EXCEPT ![run.cand] = NoRow]
  BY DEF Confirm, DiscardStale
<1>2. run.cand \in Address /\ rows[run.cand].st = "pending" /\ (run.pc = "confirm" => Completed(run.cand))
  BY <1>1 DEF CreationInv, RunInv, Looking
<1>3. /\ NoRow \in RowSet /\ NoRow.st = "none"
      /\ Issued(rows[run.cand]) \in RowSet /\ Issued(rows[run.cand]).st = "enabled"
  BY <1>2 DEF NoRow, Issued, RowSet, CreationInv, CreationTypes
<1>4. rows' \in [Address -> RowSet] /\ RowsInv'
  <2>1. CASE run.pc = "confirm" /\ rows' = [rows EXCEPT ![run.cand] = Issued(rows[run.cand])]
    BY <1>1, <1>2, <1>3, <2>1, CandidateResolved
  <2>2. CASE rows' = [rows EXCEPT ![run.cand] = NoRow]
    BY <1>1, <1>2, <1>3, <2>2, CandidateResolved
  <2> QED
    BY <1>1, <2>1, <2>2
<1>5. run' \in Runs /\ run'.pc \in {"idle", "channel"}
  BY <1>1, CreateIs, StopIs DEF CreationInv, CreationTypes
<1>6. RunInv' /\ ListedInv'
  BY <1>1, <1>5, EmptyHanded, NotSyncing DEF CreationInv
<1> QED
  BY <1>1, <1>4, <1>5, <1>6 DEF CreationInv, CreationTypes

LEMMA ResumeKeeps == ASSUME CreationInv, Resume PROVE CreationInv'
<1> DEFINE c == run.cand
           late == rows[c].late \/ Age(c) >= OldAge
           r == [rows[c] EXCEPT !.late = late]
<1>1. /\ run.pc = "resume" /\ rows[c].via # "icloud_web" /\ UNCHANGED <<now, session, sync>>
      /\ rows' = [rows EXCEPT ![c].late = late]
  BY DEF Resume
<1>2. c \in Address /\ rows[c].st = "pending" /\ sync.pc = "idle" /\ rows[c] \in RowSet
  BY <1>1 DEF CreationInv, RunInv, Looking, CreationTypes
<1>3. PICK s \in {"generated", "live"} : apple' = [apple EXCEPT ![c] = s]
  BY <1>2, UncertainIs DEF Resume
<1>4. late \in BOOLEAN
  BY <1>2 DEF RowSet
<1> HIDE DEF late
<1>5. r \in RowSet /\ r.st = "pending" /\ r.via = rows[c].via /\ rows' = [rows EXCEPT ![c] = r]
  BY <1>1, <1>2, <1>4 DEF RowSet, CreationInv, CreationTypes
<1>6. (Goto("acknowledged") \/ Goto("poll") \/ Stop)
  BY DEF Resume
<1> HIDE DEF c, r
<1>7. /\ apple' \in [Address -> {"none", "generated", "live", "gone"}] /\ rows' \in [Address -> RowSet]
      /\ \A a \in Address : apple'[a] = (IF a = c THEN s ELSE apple[a]) /\ rows'[a] = (IF a = c THEN r ELSE rows[a])
  BY <1>2, <1>3, <1>5 DEF CreationInv, CreationTypes
<1>8. RowsInv'
  <2>1. OneCandidatePerChannel'
    BY <1>2, <1>5, <1>7 DEF CreationInv, RowsInv, OneCandidatePerChannel
  <2> QED
    BY <1>1, <1>2, <1>5, <1>7, <2>1 DEF CreationInv, RowsInv, Completed
<1>9. run' \in Runs /\ RunInv'
  <2>1. CASE Stop
    BY <1>1, <2>1, StopIs, EmptyHanded DEF CreationInv
  <2>2. ASSUME NEW p \in {"acknowledged", "poll"}, Goto(p) PROVE run' \in Runs /\ RunInv'
    <3>1. run' \in Runs /\ run'.pc = p /\ run'.cand = c
      BY <2>2, GotoIs DEF CreationInv, CreationTypes, Looking, c
    <3> QED
      BY <1>1, <1>2, <1>5, <1>7, <2>2, <3>1 DEF RunInv, Looking, Made
  <2> QED
    BY <1>6, <2>1, <2>2
<1> QED
  BY <1>1, <1>2, <1>7, <1>8, <1>9 DEF CreationInv, CreationTypes, ListedInv

LEMMA SaveDetailKeeps == ASSUME CreationInv, SaveDetail PROVE CreationInv'
<1> DEFINE c == run.cand
           r == [rows[c] EXCEPT !.via = "apple_account", !.id = TRUE]
<1>1. /\ run.pc = "acknowledged" /\ UNCHANGED <<now, apple, session, sync>>
      /\ rows' = [rows EXCEPT ![c].via = "apple_account", ![c].id = TRUE]
      /\ run' = [run EXCEPT !.pc = "detail", !.reply = "id"]
  BY DEF SaveDetail
<1>2. c \in Address /\ rows[c].st = "pending" /\ sync.pc = "idle" /\ rows[c] \in RowSet /\ rows[c].via # "icloud_web"
  BY <1>1 DEF CreationInv, RunInv, Looking, CreationTypes
<1>3. r \in RowSet /\ r.st = "pending" /\ r.via = "apple_account"
  BY <1>2 DEF RowSet, Channel
<1>4. rows' \in [Address -> RowSet] /\ \A a \in Address : rows'[a] = IF a = c THEN r ELSE rows[a]
  BY <1>1, <1>2, <1>3 DEF CreationInv, CreationTypes
<1>5. run' \in Runs /\ run'.pc = "detail" /\ run'.cand = c
  BY <1>1 DEF Runs, CreationInv, CreationTypes, Looking
<1> HIDE DEF c, r
<1>6. OneCandidatePerChannel'
  <2>1. rows[c].via \in {"unknown", "apple_account"}
    BY <1>2 DEF RowSet, Channel
  <2> QED
    BY <1>2, <1>3, <1>4, <2>1 DEF CreationInv, RowsInv, OneCandidatePerChannel
<1>7. RowsInv'
  BY <1>1, <1>2, <1>3, <1>4, <1>6 DEF CreationInv, RowsInv, Completed
<1>8. RunInv'
  BY <1>1, <1>2, <1>3, <1>4, <1>5 DEF RunInv, Looking, Made
<1> QED
  BY <1>1, <1>2, <1>4, <1>5, <1>7, <1>8 DEF CreationInv, CreationTypes, ListedInv

-----------------------------------------------------------------------------
(* Asking Apple for an address, and writing it down. *)

LEMMA AsksKeep == ASSUME CreationInv, RequestWeb \/ RequestAccount \/ CompleteNew PROVE CreationInv'
<1>1. /\ run.pc \in {"request", "complete", "replay"} /\ UNCHANGED <<now, rows, sync>> /\ session' \in BOOLEAN
      /\ sync.pc = "idle" /\ Gate(run.ch) = {}
  <2>1. run.pc \in {"request", "complete", "replay"} /\ UNCHANGED <<now, rows, sync>>
    BY DEF RequestWeb, RequestAccount, CompleteNew
  <2>2. session' \in {session, FALSE}
    BY DEF RequestWeb, RequestAccount, CompleteNew, Fallback
  <2>3. session' \in BOOLEAN
    BY <2>2 DEF CreationInv, CreationTypes
  <2> QED
    BY <2>1, <2>3 DEF CreationInv, RunInv, Made
<1>2. ASSUME Fallback \/ Stop, UNCHANGED apple PROVE CreationInv'
  <2>1. run' \in Runs /\ run'.pc \in {"idle", "channel"}
    <3>1. CASE Stop
      BY <3>1, StopIs
    <3>2. CASE run' = [run EXCEPT !.pc = "channel", !.cand = NoAddress]
      BY <3>2 DEF CreationInv, CreationTypes, Runs
    <3> QED
      BY <1>2, <3>1, <3>2 DEF Fallback
  <2>2. RunInv'
    BY <1>1, <2>1, EmptyHanded DEF CreationInv
  <2> QED
    BY <1>1, <1>2, <2>1, <2>2, SameRows DEF CreationInv, CreationTypes
<1>3. ASSUME NEW a \in Address, NEW s \in {"generated", "live"}, rows[a].st = "none", apple' = [apple EXCEPT ![a] = s],
             run' \in Runs, run'.pc \in Made, run'.cand = a, run'.ch = run.ch,
             run'.pc = "save" /\ run'.reply = "full" => s = "live"
      PROVE  CreationInv'
  <2>1. apple' \in [Address -> {"none", "generated", "live", "gone"}] /\ RowsInv'
    BY <1>1, <1>3, AppleAnswers
  <2>2. Gate(run.ch)' = {}
    BY <1>1, <1>3 DEF Gate
  <2>3. apple'[a] = s
    BY <1>3 DEF CreationInv, CreationTypes
  <2>4. RunInv'
    BY <1>1, <1>3, <2>2, <2>3 DEF RunInv, Looking, Made, Completed
  <2> QED
    BY <1>1, <1>3, <2>1, <2>4, NotSyncing DEF CreationInv, CreationTypes
<1>4. CASE RequestWeb
  <2>1. CASE Fallback /\ UNCHANGED apple
    BY <1>2, <2>1
  <2>2. ASSUME NEW a \in Address, NEW reply \in {"full", "unsure"}, NEW s \in {"generated", "live"}, apple[a] = "none",
               run' = [run EXCEPT !.pc = "save", !.cand = a, !.reply = reply, !.made = run.made \cup {a}],
               apple' = [apple EXCEPT ![a] = s], reply = "full" => s = "live"
        PROVE  CreationInv'
    <3>1. rows[a].st = "none"
      BY <2>2 DEF CreationInv, RowsInv
    <3>2. run' \in Runs /\ run'.pc = "save" /\ run'.cand = a /\ run'.ch = run.ch /\ run'.reply = reply
      <4>1. run.made \cup {a} \in SUBSET Address
        BY DEF CreationInv, CreationTypes, Runs
      <4> QED
        BY <2>2, <4>1 DEF CreationInv, CreationTypes, Runs, Made
    <3> QED
      BY <1>3, <2>2, <3>1, <3>2 DEF Made
  <2>3. CASE ~(Fallback /\ UNCHANGED apple)
    <3>1. PICK a \in Address, reply \in {"full", "unsure"} :
             /\ apple[a] = "none"
             /\ run' = [run EXCEPT !.pc = "save", !.cand = a, !.reply = reply, !.made = run.made \cup {a}]
             /\ \/ reply = "full" /\ apple' = [apple EXCEPT ![a] = "live"] /\ UNCHANGED budgetVars
                \/ reply = "unsure" /\ Uncertain(a) /\ (UNCHANGED budgetVars \/ Throttled(run.ch))
      BY <1>4, <2>3 DEF RequestWeb
    <3>2. PICK s \in {"generated", "live"} : apple' = [apple EXCEPT ![a] = s] /\ (reply = "full" => s = "live")
      BY <3>1, UncertainIs
    <3> QED
      BY <2>2, <3>1, <3>2
  <2> QED
    BY <2>1, <2>3
<1>5. CASE RequestAccount
  <2>1. CASE (Fallback \/ Stop) /\ UNCHANGED apple
    BY <1>2, <2>1
  <2>2. ASSUME NEW a \in Address, apple[a] = "none", apple' = [apple EXCEPT ![a] = "generated"],
               run' = [run EXCEPT !.pc = "complete", !.cand = a, !.made = run.made \cup {a}]
        PROVE  CreationInv'
    <3>1. rows[a].st = "none"
      BY <2>2 DEF CreationInv, RowsInv
    <3>2. run' \in Runs /\ run'.pc = "complete" /\ run'.cand = a /\ run'.ch = run.ch
      <4>1. run.made \cup {a} \in SUBSET Address
        BY DEF CreationInv, CreationTypes, Runs
      <4> QED
        BY <2>2, <4>1 DEF CreationInv, CreationTypes, Runs, Made
    <3> QED
      BY <1>3, <2>2, <3>1, <3>2 DEF Made
  <2> QED
    BY <1>5, <2>1, <2>2 DEF RequestAccount
<1>6. CASE CompleteNew
  <2>1. CASE (Fallback \/ Stop) /\ UNCHANGED apple
    BY <1>2, <2>1
  <2>2. run.pc \in {"complete", "replay"} /\ run \in Runs
    BY <1>6 DEF CompleteNew, CreationInv, CreationTypes
  <2>3. run.cand \in Address /\ rows[run.cand].st = "none"
    BY <2>2 DEF CreationInv, RunInv, Made
  <2>4. CASE apple' = [apple EXCEPT ![run.cand] = "live"] /\ run' = [run EXCEPT !.pc = "save", !.reply = "id"]
    <3>1. run' \in Runs /\ run'.pc = "save" /\ run'.cand = run.cand /\ run'.ch = run.ch
      BY <2>2, <2>4 DEF Runs, Made
    <3> QED
      BY <1>3, <2>3, <2>4, <3>1 DEF Made
  <2>5. CASE Uncertain(run.cand) /\ (run' = [run EXCEPT !.pc = "save", !.reply = "unsure"] \/ Goto("replay"))
    <3>1. PICK s \in {"generated", "live"} : apple' = [apple EXCEPT ![run.cand] = s]
      BY <2>3, <2>5, UncertainIs
    <3>2. CASE run' = [run EXCEPT !.pc = "save", !.reply = "unsure"]
      <4>1. run' \in Runs /\ run'.pc = "save" /\ run'.cand = run.cand /\ run'.ch = run.ch /\ run'.reply = "unsure"
        BY <2>2, <3>2 DEF Runs, Made
      <4> QED
        BY <1>3, <2>3, <3>1, <4>1 DEF Made
    <3>3. CASE Goto("replay")
      <4>1. run' \in Runs /\ run'.pc = "replay" /\ run'.cand = run.cand /\ run'.ch = run.ch
        BY <2>2, <3>3, GotoIs DEF Made
      <4> QED
        BY <1>3, <2>3, <3>1, <4>1 DEF Made
    <3> QED
      BY <2>5, <3>2, <3>3
  <2> QED
    BY <1>6, <2>1, <2>4, <2>5 DEF CompleteNew
<1> QED
  BY <1>4, <1>5, <1>6

LEMMA SaveCandidateKeeps == ASSUME CreationInv, SaveCandidate PROVE CreationInv'
<1> DEFINE c == run.cand
           r == Candidate(run.ch, run.reply = "id", now)
           p == CASE run.reply = "full" -> "confirm" [] run.reply = "id" -> "detail" [] OTHER -> "poll"
<1>1. /\ run.pc = "save" /\ rows' = [rows EXCEPT ![c] = r] /\ UNCHANGED <<now, apple, session, sync>>
      /\ run' = [NoRun EXCEPT !.pc = p, !.probe = run.probe, !.cand = run.cand, !.reply = run.reply]
  BY DEF SaveCandidate
<1>2. /\ c \in Address /\ rows[c].st = "none" /\ sync.pc = "idle" /\ apple[c] # "none" /\ Gate(run.ch) = {}
      /\ run.reply = "full" => Completed(c)
  BY <1>1 DEF CreationInv, RunInv, Made
<1>3. run.ch \in Channel /\ run.probe \in BOOLEAN /\ run.cand \in Address \cup {NoAddress} /\ now \in Nat
      /\ run.reply \in {"none", "full", "id", "unsure"}
  BY DEF CreationInv, CreationTypes, Runs
<1>4. r \in RowSet /\ r.st = "pending" /\ r.via = run.ch
  <2>1. NoRow \in RowSet /\ (run.reply = "id") \in BOOLEAN
    BY DEF NoRow, RowSet
  <2> QED
    BY <1>3, <2>1 DEF Candidate, RowSet
<1>5. p \in {"confirm", "detail", "poll"} /\ (p = "confirm" => run.reply = "full")
  BY <1>3
<1> HIDE DEF p, r
<1>6. run' \in Runs /\ run'.pc = p /\ run'.cand = c
  <2>1. NoRun \in Runs
    BY DEF NoRun, Runs, Channel
  <2> QED
    BY <1>1, <1>3, <1>5, <2>1 DEF Runs, Looking
<1> HIDE DEF c
<1>7. rows' \in [Address -> RowSet] /\ \A a \in Address : rows'[a] = IF a = c THEN r ELSE rows[a]
  BY <1>1, <1>2, <1>4 DEF CreationInv, CreationTypes
<1>8. OneCandidatePerChannel'
  <2>1. \A a \in Address : rows[a].st = "pending" => rows[a].via \notin {"unknown", run.ch}
    BY <1>2 DEF Gate
  <2>2. run.ch # "unknown"
    BY <1>3 DEF Channel
  <2> QED
    BY <1>2, <1>4, <1>7, <2>1, <2>2 DEF CreationInv, RowsInv, OneCandidatePerChannel
<1>9. RowsInv'
  BY <1>1, <1>2, <1>4, <1>7, <1>8 DEF CreationInv, RowsInv, Completed
<1>10. RunInv'
  BY <1>1, <1>2, <1>4, <1>5, <1>6, <1>7 DEF RunInv, Looking, Made, Completed
<1> QED
  BY <1>1, <1>2, <1>6, <1>7, <1>9, <1>10 DEF CreationInv, CreationTypes, ListedInv

-----------------------------------------------------------------------------
(* Synchronisations, the operator and the world. *)

LEMMA SyncReadKeeps == ASSUME CreationInv, SyncRead \/ CrossCheck \/ SyncFails PROVE CreationInv'
<1>1. UNCHANGED <<now, apple, session, rows, run>>
  BY DEF SyncRead, CrossCheck, SyncFails
<1>2. \A seen \in Directory : seen \subseteq {a \in Address : Completed(a)}
  BY DEF Directory, Live, Completed
<1>3. CASE SyncRead
  <2>1. run.pc = "idle" /\ now \in Nat
    BY <1>3 DEF SyncRead, CreationInv, CreationTypes
  <2>2. PICK seen \in Directory :
           \/ sync' = [pc |-> IF MissingFrom(seen, now) # {} /\ session THEN "cross" ELSE "commit",
                       start |-> now, seen |-> seen, ready |-> TRUE]
           \/ sync' = [pc |-> "commit", start |-> now, seen |-> seen, ready |-> MissingFrom(seen, now) = {}]
    BY <1>3 DEF SyncRead
  <2>3. seen \in SUBSET Address
    BY <1>2
  <2>4. sync' \in Syncs /\ sync'.seen = seen /\ sync'.start = now
    <3>1. PICK p \in {"cross", "commit"}, q \in BOOLEAN : sync' = [pc |-> p, start |-> now, seen |-> seen, ready |-> q]
      <4>1. (MissingFrom(seen, now) = {}) \in BOOLEAN
        OBVIOUS
      <4>2. CASE sync' = [pc |-> "commit", start |-> now, seen |-> seen, ready |-> MissingFrom(seen, now) = {}]
        BY <4>1, <4>2, Zenon
      <4>3. CASE sync' = [pc |-> IF MissingFrom(seen, now) # {} /\ session THEN "cross" ELSE "commit",
                          start |-> now, seen |-> seen, ready |-> TRUE]
        BY <4>3
      <4> QED
        BY <2>2, <4>2, <4>3
    <3> QED
      BY <2>1, <2>3, <3>1 DEF Syncs
  <2>5. ASSUME NEW a \in Unresolved, apple[a] = "live", ~rows[a].late, rows[a].born <= now - OldAge PROVE a \in seen
    <3>1. rows[a].born \in Nat /\ OldAge \in Nat /\ Lag \in Nat /\ Lag < OldAge
      BY AliasCreationAssumption DEF CreationInv, CreationTypes, RowSet, Unresolved
    <3>2. Age(a) > Lag
      BY <2>1, <2>5, <3>1 DEF Age
    <3>3. a \in Live \cap Known
      BY <2>5 DEF Unresolved, Live, Known
    <3> QED
      BY <2>5, <3>2, <3>3 DEF Directory
  <2>6. ListedInv'
    BY <1>1, <2>4, <2>5 DEF ListedInv, Unresolved
  <2>7. RowsInv' /\ RunInv'
    BY <1>1, <1>2, <2>1, <2>4 DEF CreationInv, RowsInv, RunInv, OneCandidatePerChannel, Completed, Looking, Made
  <2> QED
    BY <1>1, <2>4, <2>6, <2>7 DEF CreationInv, CreationTypes
<1>4. CASE CrossCheck
  <2>1. sync.pc = "cross" /\ sync \in Syncs
    BY <1>4 DEF CrossCheck, CreationInv, CreationTypes
  <2>2. sync' \in Syncs /\ sync'.start = sync.start /\ sync.seen \subseteq sync'.seen
        /\ sync'.seen \subseteq {a \in Address : Completed(a)}
    <3>1. sync.seen \subseteq {a \in Address : Completed(a)}
      BY <2>1 DEF CreationInv, RowsInv
    <3>2. CASE sync' = [sync EXCEPT !.pc = "commit", !.ready = FALSE]
      <4>1. sync' \in Syncs
        BY <2>1, <3>2 DEF Syncs
      <4>2. sync'.start = sync.start /\ sync'.seen = sync.seen
        BY <2>1, <3>2 DEF Syncs
      <4> QED
        BY <3>1, <4>1, <4>2
    <3>3. ASSUME NEW seen \in Directory, sync' = [sync EXCEPT !.pc = "commit", !.seen = sync.seen \cup seen]
          PROVE  <2>2
      <4>1. sync.seen \cup seen \in SUBSET Address /\ sync.seen \cup seen \subseteq {a \in Address : Completed(a)}
        BY <1>2, <3>1
      <4>2. sync' \in Syncs
        BY <2>1, <3>3, <4>1 DEF Syncs
      <4>3. sync'.start = sync.start /\ sync'.seen = sync.seen \cup seen
        BY <2>1, <3>3 DEF Syncs
      <4> QED
        BY <4>1, <4>2, <4>3
    <3> QED
      BY <1>4, <3>2, <3>3 DEF CrossCheck
  <2>3. ListedInv'
    BY <1>1, <2>1, <2>2 DEF CreationInv, ListedInv, Unresolved
  <2>4. RowsInv' /\ RunInv'
    BY <1>1, <2>1, <2>2 DEF CreationInv, RowsInv, RunInv, OneCandidatePerChannel, Completed, Looking, Made
  <2> QED
    BY <1>1, <2>2, <2>3, <2>4 DEF CreationInv, CreationTypes
<1>5. CASE SyncFails
  <2>1. sync' \in Syncs /\ sync'.pc = "idle"
    BY <1>5 DEF SyncFails, NoSync, Syncs
  <2>2. RunInv'
    BY <1>1, <2>1 DEF CreationInv, RunInv, Gate, Completed, Looking, Made
  <2>3. RowsInv' /\ ListedInv'
    BY <1>1, <2>1 DEF CreationInv, RowsInv, ListedInv, OneCandidatePerChannel, Completed
  <2> QED
    BY <1>1, <2>1, <2>2, <2>3 DEF CreationInv, CreationTypes
<1> QED
  BY <1>3, <1>4, <1>5

(* What the commit of a synchronisation makes of a row.                      *)
Committed(E, a) ==
    IF a \in sync.seen \ Known
    THEN [NoRow EXCEPT !.st = IF a \in E THEN "enabled" ELSE "disabled", !.born = now]
    ELSE IF a \in (IF sync.ready THEN MissingFrom(sync.seen, sync.start) ELSE {}) THEN NoRow
    ELSE IF rows[a].st = "review" /\ a \in sync.seen THEN Issued(rows[a])
    ELSE rows[a]

LEMMA CommitIs ==
    ASSUME CreationInv, SyncCommit
    PROVE  /\ sync.pc = "commit" /\ run.pc = "idle" /\ sync' = NoSync /\ UNCHANGED <<now, apple, session, budgetVars, run, spent>>
           /\ \E E \in SUBSET (sync.seen \ Known) :
                 /\ Cardinality(E) = IF Places - Cardinality(Occupied) < Cardinality(sync.seen \ Known)
                                     THEN Places - Cardinality(Occupied) ELSE Cardinality(sync.seen \ Known)
                 /\ rows' = [a \in Address |-> Committed(E, a)]
<1>1. sync.pc = "commit" /\ sync' = NoSync /\ UNCHANGED <<now, apple, session, budgetVars, run, spent>>
  BY DEF SyncCommit
<1>2. run.pc = "idle"
  BY <1>1 DEF CreationInv, RunInv
<1>3. \E E \in SUBSET (sync.seen \ Known) :
         /\ Cardinality(E) = IF Places - Cardinality(Occupied) < Cardinality(sync.seen \ Known)
                             THEN Places - Cardinality(Occupied) ELSE Cardinality(sync.seen \ Known)
         /\ rows' = [a \in Address |-> Committed(E, a)]
  BY DEF SyncCommit, Committed
<1> QED
  BY <1>1, <1>2, <1>3

LEMMA CommitKeeps == ASSUME CreationInv, SyncCommit PROVE CreationInv'
<1>1. sync.pc = "commit" /\ run.pc = "idle" /\ sync' = NoSync /\ UNCHANGED <<now, apple, session, run>>
  BY CommitIs
<1>2. PICK E : rows' = [a \in Address |-> Committed(E, a)]
  BY CommitIs, Zenon
<1>3. NoRow \in RowSet /\ NoRow.st = "none" /\ now \in Nat /\ rows \in [Address -> RowSet]
  BY DEF NoRow, RowSet, CreationInv, CreationTypes
<1>4. ASSUME NEW a \in Address
      PROVE  /\ Committed(E, a) \in RowSet
             /\ \/ Committed(E, a) = rows[a]
                \/ Committed(E, a).st = "none"
                \/ Committed(E, a).st \in {"enabled", "disabled"} /\ a \in sync.seen
  <2>1. Issued(rows[a]) \in RowSet /\ Issued(rows[a]).st = "enabled"
    BY <1>3 DEF Issued, RowSet
  <2>2. ASSUME NEW s \in {"enabled", "disabled"}
        PROVE  [NoRow EXCEPT !.st = s, !.born = now] \in RowSet /\ [NoRow EXCEPT !.st = s, !.born = now].st = s
    BY <1>3 DEF RowSet
  <2>3. CASE a \in sync.seen \ Known
    <3>1. PICK s \in {"enabled", "disabled"} : Committed(E, a) = [NoRow EXCEPT !.st = s, !.born = now]
      BY <2>3 DEF Committed
    <3> QED
      BY <2>2, <2>3, <3>1
  <2>4. CASE a \notin sync.seen \ Known
    BY <1>3, <2>1, <2>4 DEF Committed
  <2> QED
    BY <2>3, <2>4
<1>5. rows' \in [Address -> RowSet] /\ \A a \in Address : rows'[a] = Committed(E, a)
  BY <1>2, <1>4
<1>6. \A a \in Address : rows'[a].st = "pending" => rows'[a] = rows[a]
  BY <1>4, <1>5
<1>7. OneCandidatePerChannel'
  BY <1>6 DEF CreationInv, RowsInv, OneCandidatePerChannel
<1>8. NoSync \in Syncs /\ NoSync.pc = "idle"
  BY DEF NoSync, Syncs
<1>9. RowsInv'
  <2>1. sync.seen \subseteq {a \in Address : Completed(a)}
    BY <1>1 DEF CreationInv, RowsInv
  <2>2. ASSUME NEW a \in Address
        PROVE  /\ rows'[a].st # "none" => apple'[a] # "none"
               /\ rows'[a].st \in {"enabled", "disabled"} => Completed(a)'
    BY <1>1, <1>4, <1>5, <2>1 DEF CreationInv, RowsInv, Completed
  <2> QED
    BY <1>1, <1>7, <1>8, <2>2 DEF RowsInv
<1> QED
  BY <1>1, <1>5, <1>8, <1>9 DEF CreationInv, CreationTypes, RunInv, ListedInv, Looking, Made

LEMMA AdminKeeps == ASSUME CreationInv, AdminNext PROVE CreationInv'
<1>1. PICK a \in Address : EnableAlias(a) \/ DisableAlias(a) \/ DeleteAlias(a)
  BY DEF AdminNext
<1>2. PICK r \in RowSet : rows' = [rows EXCEPT ![a] = r] /\ r.st \in {"none", "enabled", "disabled"}
  <2>1. rows[a] \in RowSet /\ NoRow \in RowSet /\ NoRow.st = "none"
    BY DEF CreationInv, CreationTypes, NoRow, RowSet
  <2>2. \A s \in {"enabled", "disabled"} : [rows[a] EXCEPT !.st = s] \in RowSet /\ [rows[a] EXCEPT !.st = s].st = s
    BY <2>1 DEF RowSet
  <2>3. \/ \E s \in {"enabled", "disabled"} : rows' = [rows EXCEPT ![a] = [rows[a] EXCEPT !.st = s]]
        \/ rows' = [rows EXCEPT ![a] = NoRow]
    BY <1>1 DEF EnableAlias, DisableAlias, DeleteAlias
  <2> QED
    BY <2>1, <2>2, <2>3
<1>3. run.pc = "idle" /\ rows[a].st \in {"enabled", "disabled"} /\ UNCHANGED <<now, apple, session, run, sync>>
  BY <1>1 DEF EnableAlias, DisableAlias, DeleteAlias
<1>4. rows' \in [Address -> RowSet] /\ \A b \in Address : rows'[b] = IF b = a THEN r ELSE rows[b]
  BY <1>2 DEF CreationInv, CreationTypes
<1>5. \A b \in Address : rows'[b].st \in {"pending", "review"} => rows'[b] = rows[b]
  BY <1>2, <1>4
<1>6. OneCandidatePerChannel'
  BY <1>5 DEF CreationInv, RowsInv, OneCandidatePerChannel
<1>7. RowsInv'
  BY <1>2, <1>3, <1>4, <1>6 DEF CreationInv, RowsInv, Completed
<1>8. ListedInv'
  BY <1>3, <1>5 DEF CreationInv, ListedInv, Unresolved
<1> QED
  BY <1>3, <1>4, <1>7, <1>8 DEF CreationInv, CreationTypes, RunInv, Looking, Made

LEMMA WorldKeeps == ASSUME CreationInv, WorldNext PROVE CreationInv'
<1>1. CASE SessionChanges
  BY <1>1 DEF SessionChanges, CreationInv, CreationTypes, RunInv, RowsInv, ListedInv, OneCandidatePerChannel, Completed,
              Gate, Unresolved, Looking, Made
<1>2. CASE Tick
  <2>1. now' \in Nat
    BY <1>2 DEF Tick, CreationInv, CreationTypes
  <2> QED
    BY <1>2, <2>1 DEF Tick, CreationInv, CreationTypes, RunInv, RowsInv, ListedInv, OneCandidatePerChannel, Completed,
                Gate, Unresolved, Looking, Made
<1>3. CASE Crash
  <2>1. run' \in Runs /\ run'.pc = "idle" /\ sync' \in Syncs /\ sync'.pc = "idle" /\ UNCHANGED <<now, apple, session, rows>>
    BY <1>3, StopIs DEF Crash, NoSync, Syncs
  <2> QED
    BY <2>1 DEF CreationInv, CreationTypes, RunInv, RowsInv, ListedInv, OneCandidatePerChannel, Completed, Looking, Made
<1>4. ASSUME NEW a \in Address, RemoveAtApple(a) PROVE CreationInv'
  <2>1. apple[a] = "live" /\ apple' = [apple EXCEPT ![a] = "gone"] /\ UNCHANGED <<now, session, rows, run, sync>>
    BY <1>4 DEF RemoveAtApple
  <2>2. /\ apple' \in [Address -> {"none", "generated", "live", "gone"}]
        /\ \A b \in Address : (apple'[b] = "live" => apple[b] = "live") /\ (apple'[b] = "none" <=> apple[b] = "none")
                             /\ (Completed(b)' <=> Completed(b))
    BY <2>1 DEF CreationInv, CreationTypes, Completed
  <2>3. RowsInv' /\ ListedInv'
    BY <2>1, <2>2 DEF CreationInv, RowsInv, ListedInv, OneCandidatePerChannel, Unresolved
  <2>4. RunInv'
    <3>1. run.cand \in Address \cup {NoAddress} /\ Gate(run.ch)' = Gate(run.ch)
      BY <2>1 DEF CreationInv, CreationTypes, Runs, Gate
    <3>2. run.pc = "confirm" \/ (run.pc = "save" /\ run.reply = "full") => run.cand \in Address
      BY DEF CreationInv, RunInv, Looking, Made
    <3> QED
      BY <2>1, <2>2, <3>1, <3>2 DEF CreationInv, RunInv, Looking, Made
  <2> QED
    BY <2>1, <2>2, <2>3, <2>4 DEF CreationInv, CreationTypes
<1> QED
  BY <1>1, <1>2, <1>3, <1>4 DEF WorldNext

LEMMA CreationStep == CreationInv /\ [Next]_vars => CreationInv'
<1> SUFFICES ASSUME CreationInv, [Next]_vars PROVE CreationInv'
  OBVIOUS
<1>1. CASE RunNext
  BY <1>1, LooksKeep, ReviewKeeps, ConfirmKeeps, ResumeKeeps, SaveDetailKeeps, AsksKeep, SaveCandidateKeeps DEF RunNext
<1>2. CASE SyncNext
  BY <1>2, SyncReadKeeps, CommitKeeps DEF SyncNext
<1>3. CASE UNCHANGED vars
  <2>1. UNCHANGED <<now, apple, session, rows, run, sync>>
    BY <1>3 DEF vars
  <2>2. RunInv'
    BY <2>1 DEF CreationInv, RunInv, Gate, Completed, Looking, Made
  <2> QED
    BY <2>1, <2>2, SameRows DEF CreationInv, CreationTypes
<1> QED
  BY <1>1, <1>2, <1>3, AdminKeeps, WorldKeeps DEF Next

-----------------------------------------------------------------------------
(* The places. *)

LEMMA OccupiedCounts ==
    ASSUME NEW S, S \subseteq Address
    PROVE  IsFiniteSet(S) /\ Cardinality(S) \in Nat
BY AliasCreationAssumption, FS_Subset, FS_CardinalityType

LEMMA NoMoreOccupied ==
    ASSUME PlacesKept, Occupied' \subseteq Occupied
    PROVE  PlacesKept'
<1>1. Occupied \subseteq Address /\ Occupied' \subseteq Address
  BY DEF Occupied
<1>2. IsFiniteSet(Occupied) /\ Cardinality(Occupied) \in Nat /\ Cardinality(Occupied') \in Nat
  BY <1>1, OccupiedCounts
<1>3. Cardinality(Occupied') <= Cardinality(Occupied)
  BY <1>2, FS_Subset
<1> QED
  BY <1>2, <1>3, AliasCreationAssumption DEF PlacesKept

LEMMA OneMoreOccupied ==
    ASSUME HasRoom, NEW c \in Address, Occupied' \subseteq Occupied \cup {c}
    PROVE  PlacesKept'
<1> DEFINE S == Occupied \cup {c}
<1>1. Occupied \subseteq Address /\ Occupied' \subseteq Address /\ S \subseteq Address
  BY DEF Occupied
<1>2. /\ IsFiniteSet(Occupied) /\ Cardinality(Occupied) \in Nat /\ Cardinality(Occupied') \in Nat
      /\ IsFiniteSet(S) /\ Cardinality(S) \in Nat
  BY <1>1, OccupiedCounts
<1>3. Cardinality(Occupied') <= Cardinality(S)
  BY <1>2, FS_Subset
<1>4. Cardinality(S) <= Cardinality(Occupied) + 1
  BY <1>2, FS_AddElement
<1> QED
  BY <1>2, <1>3, <1>4, AliasCreationAssumption DEF PlacesKept, HasRoom

LEMMA CommitFits == ASSUME CreationInv, PlacesKept, SyncCommit PROVE PlacesKept'
<1> DEFINE fresh == sync.seen \ Known
           free == Places - Cardinality(Occupied)
<1>1. PICK E \in SUBSET fresh :
         /\ Cardinality(E) = IF free < Cardinality(fresh) THEN free ELSE Cardinality(fresh)
         /\ rows' = [a \in Address |-> Committed(E, a)]
  BY CommitIs
<1>2. ASSUME NEW a \in Occupied' PROVE a \in Occupied \cup E
  <2>1. a \in Address /\ Committed(E, a).st \in {"enabled", "pending", "review"}
    BY <1>1 DEF Occupied
  <2>2. NoRow \in RowSet /\ NoRow.st = "none" /\ now \in Nat
    BY DEF NoRow, RowSet, CreationInv, CreationTypes
  <2>3. CASE a \in fresh /\ a \notin E
    <3>1. Committed(E, a) = [NoRow EXCEPT !.st = "disabled", !.born = now]
      BY <2>3 DEF Committed
    <3>2. Committed(E, a).st = "disabled"
      BY <2>2, <3>1 DEF RowSet
    <3> QED
      BY <2>1, <3>2
  <2>4. CASE a \notin fresh
    <3>1. Committed(E, a) = NoRow \/ rows[a].st = "review" \/ Committed(E, a) = rows[a]
      BY <2>4 DEF Committed
    <3> QED
      BY <2>1, <2>2, <3>1 DEF Occupied
  <2> QED
    BY <2>3, <2>4
<1> HIDE DEF fresh, free
<1>3. /\ Occupied \subseteq Address /\ Occupied' \subseteq Address /\ E \subseteq Address /\ fresh \subseteq Address
      /\ Occupied \cup E \subseteq Address
  BY <1>1 DEF Occupied, fresh, CreationInv, CreationTypes, Syncs
<1>4. /\ IsFiniteSet(Occupied) /\ Cardinality(Occupied) \in Nat /\ IsFiniteSet(E) /\ Cardinality(E) \in Nat
      /\ IsFiniteSet(Occupied \cup E) /\ Cardinality(Occupied \cup E) \in Nat /\ Cardinality(Occupied') \in Nat
      /\ Cardinality(fresh) \in Nat /\ Cardinality(Occupied \cap E) \in Nat
  <2>1. Occupied \cap E \subseteq Address
    BY <1>3
  <2> QED
    BY <1>3, <2>1, OccupiedCounts
<1>5. Cardinality(Occupied') <= Cardinality(Occupied \cup E)
  BY <1>2, <1>4, FS_Subset
<1>6. Cardinality(Occupied \cup E) = Cardinality(Occupied) + Cardinality(E) - Cardinality(Occupied \cap E)
  BY <1>4, FS_Union
<1>7. Cardinality(E) <= Places - Cardinality(Occupied)
  BY <1>1, <1>4, AliasCreationAssumption DEF free
<1> QED
  BY <1>4, <1>5, <1>6, <1>7, AliasCreationAssumption DEF PlacesKept

(* A run touches the row of its candidate only.                              *)
LEMMA PlacesStep == CreationInv /\ PlacesKept /\ [Next]_vars => PlacesKept'
<1> SUFFICES ASSUME CreationInv, PlacesKept, [Next]_vars PROVE PlacesKept'
  OBVIOUS
<1>1. CASE UNCHANGED rows
  BY <1>1, NoMoreOccupied DEF Occupied
<1>2. CASE Review \/ Confirm \/ Resume \/ SaveDetail \/ DiscardStale
  <2>1. run.pc \in Looking
    BY <1>2 DEF Review, Confirm, Resume, SaveDetail, DiscardStale, Looking
  <2>2. run.cand \in Occupied
    BY <2>1 DEF CreationInv, RunInv, Occupied
  <2>3. \A a \in Address \ {run.cand} : rows'[a] = rows[a]
    BY <1>2 DEF Review, Confirm, Resume, SaveDetail, DiscardStale, CreationInv, CreationTypes
  <2> QED
    BY <2>2, <2>3, NoMoreOccupied DEF Occupied
<1>3. CASE SaveCandidate
  <2>1. run.cand \in Address
    BY <1>3 DEF SaveCandidate, CreationInv, RunInv, Made
  <2>2. HasRoom /\ \A a \in Address \ {run.cand} : rows'[a] = rows[a]
    BY <1>3 DEF SaveCandidate, CreationInv, CreationTypes
  <2>3. Occupied' \subseteq Occupied \cup {run.cand}
    BY <2>2 DEF Occupied
  <2> QED
    BY <2>1, <2>2, <2>3, OneMoreOccupied
<1>4. ASSUME NEW a \in Address, EnableAlias(a) PROVE PlacesKept'
  <2>1. HasRoom /\ \A b \in Address \ {a} : rows'[b] = rows[b]
    BY <1>4 DEF EnableAlias, CreationInv, CreationTypes
  <2>2. Occupied' \subseteq Occupied \cup {a}
    BY <2>1 DEF Occupied
  <2> QED
    BY <2>1, <2>2, OneMoreOccupied
<1>5. ASSUME NEW a \in Address, DisableAlias(a) \/ DeleteAlias(a) PROVE PlacesKept'
  <2>1. rows'[a].st \in {"disabled", "none"}
    BY <1>5 DEF DisableAlias, DeleteAlias, CreationInv, CreationTypes, NoRow, RowSet
  <2>2. \A b \in Address \ {a} : rows'[b] = rows[b]
    BY <1>5 DEF DisableAlias, DeleteAlias, CreationInv, CreationTypes
  <2> QED
    BY <2>1, <2>2, NoMoreOccupied DEF Occupied
<1>6. CASE RunNext
  BY <1>1, <1>2, <1>3, <1>6 DEF RunNext, Begin, ListDirectory, ReadDetail, PollDirectory, SkipChannel, ClaimChannel,
     RequestWeb, RequestAccount, CompleteNew, FailRun
<1>7. CASE SyncNext
  BY <1>1, <1>7, CommitFits DEF SyncNext, SyncRead, CrossCheck, SyncFails
<1>8. CASE AdminNext
  BY <1>4, <1>5, <1>8 DEF AdminNext
<1>9. CASE WorldNext
  BY <1>1, <1>9 DEF WorldNext, SessionChanges, Tick, Crash, RemoveAtApple
<1>10. CASE UNCHANGED vars
  BY <1>1, <1>10 DEF vars
<1> QED
  BY <1>6, <1>7, <1>8, <1>9, <1>10 DEF Next

LEMMA PlacesInitially == Init => PlacesKept
<1> SUFFICES ASSUME Init PROVE PlacesKept
  OBVIOUS
<1>1. PICK b \in Address \cup {NoAddress} : \A a \in Address : rows[a].st # "none" => a = b
  <2>1. NoRow.st = "none"
    BY DEF NoRow
  <2> QED
    BY <2>1 DEF Init
<1>2. Occupied \subseteq {b}
  BY <1>1 DEF Occupied
<1>3. IsFiniteSet({b}) /\ Cardinality({b}) = 1
  BY FS_Singleton
<1>4. Cardinality(Occupied) <= 1 /\ Cardinality(Occupied) \in Nat
  BY <1>2, <1>3, FS_Subset, FS_CardinalityType
<1> QED
  BY <1>4, AliasCreationAssumption DEF PlacesKept

-----------------------------------------------------------------------------
(* The pauses. *)

LEMMA LaterIs == \A s, t \in Nat : Later(s, t) \in Nat /\ s <= Later(s, t) /\ t <= Later(s, t)
BY DEF Later

LEMMA ThrottledKeeps ==
    ASSUME PauseInv, now \in Nat, NEW ch \in Channel, Throttled(ch)
    PROVE  PauseInv'
<1>1. CASE run.probe
  BY <1>1 DEF Throttled, PauseInv
<1>2. CASE ~run.probe
  <2>1. PICK until \in now + Hour .. now + LongestWait :
           Pause(ch, until) /\ told' = [told EXCEPT ![ch] = Later(told[ch], until)]
    BY <1>2 DEF Throttled
  <2>2. until \in Nat
    BY <2>1, AliasCreationAssumption
  <2>3. /\ cool' = [cool EXCEPT ![ch] = Later(cool[ch], until)]
        /\ pause' = [pause EXCEPT ![ch] = Later(pause[ch], until)]
        /\ told' = [told EXCEPT ![ch] = Later(told[ch], until)]
    BY <2>1 DEF Pause
  <2>4. Later(cool[ch], until) \in Nat /\ Later(pause[ch], until) \in Nat /\ Later(told[ch], until) \in Nat
    BY <2>2, LaterIs DEF PauseInv
  <2>5. Later(told[ch], until) <= Later(pause[ch], until)
    BY <2>2 DEF PauseInv, Later
  <2> QED
    BY <2>3, <2>4, <2>5 DEF PauseInv
<1> QED
  BY <1>1, <1>2

LEMMA PauseStep == CreationInv /\ PauseInv /\ [Next]_vars => PauseInv'
<1> SUFFICES ASSUME CreationInv, PauseInv, [Next]_vars PROVE PauseInv'
  OBVIOUS
<1>1. CASE UNCHANGED <<pause, cool, told>>
  BY <1>1 DEF PauseInv
<1>2. ASSUME NEW ch \in Channel, Throttled(ch) PROVE PauseInv'
  BY <1>2, ThrottledKeeps DEF CreationInv, CreationTypes
<1>3. run.ch \in Channel /\ "apple_account" \in Channel
  BY DEF CreationInv, CreationTypes, Runs, Channel
<1>4. CASE Crash
  BY <1>4 DEF Crash, PauseInv
<1>5. CASE RequestWeb \/ RequestAccount \/ CompleteNew
  <2>1. UNCHANGED <<pause, cool, told>> \/ Throttled(run.ch)
    BY <1>5 DEF RequestWeb, RequestAccount, CompleteNew, Fallback, budgetVars
  <2> QED
    BY <1>1, <1>2, <1>3, <2>1
<1>6. CASE Resume \/ ReadDetail
  <2>1. UNCHANGED <<pause, cool, told>> \/ Throttled("apple_account")
    BY <1>6 DEF Resume, ReadDetail, budgetVars
  <2> QED
    BY <1>1, <1>2, <1>3, <2>1
<1>7. CASE ClaimChannel
  BY <1>1, <1>7 DEF ClaimChannel, Charge, budgetVars
<1>8. CASE RunNext
  BY <1>1, <1>5, <1>6, <1>7, <1>8 DEF RunNext, Begin, ListDirectory, Review, Confirm, SaveDetail, DiscardStale,
     PollDirectory, SkipChannel, SaveCandidate, FailRun, budgetVars
<1>9. CASE SyncNext
  BY <1>1, <1>9 DEF SyncNext, SyncRead, CrossCheck, SyncCommit, SyncFails, budgetVars
<1>10. CASE AdminNext
  BY <1>1, <1>10 DEF AdminNext, EnableAlias, DisableAlias, DeleteAlias, budgetVars
<1>11. CASE WorldNext
  BY <1>1, <1>4, <1>11 DEF WorldNext, SessionChanges, Tick, RemoveAtApple, budgetVars
<1>12. CASE UNCHANGED vars
  BY <1>1, <1>12 DEF vars
<1> QED
  BY <1>8, <1>9, <1>10, <1>11, <1>12 DEF Next

(* Only the claim of a channel sends a run from choosing to asking.           *)
LEMMA OnlyClaimsAsk ==
    ASSUME CreationInv, Next, run.pc = "channel", run'.pc = "request"
    PROVE  ClaimChannel
<1>1. ~SkipChannel
  BY DEF SkipChannel, CreationInv, CreationTypes, Runs
<1>2. ~FailRun /\ ~Crash
  BY StopIs DEF FailRun, Crash
<1>3. run' # run
  OBVIOUS
<1>4. ~SyncNext /\ ~AdminNext
  BY <1>3 DEF SyncNext, SyncRead, CrossCheck, SyncCommit, SyncFails, AdminNext, EnableAlias, DisableAlias, DeleteAlias
<1>5. ~WorldNext
  BY <1>2, <1>3 DEF WorldNext, SessionChanges, Tick, RemoveAtApple
<1> QED
  BY <1>1, <1>2, <1>4, <1>5 DEF Next, RunNext, Begin, ListDirectory, Review, Confirm, Resume, SaveDetail, DiscardStale,
     ReadDetail, PollDirectory, RequestWeb, RequestAccount, CompleteNew, SaveCandidate

LEMMA AskedAfterPause ==
    CreationInv /\ PauseInv /\ [Next]_vars
       => [run.pc = "channel" /\ run'.pc = "request" /\ ~run.probe => told[run'.ch] <= now]_vars
<1> SUFFICES ASSUME CreationInv, PauseInv, Next, run.pc = "channel", run'.pc = "request", ~run.probe
             PROVE  told[run'.ch] <= now
  BY DEF vars
<1> DEFINE c == Head(run.todo)
<1>1. ClaimChannel
  BY OnlyClaimsAsk
<1>2. run.todo # <<>> /\ ~Refused(c, run.webOnly) /\ run' = [run EXCEPT !.pc = "request", !.todo = Tail(run.todo), !.ch = c]
  BY <1>1 DEF ClaimChannel
<1>3. run'.ch = c /\ c \in Channel
  BY <1>2 DEF CreationInv, CreationTypes, Runs
<1> HIDE DEF c
<1>4. ~(Later(cool[c], pause[c]) > now)
  BY <1>2 DEF Refused, Paused
<1> QED
  BY <1>3, <1>4, LaterIs DEF PauseInv, CreationInv, CreationTypes

(* Only its commit, its failure and a crash end a synchronisation that has read. *)
LEMMA LiveCandidatesStay ==
    CreationInv /\ [Next]_vars
       => [\A a \in Unresolved : sync.pc = "commit" /\ sync' = NoSync /\ apple[a] = "live" /\ ~rows[a].late
              => rows'[a].st # "none"]_vars
<1> SUFFICES ASSUME CreationInv, Next, NEW a \in Unresolved, sync.pc = "commit", sync' = NoSync, apple[a] = "live",
                    ~rows[a].late
             PROVE  rows'[a].st # "none"
  BY DEF vars
<1>1. a \in Address /\ rows[a].st \in {"pending", "review"}
  BY DEF Unresolved
<1>2. NoSync.pc = "idle" /\ sync' # sync
  BY DEF NoSync
<1>3. SyncCommit \/ SyncFails \/ Crash
  <2>1. ~AdminNext
    BY <1>2 DEF AdminNext, EnableAlias, DisableAlias, DeleteAlias
  <2>2. ~RunNext
    BY <1>2 DEF RunNext, Begin, ListDirectory, Review, Confirm, Resume, SaveDetail, DiscardStale,
       ReadDetail, PollDirectory, SkipChannel, ClaimChannel, RequestWeb, RequestAccount, CompleteNew, SaveCandidate, FailRun
  <2> QED
    BY <1>2, <2>1, <2>2 DEF Next, SyncNext, SyncRead, CrossCheck, WorldNext, SessionChanges, Tick, RemoveAtApple
<1>4. CASE SyncCommit
  <2>1. PICK E : rows' = [b \in Address |-> Committed(E, b)]
    BY <1>4, CommitIs, Zenon
  <2>2. a \in Known
    BY <1>1 DEF Known
  <2>3. ~(sync.ready /\ a \in MissingFrom(sync.seen, sync.start))
    <3>1. SUFFICES ASSUME ~Protected(a, sync.start), a \notin sync.seen PROVE FALSE
      BY DEF MissingFrom
    <3>2. rows[a].born \in Nat /\ sync.start \in Nat /\ OldAge \in Nat
      BY <1>1, AliasCreationAssumption DEF CreationInv, CreationTypes, RowSet, Syncs
    <3>3. rows[a].born <= sync.start - OldAge
      BY <1>1, <3>1, <3>2 DEF Protected
    <3> QED
      BY <1>1, <3>1, <3>3 DEF CreationInv, ListedInv
  <2>4. Committed(E, a) \in {rows[a], Issued(rows[a])}
    BY <2>2, <2>3 DEF Committed
  <2>5. Issued(rows[a]).st = "enabled"
    BY DEF Issued, NoRow
  <2> QED
    BY <1>1, <2>1, <2>4, <2>5
<1> QED
  BY <1>1, <1>3, <1>4 DEF SyncFails, Crash

-----------------------------------------------------------------------------
(* What holds of every creation. *)

THEOREM CreationHolds == Spec => []CreationInv
<1> QED BY CreationInitially, CreationStep, PTL DEF Spec

\* Credentials are issued for addresses that exist at Apple only, whether they were
\* confirmed, imported or set aside first, and however their creation was answered.
THEOREM CredentialsForMadeOnly == Spec => []IssuedOnlyIfMade
<1>1. CreationInv => IssuedOnlyIfMade
  BY DEF CreationInv, RowsInv, IssuedOnlyIfMade, Completed
<1> QED BY CreationHolds, <1>1, PTL

\* An open candidate closes its channel, and one of unknown origin closes both: no
\* second address is generated beside it.
THEOREM OneCandidateAtATime == Spec => []OneCandidatePerChannel
<1>1. CreationInv => OneCandidatePerChannel
  BY DEF CreationInv, RowsInv
<1> QED BY CreationHolds, <1>1, PTL

\* The candidates' places are kept: enabled aliases and candidates together never
\* exceed the account's places.
THEOREM CandidatesKeepPlaces == Spec => []PlacesKept
<1> QED BY CreationHolds, PlacesInitially, PlacesStep, PTL DEF Spec

\* The pause that Apple asked of a background run outlives the process: no later
\* background run asks the channel before it is over.
THEOREM ThrottleOutlivesRestart == Spec => ThrottleRemembered
<1>1. Spec => []PauseInv
  BY CreationHolds, CreationInitially, PauseStep, PTL DEF Spec
<1> QED BY <1>1, CreationHolds, AskedAfterPause, PTL DEF Spec, ThrottleRemembered

\* A synchronisation keeps every candidate whose address exists at Apple, the listed
\* and the not yet listed, unless it was completed when it was already old.
THEOREM SynchronisationKeepsCandidates == Spec => KeepsLiveCandidates
<1> QED BY CreationHolds, LiveCandidatesStay, PTL DEF Spec, KeepsLiveCandidates
=============================================================================
