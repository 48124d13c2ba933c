--------------------------- MODULE ReceiverProofs ----------------------------
(***************************************************************************)
(* Proofs about ActiveReceiver: for any number of pickups, messages and    *)
(* notifications, a pickup that is told the mailbox was read has all it    *)
(* had to see before it, and no pickup waits for a worker that is not      *)
(* there or has nothing to read.                                           *)
(***************************************************************************)
EXTENDS ActiveReceiver, TLAPS

(* The read in flight is going to archive the first n messages.             *)
Coming(n) ==
    /\ worker = "read" => n <= mail
    /\ worker = "listed" => n <= listed
    /\ worker = "archived" => n <= stored

Types ==
    /\ mail \in Nat /\ announced \in Nat /\ stored \in Nat /\ listed \in Nat
    /\ generation \in Nat /\ captured \in Nat
    /\ required \in [Reader -> Nat] /\ known \in [Reader -> Nat]
    /\ pc \in [Reader -> {"start", "again", "wait", "synced", "look", "last", "empty", "sleep"}]
    /\ chan \in [Reader -> {"none", "open", "closed", "gone"}]
    /\ alive \in BOOLEAN /\ cancelled \in BOOLEAN /\ synced \in BOOLEAN

(* Generations of the worker, and the order in which mail moves.            *)
Order ==
    /\ announced <= mail /\ stored <= mail
    /\ worker = "listed" => stored <= listed /\ listed <= mail
    /\ captured <= generation /\ (Reading <=> captured # 0)
    /\ alive <=> worker # "none"
    /\ ~alive => generation = 0
    /\ failure # "none" => generation # 0
    /\ alive /\ ~synced => generation # 0

(* What was announced is archived, or a read is asked for that will see it.  *)
Announcements ==
    /\ alive /\ generation = 0 => announced <= stored
    /\ captured = generation => Coming(announced)

(* A pickup has what it must see, or waits for a read that will see it.     *)
Expecting(r) ==
    /\ known[r] <= mail
    /\ pc[r] = "synced" => known[r] <= stored
    /\ pc[r] = "wait" =>
         /\ required[r] = 0 => known[r] <= stored
         /\ required[r] <= captured => Coming(known[r])
         /\ chan[r] # "gone" => alive /\ required[r] <= generation
         /\ chan[r] = "open" => generation # 0
         /\ chan[r] # "none"

ReceiverInv == Types /\ Order /\ Announcements /\ \A r \in Reader : Expecting(r)

LEMMA ReceiverImplies == ReceiverInv => SeenBeforeAnswer /\ Attended
BY DEF ReceiverInv, Types, Expecting, SeenBeforeAnswer, Attended, Pending

LEMMA ReceiverInit == Init => ReceiverInv
<1> SUFFICES ASSUME Init PROVE ReceiverInv
  OBVIOUS
<1>1. Types
  BY DEF Init, Types
<1>2. Order /\ Announcements
  BY DEF Init, Order, Announcements, Coming, Reading
<1>3. \A r \in Reader : Expecting(r)
  BY DEF Init, Expecting
<1> QED
  BY <1>1, <1>2, <1>3 DEF ReceiverInv

(* What a pickup finds, or makes, of the worker.                            *)
LEMMA Asked ==
    ASSUME ReceiverInv, NEW newer \in BOOLEAN
    PROVE  LET w == Refreshed(Worker, newer)
               v == Verdict(w, w.generation) IN
           /\ w.generation \in Nat /\ w.synced \in BOOLEAN
           /\ captured <= w.generation
           /\ ~alive => w.generation = 1 /\ w.failure = "none" /\ ~w.synced
           /\ alive => w.generation \in {generation, 1} /\ generation <= w.generation
                       /\ w.failure = failure /\ w.synced = synced
           /\ v \in {"start", "wait", "synced"}
           /\ v = "synced" => alive /\ generation = 0 /\ w.generation = 0 /\ synced /\ ~old /\ ~newer
           /\ v = "wait" => w.generation # 0
           /\ w.generation = 0 => generation = 0
<1> DEFINE w == Refreshed(Worker, newer)
<1>1. CASE alive
  <2>1. Worker = Existing
    BY <1>1 DEF Worker
  <2>2. CASE generation = 0 /\ (~synced \/ old \/ newer)
    BY <1>1, <2>1, <2>2 DEF Refreshed, Existing, Verdict, ReceiverInv, Types, Order
  <2>3. CASE ~(generation = 0 /\ (~synced \/ old \/ newer))
    <3>1. w = Existing
      BY <2>1, <2>3 DEF Refreshed, Existing
    <3>2. w.generation = generation /\ w.synced = synced /\ w.failure = failure
      BY <3>1 DEF Existing
    <3>3. generation = 0 => synced /\ ~old /\ ~newer /\ failure = "none"
      BY <1>1, <2>3 DEF ReceiverInv, Order
    <3> QED
      BY <1>1, <3>2, <3>3 DEF Verdict, ReceiverInv, Types, Order
  <2> QED
    BY <2>2, <2>3
<1>2. CASE ~alive
  <2>1. Worker = Fresh
    BY <1>2 DEF Worker
  <2>2. Fresh.generation = 1
    BY DEF Fresh
  <2>3. w = Fresh
    BY <2>1, <2>2 DEF Refreshed
  <2>4. w.generation = 1 /\ w.failure = "none" /\ ~w.synced /\ w.synced \in BOOLEAN
    BY <2>3 DEF Fresh
  <2>5. Verdict(w, w.generation) = "wait"
    BY <2>4 DEF Verdict
  <2>6. captured = 0 /\ generation = 0
    BY <1>2 DEF ReceiverInv, Types, Order
  <2> QED
    BY <1>2, <2>4, <2>5, <2>6
<1> QED
  BY <1>1, <1>2


(* Every step but those of SyncAlias keeps the invariant.                   *)
LEMMA WorkerStep ==
    ASSUME ReceiverInv, Reads
    PROVE  ReceiverInv'
<1> USE DEF ReceiverInv
<1>1. CASE Read
  BY <1>1 DEF Read, Keep, Types, Order, Announcements, Expecting, Coming, Reading, Pending
<1>2. CASE List
  BY <1>2 DEF List, Keep, Types, Order, Announcements, Expecting, Coming, Reading
<1>3. CASE Archive
  BY <1>3 DEF Archive, Keep, Types, Order, Announcements, Expecting, Coming, Reading
<1>4. CASE Commit
  <2> USE <1>4 DEF Commit, Keep, Seen
  <2>1. generation' \in Nat /\ worker = "archived" /\ worker' = "loop" /\ alive
    BY DEF Types, Order
  <2>2. chan' \in [Reader -> {"none", "open", "closed", "gone"}] /\ \A r \in Reader : chan'[r] # "open"
                /\ (chan'[r] = "none" <=> chan[r] = "none") /\ (chan'[r] = "gone" <=> chan[r] = "gone")
    BY DEF ClosedFor, Types
  <2>3. required' \in [Reader -> Nat] /\ \A r \in Reader :
             IF pc[r] = "wait" /\ required[r] > captured
             THEN required'[r] = required[r] - captured ELSE required'[r] = 0
    BY DEF Types
  <2>4. Types' /\ Order'
    BY <2>1, <2>2, <2>3 DEF Types, Order, Reading
  <2>5. Announcements'
    BY <2>1 DEF Types, Order, Announcements, Coming, Reading
  <2>6. ASSUME NEW r \in Reader PROVE Expecting(r)'
    BY <2>1, <2>2, <2>3 DEF Types, Order, Expecting, Coming, Reading
  <2> QED
    BY <2>4, <2>5, <2>6
<1>5. CASE Fail
  <2> USE <1>5 DEF Fail, Keep
  <2>1. chan' \in [Reader -> {"none", "open", "closed", "gone"}] /\ \A r \in Reader : chan'[r] # "open"
                /\ (chan'[r] = "none" <=> chan[r] = "none") /\ (chan'[r] = "gone" <=> chan[r] = "gone")
    BY DEF ClosedFor, Types
  <2> QED
    BY <2>1 DEF Types, Order, Announcements, Expecting, Coming, Reading
<1>6. CASE Rest \/ Stir
  BY <1>6 DEF Rest, Stir, Keep, Types, Order, Announcements, Expecting, Coming, Reading
<1>7. CASE Quit
  BY <1>7 DEF Quit, Ends, Keep, Types, Order, Announcements, Expecting, Coming, Reading
<1>8. CASE Gone
  <2>1. chan' \in [Reader -> {"none", "gone"}] /\ \A r \in Reader : chan'[r] = "none" <=> chan[r] = "none"
    BY <1>8 DEF Gone, Told, GoneFor, Types
  <2>2. captured = 0
    BY <1>8 DEF Gone, Types, Order, Reading
  <2>3. /\ worker' = "none" /\ alive' = FALSE /\ cancelled' = FALSE /\ synced' = FALSE
        /\ generation' = 0 /\ failure' = "none" /\ UNCHANGED <<mail, announced, stored, listed, captured, pc, required, known>>
    BY <1>8 DEF Gone, mailVars
  <2>4. Types'
    BY <2>1, <2>3 DEF Types
  <2>5. Order' /\ Announcements'
    BY <2>2, <2>3 DEF Types, Order, Announcements, Coming, Reading
  <2>6. ASSUME NEW r \in Reader PROVE Expecting(r)'
    BY <2>1, <2>2, <2>3 DEF Types, Expecting, Coming
  <2> QED
    BY <2>4, <2>5, <2>6
<1> QED
  BY <1>1, <1>2, <1>3, <1>4, <1>5, <1>6, <1>7, <1>8 DEF Reads

LEMMA OutsideStep ==
    ASSUME ReceiverInv, Arrive \/ Notify \/ Ages \/ Backoff \/ TenMinutes \/ Reconfigure \/ Close
    PROVE  ReceiverInv'
<1> USE DEF ReceiverInv, Outside, Types, Order, Announcements, Expecting, Coming, Reading
<1>1. CASE Arrive
  BY <1>1 DEF Arrive
<1>2. CASE Notify
  BY <1>2 DEF Notify
<1>3. CASE Ages \/ Backoff
  BY <1>3 DEF Ages, Backoff
<1>4. CASE TenMinutes \/ Reconfigure \/ Close
  BY <1>4 DEF TenMinutes, Reconfigure, Close
<1> QED
  BY <1>1, <1>2, <1>3, <1>4

(* What a pickup that leaves the wait keeps is nothing.                     *)
LEMMA AnswerStep ==
    ASSUME ReceiverInv, NEW r \in Reader, NEW at \in {"start", "last", "again"}, Answer(r, at),
           UNCHANGED <<mailVars, alive, worker, generation, captured, synced, failure>>,
           cancelled' \in BOOLEAN
    PROVE  ReceiverInv'
BY DEF ReceiverInv, Types, Order, Announcements, Expecting, Coming, Reading, Answer, mailVars

LEMMA ResumeStep ==
    ASSUME ReceiverInv, NEW r \in Reader,
           Woken(r) \/ Deferred(r) \/ Subscribe(r) \/ Look(r) \/ Sleep(r) \/ NextCheck(r) \/ Cancel(r)
    PROVE  ReceiverInv'
<1> USE DEF ReceiverInv, workVars, mailVars
<1>1. ASSUME NEW at \in {"start", "last", "again"}, Answer(r, at), UNCHANGED <<mailVars, workVars>>
      PROVE  ReceiverInv'
  BY <1>1, AnswerStep DEF Types
<1>2. CASE Woken(r)
  <2> DEFINE v == Verdict(Existing, required[r])
  <2>1. CASE v = "start"
    BY <1>1, <1>2, <2>1 DEF Woken
  <2>2. CASE v # "start"
    <3>1. pc[r] = "wait" /\ chan[r] = "closed" /\ v \in {"synced", "wait"}
      BY <1>2, <2>2 DEF Woken, Verdict
    <3>2. v = "synced" => required[r] = 0
      BY DEF Verdict, Existing
    <3>3. v = "wait" => generation # 0
      BY <3>1 DEF Verdict, Existing, Types, Order, Expecting
    <3>4. /\ pc' = [pc EXCEPT ![r] = v]
          /\ chan' = [chan EXCEPT ![r] = IF v = "wait" THEN "open" ELSE "none"]
          /\ UNCHANGED <<required, want, known, mailVars, workVars>>
      BY <1>2, <2>2 DEF Woken
    <3> HIDE DEF v
    <3> QED
      BY <3>1, <3>2, <3>3, <3>4 DEF Types, Order, Announcements, Expecting, Coming, Reading
  <2> QED
    BY <2>1, <2>2
<1>3. CASE Deferred(r) \/ NextCheck(r)
  BY <1>1, <1>3 DEF Deferred, NextCheck
<1>4. CASE Cancel(r)
  BY <1>1, <1>4 DEF Cancel
<1>5. CASE Subscribe(r)
  BY <1>5 DEF Subscribe, Channel, Types, Order, Announcements, Expecting, Coming, Reading
<1>6. CASE Look(r)
  <2>1. CASE Ready(r) \/ chan[r] = "none"
    BY <1>1, <1>6, <2>1 DEF Look
  <2>2. CASE ~(Ready(r) \/ chan[r] = "none")
    BY <1>6, <2>2 DEF Look, Types, Order, Announcements, Expecting, Coming, Reading
  <2> QED
    BY <2>1, <2>2
<1>7. CASE Sleep(r)
  BY <1>7 DEF Sleep, Types, Order, Announcements, Expecting, Coming, Reading
<1> QED
  BY <1>2, <1>3, <1>4, <1>5, <1>6, <1>7

LEMMA SyncAliasStep ==
    ASSUME ReceiverInv, NEW r \in Reader, NEW from \in {"start", "again"}, SyncAlias(r, from)
    PROVE  ReceiverInv'
<1> USE DEF ReceiverInv
<1>1. CASE closed \/ (alive /\ moved)
  <2>1. Answer(r, "start") /\ cancelled' = (cancelled \/ alive)
        /\ UNCHANGED <<mailVars, alive, worker, generation, captured, synced, failure>>
    BY <1>1 DEF SyncAlias
  <2>2. cancelled' \in BOOLEAN
    BY <2>1
  <2> QED
    BY <2>1, <2>2, AnswerStep
<1>2. CASE ~(closed \/ (alive /\ moved))
  <2>1. PICK newer \in BOOLEAN :
          LET w == Refreshed(Worker, newer)
              v == Verdict(w, w.generation) IN
          /\ alive' = TRUE
          /\ generation' = w.generation /\ synced' = w.synced /\ failure' = w.failure
          /\ IF v = "start" THEN Answer(r, v)
             ELSE /\ pc' = [pc EXCEPT ![r] = v]
                  /\ required' = [required EXCEPT ![r] = IF v = "wait" THEN w.generation ELSE 0]
                  /\ chan' = [chan EXCEPT ![r] = IF v = "wait" THEN "open" ELSE "none"]
                  /\ known' = [known EXCEPT ![r] = MustSee(newer)]
          /\ worker' = IF alive THEN worker ELSE "loop"
          /\ cancelled' = (alive /\ cancelled)
          /\ UNCHANGED <<captured, mailVars>>
    BY <1>2 DEF SyncAlias
  <2> DEFINE w == Refreshed(Worker, newer)
             v == Verdict(w, w.generation)
  <2>2. /\ w.generation \in Nat /\ w.synced \in BOOLEAN
        /\ captured <= w.generation
        /\ ~alive => w.generation = 1 /\ w.failure = "none" /\ ~w.synced
        /\ alive => w.generation \in {generation, 1} /\ generation <= w.generation
                    /\ w.failure = failure /\ w.synced = synced
        /\ v \in {"start", "wait", "synced"}
        /\ v = "synced" => alive /\ generation = 0 /\ w.generation = 0 /\ synced /\ ~old /\ ~newer
        /\ v = "wait" => w.generation # 0
        /\ w.generation = 0 => generation = 0
    BY Asked
  <2>3. /\ alive' = TRUE
        /\ generation' = w.generation /\ synced' = w.synced /\ failure' = w.failure
        /\ v = "start" => Answer(r, "start")
        /\ v # "start" =>
             /\ pc' = [pc EXCEPT ![r] = v]
             /\ required' = [required EXCEPT ![r] = IF v = "wait" THEN w.generation ELSE 0]
             /\ chan' = [chan EXCEPT ![r] = IF v = "wait" THEN "open" ELSE "none"]
             /\ known' = [known EXCEPT ![r] = MustSee(newer)]
        /\ worker' = IF alive THEN worker ELSE "loop"
        /\ cancelled' = (alive /\ cancelled)
        /\ UNCHANGED <<captured, mail, announced, stored, listed>>
    BY <2>1 DEF mailVars
  <2> HIDE DEF w, v
  <2>4. captured = 0 <=> ~Reading
    BY DEF Types, Order
  <2>5. ~alive => captured = 0 /\ ~Reading /\ generation = 0
    BY DEF Types, Order, Reading
  <2>6. Reading' <=> Reading
    BY <2>3, <2>5 DEF Reading, Order
  <2>7. Order'
    BY <2>2, <2>3, <2>4, <2>5, <2>6 DEF Types, Order
  <2>8. \A n \in Nat : Coming(n) => Coming(n)'
    BY <2>3, <2>5 DEF Coming, Order
  <2>9. Announcements'
    BY <2>2, <2>3, <2>4, <2>5, <2>8 DEF Types, Order, Announcements, Coming, Reading
  <2>10. MustSee(newer) \in {announced, mail} /\ (Reading => MustSee(newer) = announced)
         /\ (v = "synced" => MustSee(newer) = announced)
    BY <2>2 DEF MustSee
  <2>11. Types'
    <3>1. pc' \in [Reader -> {"start", "again", "wait", "synced", "look", "last", "empty", "sleep"}]
          /\ chan' \in [Reader -> {"none", "open", "closed", "gone"}]
      BY <2>2, <2>3 DEF Types, Answer
    <3>2. required' \in [Reader -> Nat] /\ known' \in [Reader -> Nat]
      BY <2>2, <2>3, <2>10 DEF Types, Answer
    <3> QED
      BY <2>2, <2>3, <3>1, <3>2 DEF Types
  <2>12. ASSUME NEW q \in Reader, q # r PROVE Expecting(q)'
    <3>1. pc'[q] = pc[q] /\ required'[q] = required[q] /\ chan'[q] = chan[q] /\ known'[q] = known[q]
      BY <2>2, <2>3, <2>12 DEF Types, Answer
    <3>2. known[q] \in Nat /\ required[q] \in Nat
      BY DEF Types
    <3> QED
      BY <2>2, <2>3, <2>8, <3>1, <3>2 DEF Types, Expecting
  <2>13. Expecting(r)'
    <3>1. CASE v = "start"
      BY <2>3, <2>11, <3>1 DEF Types, Order, Expecting, Answer
    <3>2. CASE v = "synced"
      BY <2>2, <2>3, <2>10, <3>2 DEF Types, Order, Announcements, Expecting
    <3>3. CASE v = "wait"
      <4>1. required'[r] = w.generation /\ w.generation # 0 /\ pc'[r] = "wait" /\ chan'[r] = "open"
            /\ known'[r] = MustSee(newer)
        BY <2>2, <2>3, <3>3 DEF Types
      <4>2. w.generation <= captured => Coming(MustSee(newer))
        <5>1. ASSUME w.generation <= captured PROVE Coming(MustSee(newer))
          <6>1. captured # 0 /\ Reading /\ alive
            BY <2>2, <2>4, <2>5, <4>1, <5>1 DEF Types
          <6>2. captured = generation
            BY <2>2, <5>1, <6>1 DEF Types, Order
          <6> QED
            BY <2>10, <6>1, <6>2 DEF Announcements
        <5> QED
          BY <5>1
      <4>3. MustSee(newer) \in Nat /\ MustSee(newer) <= mail
        BY <2>10 DEF Types, Order
      <4> QED
        BY <2>2, <2>3, <2>8, <4>1, <4>2, <4>3 DEF Types, Expecting
    <3> QED
      BY <2>2, <3>1, <3>2, <3>3
  <2> QED
    BY <2>7, <2>9, <2>11, <2>12, <2>13
<1> QED
  BY <1>1, <1>2

LEMMA ReceiverStep == ReceiverInv /\ [Next]_vars => ReceiverInv'
<1>1. CASE UNCHANGED vars
  BY <1>1 DEF vars, mailVars, workVars, readVars, ReceiverInv, Types, Order, Announcements, Expecting, Coming, Reading
<1>2. ASSUME ReceiverInv, Next PROVE ReceiverInv'
  BY <1>2, WorkerStep, OutsideStep, ResumeStep, SyncAliasStep DEF Next, Resume, Begin, Again
<1> QED
  BY <1>1, <1>2

(* A pickup that is told the mailbox was read has all it had to see before  *)
(* it (SyncAlias: "the generation observed on admission").                  *)
THEOREM ReceiverSeen == Spec => []SeenBeforeAnswer
BY ReceiverInit, ReceiverStep, ReceiverImplies, PTL DEF Spec

(* Every pickup that waits has a worker, and that has a read to do.         *)
THEOREM ReceiverAttends == Spec => []Attended
BY ReceiverInit, ReceiverStep, ReceiverImplies, PTL DEF Spec

-----------------------------------------------------------------------------
(* A long pickup looks into the archive after it has subscribed. From then    *)
(* on a message for it comes with a commit, which closes the channel.        *)

Owed(r) == pc[r] \in {"empty", "sleep"} /\ Ready(r)
SleeperInv ==
    /\ want \in [Reader -> Nat]
    /\ \A r \in Reader : Owed(r) => chan[r] # "open" \/ worker = "archived"

(* A step of one reader that stores nothing leaves the others as they were.  *)
LEMMA OthersSleep ==
    ASSUME SleeperInv, NEW r \in Reader, stored' = stored, want' \in [Reader -> Nat],
           worker' = worker \/ worker # "archived",
           \A q \in Reader \ {r} : pc'[q] = pc[q] /\ chan'[q] = chan[q] /\ want'[q] = want[q],
           Owed(r)' => chan'[r] # "open"
    PROVE  SleeperInv'
  BY DEF SleeperInv, Owed, Ready

LEMMA AnswerSleep ==
    ASSUME SleeperInv, ReceiverInv, NEW r \in Reader, NEW at \in {"start", "last", "again"}, Answer(r, at),
           UNCHANGED <<stored, worker>>
    PROVE  SleeperInv'
<1>1. want' \in [Reader -> Nat]
  BY DEF SleeperInv, Answer
<1>2. pc'[r] = at /\ \A q \in Reader \ {r} : pc'[q] = pc[q] /\ chan'[q] = chan[q] /\ want'[q] = want[q]
  BY DEF ReceiverInv, Types, SleeperInv, Answer
<1>3. ~Owed(r)'
  BY <1>2 DEF Owed
<1> QED
  BY <1>1, <1>2, <1>3, OthersSleep

LEMMA ReaderSleep ==
    ASSUME SleeperInv, ReceiverInv, NEW r \in Reader,
           Woken(r) \/ Deferred(r) \/ Subscribe(r) \/ Look(r) \/ Sleep(r) \/ NextCheck(r) \/ Cancel(r)
    PROVE  SleeperInv'
<1> USE DEF workVars, mailVars
<1>0. chan \in [Reader -> {"none", "open", "closed", "gone"}] /\ want \in [Reader -> Nat]
      /\ pc \in [Reader -> {"start", "again", "wait", "synced", "look", "last", "empty", "sleep"}]
  BY DEF ReceiverInv, Types, SleeperInv
<1>1. ASSUME NEW at \in {"start", "last", "again"}, Answer(r, at), UNCHANGED <<mailVars, workVars>>
      PROVE  SleeperInv'
  BY <1>1, AnswerSleep
<1>2. CASE Woken(r)
  <2> DEFINE v == Verdict(Existing, required[r])
  <2>1. CASE v = "start"
    BY <1>1, <1>2, <2>1 DEF Woken
  <2>2. CASE v # "start"
    <3>1. v \in {"synced", "wait"}
      BY <2>2 DEF Verdict
    <3>2. /\ pc' = [pc EXCEPT ![r] = v]
          /\ chan' = [chan EXCEPT ![r] = IF v = "wait" THEN "open" ELSE "none"]
          /\ UNCHANGED <<want, stored, worker>>
      BY <1>2, <2>2 DEF Woken
    <3> HIDE DEF v
    <3>3. ~Owed(r)'
      BY <1>0, <3>1, <3>2 DEF Owed
    <3> QED
      BY <1>0, <3>2, <3>3, OthersSleep
  <2> QED
    BY <2>1, <2>2
<1>3. CASE Deferred(r) \/ NextCheck(r) \/ Cancel(r)
  BY <1>1, <1>3 DEF Deferred, NextCheck, Cancel
<1>4. CASE Subscribe(r)
  <2>1. ~Owed(r)' /\ UNCHANGED <<want, stored, worker>>
    BY <1>0, <1>4 DEF Subscribe, Owed
  <2> QED
    BY <1>0, <1>4, <2>1, OthersSleep DEF Subscribe
<1>5. CASE Look(r)
  <2>1. CASE Ready(r) \/ chan[r] = "none"
    BY <1>1, <1>5, <2>1 DEF Look
  <2>2. CASE ~(Ready(r) \/ chan[r] = "none")
    <3>1. ~Owed(r)' /\ UNCHANGED <<want, chan, stored, worker>> /\ pc' = [pc EXCEPT ![r] = "empty"]
      BY <1>0, <1>5, <2>2 DEF Look, Owed, Ready
    <3> QED
      BY <1>0, <3>1, OthersSleep
  <2> QED
    BY <2>1, <2>2
<1>6. CASE Sleep(r)
  BY <1>0, <1>6 DEF Sleep, SleeperInv, Owed, Ready
<1> QED
  BY <1>2, <1>3, <1>4, <1>5, <1>6

LEMMA AdmittedSleep ==
    ASSUME SleeperInv, ReceiverInv, NEW r \in Reader, NEW from \in {"start", "again"}, SyncAlias(r, from)
    PROVE  SleeperInv'
<1>1. stored' = stored /\ (worker' = worker \/ worker # "archived")
  BY DEF SyncAlias, mailVars, ReceiverInv, Order
<1>2. \/ Answer(r, "start")
      \/ \E v \in {"synced", "wait"}, c \in {"open", "none"} :
            /\ pc' = [pc EXCEPT ![r] = v] /\ chan' = [chan EXCEPT ![r] = c]
            /\ want' = [want EXCEPT ![r] = IF from = "start" THEN stored + 1 ELSE @]
  BY DEF SyncAlias, Verdict
<1>3. pc'[r] \in {"start", "synced", "wait"}
  BY <1>2 DEF Answer, ReceiverInv, Types
<1>4. want' \in [Reader -> Nat] /\ \A q \in Reader \ {r} : pc'[q] = pc[q] /\ chan'[q] = chan[q] /\ want'[q] = want[q]
  BY <1>2 DEF Answer, ReceiverInv, Types, SleeperInv
<1>5. ~Owed(r)'
  BY <1>3 DEF Owed
<1> QED
  BY <1>1, <1>4, <1>5, OthersSleep

LEMMA ReadsSleep == ASSUME SleeperInv, ReceiverInv, Reads PROVE SleeperInv'
<1>1. CASE Read \/ List \/ Rest \/ Stir \/ Quit
  BY <1>1 DEF Read, List, Rest, Stir, Quit, Ends, Keep, SleeperInv, Owed, Ready
<1>2. CASE Archive
  BY <1>2 DEF Archive, Keep, SleeperInv, Owed, Ready
<1>3. CASE Commit \/ Fail
  BY <1>3 DEF Commit, Fail, ClosedFor, Keep, SleeperInv, Owed, Ready
<1>4. CASE Gone
  BY <1>4 DEF Gone, Told, GoneFor, mailVars, SleeperInv, Owed, Ready
<1> QED
  BY <1>1, <1>2, <1>3, <1>4 DEF Reads

LEMMA SleeperStep == SleeperInv /\ ReceiverInv /\ [Next]_vars => SleeperInv'
<1>1. ASSUME SleeperInv, UNCHANGED vars PROVE SleeperInv'
  BY <1>1 DEF vars, mailVars, workVars, readVars, SleeperInv, Owed, Ready
<1>2. ASSUME SleeperInv, Arrive \/ Notify \/ Ages \/ Backoff \/ TenMinutes \/ Reconfigure \/ Close
      PROVE  SleeperInv'
  BY <1>2 DEF Arrive, Notify, Ages, Backoff, TenMinutes, Reconfigure, Close, Outside, SleeperInv, Owed, Ready
<1>3. ASSUME SleeperInv, ReceiverInv, Next PROVE SleeperInv'
  BY <1>2, <1>3, ReaderSleep, AdmittedSleep, ReadsSleep DEF Next, Resume, Begin, Again
<1> QED
  BY <1>1, <1>3

(* A long pickup never sleeps at an open channel past the commit of its code *)
(* (poolLeaseCode subscribes before it looks, run closes the channel with    *)
(* every commit).                                                            *)
THEOREM ReceiverLosesNoCommit == Spec => []NoLostCommit
<1>1. Init => SleeperInv
  BY DEF Init, SleeperInv, Owed
<1>2. SleeperInv => NoLostCommit
  BY DEF SleeperInv, Owed, NoLostCommit
<1> QED
  BY <1>1, <1>2, ReceiverInit, ReceiverStep, SleeperStep, PTL DEF Spec
=============================================================================
