----------------------------- MODULE AutoCreate -----------------------------
(***************************************************************************)
(* The scheduler that creates aliases at Apple in the background           *)
(* (autocreate/manager.go) for one account, with the schedule row it shares *)
(* through compare-and-swap (store/alias_creation_schedule.go), the         *)
(* upgrade of that row at start (store/alias_creation_cadence.go) and the   *)
(* account's attempt ledger (store/apple_creation_budget.go).               *)
(*                                                                         *)
(* Several managers may poll the same row: each works from a snapshot, and  *)
(* reads the clock at points of its own.  Times are ticks of one clock.     *)
(***************************************************************************)
EXTENDS Integers, FiniteSetsExt

CONSTANTS
    Manager,    \* the polling loops (instances of the service)
    Slots,      \* CreationsPerCycle: deadlines in a fresh plan
    Gap,        \* MinimumInterval, and AppleCreationMinInterval of the ledger
    Cycle,      \* CycleDuration, and the window of the ledger
    Grace,      \* overdueGrace
    Cooldown,   \* appleRateLimitCooldown
    WebSlots,   \* the slots used when only the web channel is left
    Limit,      \* AppleCreationHourlyLimit
    MaxTime,    \* bound: the last tick explored
    MaxCrashes, \* bound: process stops
    MaxToggles, \* bound: times the operator throws the switch
    MaxLag      \* bound: ticks between the operator's clock reading and the write

ASSUME AutoCreateAssumption ==
    /\ Slots \in Nat \ {0} /\ Gap \in Nat \ {0} /\ Limit \in Nat \ {0}
    /\ Cycle \in Nat /\ Cycle >= Slots * Gap
    /\ Grace \in Nat /\ Cooldown \in Nat /\ Cooldown >= Gap
    /\ WebSlots \subseteq 0 .. Slots - 1
    /\ MaxTime \in Nat /\ MaxCrashes \in Nat /\ MaxToggles \in Nat /\ MaxLag \in Nat

Never == 0 - Gap                \* no attempt yet: its minimum interval is over
Time  == 0 .. MaxTime
Later(s, t) == IF s > t THEN s ELSE t

VARIABLES
    now,        \* the wall clock
    sched,      \* the schedule row
    upgraded,   \* the cadence version marker is in the database
    ledger,     \* attempts charged to the account and its cooldown
    work,       \* what each manager holds of the run it is in
    admin,      \* a SetEnabled request between its read and its write
    crashes, toggles,   \* bounded counters
    starts,     \* history: the start boundary of every run that calls the creator
    charged,    \* history: every attempt ever charged
    used,       \* history: the slots consumed since the plan was last made anew
    cooling     \* history: the deadline of a cooldown the schedule stored

hist == <<starts, charged, used, cooling>>
vars == <<now, sched, upgraded, ledger, work, admin, crashes, toggles, hist>>

-----------------------------------------------------------------------------
(* Plans: a plan is the set of its deadlines, the row's next_run_at the first. *)

Spaced(P) == \A s, t \in P : s < t => t - s >= Gap

\* generatePlan: gaps of at least Gap that total one Cycle.
NewPlans(anchor) ==
    { P \in kSubset(Slots, (anchor + Gap) .. (anchor + Cycle)) :
        Spaced(P) /\ anchor + Cycle \in P }

\* newPlanStartingAt: the first deadline is the end of the cooldown itself.
NewPlansStartingAt(first) ==
    { {first} \cup (P \ {Min(P)}) : P \in NewPlans(first) }

\* The whole plan moves so that its first deadline is not before earliest.
Shift(P, earliest) ==
    IF Min(P) < earliest THEN { t + (earliest - Min(P)) : t \in P } ELSE P

FuturePlan(P, expected)                 == { t \in P : t > expected }
FuturePlanIncludingCurrent(P, expected) == { t \in P : t >= expected }

PlansAfterClaim(P, expected, at) ==
    LET rest == FuturePlan(P, expected)
    IN  IF rest = {} \/ Cardinality(rest) > Slots - 1 \/ ~Spaced(rest)
        THEN NewPlans(Later(expected, at))
        ELSE { Shift(rest, at + Gap) }

ShiftedPlans(P, expected, earliest) ==
    LET rest == FuturePlanIncludingCurrent(P, expected)
    IN  IF rest = {} \/ Cardinality(rest) > Slots \/ ~Spaced(rest)
        THEN NewPlans(earliest - Gap)
        ELSE { Shift(rest, earliest) }

\* The position in the cycle of the deadline being claimed.
SlotOf(P, expected) == Slots - Cardinality(FuturePlanIncludingCurrent(P, expected))

-----------------------------------------------------------------------------
(* The schedule row. *)

Disabled(s) == [s EXCEPT !.enabled = FALSE, !.plan = {}]

\* Mutant: the write does not look at next_run_at.
AnyPlan(expected) == sched.enabled /\ sched.plan # {}

\* The condition of casAliasCreationPlan: opted in, and next_run_at as expected.
Unchanged(expected) == sched.enabled /\ sched.plan # {} /\ Min(sched.plan) = expected

\* RecordAliasCreationSuccess and Failure write nothing to a schedule switched off.
Recorded(at, err) ==
    IF sched.enabled THEN [sched EXCEPT !.last = at, !.err = err] ELSE sched

-----------------------------------------------------------------------------
(* The ledger of attempts. *)

Window(at) == { t \in ledger.attempts : t > at - Cycle }

\* Mutant: the interval since the latest attempt is left out.
WaitForCeiling(at) ==
    LET newest == { t \in Window(at) : Cardinality({ u \in Window(at) : u >= t }) <= Limit }
    IN  IF Cardinality(Window(at)) >= Limit
        THEN Later(ledger.until, Min(newest) + Cycle) ELSE ledger.until

\* The earliest time at which claimAppleCreationAttempt would accept a claim made
\* at time at: the cooldown, the hourly ceiling, the interval since the latest.
WaitUntil(at) ==
    LET recent == Window(at)
        newest == { t \in recent : Cardinality({ u \in recent : u >= t }) <= Limit }
        full   == Cardinality(recent) >= Limit
    IN  Max({ledger.until}
            \cup (IF full THEN {Min(newest) + Cycle} ELSE {})
            \cup (IF recent # {} THEN {Max(recent) + Gap} ELSE {}))

\* The rows that left the window are deleted with the insert.
Charge(at) ==
    [ledger EXCEPT !.attempts = Window(at) \cup {at}]

\* PauseAppleCreation keeps the later deadline.
Pause(until) == [ledger EXCEPT !.until = Later(ledger.until, until)]

-----------------------------------------------------------------------------
\* A manager between polls, and one whose process is down.
Idle == [pc |-> "idle", exp |-> 0, plan |-> {}, last |-> Never, at |-> 0,
         slot |-> 0, out |-> "none", delay |-> 0, fresh |-> FALSE]
Down == [Idle EXCEPT !.pc = "down"]
NoRequest == [pc |-> "idle", on |-> FALSE, at |-> 0]

InitWith(loops) ==
    /\ now = 0
    /\ sched = [enabled |-> FALSE, plan |-> {}, last |-> Never, err |-> "none"]
    /\ upgraded = TRUE
    /\ ledger = [attempts |-> {}, until |-> 0]
    /\ work = loops
    /\ admin = NoRequest
    /\ crashes = 0 /\ toggles = 0
    /\ starts = {} /\ charged = {} /\ used = {} /\ cooling = 0

Init == InitWith([m \in Manager |-> Idle])

Set(m, w) == work' = [work EXCEPT ![m] = w]

\* runDue lists the row with its own reading of the clock and hands it to a worker.
ListDue(m) ==
    /\ work[m].pc = "idle"
    /\ sched.enabled /\ Min(sched.plan) <= now
    /\ Set(m, [Idle EXCEPT !.pc = "listed", !.exp = Min(sched.plan),
                           !.plan = sched.plan, !.last = sched.last])
    /\ UNCHANGED <<now, sched, upgraded, ledger, admin, crashes, toggles, hist>>

\* processDue reads the clock again and decides what to do with the deadline.
RescheduleOverdue(m) ==
    /\ work[m].pc = "listed" /\ now - work[m].exp > Grace
    /\ \E P \in NewPlans(now) :
         Set(m, [work[m] EXCEPT !.pc = "reschedule", !.plan = P, !.at = now, !.fresh = TRUE])
    /\ UNCHANGED <<now, sched, upgraded, ledger, admin, crashes, toggles, hist>>

RescheduleTooSoon(m) ==
    /\ work[m].pc = "listed" /\ now - work[m].exp <= Grace
    /\ now < work[m].last + Gap
    /\ \E P \in ShiftedPlans(work[m].plan, work[m].exp, work[m].last + Gap) :
         Set(m, [work[m] EXCEPT !.pc = "reschedule", !.plan = P, !.at = now])
    /\ UNCHANGED <<now, sched, upgraded, ledger, admin, crashes, toggles, hist>>

\* The channels usable just now: both, the web one only, or not the web one.
PrepareClaim(m) ==
    /\ work[m].pc = "listed" /\ now - work[m].exp <= Grace
    /\ now >= work[m].last + Gap
    /\ \E channels \in {"both", "web", "none"} :
       \E P \in PlansAfterClaim(work[m].plan, work[m].exp, now) :
         LET slot == SlotOf(work[m].plan, work[m].exp)
             skip == channels = "none" \/ (channels = "web" /\ slot \notin WebSlots)
         IN  Set(m, [work[m] EXCEPT
                 !.pc = IF skip THEN "skip" ELSE "claim", !.plan = P, !.at = now,
                 !.slot = slot, !.fresh = FuturePlan(work[m].plan, work[m].exp) = {}])
    /\ UNCHANGED <<now, sched, upgraded, ledger, admin, crashes, toggles, hist>>

\* RescheduleAliasCreation for an overdue, early or unused deadline.
Reschedule(m) ==
    /\ work[m].pc \in {"reschedule", "skip"}
    /\ IF Unchanged(work[m].exp)
       THEN /\ sched' = [sched EXCEPT !.plan = work[m].plan]
            /\ used' = IF work[m].fresh THEN {}
                       ELSE IF work[m].pc = "skip" THEN used \cup {work[m].slot} ELSE used
       ELSE UNCHANGED <<sched, used>>
    /\ Set(m, Idle)
    /\ UNCHANGED <<now, upgraded, ledger, admin, crashes, toggles, starts, charged, cooling>>

\* ClaimAliasCreation: the deadline goes to one manager, and the attempt is
\* dated before anything is asked of Apple.
Claim(m) ==
    /\ work[m].pc = "claim"
    /\ IF Unchanged(work[m].exp)
       THEN /\ sched' = [sched EXCEPT !.plan = work[m].plan, !.last = work[m].at]
            /\ used' = IF work[m].fresh THEN {} ELSE used \cup {work[m].slot}
            /\ Set(m, [work[m] EXCEPT !.pc = "claimed"])
       ELSE /\ UNCHANGED <<sched, used>>
            /\ Set(m, Idle)
    /\ UNCHANGED <<now, upgraded, ledger, admin, crashes, toggles, starts, charged, cooling>>

\* The pool wants no more addresses: the run ends, its deadline is spent.
PoolFull(m) ==
    /\ work[m].pc = "claimed"
    /\ Set(m, Idle)
    /\ UNCHANGED <<now, sched, upgraded, ledger, admin, crashes, toggles, hist>>

\* Mutant: the clock is not read again after the claim.
NoCorrection(w, actualAt) == FALSE

\* The plan is too close to a start that the claim delayed.
NeedsCorrection(w, actualAt) == actualAt > w.at /\ Min(w.plan) < actualAt + Gap

Begin(m, w) ==
    /\ Set(m, [w EXCEPT !.pc = "create", !.exp = 0, !.last = Never, !.slot = 0, !.fresh = FALSE])
    /\ starts' = starts \cup {[by |-> m, at |-> w.at]}

StartRun(m) ==
    /\ work[m].pc = "claimed"
    /\ ~NeedsCorrection(work[m], now)
    /\ Begin(m, [work[m] EXCEPT !.at = now])
    /\ UNCHANGED <<now, sched, upgraded, ledger, admin, crashes, toggles, charged, used, cooling>>

PrepareCorrection(m) ==
    /\ work[m].pc = "claimed"
    /\ NeedsCorrection(work[m], now)
    /\ Set(m, [work[m] EXCEPT !.pc = "correct", !.at = now, !.exp = Min(work[m].plan),
                              !.plan = Shift(work[m].plan, now + Gap)])
    /\ UNCHANGED <<now, sched, upgraded, ledger, admin, crashes, toggles, hist>>

\* correctPlanAfterClaim: a plan changed by anyone else ends the run.
CorrectPlan(m) ==
    /\ work[m].pc = "correct"
    /\ IF Unchanged(work[m].exp)
       THEN /\ sched' = [sched EXCEPT !.plan = work[m].plan]
            /\ Begin(m, work[m])
       ELSE /\ Set(m, [Idle EXCEPT !.pc = "record", !.at = work[m].at, !.out = "conflict"])
            /\ UNCHANGED <<sched, starts>>
    /\ UNCHANGED <<now, upgraded, ledger, admin, crashes, toggles, charged, used, cooling>>

\* The creator charges the ledger with its own reading of the clock ...
ChargeAttempt(m) ==
    /\ work[m].pc = "create" /\ WaitUntil(now) <= now
    /\ ledger' = Charge(now)
    /\ charged' = charged \cup {now}
    /\ Set(m, [work[m] EXCEPT !.pc = "remote"])
    /\ UNCHANGED <<now, sched, upgraded, admin, crashes, toggles, starts, used, cooling>>

\* ... and does not ask Apple when the ledger refuses.
RefuseAttempt(m) ==
    /\ work[m].pc = "create" /\ WaitUntil(now) > now
    /\ Set(m, [work[m] EXCEPT !.pc = "record", !.out = "wait",
                              !.delay = Later(Gap, WaitUntil(now) - now)])
    /\ UNCHANGED <<now, sched, upgraded, ledger, admin, crashes, toggles, hist>>

\* An address still unconfirmed is looked up instead, at no charge.
ConfirmInstead(m) ==
    /\ work[m].pc = "create"
    /\ Set(m, [work[m] EXCEPT !.pc = "confirm"])
    /\ UNCHANGED <<now, sched, upgraded, ledger, admin, crashes, toggles, hist>>

\* What the creator reports: an address; a failure to retry at the next deadline;
\* a throttle of the account, with Apple's Retry-After when longer than Cooldown;
\* a failure, or an address that could not be saved, that ends the opt-in.  Only a
\* charged attempt pauses the ledger as well.
Answer(m) ==
    /\ work[m].pc \in {"remote", "confirm"}
    /\ \/ \E out \in {"ok", "error", "off"} :
            Set(m, [work[m] EXCEPT !.pc = "record", !.out = out])
       \/ \E out \in {"limited", "limitedOff"}, delay \in {Cooldown, Cooldown + 1} :
            Set(m, [work[m] EXCEPT !.pc = IF work[m].pc = "remote" THEN "pause" ELSE "record",
                                      !.out = out, !.delay = delay])
    /\ UNCHANGED <<now, sched, upgraded, ledger, admin, crashes, toggles, hist>>

PauseLedger(m) ==
    /\ work[m].pc = "pause"
    /\ ledger' = Pause(now + work[m].delay)
    /\ Set(m, [work[m] EXCEPT !.pc = "record"])
    /\ UNCHANGED <<now, sched, upgraded, admin, crashes, toggles, hist>>

RecordResult(m) ==
    /\ work[m].pc = "record"
    /\ sched' = Recorded(work[m].at,
                         CASE work[m].out = "ok"   -> "none"
                           [] work[m].out = "wait" -> "wait"
                           [] OTHER                -> "error")
    /\ CASE work[m].out \in {"wait", "limited", "limitedOff"} -> Set(m, [work[m] EXCEPT !.pc = "cool"])
         [] work[m].out = "off" -> Set(m, [Idle EXCEPT !.pc = "switch"])
         [] OTHER -> Set(m, Idle)
    /\ UNCHANGED <<now, upgraded, ledger, admin, crashes, toggles, hist>>

\* The cooldown counts from the failure, and only if the plan is still the run's.
CoolDown(m) ==
    /\ work[m].pc = "cool"
    /\ IF Unchanged(Min(work[m].plan))
       THEN \E P \in NewPlansStartingAt(now + work[m].delay) :
              /\ sched' = [sched EXCEPT !.plan = P]
              /\ used' = {} /\ cooling' = now + work[m].delay
       ELSE UNCHANGED <<sched, used, cooling>>
    /\ Set(m, IF work[m].out = "limitedOff" THEN [Idle EXCEPT !.pc = "switch"] ELSE Idle)
    /\ UNCHANGED <<now, upgraded, ledger, admin, crashes, toggles, starts, charged>>

SwitchOff(m) ==
    /\ work[m].pc = "switch"
    /\ sched' = Disabled(sched)
    /\ Set(m, Idle)
    /\ UNCHANGED <<now, upgraded, ledger, admin, crashes, toggles, hist>>

-----------------------------------------------------------------------------
(* The operator, and the process. *)

\* SetEnabled reads the row, and the clock when there is something to change.
RequestSwitch ==
    /\ admin.pc = "idle" /\ toggles < MaxToggles
    /\ admin' = [pc |-> "write", on |-> ~sched.enabled, at |-> now]
    /\ toggles' = toggles + 1
    /\ UNCHANGED <<now, sched, upgraded, ledger, work, crashes, hist>>

\* EnableAliasCreation replaces the cycle and keeps the time of the last attempt.
Enable ==
    /\ admin.pc = "write" /\ admin.on
    /\ \E P \in NewPlans(admin.at) :
         sched' = [sched EXCEPT !.enabled = TRUE, !.plan = P, !.err = "none"]
    /\ used' = {} /\ cooling' = 0
    /\ admin' = NoRequest
    /\ UNCHANGED <<now, upgraded, ledger, work, crashes, toggles, starts, charged>>

Disable ==
    /\ admin.pc = "write" /\ ~admin.on
    /\ sched' = Disabled(sched)
    /\ admin' = NoRequest
    /\ UNCHANGED <<now, upgraded, ledger, work, crashes, toggles, hist>>

\* The process stops wherever it is; what it held in memory is lost.
Crash(m) ==
    /\ work[m].pc # "down" /\ crashes < MaxCrashes
    /\ Set(m, Down)
    /\ crashes' = crashes + 1
    /\ UNCHANGED <<now, sched, upgraded, ledger, admin, toggles, hist>>

\* A version with another cadence is installed while nothing runs.
Install ==
    /\ upgraded /\ \A m \in Manager : work[m].pc = "down"
    /\ upgraded' = FALSE
    /\ UNCHANGED <<now, sched, ledger, work, admin, crashes, toggles, hist>>

\* Mutant: the cadence forgets the deadline of a failure.
AnchorAfterAttempt == Later(now, sched.last)

\* UpgradeAliasCreationCadence: not before the last attempt, nor before a
\* deadline that a failure at Apple left behind.
UpgradeAnchor ==
    LET anchor == Later(now, sched.last)
    IN  IF sched.err = "error" THEN Later(anchor, Min(sched.plan)) ELSE anchor

Boot(m) ==
    /\ work[m].pc = "down"
    /\ Set(m, Idle)
    /\ upgraded' = TRUE
    /\ IF ~upgraded /\ sched.enabled
       THEN /\ \E P \in NewPlans(UpgradeAnchor) : sched' = [sched EXCEPT !.plan = P]
            /\ used' = {}
            /\ cooling' = IF sched.err = "error" THEN cooling ELSE 0
       ELSE UNCHANGED <<sched, used, cooling>>
    /\ UNCHANGED <<now, ledger, admin, crashes, toggles, starts, charged>>

Tick ==
    /\ now < MaxTime
    /\ admin.pc = "write" => now + 1 - admin.at <= MaxLag
    /\ now' = now + 1
    /\ UNCHANGED <<sched, upgraded, ledger, work, admin, crashes, toggles, hist>>

RunNext(m) ==
    \/ ListDue(m) \/ RescheduleOverdue(m) \/ RescheduleTooSoon(m) \/ PrepareClaim(m)
    \/ Reschedule(m) \/ Claim(m) \/ PoolFull(m) \/ StartRun(m)
    \/ PrepareCorrection(m) \/ CorrectPlan(m) \/ ChargeAttempt(m) \/ RefuseAttempt(m) \/ ConfirmInstead(m)
    \/ Answer(m) \/ PauseLedger(m) \/ RecordResult(m) \/ CoolDown(m) \/ SwitchOff(m)

Next ==
    \/ \E m \in Manager : RunNext(m) \/ Crash(m) \/ Boot(m)
    \/ RequestSwitch \/ Enable \/ Disable \/ Install \/ Tick

Spec == Init /\ [][Next]_vars

-----------------------------------------------------------------------------
\* Two runs never call the creator within the minimum interval, whoever runs them,
\* however late they read the clock after the claim, and across restarts.
StartsSpaced ==
    \A s, t \in starts : s # t => s.at - t.at >= Gap \/ t.at - s.at >= Gap

\* The same, for as long as the operator has not switched creation off and on again.
SpacedBeforeReoptin == toggles <= 1 => StartsSpaced

\* Between two fresh plans every slot is claimed or skipped once at most, so that
\* the web channel gets no more than its share of slots, whatever was restarted.
\* With two loops only until the operator switches creation on again: a run claimed
\* before may then correct the new plan to its own, when both have the same deadline.
SlotOnce ==
    [][\A m \in Manager :
         work[m].pc \in {"claim", "skip"} /\ Unchanged(work[m].exp) /\ work'[m].pc \in {"claimed", "idle"}
           /\ sched' # sched
         => work[m].slot \notin used]_vars

\* Once a throttled run has put its cooldown in the plan no run calls the creator
\* before its end, unless the operator switches creation off and on again: with two
\* loops a run claimed before that knows nothing of a later cooldown.
CooldownHonoured ==
    [][\A s \in starts' \ starts : s.at >= cooling]_vars

\* What is charged to the account keeps the ceiling in every rolling window and the
\* minimum interval, although the plan is made anew by restarts, cooldowns and
\* the operator, and although old rows are deleted from the ledger.
RollingCeiling ==
    /\ \A t \in charged : Cardinality({ u \in charged : t - Cycle < u /\ u <= t }) <= Limit
    /\ Spaced(charged)
=============================================================================
