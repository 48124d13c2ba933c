-------------------------- MODULE AutoCreateProofs ---------------------------
(***************************************************************************)
(* Of the background scheduler (AutoCreate), for any managers, plans and    *)
(* delays: the ceilings of what is charged to an account hold always, and   *)
(* until the operator switches creation on a second time runs keep their    *)
(* distance from each other.                                               *)
(***************************************************************************)
EXTENDS AutoCreate, FiniteSetTheorems, WellFoundedInduction, TLAPS

-----------------------------------------------------------------------------
(* Sets of times. *)

LEMMA LeastExists ==
    ASSUME NEW S \in SUBSET Nat, S # {}
    PROVE  \E x \in S : \A y \in S : x <= y
<1> DEFINE R == OpToRel(<, Nat)
<1>1. IsWellFoundedOn(R, Nat)
  BY NatLessThanWellFounded, Zenon
<1>2. \A x, y \in Nat : y < x => <<y, x>> \in R
  BY DEF OpToRel
<1> HIDE DEF R
<1>3. \E x \in S : \A y \in S : ~ (<<y, x>> \in R)
  BY <1>1, WFMin, Zenon
<1>4. \E x \in S : \A y \in S : ~ (y < x)
  BY <1>2, <1>3, Zenon
<1>5. \A x, y \in Nat : ~ (y < x) => x <= y
  OBVIOUS
<1> HIDE <1>2, <1>3
<1> QED
  BY <1>4, <1>5

LEMMA MinIs ==
    ASSUME NEW S \in SUBSET Nat, S # {}
    PROVE  Min(S) \in S /\ \A y \in S : Min(S) <= y
BY LeastExists DEF Min

LEMMA MinMeans ==
    ASSUME NEW S \in SUBSET Nat, NEW x \in S, \A y \in S : x <= y
    PROVE  Min(S) = x
<1>1. Min(S) \in S /\ Min(S) <= x
  BY MinIs
<1>2. x <= Min(S) /\ Min(S) \in Nat /\ x \in Nat
  BY <1>1
<1> QED
  BY <1>1, <1>2

LEMMA MaxIs ==
    ASSUME NEW n \in Nat, NEW S \in SUBSET (0 .. n), S # {}
    PROVE  Max(S) \in S /\ \A y \in S : y <= Max(S)
<1> DEFINE T == {z \in 0 .. n : n - z \in S}
<1>1. T \in SUBSET Nat
  OBVIOUS
<1>2. T # {}
  <2>1. PICK x \in S : TRUE
    OBVIOUS
  <2>2. n - x \in 0 .. n /\ n - (n - x) = x
    BY <2>1
  <2>3. n - x \in T
    BY <2>1, <2>2
  <2> QED
    BY <2>3
<1>3. PICK z \in T : \A y \in T : z <= y
  BY <1>1, <1>2, LeastExists
<1>4. ASSUME NEW y \in S PROVE y <= n - z
  <2>1. n - y \in 0 .. n /\ n - (n - y) = y
    OBVIOUS
  <2>2. n - y \in T
    BY <2>1
  <2>3. z <= n - y /\ z \in 0 .. n
    BY <1>3, <2>2
  <2> QED
    BY <2>3
<1> QED
  BY <1>3, <1>4 DEF Max

-----------------------------------------------------------------------------
(* Plans. *)

Plans == {P \in SUBSET Nat : IsFiniteSet(P)}

LEMMA NewPlanIs ==
    ASSUME NEW anchor \in Int, 0 <= anchor + Gap, NEW P \in NewPlans(anchor)
    PROVE  P \in Plans /\ P # {} /\ Cardinality(P) = Slots /\ Spaced(P) /\ \A t \in P : anchor + Gap <= t
<1>1. Gap \in Nat \ {0} /\ Cycle \in Nat /\ Slots \in Nat \ {0}
  BY AutoCreateAssumption
<1>2. P \subseteq (anchor + Gap) .. (anchor + Cycle) /\ Cardinality(P) = Slots /\ Spaced(P)
  BY DEF NewPlans, kSubset
<1>3. IsFiniteSet(P)
  <2>1. anchor + Gap \in Int /\ anchor + Cycle \in Int
    BY <1>1
  <2>2. IsFiniteSet((anchor + Gap) .. (anchor + Cycle))
    BY <2>1, FS_Interval
  <2> QED
    BY <1>2, <2>2, FS_Subset
<1>4. P # {}
  BY <1>1, <1>2, FS_EmptySet
<1>5. P \subseteq Nat /\ \A t \in P : anchor + Gap <= t
  BY <1>1, <1>2
<1> QED
  BY <1>2, <1>3, <1>4, <1>5 DEF Plans

LEMMA CooledPlanIs ==
    ASSUME NEW first \in Nat, NEW P \in NewPlansStartingAt(first)
    PROVE  P \in Plans /\ P # {} /\ Min(P) = first /\ Cardinality(P) = Slots /\ Spaced(P)
<1>1. PICK Q \in NewPlans(first) : P = {first} \cup (Q \ {Min(Q)})
  BY DEF NewPlansStartingAt
<1>2. Gap \in Nat \ {0} /\ Slots \in Nat \ {0}
  BY AutoCreateAssumption
<1>3. Q \in Plans /\ Q # {} /\ Cardinality(Q) = Slots /\ Spaced(Q) /\ \A t \in Q : first + Gap <= t
  BY <1>1, <1>2, NewPlanIs
<1>4. Min(Q) \in Q /\ IsFiniteSet(Q) /\ Q \in SUBSET Nat
  BY <1>3, MinIs DEF Plans
<1>5. IsFiniteSet(P) /\ Cardinality(P) = Slots
  <2>1. IsFiniteSet(Q \ {Min(Q)}) /\ Cardinality(Q \ {Min(Q)}) = Slots - 1
    BY <1>3, <1>4, FS_RemoveElement
  <2>2. first \notin Q \ {Min(Q)}
    BY <1>2, <1>3, <1>4
  <2>3. P = (Q \ {Min(Q)}) \cup {first}
    BY <1>1
  <2> QED
    BY <1>2, <2>1, <2>2, <2>3, FS_AddElement
<1>6. P \in SUBSET Nat /\ first \in P /\ \A t \in P : first <= t
  <2>1. P \subseteq {first} \cup Q /\ first \in P
    BY <1>1
  <2>2. P \in SUBSET Nat
    BY <1>4, <2>1
  <2>3. ASSUME NEW t \in P PROVE first <= t
    <3>1. CASE t = first
      BY <3>1
    <3>2. CASE t \in Q
      BY <1>2, <1>3, <1>4, <3>2
    <3> QED
      BY <2>1, <3>1, <3>2
  <2> QED
    BY <2>1, <2>2, <2>3
<1>7. Spaced(P)
  <2>1. SUFFICES ASSUME NEW s \in P, NEW t \in P, s < t PROVE t - s >= Gap
    BY DEF Spaced
  <2>2. t \in Q
    BY <1>1, <1>6, <2>1
  <2>3. CASE s = first
    BY <1>2, <1>3, <1>4, <2>2, <2>3
  <2>4. CASE s \in Q
    BY <1>3, <2>1, <2>2, <2>4 DEF Spaced
  <2> QED
    BY <1>1, <2>3, <2>4
<1> QED
  BY <1>1, <1>5, <1>6, <1>7, MinMeans DEF Plans

LEMMA MovedPlanIs ==
    ASSUME NEW P \in Plans, P # {}, NEW d \in Nat
    PROVE  LET T == {t + d : t \in P}
           IN  T \in Plans /\ T # {} /\ Min(T) = Min(P) + d /\ Cardinality(T) = Cardinality(P) /\ (Spaced(P) => Spaced(T))
<1> DEFINE T == {t + d : t \in P}
           f == [t \in P |-> t + d]
<1>1. P \in SUBSET Nat /\ IsFiniteSet(P) /\ Min(P) \in P /\ \A t \in P : Min(P) <= t
  BY MinIs DEF Plans
<1>2. f \in Bijection(P, T)
  <2>1. f \in [P -> T]
    OBVIOUS
  <2>2. \A a, b \in P : f[a] = f[b] => a = b
    BY <1>1
  <2>3. \A t \in T : \E s \in P : f[s] = t
    OBVIOUS
  <2> QED
    BY <2>1, <2>2, <2>3 DEF Bijection, Injection, Surjection, IsInjective
<1>3. IsFiniteSet(T) /\ Cardinality(T) = Cardinality(P)
  BY <1>1, <1>2, FS_Bijection DEF ExistsBijection
<1>4. T \in SUBSET Nat /\ Min(P) + d \in T /\ \A t \in T : Min(P) + d <= t
  <2>1. T \in SUBSET Nat
    BY <1>1
  <2>2. Min(P) + d \in T
    BY <1>1
  <2>3. ASSUME NEW s \in P PROVE Min(P) + d <= s + d
    <3>1. Min(P) \in Nat /\ s \in Nat /\ Min(P) <= s
      BY <1>1
    <3> HIDE DEF T, f
    <3> QED
      BY <3>1
  <2> QED
    BY <2>1, <2>2, <2>3
<1>5. Spaced(P) => Spaced(T)
  <2> SUFFICES ASSUME Spaced(P), NEW s \in P, NEW t \in P, s + d < t + d PROVE (t + d) - (s + d) >= Gap
    BY DEF Spaced
  <2>1. s \in Nat /\ t \in Nat /\ Gap \in Nat
    BY <1>1, AutoCreateAssumption
  <2>2. t - s >= Gap
    BY <2>1 DEF Spaced
  <2> QED
    BY <2>1, <2>2
<1> HIDE DEF T
<1>6. Min(T) = Min(P) + d
  BY <1>4, MinMeans
<1> QED
  BY <1>3, <1>4, <1>5, <1>6 DEF Plans, T

LEMMA ShiftIs ==
    ASSUME NEW P \in Plans, P # {}, NEW earliest \in Int
    PROVE  /\ Shift(P, earliest) \in Plans /\ Shift(P, earliest) # {}
           /\ Min(Shift(P, earliest)) = Later(Min(P), earliest)
           /\ Cardinality(Shift(P, earliest)) = Cardinality(P) /\ (Spaced(P) => Spaced(Shift(P, earliest)))
<1>1. Min(P) \in Nat
  BY MinIs DEF Plans
<1>2. CASE Min(P) < earliest
  <2>1. earliest - Min(P) \in Nat
    BY <1>1, <1>2
  <2> DEFINE T == {t + (earliest - Min(P)) : t \in P}
  <2>2. T \in Plans /\ T # {} /\ Min(T) = Min(P) + (earliest - Min(P)) /\ Cardinality(T) = Cardinality(P) /\ (Spaced(P) => Spaced(T))
    BY <2>1, MovedPlanIs
  <2>3. Shift(P, earliest) = T /\ Later(Min(P), earliest) = earliest
    BY <1>1, <1>2 DEF Shift, Later
  <2>4. Min(P) + (earliest - Min(P)) = earliest
    BY <1>1
  <2> HIDE DEF T
  <2> QED
    BY <2>2, <2>3, <2>4
<1>3. CASE ~(Min(P) < earliest)
  BY <1>1, <1>3 DEF Shift, Later
<1> QED
  BY <1>2, <1>3

(* Filtering a plan keeps it a plan. *)
LEMMA PartIs ==
    ASSUME NEW P \in Plans, NEW Q \in SUBSET P
    PROVE  /\ Q \in Plans /\ Cardinality(Q) <= Cardinality(P) /\ Cardinality(Q) \in Nat
           /\ Spaced(P) => Spaced(Q)
<1>1. IsFiniteSet(P) /\ P \in SUBSET Nat
  BY DEF Plans
<1>2. IsFiniteSet(Q) /\ Cardinality(Q) <= Cardinality(P)
  BY <1>1, FS_Subset
<1>3. Cardinality(Q) \in Nat
  BY <1>2, FS_CardinalityType
<1> QED
  BY <1>1, <1>2, <1>3 DEF Plans, Spaced

(* Past the first deadline of a plan are the others, and from it on is all of it. *)
LEMMA FutureOfFirst ==
    ASSUME NEW P \in Plans, P # {}
    PROVE  /\ FuturePlan(P, Min(P)) = P \ {Min(P)}
           /\ Cardinality(FuturePlan(P, Min(P))) = Cardinality(P) - 1
           /\ FuturePlanIncludingCurrent(P, Min(P)) = P
<1> DEFINE a == Min(P)
<1>1. a \in Nat /\ a \in P /\ P \in SUBSET Nat /\ IsFiniteSet(P) /\ \A t \in P : a <= t
  BY MinIs DEF Plans
<1> HIDE DEF a
<1>2. \A t \in P : t >= a /\ (t > a <=> t # a)
  <2> TAKE t \in P
  <2>1. t \in Nat /\ a <= t
    BY <1>1
  <2> QED
    BY <1>1, <2>1
<1>3. FuturePlan(P, a) = P \ {a}
  BY <1>2 DEF FuturePlan
<1>4. FuturePlanIncludingCurrent(P, a) = P
  BY <1>2 DEF FuturePlanIncludingCurrent
<1>5. Cardinality(P \ {a}) = Cardinality(P) - 1
  BY <1>1, FS_RemoveElement
<1> QED
  BY <1>3, <1>4, <1>5 DEF a

LEMMA PlansAfterClaimAre ==
    ASSUME NEW P \in Plans, NEW exp \in P, NEW at \in Nat, exp <= at, NEW Q \in PlansAfterClaim(P, exp, at)
    PROVE  /\ Q \in Plans /\ Q # {} /\ Cardinality(Q) <= Slots /\ Spaced(Q)
           /\ at + Gap <= Min(Q) /\ exp < Min(Q)
           /\ exp = Min(P) /\ Spaced(P) /\ Cardinality(P) <= Slots /\ FuturePlan(P, exp) # {} =>
                Cardinality(Q) = Cardinality(P) - 1
<1> DEFINE rest == FuturePlan(P, exp)
<1>1. Gap \in Nat \ {0} /\ Slots \in Nat \ {0} /\ exp \in Nat /\ P \in SUBSET Nat /\ IsFiniteSet(P)
  BY AutoCreateAssumption DEF Plans
<1>2. rest \in SUBSET P
  BY DEF FuturePlan
<1>3. rest \in Plans /\ Cardinality(rest) \in Nat /\ (Spaced(P) => Spaced(rest))
  BY <1>2, PartIs
<1>4. exp = Min(P) => Cardinality(rest) = Cardinality(P) - 1
  BY FutureOfFirst
<1>5. CASE rest = {} \/ Cardinality(rest) > Slots - 1 \/ ~Spaced(rest)
  <2>1. Q \in NewPlans(at)
    BY <1>1, <1>5 DEF PlansAfterClaim, Later
  <2>2. Q \in Plans /\ Q # {} /\ Cardinality(Q) = Slots /\ Spaced(Q) /\ \A t \in Q : at + Gap <= t
    BY <1>1, <2>1, NewPlanIs
  <2>3. Min(Q) \in Q /\ Min(Q) \in Nat
    BY <2>2, MinIs DEF Plans
  <2>4. at + Gap <= Min(Q) /\ exp < Min(Q)
    BY <1>1, <2>2, <2>3
  <2>5. ~ (exp = Min(P) /\ Spaced(P) /\ Cardinality(P) <= Slots /\ FuturePlan(P, exp) # {})
    <3>1. Cardinality(P) \in Nat
      BY <1>1, FS_CardinalityType
    <3> QED
      BY <1>1, <1>3, <1>4, <1>5, <3>1
  <2> QED
    BY <1>1, <2>2, <2>4, <2>5
<1>6. CASE ~ (rest = {} \/ Cardinality(rest) > Slots - 1 \/ ~Spaced(rest))
  <2>1. Q = Shift(rest, at + Gap)
    BY <1>6 DEF PlansAfterClaim
  <2>2. at + Gap \in Int
    BY <1>1
  <2> HIDE DEF rest
  <2>3. Q \in Plans /\ Q # {} /\ Min(Q) = Later(Min(rest), at + Gap) /\ Cardinality(Q) = Cardinality(rest) /\ Spaced(Q)
    BY <1>3, <1>6, <2>1, <2>2, ShiftIs
  <2>4. Min(rest) \in Nat
    BY <1>3, <1>6, MinIs DEF Plans
  <2>5. at + Gap <= Min(Q) /\ exp < Min(Q)
    BY <1>1, <2>3, <2>4 DEF Later
  <2>6. Cardinality(Q) <= Slots
    BY <1>1, <1>3, <1>6, <2>3
  <2> QED
    BY <1>4, <2>3, <2>5, <2>6
<1> QED
  BY <1>5, <1>6

LEMMA ShiftedPlansAre ==
    ASSUME NEW P \in Plans, NEW exp \in P, NEW earliest \in Nat, exp < earliest,
           NEW Q \in ShiftedPlans(P, exp, earliest)
    PROVE  /\ Q \in Plans /\ Q # {} /\ Cardinality(Q) <= Slots /\ Spaced(Q) /\ exp < Min(Q)
           /\ exp = Min(P) /\ Spaced(P) /\ Cardinality(P) <= Slots => Cardinality(Q) = Cardinality(P)
<1> DEFINE rest == FuturePlanIncludingCurrent(P, exp)
<1>1. Gap \in Nat \ {0} /\ Slots \in Nat \ {0} /\ exp \in Nat /\ P \in SUBSET Nat /\ IsFiniteSet(P)
  BY AutoCreateAssumption DEF Plans
<1>2. rest \in SUBSET P /\ exp \in rest
  BY <1>1 DEF FuturePlanIncludingCurrent
<1>3. rest \in Plans /\ Cardinality(rest) \in Nat /\ (Spaced(P) => Spaced(rest))
  BY <1>2, PartIs
<1>4. exp = Min(P) => rest = P
  BY FutureOfFirst
<1>5. CASE Cardinality(rest) > Slots \/ ~Spaced(rest)
  <2>1. Q \in NewPlans(earliest - Gap)
    BY <1>5 DEF ShiftedPlans
  <2>2. earliest - Gap \in Int /\ (earliest - Gap) + Gap = earliest
    BY <1>1
  <2>3. Q \in Plans /\ Q # {} /\ Cardinality(Q) = Slots /\ Spaced(Q) /\ \A t \in Q : earliest <= t
    BY <2>1, <2>2, NewPlanIs
  <2>4. Min(Q) \in Q /\ Min(Q) \in Nat
    BY <2>3, MinIs DEF Plans
  <2>5. exp < Min(Q)
    BY <1>1, <2>3, <2>4
  <2>6. ~ (exp = Min(P) /\ Spaced(P) /\ Cardinality(P) <= Slots)
    BY <1>1, <1>3, <1>4, <1>5
  <2> QED
    BY <1>1, <2>3, <2>5, <2>6
<1>6. CASE ~ (Cardinality(rest) > Slots \/ ~Spaced(rest))
  <2>1. Q = Shift(rest, earliest)
    BY <1>2, <1>6 DEF ShiftedPlans
  <2> HIDE DEF rest
  <2>2. Q \in Plans /\ Q # {} /\ Min(Q) = Later(Min(rest), earliest) /\ Cardinality(Q) = Cardinality(rest) /\ Spaced(Q)
    BY <1>2, <1>3, <1>6, <2>1, ShiftIs
  <2>3. Min(rest) \in Nat
    BY <1>2, <1>3, MinIs DEF Plans
  <2>4. exp < Min(Q)
    BY <1>1, <2>2, <2>3 DEF Later
  <2>5. Cardinality(Q) <= Slots
    BY <1>1, <1>3, <1>6, <2>2
  <2> QED
    BY <1>4, <2>2, <2>4, <2>5
<1> QED
  BY <1>5, <1>6

(* The position of a deadline that is the first of its plan. *)
LEMMA SlotIs ==
    ASSUME NEW P \in Plans, NEW exp \in P
    PROVE  SlotOf(P, exp) \in Int /\ (exp = Min(P) => SlotOf(P, exp) = Slots - Cardinality(P))
<1>1. P \in SUBSET Nat /\ Slots \in Nat
  BY AutoCreateAssumption DEF Plans
<1>2. FuturePlanIncludingCurrent(P, exp) \in SUBSET P
  BY DEF FuturePlanIncludingCurrent
<1>3. Cardinality(FuturePlanIncludingCurrent(P, exp)) \in Nat
  BY <1>2, PartIs
<1>4. exp = Min(P) => FuturePlanIncludingCurrent(P, exp) = P
  BY FutureOfFirst
<1> QED
  BY <1>1, <1>3, <1>4 DEF SlotOf

-----------------------------------------------------------------------------
(* Types. *)

Phases == {"idle", "down", "listed", "reschedule", "skip", "claim", "claimed", "correct",
           "create", "remote", "confirm", "pause", "record", "cool", "switch"}
Outcomes == {"none", "ok", "error", "off", "wait", "limited", "limitedOff", "conflict"}

Runs == [pc : Phases, exp : Nat, plan : Plans, last : Int, at : Nat, slot : Int,
         out : Outcomes, delay : Nat, fresh : BOOLEAN]

(* The phases in which a run holds a plan of its own. *)
Holding == {"listed", "reschedule", "skip", "claim", "claimed", "correct", "create",
            "remote", "confirm", "pause", "cool"}

WorkOK(w) ==
    /\ w \in Runs
    /\ w.pc \in Holding => w.plan # {}
    /\ w.pc = "record" /\ w.out # "conflict" => w.plan # {}
    /\ w.pc = "listed" => w.exp \in w.plan /\ w.exp <= now

SchedOK(s) ==
    /\ s \in [enabled : BOOLEAN, plan : Plans, last : Int, err : {"none", "wait", "error"}]
    /\ s.enabled => s.plan # {}

LedgerOK(l) == l \in [attempts : SUBSET Nat, until : Nat] /\ l.attempts \subseteq 0 .. now

Types ==
    /\ now \in Nat /\ toggles \in Nat /\ cooling \in Nat /\ upgraded \in BOOLEAN
    /\ SchedOK(sched) /\ LedgerOK(ledger)
    /\ work \in [Manager -> Runs] /\ \A m \in Manager : WorkOK(work[m])
    /\ admin \in [pc : {"idle", "write"}, on : BOOLEAN, at : Nat]
    /\ admin.pc = "write" => toggles # 0
    /\ starts \subseteq [by : Manager, at : Nat]

-----------------------------------------------------------------------------
(* When the ledger accepts an attempt. *)

LEMMA CycleCoversGap == Gap \in Nat \ {0} /\ Cycle \in Nat /\ Gap <= Cycle /\ Limit \in Nat \ {0}
<1>1. \A s \in Nat \ {0}, g \in Nat : g <= s * g
  <2> TAKE s \in Nat \ {0}, g \in Nat
  <2>1. s - 1 \in Nat /\ s * g = (s - 1) * g + g
    OBVIOUS
  <2>2. (s - 1) * g \in Nat
    BY <2>1
  <2> QED
    BY <2>1, <2>2
<1>2. Slots \in Nat \ {0} /\ Gap \in Nat \ {0} /\ Cycle \in Nat /\ Slots * Gap <= Cycle /\ Slots * Gap \in Nat
  BY AutoCreateAssumption
<1>3. Gap <= Slots * Gap
  BY <1>1, <1>2
<1> QED
  BY <1>2, <1>3, AutoCreateAssumption

LEMMA WindowIs ==
    ASSUME now \in Nat, LedgerOK(ledger)
    PROVE  Window(now) \in SUBSET (0 .. now) /\ IsFiniteSet(Window(now)) /\ Cardinality(Window(now)) \in Nat
<1>1. Window(now) \in SUBSET (0 .. now)
  BY DEF LedgerOK, Window
<1>2. IsFiniteSet(Window(now))
  <2>1. IsFiniteSet(0 .. now)
    BY FS_Interval
  <2> QED
    BY <1>1, <2>1, FS_Subset
<1> QED
  BY <1>1, <1>2, FS_CardinalityType

(* The ledger refuses while the window is full, and for Gap after an attempt.  *)
LEMMA WaitIs ==
    ASSUME now \in Nat, LedgerOK(ledger)
    PROVE  /\ WaitUntil(now) \in Nat
           /\ WaitUntil(now) <= now =>
                Cardinality(Window(now)) < Limit /\ \A t \in Window(now) : t + Gap <= now
<1> DEFINE recent == Window(now)
           newest == {t \in recent : Cardinality({u \in recent : u >= t}) <= Limit}
           full   == Cardinality(recent) >= Limit
           S      == {ledger.until} \cup (IF full THEN {Min(newest) + Cycle} ELSE {})
                                    \cup (IF recent # {} THEN {Max(recent) + Gap} ELSE {})
           top    == ledger.until + now + Cycle + Gap
<1>1. Gap \in Nat \ {0} /\ Cycle \in Nat /\ Limit \in Nat \ {0} /\ ledger.until \in Nat
  BY CycleCoversGap DEF LedgerOK
<1>2. recent \in SUBSET (0 .. now) /\ Cardinality(recent) \in Nat
  BY WindowIs
<1>3. \A t \in recent : now < t + Cycle
  BY <1>1, <1>2 DEF Window
<1>4. WaitUntil(now) = Max(S)
  BY DEF WaitUntil
<1> HIDE DEF recent
<1>5. recent # {} => Max(recent) \in recent /\ \A t \in recent : t <= Max(recent)
  BY <1>2, MaxIs
<1>6. recent # {} => newest \in SUBSET Nat /\ newest # {}
  <2> SUFFICES ASSUME recent # {} PROVE newest \in SUBSET Nat /\ newest # {}
    OBVIOUS
  <2> DEFINE a == Max(recent)
  <2>1. a \in recent /\ \A t \in recent : t <= a /\ t \in Nat
    BY <1>2, <1>5
  <2> HIDE DEF a
  <2>2. \A u \in recent : u >= a => u = a
    BY <2>1
  <2>3. {u \in recent : u >= a} = {a}
    BY <2>1, <2>2
  <2>4. Cardinality({a}) = 1
    BY FS_Singleton
  <2>5. a \in newest
    BY <1>1, <2>1, <2>3, <2>4
  <2>6. newest \in SUBSET recent
    OBVIOUS
  <2> HIDE DEF newest
  <2>7. newest \in SUBSET Nat
    BY <1>2, <2>6
  <2> QED
    BY <2>5, <2>7
<1>7. full => recent # {}
  BY <1>1, <1>2, FS_EmptySet
<1>8. full => Min(newest) \in recent
  <2> SUFFICES ASSUME full PROVE Min(newest) \in recent
    OBVIOUS
  <2>1. Min(newest) \in newest
    BY <1>6, <1>7, MinIs
  <2> QED
    BY <2>1
<1> HIDE DEF newest, full
<1>9. S \in SUBSET (0 .. top) /\ top \in Nat
  <2>1. ledger.until \in 0 .. top /\ top \in Nat
    BY <1>1
  <2>2. ASSUME NEW t \in recent PROVE t + Cycle \in 0 .. top /\ t + Gap \in 0 .. top
    <3>1. t \in 0 .. now
      BY <1>2
    <3> QED
      BY <1>1, <3>1
  <2>3. full => Min(newest) + Cycle \in 0 .. top
    BY <1>8, <2>2
  <2>4. recent # {} => Max(recent) + Gap \in 0 .. top
    BY <1>5, <2>2
  <2> HIDE DEF top
  <2> QED
    BY <2>1, <2>3, <2>4
<1>10. ledger.until \in S
  OBVIOUS
<1>11. full => Min(newest) + Cycle \in S
  OBVIOUS
<1>12. recent # {} => Max(recent) + Gap \in S
  OBVIOUS
<1> HIDE DEF S, top
<1>13. Max(S) \in S /\ \A y \in S : y <= Max(S)
  BY <1>9, <1>10, MaxIs
<1>14. Max(S) \in Nat
  <2>1. Max(S) \in 0 .. top
    BY <1>9, <1>13
  <2> QED
    BY <1>9, <2>1
<1>15. ASSUME Max(S) <= now PROVE ~full /\ \A t \in recent : t + Gap <= now
  <2>1. ~full
    <3> SUFFICES ASSUME full PROVE FALSE
      OBVIOUS
    <3>1. Min(newest) + Cycle <= Max(S)
      BY <1>11, <1>13
    <3>2. now < Min(newest) + Cycle
      BY <1>3, <1>8
    <3>3. Min(newest) \in 0 .. now
      BY <1>2, <1>8
    <3> QED
      BY <1>1, <1>14, <1>15, <3>1, <3>2, <3>3
  <2>2. ASSUME NEW t \in recent PROVE t + Gap <= now
    <3>1. Max(recent) + Gap <= Max(S)
      BY <1>12, <1>13
    <3>2. Max(recent) \in recent /\ t <= Max(recent)
      BY <1>5
    <3>3. Max(recent) \in 0 .. now /\ t \in 0 .. now
      BY <1>2, <3>2
    <3> QED
      BY <1>1, <1>14, <1>15, <3>1, <3>2, <3>3
  <2> QED
    BY <2>1, <2>2
<1> QED
  BY <1>1, <1>2, <1>4, <1>14, <1>15 DEF full, recent

-----------------------------------------------------------------------------
(* The ledger of attempts. *)

(* The ledger has every attempt of the window, and none that was not made.    *)
LedgerInv ==
    /\ charged \subseteq 0 .. now /\ ledger.attempts \subseteq charged
    /\ \A t \in charged : t > now - Cycle => t \in ledger.attempts
    /\ RollingCeiling

-----------------------------------------------------------------------------
(* Runs, until the operator switches creation on again. *)

(* Before the switch is thrown nothing is opted in. *)
Untouched ==
    toggles = 0 \/ admin.pc = "write" =>
        /\ ~sched.enabled /\ starts = {}
        /\ \A m \in Manager : work[m].pc \in {"idle", "down"}

(* A run that has claimed its deadline and has not ended. *)
Extended(m) ==
    \/ work[m].pc \in {"claimed", "correct", "create", "remote", "confirm", "pause"}
    \/ work[m].pc \in {"record", "cool"} /\ work[m].plan # {}

(* The first deadline of the plan that such a run last wrote to the row. *)
First(m) == IF work[m].pc = "correct" THEN work[m].exp ELSE Min(work[m].plan)

(* The row. *)
RowInv ==
    sched.enabled =>
        /\ Spaced(sched.plan) /\ Cardinality(sched.plan) <= Slots
        /\ \A u \in used : u \in Int /\ u < Slots - Cardinality(sched.plan)
        /\ \A s \in starts : s.at + Gap <= Min(sched.plan)
        /\ cooling <= Min(sched.plan)

(* What a run means to write over the deadline that it read. *)
DraftOK(w) ==
    /\ w.pc \in {"reschedule", "skip", "claim", "correct"} =>
         /\ Spaced(w.plan) /\ Cardinality(w.plan) <= Slots /\ w.exp < Min(w.plan)
    /\ w.pc = "listed" => w.exp = Min(w.plan)
    /\ w.pc \in {"skip", "claim"} => w.exp <= w.at
    /\ w.pc = "claim" => w.at + Gap <= Min(w.plan)
    /\ w.pc \in {"reschedule", "skip", "claim"} => w.at <= now /\ w.exp <= now
    /\ w.out \in {"wait", "limited", "limitedOff"} => w.delay >= Gap
    /\ w.pc \in {"cool", "pause"} => w.out \in {"wait", "limited", "limitedOff"}

(* The deadline that a run read is not of another plan. *)
SnapshotOK(w) ==
    w.pc \in {"listed", "reschedule", "skip", "claim"} /\ sched.enabled =>
        /\ w.exp <= Min(sched.plan)
        /\ w.exp = Min(sched.plan) =>
             /\ w.pc = "listed" => w.plan = sched.plan
             /\ w.pc \in {"skip", "claim"} => w.slot = Slots - Cardinality(sched.plan)
             /\ w.pc \in {"reschedule", "skip", "claim"} /\ ~w.fresh =>
                  Cardinality(w.plan) = Cardinality(sched.plan) - (IF w.pc = "reschedule" THEN 0 ELSE 1)

ExtendedOK(m) ==
    Extended(m) =>
        /\ work[m].at <= now /\ work[m].at + Gap <= Min(work[m].plan)
        /\ sched.enabled => First(m) <= Min(sched.plan)
        /\ work[m].pc \in {"claimed", "correct"} =>
             /\ sched.enabled /\ First(m) = Min(sched.plan) => Cardinality(sched.plan) = Cardinality(work[m].plan)
             /\ Spaced(work[m].plan) /\ Cardinality(work[m].plan) <= Slots
             /\ \A s \in starts : s.at + Gap <= work[m].at \/ First(m) <= s.at
             /\ cooling <= work[m].at \/ (First(m) < cooling /\ First(m) <= now)

(* Of two such runs one had the row when the other's deadline was over. *)
Behind(m, n) == First(m) <= work[n].at /\ First(m) < First(n)

QuietInv ==
    /\ Untouched /\ RowInv
    /\ ~upgraded => \A m \in Manager : work[m].pc = "down"
    /\ \A s \in starts : s.at <= now
    /\ \A m \in Manager : DraftOK(work[m]) /\ SnapshotOK(work[m]) /\ ExtendedOK(m)
    /\ \A m, n \in Manager : m # n /\ Extended(m) /\ Extended(n) => Behind(m, n) \/ Behind(n, m)
    /\ StartsSpaced

-----------------------------------------------------------------------------
(* What each step of a run does, and that types are kept. *)

Others(m) == \A n \in Manager \ {m} : work'[n] = work[n]

LEMMA IdleIs == WorkOK(Idle) /\ Idle \in Runs
<1>1. {} \in Plans /\ Never \in Int
  BY FS_EmptySet, AutoCreateAssumption DEF Plans, Never
<1> QED
  BY <1>1 DEF WorkOK, Runs, Phases, Outcomes, Holding, Idle

LEMMA PlainRuns ==
    /\ WorkOK(Down) /\ Down.pc = "down" /\ Idle.pc = "idle"
    /\ WorkOK([Idle EXCEPT !.pc = "switch"]) /\ [Idle EXCEPT !.pc = "switch"].pc = "switch"
    /\ Idle.out = "none" /\ Down.out = "none" /\ [Idle EXCEPT !.pc = "switch"].out = "none"
BY IdleIs DEF WorkOK, Runs, Phases, Outcomes, Holding, Idle, Down

LEMMA SetIs ==
    ASSUME work \in [Manager -> Runs], NEW m \in Manager, NEW w \in Runs, Set(m, w)
    PROVE  work' \in [Manager -> Runs] /\ work'[m] = w /\ Others(m)
BY DEF Set, Others

LEMMA StepTypes ==
    ASSUME Types, NEW m \in Manager, NEW w, WorkOK(w), Set(m, w),
           now' = now, toggles' = toggles, admin' = admin, cooling' \in Nat, upgraded' \in BOOLEAN,
           SchedOK(sched'), LedgerOK(ledger)', starts' \subseteq [by : Manager, at : Nat]
    PROVE  Types' /\ work'[m] = w /\ Others(m)
<1>1. w \in Runs
  BY DEF WorkOK
<1>2. work' \in [Manager -> Runs] /\ work'[m] = w /\ \A n \in Manager \ {m} : work'[n] = work[n]
  BY <1>1, SetIs DEF Types, Others
<1>3. \A n \in Manager : WorkOK(work[n])'
  BY <1>2 DEF Types, WorkOK
<1> QED
  BY <1>2, <1>3 DEF Types, Others

(* A step that changes nothing else than what one manager holds. *)
LEMMA PrivateTypes ==
    ASSUME Types, NEW m \in Manager, NEW w, WorkOK(w), Set(m, w),
           UNCHANGED <<now, sched, upgraded, ledger, admin, toggles, hist>>
    PROVE  Types' /\ work'[m] = w /\ Others(m)
<1>1. SchedOK(sched') /\ LedgerOK(ledger)'
  BY DEF Types, LedgerOK
<1> QED
  BY <1>1, StepTypes DEF Types, hist

(* A step that replaces the plan of the row. *)
LEMMA PlanTypes ==
    ASSUME SchedOK(sched), NEW P \in Plans, P # {}, NEW a \in Int, sched' = [sched EXCEPT !.plan = P]
                                                               \/ sched' = [sched EXCEPT !.plan = P, !.last = a]
    PROVE  SchedOK(sched') /\ sched'.plan = P /\ sched'.enabled = sched.enabled
BY DEF SchedOK

LEMMA ListDueIs ==
    ASSUME Types, NEW m \in Manager, ListDue(m)
    PROVE  /\ Types' /\ Others(m)
           /\ work'[m].pc = "listed" /\ work'[m].exp = Min(sched.plan) /\ work'[m].plan = sched.plan
           /\ work'[m].out = "none"
<1> DEFINE w == [Idle EXCEPT !.pc = "listed", !.exp = Min(sched.plan), !.plan = sched.plan, !.last = sched.last]
<1>1. sched \in [enabled : BOOLEAN, plan : Plans, last : Int, err : {"none", "wait", "error"}] /\ sched.plan # {}
  BY DEF Types, SchedOK, ListDue
<1>2. Min(sched.plan) \in sched.plan /\ Min(sched.plan) \in Nat /\ Min(sched.plan) <= now
  BY <1>1, MinIs DEF Plans, ListDue
<1>3. w \in Runs /\ w.pc = "listed" /\ w.exp = Min(sched.plan) /\ w.plan = sched.plan /\ w.out = "none"
  BY <1>1, <1>2, IdleIs DEF Runs, Phases, Idle
<1>4. WorkOK(w)
  BY <1>1, <1>2, <1>3 DEF WorkOK
<1>5. Set(m, w) /\ UNCHANGED <<now, sched, upgraded, ledger, admin, toggles, hist>>
  BY DEF ListDue
<1> HIDE DEF w
<1> QED
  BY <1>3, <1>4, <1>5, PrivateTypes

LEMMA RescheduleOverdueIs ==
    ASSUME Types, NEW m \in Manager, RescheduleOverdue(m)
    PROVE  /\ Types' /\ Others(m)
           /\ work'[m].pc = "reschedule" /\ work'[m].fresh /\ work'[m].at = now
           /\ work'[m].exp = work[m].exp /\ work'[m].out = work[m].out /\ work'[m].delay = work[m].delay
           /\ Spaced(work'[m].plan) /\ Cardinality(work'[m].plan) <= Slots /\ now + Gap <= Min(work'[m].plan)
<1>1. PICK P \in NewPlans(now) :
         Set(m, [work[m] EXCEPT !.pc = "reschedule", !.plan = P, !.at = now, !.fresh = TRUE])
  BY DEF RescheduleOverdue
<1> DEFINE w == [work[m] EXCEPT !.pc = "reschedule", !.plan = P, !.at = now, !.fresh = TRUE]
<1>2. now \in Nat /\ now \in Int /\ 0 <= now + Gap /\ work[m] \in Runs /\ WorkOK(work[m])
  BY CycleCoversGap DEF Types
<1>3. P \in Plans /\ P # {} /\ Cardinality(P) = Slots /\ Spaced(P) /\ \A t \in P : now + Gap <= t
  BY <1>1, <1>2, NewPlanIs
<1>4. now + Gap <= Min(P) /\ Cardinality(P) <= Slots
  <2>1. Min(P) \in P
    BY <1>3, MinIs DEF Plans
  <2>2. now + Gap <= Min(P)
    BY <1>3, <2>1
  <2>3. Slots \in Nat
    BY AutoCreateAssumption
  <2> QED
    BY <1>3, <2>2, <2>3
<1>5. /\ w \in Runs /\ w.pc = "reschedule" /\ w.fresh = TRUE /\ w.at = now /\ w.plan = P
      /\ w.exp = work[m].exp /\ w.out = work[m].out /\ w.delay = work[m].delay
  BY <1>2, <1>3 DEF Runs, Phases
<1>6. WorkOK(w)
  BY <1>3, <1>5 DEF WorkOK
<1>7. Set(m, w) /\ UNCHANGED <<now, sched, upgraded, ledger, admin, toggles, hist>>
  BY <1>1 DEF RescheduleOverdue
<1> HIDE DEF w
<1> QED
  BY <1>3, <1>4, <1>5, <1>6, <1>7, PrivateTypes

LEMMA RescheduleTooSoonIs ==
    ASSUME Types, NEW m \in Manager, RescheduleTooSoon(m)
    PROVE  /\ Types' /\ Others(m)
           /\ work'[m].pc = "reschedule" /\ work'[m].at = now
           /\ work'[m].exp = work[m].exp /\ work'[m].out = work[m].out /\ work'[m].delay = work[m].delay
           /\ Spaced(work'[m].plan) /\ Cardinality(work'[m].plan) <= Slots /\ work[m].exp < Min(work'[m].plan)
           /\ work[m].exp = Min(work[m].plan) /\ Spaced(work[m].plan) /\ Cardinality(work[m].plan) <= Slots =>
                Cardinality(work'[m].plan) = Cardinality(work[m].plan)
<1> DEFINE earliest == work[m].last + Gap
<1>1. PICK P \in ShiftedPlans(work[m].plan, work[m].exp, earliest) :
         Set(m, [work[m] EXCEPT !.pc = "reschedule", !.plan = P, !.at = now])
  BY DEF RescheduleTooSoon
<1> DEFINE w == [work[m] EXCEPT !.pc = "reschedule", !.plan = P, !.at = now]
<1>2. now \in Nat /\ work[m] \in Runs /\ WorkOK(work[m]) /\ work[m].pc = "listed" /\ now < earliest
  BY DEF Types, RescheduleTooSoon
<1>3. work[m].plan \in Plans /\ work[m].exp \in work[m].plan /\ work[m].exp \in Nat /\ work[m].exp <= now /\ work[m].last \in Int
  BY <1>2 DEF WorkOK, Runs
<1>4. earliest \in Nat /\ work[m].exp < earliest
  BY <1>2, <1>3, CycleCoversGap
<1>5. /\ P \in Plans /\ P # {} /\ Cardinality(P) <= Slots /\ Spaced(P) /\ work[m].exp < Min(P)
      /\ work[m].exp = Min(work[m].plan) /\ Spaced(work[m].plan) /\ Cardinality(work[m].plan) <= Slots =>
           Cardinality(P) = Cardinality(work[m].plan)
  BY <1>1, <1>3, <1>4, ShiftedPlansAre
<1>6. /\ w \in Runs /\ w.pc = "reschedule" /\ w.at = now /\ w.plan = P
      /\ w.exp = work[m].exp /\ w.out = work[m].out /\ w.delay = work[m].delay
  BY <1>2, <1>5 DEF Runs, Phases
<1>7. WorkOK(w)
  BY <1>5, <1>6 DEF WorkOK
<1>8. Set(m, w) /\ UNCHANGED <<now, sched, upgraded, ledger, admin, toggles, hist>>
  BY <1>1 DEF RescheduleTooSoon
<1> HIDE DEF w
<1> QED
  BY <1>5, <1>6, <1>7, <1>8, PrivateTypes

LEMMA PrepareClaimIs ==
    ASSUME Types, NEW m \in Manager, PrepareClaim(m)
    PROVE  /\ Types' /\ Others(m)
           /\ work'[m].pc \in {"skip", "claim"} /\ work'[m].at = now /\ work'[m].slot = SlotOf(work[m].plan, work[m].exp)
           /\ work'[m].exp = work[m].exp /\ work'[m].out = work[m].out /\ work'[m].delay = work[m].delay
           /\ Spaced(work'[m].plan) /\ Cardinality(work'[m].plan) <= Slots
           /\ work[m].exp < Min(work'[m].plan) /\ now + Gap <= Min(work'[m].plan)
           /\ work[m].exp = Min(work[m].plan) /\ Spaced(work[m].plan) /\ Cardinality(work[m].plan) <= Slots
                /\ ~work'[m].fresh => Cardinality(work'[m].plan) = Cardinality(work[m].plan) - 1
<1>1. PICK channels \in {"both", "web", "none"} : \E P \in PlansAfterClaim(work[m].plan, work[m].exp, now) :
         LET slot == SlotOf(work[m].plan, work[m].exp)
             skip == channels = "none" \/ (channels = "web" /\ slot \notin WebSlots)
         IN  Set(m, [work[m] EXCEPT
                 !.pc = IF skip THEN "skip" ELSE "claim", !.plan = P, !.at = now,
                 !.slot = slot, !.fresh = FuturePlan(work[m].plan, work[m].exp) = {}])
  BY DEF PrepareClaim
<1> DEFINE slot == SlotOf(work[m].plan, work[m].exp)
           skip == channels = "none" \/ (channels = "web" /\ slot \notin WebSlots)
           empty == FuturePlan(work[m].plan, work[m].exp) = {}
           next == IF skip THEN "skip" ELSE "claim"
<1>2. PICK P \in PlansAfterClaim(work[m].plan, work[m].exp, now) :
         Set(m, [work[m] EXCEPT !.pc = next, !.plan = P, !.at = now, !.slot = slot, !.fresh = empty])
  BY <1>1
<1> DEFINE w == [work[m] EXCEPT !.pc = next, !.plan = P, !.at = now, !.slot = slot, !.fresh = empty]
<1>3. now \in Nat /\ work[m] \in Runs /\ WorkOK(work[m]) /\ work[m].pc = "listed"
  BY DEF Types, PrepareClaim
<1>4. work[m].plan \in Plans /\ work[m].exp \in work[m].plan /\ work[m].exp \in Nat /\ work[m].exp <= now
  BY <1>3 DEF WorkOK, Runs
<1>5. /\ P \in Plans /\ P # {} /\ Cardinality(P) <= Slots /\ Spaced(P) /\ work[m].exp < Min(P) /\ now + Gap <= Min(P)
      /\ work[m].exp = Min(work[m].plan) /\ Spaced(work[m].plan) /\ Cardinality(work[m].plan) <= Slots /\ ~empty =>
           Cardinality(P) = Cardinality(work[m].plan) - 1
  BY <1>2, <1>3, <1>4, PlansAfterClaimAre
<1>6. slot \in Int /\ next \in {"skip", "claim"} /\ empty \in BOOLEAN
  BY <1>4, SlotIs
<1>7. Set(m, w) /\ UNCHANGED <<now, sched, upgraded, ledger, admin, toggles, hist>>
  BY <1>2 DEF PrepareClaim
<1> HIDE DEF slot, next, empty
<1>8. /\ w \in Runs /\ w.pc = next /\ w.at = now /\ w.plan = P /\ w.slot = slot /\ w.fresh = empty
      /\ w.exp = work[m].exp /\ w.out = work[m].out /\ w.delay = work[m].delay
  BY <1>3, <1>5, <1>6 DEF Runs, Phases
<1>9. WorkOK(w)
  BY <1>5, <1>6, <1>8 DEF WorkOK
<1> HIDE DEF w
<1> QED
  BY <1>5, <1>6, <1>7, <1>8, <1>9, PrivateTypes DEF slot

LEMMA RescheduleIs ==
    ASSUME Types, NEW m \in Manager, Reschedule(m)
    PROVE  /\ Types' /\ Others(m) /\ work'[m] = Idle
           /\ Unchanged(work[m].exp) => sched'.enabled /\ sched'.plan = work[m].plan
           /\ ~Unchanged(work[m].exp) => sched' = sched /\ used' = used
<1>1. work[m] \in Runs /\ work[m].plan \in Plans /\ work[m].plan # {} /\ SchedOK(sched) /\ work[m].exp \in Int
  BY DEF Types, WorkOK, Holding, Reschedule, Runs
<1>2. ASSUME Unchanged(work[m].exp)
      PROVE  SchedOK(sched') /\ sched'.enabled /\ sched'.plan = work[m].plan
  <2>1. sched' = [sched EXCEPT !.plan = work[m].plan] /\ sched.enabled
    BY <1>2 DEF Reschedule, Unchanged
  <2> QED
    BY <1>1, <2>1, PlanTypes
<1>3. ASSUME ~Unchanged(work[m].exp) PROVE SchedOK(sched') /\ sched' = sched /\ used' = used
  BY <1>1, <1>3 DEF Reschedule
<1>4. SchedOK(sched') /\ LedgerOK(ledger)'
  BY <1>2, <1>3 DEF Reschedule, Types, LedgerOK
<1>5. Set(m, Idle)
  BY DEF Reschedule
<1>6. Types' /\ work'[m] = Idle /\ Others(m)
  BY <1>4, <1>5, IdleIs, StepTypes DEF Reschedule, Types
<1> QED
  BY <1>2, <1>3, <1>6

LEMMA ClaimIs ==
    ASSUME Types, NEW m \in Manager, Claim(m)
    PROVE  /\ Types' /\ Others(m)
           /\ Unchanged(work[m].exp) =>
                /\ sched'.enabled /\ sched'.plan = work[m].plan
                /\ work'[m].pc = "claimed" /\ work'[m].plan = work[m].plan /\ work'[m].at = work[m].at
                /\ work'[m].out = work[m].out /\ work'[m].delay = work[m].delay
           /\ ~Unchanged(work[m].exp) => sched' = sched /\ used' = used /\ work'[m] = Idle
<1>1. /\ work[m] \in Runs /\ work[m].plan \in Plans /\ work[m].plan # {} /\ SchedOK(sched) /\ WorkOK(work[m])
      /\ work[m].at \in Int
  BY DEF Types, WorkOK, Holding, Claim, Runs
<1>2. LedgerOK(ledger)' /\ now' = now /\ toggles' = toggles /\ admin' = admin /\ cooling' \in Nat
        /\ upgraded' \in BOOLEAN /\ starts' \subseteq [by : Manager, at : Nat]
  BY DEF Claim, Types, LedgerOK
<1>3. CASE Unchanged(work[m].exp)
  <2> DEFINE w == [work[m] EXCEPT !.pc = "claimed"]
  <2>1. sched' = [sched EXCEPT !.plan = work[m].plan, !.last = work[m].at] /\ sched.enabled /\ Set(m, w)
    BY <1>3 DEF Claim, Unchanged
  <2>2. SchedOK(sched') /\ sched'.plan = work[m].plan /\ sched'.enabled = sched.enabled
    BY <1>1, <2>1, PlanTypes
  <2>3. w \in Runs /\ w.pc = "claimed" /\ w.plan = work[m].plan /\ w.at = work[m].at /\ w.out = work[m].out /\ w.delay = work[m].delay
    BY <1>1 DEF Runs, Phases
  <2>4. WorkOK(w)
    BY <1>1, <2>3 DEF WorkOK
  <2> HIDE DEF w
  <2>5. Types' /\ work'[m] = w /\ Others(m)
    BY <1>2, <2>1, <2>2, <2>4, StepTypes
  <2> QED
    BY <1>3, <2>1, <2>2, <2>3, <2>5
<1>4. CASE ~Unchanged(work[m].exp)
  <2>1. sched' = sched /\ used' = used /\ Set(m, Idle)
    BY <1>4 DEF Claim
  <2>2. Types' /\ work'[m] = Idle /\ Others(m)
    BY <1>1, <1>2, <2>1, IdleIs, StepTypes
  <2> QED
    BY <1>4, <2>1, <2>2
<1> QED
  BY <1>3, <1>4

LEMMA PoolFullIs ==
    ASSUME Types, NEW m \in Manager, PoolFull(m)
    PROVE  Types' /\ Others(m) /\ work'[m] = Idle
BY IdleIs, PrivateTypes DEF PoolFull

LEMMA BegunIs ==
    ASSUME NEW v \in Runs
    PROVE  LET w == [v EXCEPT !.pc = "create", !.exp = 0, !.last = Never, !.slot = 0, !.fresh = FALSE]
           IN  /\ w \in Runs /\ w.pc = "create" /\ w.plan = v.plan /\ w.at = v.at
               /\ w.out = v.out /\ w.delay = v.delay
<1> DEFINE w == [v EXCEPT !.pc = "create", !.exp = 0, !.last = Never, !.slot = 0, !.fresh = FALSE]
<1>1. "create" \in Phases /\ FALSE \in BOOLEAN
  BY Zenon DEF Phases
<1>2. Never \in Int
  BY AutoCreateAssumption DEF Never
<1>3. w.pc = "create" /\ w.plan = v.plan /\ w.at = v.at /\ w.out = v.out /\ w.delay = v.delay
  BY DEF Runs
<1> DEFINE w1 == [v EXCEPT !.pc = "create", !.exp = 0, !.last = Never]
<1>4. w1 \in Runs
  BY <1>1, <1>2 DEF Runs
<1>5. w = [w1 EXCEPT !.slot = 0, !.fresh = FALSE]
  OBVIOUS
<1> HIDE DEF w1
<1>6. [w1 EXCEPT !.slot = 0, !.fresh = FALSE] \in Runs
  <2>1. [w1 EXCEPT !.slot = 0] \in Runs
    BY <1>4 DEF Runs
  <2>2. ASSUME NEW u \in Runs PROVE [u EXCEPT !.fresh = FALSE] \in Runs
    BY DEF Runs
  <2> QED
    BY <2>1, <2>2
<1> HIDE DEF w
<1>7. w \in Runs
  BY <1>5, <1>6
<1> QED
  BY <1>3, <1>7 DEF w

LEMMA StartRunIs ==
    ASSUME Types, NEW m \in Manager, StartRun(m)
    PROVE  /\ Types' /\ Others(m)
           /\ work'[m].pc = "create" /\ work'[m].plan = work[m].plan /\ work'[m].at = now
           /\ work'[m].out = work[m].out /\ work'[m].delay = work[m].delay
           /\ starts' = starts \cup {[by |-> m, at |-> now]}
<1> DEFINE v == [work[m] EXCEPT !.at = now]
           w == [v EXCEPT !.pc = "create", !.exp = 0, !.last = Never, !.slot = 0, !.fresh = FALSE]
<1>1. Set(m, w) /\ starts' = starts \cup {[by |-> m, at |-> v.at]}
  BY DEF StartRun, Begin
<1>2. work[m] \in Runs /\ work[m].plan # {} /\ now \in Nat /\ Never \in Int /\ SchedOK(sched)
  BY AutoCreateAssumption DEF Types, WorkOK, StartRun, Holding, Never
<1>3. /\ w \in Runs /\ w.pc = "create" /\ w.plan = work[m].plan /\ w.at = now /\ w.out = work[m].out
      /\ w.delay = work[m].delay /\ v.at = now
  <2>1. /\ v \in Runs /\ v.at = now /\ v.plan = work[m].plan /\ v.out = work[m].out
        /\ v.delay = work[m].delay
    BY <1>2 DEF Runs
  <2> HIDE DEF v
  <2> QED
    BY <2>1, BegunIs
<1>4. WorkOK(w)
  BY <1>2, <1>3 DEF WorkOK
<1> HIDE DEF v, w
<1>5. starts' = starts \cup {[by |-> m, at |-> now]}
  BY <1>1, <1>3
<1>6. starts' \subseteq [by : Manager, at : Nat]
  BY <1>2, <1>5 DEF Types
<1>7. LedgerOK(ledger)' /\ SchedOK(sched') /\ now' = now /\ toggles' = toggles /\ admin' = admin /\ cooling' \in Nat
        /\ upgraded' \in BOOLEAN
  BY DEF StartRun, Types, LedgerOK
<1>8. Types' /\ work'[m] = w /\ Others(m)
  BY <1>1, <1>4, <1>6, <1>7, StepTypes
<1> QED
  BY <1>3, <1>5, <1>8

LEMMA PrepareCorrectionIs ==
    ASSUME Types, NEW m \in Manager, PrepareCorrection(m)
    PROVE  /\ Types' /\ Others(m)
           /\ work'[m].pc = "correct" /\ work'[m].at = now /\ work'[m].exp = Min(work[m].plan)
           /\ now + Gap <= Min(work'[m].plan) /\ Min(work[m].plan) < Min(work'[m].plan)
           /\ Cardinality(work'[m].plan) = Cardinality(work[m].plan) /\ (Spaced(work[m].plan) => Spaced(work'[m].plan))
           /\ work'[m].out = work[m].out /\ work'[m].delay = work[m].delay
<1> DEFINE P == Shift(work[m].plan, now + Gap)
           w == [work[m] EXCEPT !.pc = "correct", !.at = now, !.exp = Min(work[m].plan), !.plan = P]
<1>1. Set(m, w) /\ UNCHANGED <<now, sched, upgraded, ledger, admin, toggles, hist>> /\ Min(work[m].plan) < now + Gap
  BY DEF PrepareCorrection, NeedsCorrection
<1>2. work[m] \in Runs /\ work[m].plan # {} /\ work[m].plan \in Plans /\ now \in Nat
  BY DEF Types, WorkOK, PrepareCorrection, Holding, Runs
<1>3. now + Gap \in Int /\ Min(work[m].plan) \in Nat
  BY <1>2, CycleCoversGap, MinIs DEF Plans
<1>4. /\ P \in Plans /\ P # {} /\ Min(P) = Later(Min(work[m].plan), now + Gap)
      /\ Cardinality(P) = Cardinality(work[m].plan) /\ (Spaced(work[m].plan) => Spaced(P))
  BY <1>2, <1>3, ShiftIs
<1>5. now + Gap <= Min(P) /\ Min(work[m].plan) < Min(P)
  BY <1>1, <1>3, <1>4 DEF Later
<1> HIDE DEF P
<1>6. /\ w \in Runs /\ w.pc = "correct" /\ w.plan = P /\ w.at = now /\ w.exp = Min(work[m].plan)
      /\ w.out = work[m].out /\ w.delay = work[m].delay
  BY <1>2, <1>3, <1>4 DEF Runs, Phases
<1>7. WorkOK(w)
  BY <1>4, <1>6 DEF WorkOK
<1> HIDE DEF w
<1> QED
  BY <1>1, <1>4, <1>5, <1>6, <1>7, PrivateTypes

LEMMA CorrectPlanIs ==
    ASSUME Types, NEW m \in Manager, CorrectPlan(m)
    PROVE  /\ Types' /\ Others(m)
           /\ Unchanged(work[m].exp) =>
                /\ sched'.enabled /\ sched'.plan = work[m].plan
                /\ work'[m].pc = "create" /\ work'[m].plan = work[m].plan /\ work'[m].at = work[m].at
                /\ work'[m].out = work[m].out /\ work'[m].delay = work[m].delay
                /\ starts' = starts \cup {[by |-> m, at |-> work[m].at]}
           /\ ~Unchanged(work[m].exp) =>
                /\ sched' = sched /\ starts' = starts
                /\ work'[m].pc = "record" /\ work'[m].plan = {} /\ work'[m].out = "conflict"
<1>1. /\ work[m] \in Runs /\ work[m].plan \in Plans /\ work[m].plan # {} /\ SchedOK(sched) /\ work[m].at \in Nat
      /\ work[m].exp \in Int
  BY DEF Types, WorkOK, Holding, CorrectPlan, Runs
<1>2. LedgerOK(ledger)' /\ now' = now /\ toggles' = toggles /\ admin' = admin /\ cooling' \in Nat
        /\ upgraded' \in BOOLEAN
  BY DEF CorrectPlan, Types, LedgerOK
<1>3. CASE Unchanged(work[m].exp)
  <2> DEFINE w == [work[m] EXCEPT !.pc = "create", !.exp = 0, !.last = Never, !.slot = 0, !.fresh = FALSE]
  <2>1. /\ sched' = [sched EXCEPT !.plan = work[m].plan] /\ sched.enabled /\ Set(m, w)
        /\ starts' = starts \cup {[by |-> m, at |-> work[m].at]}
    BY <1>3 DEF CorrectPlan, Unchanged, Begin
  <2>2. SchedOK(sched') /\ sched'.plan = work[m].plan /\ sched'.enabled = sched.enabled
    BY <1>1, <2>1, PlanTypes
  <2>3. w \in Runs /\ w.pc = "create" /\ w.plan = work[m].plan /\ w.at = work[m].at /\ w.out = work[m].out /\ w.delay = work[m].delay
    BY <1>1, BegunIs
  <2>4. WorkOK(w)
    BY <1>1, <2>3 DEF WorkOK
  <2>5. starts' \subseteq [by : Manager, at : Nat]
    BY <1>1, <2>1 DEF Types
  <2> HIDE DEF w
  <2>6. Types' /\ work'[m] = w /\ Others(m)
    BY <1>2, <2>1, <2>2, <2>4, <2>5, StepTypes
  <2> QED
    BY <1>3, <2>1, <2>2, <2>3, <2>6
<1>4. CASE ~Unchanged(work[m].exp)
  <2> DEFINE w == [Idle EXCEPT !.pc = "record", !.at = work[m].at, !.out = "conflict"]
  <2>1. sched' = sched /\ starts' = starts /\ Set(m, w)
    BY <1>4 DEF CorrectPlan
  <2>2. w \in Runs /\ w.pc = "record" /\ w.plan = {} /\ w.out = "conflict"
    BY <1>1, IdleIs DEF Runs, Phases, Outcomes, Idle
  <2>3. WorkOK(w)
    BY <2>2 DEF WorkOK, Holding
  <2>4. starts' \subseteq [by : Manager, at : Nat]
    BY <2>1 DEF Types
  <2> HIDE DEF w
  <2>5. Types' /\ work'[m] = w /\ Others(m)
    BY <1>1, <1>2, <2>1, <2>3, <2>4, StepTypes
  <2> QED
    BY <1>4, <2>1, <2>2, <2>5
<1> QED
  BY <1>3, <1>4

LEMMA ChargeAttemptIs ==
    ASSUME Types, NEW m \in Manager, ChargeAttempt(m)
    PROVE  /\ Types' /\ Others(m)
           /\ work'[m].pc = "remote" /\ work'[m].plan = work[m].plan /\ work'[m].at = work[m].at
           /\ work'[m].out = work[m].out /\ work'[m].delay = work[m].delay
           /\ ledger'.attempts = Window(now) \cup {now}
<1> DEFINE w == [work[m] EXCEPT !.pc = "remote"]
<1>1. Set(m, w) /\ ledger' = Charge(now)
  BY DEF ChargeAttempt
<1>2. work[m] \in Runs /\ work[m].plan # {} /\ now \in Nat /\ SchedOK(sched) /\ LedgerOK(ledger)
  BY DEF Types, WorkOK, ChargeAttempt, Holding
<1>3. /\ w \in Runs /\ w.pc = "remote" /\ w.plan = work[m].plan /\ w.at = work[m].at /\ w.out = work[m].out
      /\ w.delay = work[m].delay
  BY <1>2 DEF Runs, Phases
<1>4. WorkOK(w)
  BY <1>2, <1>3 DEF WorkOK
<1>5. Window(now) \cup {now} \in SUBSET Nat /\ Window(now) \cup {now} \subseteq 0 .. now
  BY <1>2, WindowIs
<1>6. /\ ledger' \in [attempts : SUBSET Nat, until : Nat]
      /\ ledger'.attempts = Window(now) \cup {now} /\ now' = now
  BY <1>1, <1>2, <1>5 DEF Charge, LedgerOK, ChargeAttempt
<1>7. LedgerOK(ledger)'
  BY <1>5, <1>6 DEF LedgerOK
<1>8. SchedOK(sched') /\ now' = now /\ toggles' = toggles /\ admin' = admin /\ cooling' \in Nat
        /\ upgraded' \in BOOLEAN /\ starts' \subseteq [by : Manager, at : Nat]
  BY DEF ChargeAttempt, Types
<1> HIDE DEF w
<1>9. Types' /\ work'[m] = w /\ Others(m)
  BY <1>1, <1>4, <1>7, <1>8, StepTypes
<1> QED
  BY <1>3, <1>6, <1>9

LEMMA RefuseAttemptIs ==
    ASSUME Types, NEW m \in Manager, RefuseAttempt(m)
    PROVE  /\ Types' /\ Others(m)
           /\ work'[m].pc = "record" /\ work'[m].plan = work[m].plan /\ work'[m].at = work[m].at
           /\ work'[m].out = "wait" /\ work'[m].delay >= Gap
<1> DEFINE d == Later(Gap, WaitUntil(now) - now)
           w == [work[m] EXCEPT !.pc = "record", !.out = "wait", !.delay = d]
<1>1. Set(m, w) /\ UNCHANGED <<now, sched, upgraded, ledger, admin, toggles, hist>>
  BY DEF RefuseAttempt
<1>2. work[m] \in Runs /\ work[m].plan # {} /\ now \in Nat /\ LedgerOK(ledger)
  BY DEF Types, WorkOK, RefuseAttempt, Holding
<1>3. d \in Nat /\ d >= Gap
  BY <1>2, WaitIs, CycleCoversGap DEF Later
<1> HIDE DEF d
<1>4. /\ w \in Runs /\ w.pc = "record" /\ w.plan = work[m].plan /\ w.at = work[m].at /\ w.out = "wait"
      /\ w.delay = d
  BY <1>2, <1>3 DEF Runs, Phases, Outcomes
<1>5. WorkOK(w)
  BY <1>2, <1>4 DEF WorkOK
<1> HIDE DEF w
<1> QED
  BY <1>1, <1>3, <1>4, <1>5, PrivateTypes

LEMMA ConfirmInsteadIs ==
    ASSUME Types, NEW m \in Manager, ConfirmInstead(m)
    PROVE  /\ Types' /\ Others(m)
           /\ work'[m].pc = "confirm" /\ work'[m].plan = work[m].plan /\ work'[m].at = work[m].at
           /\ work'[m].out = work[m].out /\ work'[m].delay = work[m].delay
<1> DEFINE w == [work[m] EXCEPT !.pc = "confirm"]
<1>1. Set(m, w) /\ UNCHANGED <<now, sched, upgraded, ledger, admin, toggles, hist>>
  BY DEF ConfirmInstead
<1>2. work[m] \in Runs /\ work[m].plan # {}
  BY DEF Types, WorkOK, ConfirmInstead, Holding
<1>3. /\ w \in Runs /\ w.pc = "confirm" /\ w.plan = work[m].plan /\ w.at = work[m].at /\ w.out = work[m].out
      /\ w.delay = work[m].delay
  BY <1>2 DEF Runs, Phases
<1>4. WorkOK(w)
  BY <1>2, <1>3 DEF WorkOK
<1> HIDE DEF w
<1> QED
  BY <1>1, <1>3, <1>4, PrivateTypes

LEMMA AnswerIs ==
    ASSUME Types, NEW m \in Manager, Answer(m)
    PROVE  /\ Types' /\ Others(m)
           /\ work'[m].plan = work[m].plan /\ work'[m].at = work[m].at
           /\ \/ work'[m].pc = "record" /\ work'[m].out \in {"ok", "error", "off"}
              \/ /\ work'[m].pc \in {"record", "pause"}
                 /\ work'[m].out \in {"limited", "limitedOff"} /\ work'[m].delay >= Gap
<1>1. work[m] \in Runs /\ work[m].plan # {}
  BY DEF Types, WorkOK, Answer, Holding
<1>2. UNCHANGED <<now, sched, upgraded, ledger, admin, toggles, hist>>
  BY DEF Answer
<1>3. CASE \E out \in {"ok", "error", "off"} : Set(m, [work[m] EXCEPT !.pc = "record", !.out = out])
  <2>1. PICK out \in {"ok", "error", "off"} : Set(m, [work[m] EXCEPT !.pc = "record", !.out = out])
    BY <1>3
  <2> DEFINE w == [work[m] EXCEPT !.pc = "record", !.out = out]
  <2>2. w \in Runs /\ w.pc = "record" /\ w.plan = work[m].plan /\ w.at = work[m].at /\ w.out = out
    BY <1>1 DEF Runs, Phases, Outcomes
  <2>3. WorkOK(w)
    BY <1>1, <2>2 DEF WorkOK
  <2> HIDE DEF w
  <2> QED
    BY <1>2, <2>1, <2>2, <2>3, PrivateTypes DEF w
<1>4. CASE \E out \in {"limited", "limitedOff"}, delay \in {Cooldown, Cooldown + 1} :
             Set(m, [work[m] EXCEPT !.pc = IF work[m].pc = "remote" THEN "pause" ELSE "record",
                                    !.out = out, !.delay = delay])
  <2>1. PICK out \in {"limited", "limitedOff"}, delay \in {Cooldown, Cooldown + 1} :
          Set(m, [work[m] EXCEPT !.pc = IF work[m].pc = "remote" THEN "pause" ELSE "record",
                                 !.out = out, !.delay = delay])
    BY <1>4
  <2> DEFINE next == IF work[m].pc = "remote" THEN "pause" ELSE "record"
             w == [work[m] EXCEPT !.pc = next, !.out = out, !.delay = delay]
  <2>2. delay \in Nat /\ delay >= Gap /\ next \in {"pause", "record"}
    BY AutoCreateAssumption
  <2>3. Set(m, w)
    BY <2>1
  <2> HIDE DEF next
  <2>4. w \in Runs /\ w.pc = next /\ w.plan = work[m].plan /\ w.at = work[m].at /\ w.out = out /\ w.delay = delay
    BY <1>1, <2>2 DEF Runs, Phases, Outcomes
  <2>5. WorkOK(w)
    BY <1>1, <2>2, <2>4 DEF WorkOK
  <2> HIDE DEF w
  <2> QED
    BY <1>2, <2>2, <2>3, <2>4, <2>5, PrivateTypes
<1> QED
  BY <1>3, <1>4 DEF Answer

LEMMA PauseLedgerIs ==
    ASSUME Types, NEW m \in Manager, PauseLedger(m)
    PROVE  /\ Types' /\ Others(m)
           /\ work'[m].pc = "record" /\ work'[m].plan = work[m].plan /\ work'[m].at = work[m].at
           /\ work'[m].out = work[m].out /\ work'[m].delay = work[m].delay
           /\ ledger'.attempts = ledger.attempts
<1> DEFINE w == [work[m] EXCEPT !.pc = "record"]
<1>1. Set(m, w) /\ ledger' = Pause(now + work[m].delay) /\ now' = now
  BY DEF PauseLedger
<1>2. work[m] \in Runs /\ work[m].plan # {} /\ now \in Nat /\ SchedOK(sched) /\ LedgerOK(ledger)
  BY DEF Types, WorkOK, PauseLedger, Holding
<1>3. /\ w \in Runs /\ w.pc = "record" /\ w.plan = work[m].plan /\ w.at = work[m].at /\ w.out = work[m].out
      /\ w.delay = work[m].delay /\ work[m].delay \in Nat
  BY <1>2 DEF Runs, Phases
<1>4. WorkOK(w)
  BY <1>2, <1>3 DEF WorkOK
<1>5. Later(ledger.until, now + work[m].delay) \in Nat
  BY <1>2, <1>3 DEF Later, LedgerOK
<1>6. /\ ledger' \in [attempts : SUBSET Nat, until : Nat]
      /\ ledger'.attempts = ledger.attempts
  BY <1>1, <1>2, <1>5 DEF Pause, LedgerOK
<1>7. LedgerOK(ledger)'
  BY <1>1, <1>2, <1>6 DEF LedgerOK
<1>8. SchedOK(sched') /\ now' = now /\ toggles' = toggles /\ admin' = admin /\ cooling' \in Nat
        /\ upgraded' \in BOOLEAN /\ starts' \subseteq [by : Manager, at : Nat]
  BY DEF PauseLedger, Types, hist
<1> HIDE DEF w
<1>9. Types' /\ work'[m] = w /\ Others(m)
  BY <1>1, <1>4, <1>7, <1>8, StepTypes
<1> QED
  BY <1>3, <1>6, <1>9

LEMMA RecordResultIs ==
    ASSUME Types, NEW m \in Manager, RecordResult(m)
    PROVE  /\ Types' /\ Others(m)
           /\ sched'.plan = sched.plan /\ sched'.enabled = sched.enabled
           /\ \/ /\ work'[m].pc = "cool" /\ work'[m].plan = work[m].plan /\ work'[m].at = work[m].at
                 /\ work'[m].out = work[m].out /\ work'[m].delay = work[m].delay
                 /\ work[m].out \in {"wait", "limited", "limitedOff"} /\ work[m].plan # {}
              \/ work'[m].pc \in {"switch", "idle"} /\ work'[m].out = "none"
<1>1. /\ work[m] \in Runs /\ work[m].at \in Int /\ WorkOK(work[m]) /\ work[m].pc = "record"
      /\ SchedOK(sched) /\ work[m].pc = "record"
  BY DEF Types, WorkOK, RecordResult, Runs
<1> DEFINE e == CASE work[m].out = "ok"   -> "none"
                  [] work[m].out = "wait" -> "wait"
                  [] OTHER                -> "error"
<1>2. e \in {"none", "wait", "error"}
  OBVIOUS
<1>3. sched' = Recorded(work[m].at, e)
  BY DEF RecordResult
<1> HIDE DEF e
<1>4. SchedOK(sched') /\ sched'.plan = sched.plan /\ sched'.enabled = sched.enabled
  BY <1>1, <1>2, <1>3 DEF Recorded, SchedOK
<1>5. LedgerOK(ledger)' /\ now' = now /\ toggles' = toggles /\ admin' = admin /\ cooling' \in Nat
        /\ upgraded' \in BOOLEAN /\ starts' \subseteq [by : Manager, at : Nat]
  BY DEF RecordResult, Types, LedgerOK, hist
<1>6. CASE work[m].out \in {"wait", "limited", "limitedOff"}
  <2> DEFINE w == [work[m] EXCEPT !.pc = "cool"]
  <2>1. Set(m, w)
    BY <1>6 DEF RecordResult
  <2>2. /\ w \in Runs /\ w.pc = "cool" /\ w.plan = work[m].plan /\ w.at = work[m].at /\ w.out = work[m].out
        /\ w.delay = work[m].delay /\ work[m].plan # {}
    BY <1>1, <1>6 DEF Runs, Phases, WorkOK
  <2>3. WorkOK(w)
    BY <2>2 DEF WorkOK
  <2> HIDE DEF w
  <2>4. Types' /\ work'[m] = w /\ Others(m)
    BY <1>4, <1>5, <2>1, <2>3, StepTypes
  <2> QED
    BY <1>4, <1>6, <2>2, <2>4
<1>7. CASE work[m].out \notin {"wait", "limited", "limitedOff"}
  <2>1. PICK w \in {Idle, [Idle EXCEPT !.pc = "switch"]} : Set(m, w)
    BY <1>7 DEF RecordResult
  <2>2. WorkOK(w) /\ w.pc \in {"switch", "idle"} /\ w.out = "none"
    BY <2>1, PlainRuns, IdleIs
  <2>3. Types' /\ work'[m] = w /\ Others(m)
    BY <1>4, <1>5, <2>1, <2>2, StepTypes
  <2> QED
    BY <1>4, <2>2, <2>3
<1> QED
  BY <1>6, <1>7

LEMMA CoolDownIs ==
    ASSUME Types, NEW m \in Manager, CoolDown(m)
    PROVE  /\ Types' /\ Others(m) /\ sched'.enabled = sched.enabled
           /\ work'[m].pc \in {"switch", "idle"} /\ work'[m].out = "none"
           /\ Unchanged(Min(work[m].plan)) =>
                /\ Min(sched'.plan) = now + work[m].delay /\ cooling' = now + work[m].delay /\ used' = {}
                /\ Spaced(sched'.plan) /\ Cardinality(sched'.plan) <= Slots
           /\ ~Unchanged(Min(work[m].plan)) => sched' = sched /\ used' = used /\ cooling' = cooling
<1>1. /\ work[m] \in Runs /\ work[m].plan # {} /\ now \in Nat /\ SchedOK(sched) /\ work[m].delay \in Nat
      /\ cooling \in Nat
  BY DEF Types, WorkOK, CoolDown, Holding, Runs
<1>2. PICK w \in {Idle, [Idle EXCEPT !.pc = "switch"]} : Set(m, w)
  BY DEF CoolDown
<1>3. WorkOK(w) /\ w.pc \in {"switch", "idle"} /\ w.out = "none"
  BY <1>2, PlainRuns, IdleIs
<1>4. LedgerOK(ledger)' /\ now' = now /\ toggles' = toggles /\ admin' = admin
        /\ upgraded' \in BOOLEAN /\ starts' \subseteq [by : Manager, at : Nat]
  BY DEF CoolDown, Types, LedgerOK
<1>5. CASE Unchanged(Min(work[m].plan))
  <2>1. PICK P \in NewPlansStartingAt(now + work[m].delay) :
          /\ sched' = [sched EXCEPT !.plan = P]
          /\ used' = {} /\ cooling' = now + work[m].delay
    BY <1>5 DEF CoolDown
  <2>2. now + work[m].delay \in Nat
    BY <1>1
  <2>3. P \in Plans /\ P # {} /\ Min(P) = now + work[m].delay /\ Cardinality(P) = Slots /\ Spaced(P)
    BY <2>1, <2>2, CooledPlanIs
  <2>4. SchedOK(sched') /\ sched'.plan = P /\ sched'.enabled = sched.enabled
    <3>1. now \in Int /\ P \in Plans /\ P # {}
      BY <1>1, <2>3
    <3> QED
      BY <1>1, <2>1, <3>1, PlanTypes
  <2>5. Types' /\ work'[m] = w /\ Others(m)
    BY <1>2, <1>3, <1>4, <2>1, <2>2, <2>4, StepTypes
  <2>6. Cardinality(P) <= Slots
    BY <2>3, AutoCreateAssumption
  <2> QED
    BY <1>3, <1>5, <2>1, <2>3, <2>4, <2>5, <2>6
<1>6. CASE ~Unchanged(Min(work[m].plan))
  <2>1. sched' = sched /\ used' = used /\ cooling' = cooling
    BY <1>6 DEF CoolDown
  <2>2. Types' /\ work'[m] = w /\ Others(m)
    BY <1>1, <1>2, <1>3, <1>4, <2>1, StepTypes
  <2> QED
    BY <1>3, <1>6, <2>1, <2>2
<1> QED
  BY <1>5, <1>6

LEMMA DisabledIs == SchedOK(sched) => SchedOK(Disabled(sched)) /\ ~Disabled(sched).enabled
<1> SUFFICES ASSUME SchedOK(sched) PROVE SchedOK(Disabled(sched)) /\ ~Disabled(sched).enabled
  OBVIOUS
<1>1. {} \in Plans
  BY FS_EmptySet DEF Plans
<1>2. ~Disabled(sched).enabled
  BY DEF SchedOK, Disabled
<1>3. FALSE \in BOOLEAN
  BY Zenon
<1>4. Disabled(sched) \in [enabled : BOOLEAN, plan : Plans, last : Int, err : {"none", "wait", "error"}]
  BY <1>1, <1>3 DEF SchedOK, Disabled
<1> QED
  BY <1>2, <1>4 DEF SchedOK

LEMMA SwitchOffIs ==
    ASSUME Types, NEW m \in Manager, SwitchOff(m)
    PROVE  Types' /\ Others(m) /\ work'[m] = Idle /\ ~sched'.enabled
<1>1. SchedOK(sched') /\ ~sched'.enabled
  BY DisabledIs DEF Types, SwitchOff
<1>2. LedgerOK(ledger)' /\ now' = now /\ toggles' = toggles /\ admin' = admin /\ cooling' \in Nat
        /\ upgraded' \in BOOLEAN /\ starts' \subseteq [by : Manager, at : Nat] /\ Set(m, Idle)
  BY DEF SwitchOff, Types, LedgerOK, hist
<1> QED
  BY <1>1, <1>2, IdleIs, StepTypes

LEMMA CrashIs ==
    ASSUME Types, NEW m \in Manager, Crash(m)
    PROVE  Types' /\ Others(m) /\ work'[m] = Down
BY PlainRuns, PrivateTypes DEF Crash

LEMMA BootIs ==
    ASSUME Types, NEW m \in Manager, Boot(m)
    PROVE  /\ Types' /\ Others(m) /\ work'[m] = Idle /\ sched'.enabled = sched.enabled
           /\ ~upgraded /\ sched.enabled =>
                /\ Spaced(sched'.plan) /\ Cardinality(sched'.plan) <= Slots /\ used' = {}
                /\ now + Gap <= Min(sched'.plan)
                /\ cooling' = 0 \/ (cooling' = cooling /\ Min(sched.plan) <= Min(sched'.plan))
           /\ ~(~upgraded /\ sched.enabled) => sched' = sched /\ used' = used /\ cooling' = cooling
<1>1. /\ now \in Nat /\ SchedOK(sched) /\ sched.last \in Int /\ sched.plan \in Plans
      /\ cooling \in Nat
  BY DEF Types, SchedOK
<1>2. LedgerOK(ledger)' /\ now' = now /\ toggles' = toggles /\ admin' = admin
        /\ upgraded' \in BOOLEAN /\ starts' \subseteq [by : Manager, at : Nat] /\ Set(m, Idle)
  BY DEF Boot, Types, LedgerOK
<1>3. CASE ~upgraded /\ sched.enabled
  <2>1. PICK P \in NewPlans(UpgradeAnchor) : sched' = [sched EXCEPT !.plan = P]
    BY <1>3 DEF Boot
  <2>2. used' = {} /\ cooling' = IF sched.err = "error" THEN cooling ELSE 0
    BY <1>3 DEF Boot
  <2>3. sched.plan # {} /\ Min(sched.plan) \in Nat
    BY <1>1, <1>3, MinIs DEF SchedOK, Plans
  <2>4. UpgradeAnchor \in Int /\ now <= UpgradeAnchor /\ (sched.err = "error" => Min(sched.plan) <= UpgradeAnchor)
    BY <1>1, <2>3 DEF UpgradeAnchor, Later
  <2>5. 0 <= UpgradeAnchor + Gap /\ Gap \in Nat
    BY <1>1, <2>4, CycleCoversGap
  <2>6. P \in Plans /\ P # {} /\ Cardinality(P) = Slots /\ Spaced(P) /\ \A t \in P : UpgradeAnchor + Gap <= t
    BY <2>1, <2>4, <2>5, NewPlanIs
  <2>7. Min(P) \in P /\ Min(P) \in Nat
    BY <2>6, MinIs DEF Plans
  <2>8. UpgradeAnchor + Gap <= Min(P)
    BY <2>6, <2>7
  <2>9. now + Gap <= Min(P) /\ (sched.err = "error" => Min(sched.plan) <= Min(P))
    BY <1>1, <2>3, <2>4, <2>5, <2>7, <2>8
  <2>10. SchedOK(sched') /\ sched'.plan = P /\ sched'.enabled = sched.enabled
    BY <1>1, <2>1, <2>6, PlanTypes
  <2>11. Types' /\ work'[m] = Idle /\ Others(m)
    BY <1>1, <1>2, <2>2, <2>10, IdleIs, StepTypes
  <2>12. Cardinality(P) <= Slots
    BY <2>6, AutoCreateAssumption
  <2> QED
    BY <1>1, <1>3, <2>2, <2>6, <2>9, <2>10, <2>11, <2>12
<1>4. CASE ~(~upgraded /\ sched.enabled)
  <2>1. sched' = sched /\ used' = used /\ cooling' = cooling
    BY <1>4 DEF Boot
  <2>2. Types' /\ work'[m] = Idle /\ Others(m)
    BY <1>1, <1>2, <2>1, IdleIs, StepTypes
  <2> QED
    BY <1>4, <2>1, <2>2
<1> QED
  BY <1>3, <1>4

LEMMA OperatorTypes ==
    ASSUME Types, RequestSwitch \/ Enable \/ Disable \/ Install \/ Tick
    PROVE  Types'
<1>1. /\ now \in Nat /\ toggles \in Nat /\ cooling \in Nat /\ SchedOK(sched) /\ LedgerOK(ledger) /\ work \in [Manager -> Runs]
      /\ \A m \in Manager : WorkOK(work[m]) /\ work[m] \in Runs /\ work[m].exp \in Nat
      /\ admin \in [pc : {"idle", "write"}, on : BOOLEAN, at : Nat] /\ starts \subseteq [by : Manager, at : Nat]
      /\ upgraded \in BOOLEAN /\ (admin.pc = "write" => toggles # 0)
  BY DEF Types, Runs
<1>2. now' = now => LedgerOK(ledger') = LedgerOK(ledger)' /\ \A m \in Manager : WorkOK(work[m]) => (work' = work => WorkOK(work[m])')
  BY DEF LedgerOK, WorkOK
<1>3. NoRequest \in [pc : {"idle", "write"}, on : BOOLEAN, at : Nat] /\ NoRequest.pc = "idle"
  BY Zenon, 0 \in Nat DEF NoRequest
<1>4. CASE RequestSwitch
  <2>1. [pc |-> "write", on |-> ~sched.enabled, at |-> now] \in [pc : {"idle", "write"}, on : BOOLEAN, at : Nat]
    BY <1>1
  <2> QED
    BY <1>1, <1>4, <2>1 DEF RequestSwitch, Types, LedgerOK, WorkOK, hist
<1>5. CASE Enable
  <2>1. PICK P \in NewPlans(admin.at) : sched' = [sched EXCEPT !.enabled = TRUE, !.plan = P, !.err = "none"]
    BY <1>5 DEF Enable
  <2>2. admin.at \in Nat /\ admin.at \in Int /\ 0 <= admin.at + Gap
    BY <1>1, CycleCoversGap
  <2>3. P \in Plans /\ P # {}
    BY <2>1, <2>2, NewPlanIs
  <2>4. sched' \in [enabled : BOOLEAN, plan : Plans, last : Int, err : {"none", "wait", "error"}] /\ sched'.plan = P
    BY <1>1, <2>1, <2>3 DEF SchedOK
  <2>5. SchedOK(sched')
    BY <2>3, <2>4 DEF SchedOK
  <2> QED
    BY <1>1, <1>3, <1>5, <2>5 DEF Enable, Types, LedgerOK, WorkOK
<1>6. CASE Disable
  <2>1. SchedOK(sched')
    BY <1>1, <1>6, DisabledIs DEF Disable
  <2> QED
    BY <1>1, <1>3, <1>6, <2>1 DEF Disable, Types, LedgerOK, WorkOK, hist
<1>7. CASE Install
  BY <1>1, <1>7 DEF Install, Types, LedgerOK, WorkOK, hist
<1>8. CASE Tick
  <2>1. LedgerOK(ledger)'
    BY <1>1, <1>8 DEF Tick, LedgerOK
  <2>2. \A m \in Manager : WorkOK(work[m])'
    BY <1>1, <1>8 DEF Tick, WorkOK
  <2> QED
    BY <1>1, <1>8, <2>1, <2>2 DEF Tick, Types, hist
<1> QED
  BY <1>4, <1>5, <1>6, <1>7, <1>8

LEMMA TypesInitially == Init => Types
<1> SUFFICES ASSUME Init PROVE Types
  OBVIOUS
<1>1. {} \in Plans /\ Never \in Int /\ FALSE \in BOOLEAN /\ TRUE \in BOOLEAN
  <2>1. {} \in Plans /\ Never \in Int
    BY FS_EmptySet, AutoCreateAssumption DEF Plans, Never
  <2>2. FALSE \in BOOLEAN /\ TRUE \in BOOLEAN
    BY Zenon
  <2> QED
    BY <2>1, <2>2
<1>2. NoRequest \in [pc : {"idle", "write"}, on : BOOLEAN, at : Nat] /\ NoRequest.pc = "idle"
  BY Zenon, 0 \in Nat DEF NoRequest
<1>3. SchedOK(sched)
  BY <1>1 DEF Init, InitWith, SchedOK
<1>4. LedgerOK(ledger)
  BY DEF Init, InitWith, LedgerOK
<1>5. work = [m \in Manager |-> Idle] /\ \A m \in Manager : WorkOK(work[m])
  BY IdleIs DEF Init, InitWith
<1> QED
  BY <1>1, <1>2, <1>3, <1>4, <1>5, IdleIs DEF Init, InitWith, Types

LEMMA TypesKept == Types /\ [Next]_vars => Types'
<1> SUFFICES ASSUME Types, [Next]_vars PROVE Types'
  OBVIOUS
<1>1. CASE UNCHANGED vars
  BY <1>1 DEF vars, hist, Types, LedgerOK, WorkOK
<1>2. ASSUME NEW m \in Manager, RunNext(m) \/ Crash(m) \/ Boot(m) PROVE Types'
  BY <1>2, ListDueIs, RescheduleOverdueIs, RescheduleTooSoonIs, PrepareClaimIs, RescheduleIs, ClaimIs, PoolFullIs,
     StartRunIs, PrepareCorrectionIs, CorrectPlanIs, ChargeAttemptIs, RefuseAttemptIs, ConfirmInsteadIs, AnswerIs,
     PauseLedgerIs, RecordResultIs, CoolDownIs, SwitchOffIs, CrashIs, BootIs DEF RunNext
<1>3. CASE RequestSwitch \/ Enable \/ Disable \/ Install \/ Tick
  BY <1>3, OperatorTypes
<1> QED
  BY <1>1, <1>2, <1>3 DEF Next

-----------------------------------------------------------------------------
(* The ceilings of what is charged. *)

LEMMA LedgerKept == Types /\ LedgerInv /\ [Next]_vars => LedgerInv'
<1> SUFFICES ASSUME Types, LedgerInv, [Next]_vars PROVE LedgerInv'
  OBVIOUS
<1>1. now \in Nat /\ LedgerOK(ledger) /\ Gap \in Nat \ {0} /\ Cycle \in Nat /\ Gap <= Cycle /\ Limit \in Nat \ {0}
  BY CycleCoversGap DEF Types
<1>2. charged \subseteq 0 .. now /\ ledger.attempts \subseteq charged /\ RollingCeiling
        /\ \A t \in charged : t > now - Cycle => t \in ledger.attempts
  BY DEF LedgerInv
<1>3. ASSUME NEW m \in Manager, ChargeAttempt(m) PROVE LedgerInv'
  <2>1. now' = now /\ charged' = charged \cup {now} /\ ledger'.attempts = Window(now) \cup {now} /\ WaitUntil(now) <= now
    BY <1>3, ChargeAttemptIs DEF ChargeAttempt
  <2>2. Cardinality(Window(now)) < Limit /\ \A t \in Window(now) : t + Gap <= now
    BY <1>1, <2>1, WaitIs
  <2>3. Window(now) \in SUBSET (0 .. now) /\ IsFiniteSet(Window(now)) /\ Cardinality(Window(now)) \in Nat
    BY <1>1, WindowIs
  <2>4. Window(now) = {u \in charged : now - Cycle < u}
    BY <1>1, <1>2 DEF Window
  <2>5. \A t \in charged : t \in Nat /\ t <= now
    BY <1>2
  <2>6. \A t \in charged : t + Gap <= now
    <3> TAKE t \in charged
    <3>1. CASE now - Cycle < t
      BY <2>2, <2>4, <3>1
    <3>2. CASE ~(now - Cycle < t)
      BY <1>1, <2>5, <3>2
    <3> QED
      BY <3>1, <3>2
  <2>7. ASSUME NEW t \in charged'
        PROVE  Cardinality({u \in charged' : t - Cycle < u /\ u <= t}) <= Limit
    <3>1. CASE t = now
      <4>1. {u \in charged' : t - Cycle < u /\ u <= t} = Window(now) \cup {now}
        <5>1. \A u \in charged' : (t - Cycle < u /\ u <= t) <=> (u = now \/ (u \in charged /\ now - Cycle < u))
          <6> TAKE u \in charged'
          <6>1. CASE u = now
            <7>1. 0 < Cycle
              BY <1>1
            <7> QED
              BY <1>1, <3>1, <6>1, <7>1
          <6>2. CASE u \in charged
            BY <1>1, <2>5, <3>1, <6>2
          <6> QED
            BY <2>1, <6>1, <6>2
        <5>2. now \in charged' /\ charged \subseteq charged'
          BY <2>1
        <5> QED
          BY <2>4, <5>1, <5>2
      <4>2. Cardinality(Window(now) \cup {now}) <= Cardinality(Window(now)) + 1
        <5>1. \/ Cardinality(Window(now) \cup {now}) = Cardinality(Window(now))
              \/ Cardinality(Window(now) \cup {now}) = Cardinality(Window(now)) + 1
          BY <2>3, FS_AddElement
        <5> QED
          BY <2>3, <5>1
      <4>3. Cardinality(Window(now) \cup {now}) \in Nat
        BY <2>3, FS_AddElement, FS_CardinalityType
      <4> QED
        BY <1>1, <2>2, <2>3, <4>1, <4>2, <4>3
    <3>2. CASE t \in charged
      <4>1. ~(now <= t)
        BY <1>1, <2>5, <2>6, <3>2
      <4>2. {u \in charged' : t - Cycle < u /\ u <= t} = {u \in charged : t - Cycle < u /\ u <= t}
        BY <2>1, <4>1
      <4> QED
        BY <1>2, <3>2, <4>2 DEF RollingCeiling
    <3> QED
      BY <2>1, <3>1, <3>2
  <2>8. Spaced(charged')
    <3> SUFFICES ASSUME NEW s \in charged', NEW t \in charged', s < t PROVE t - s >= Gap
      BY DEF Spaced
    <3>1. CASE t = now
      <4>1. s \in charged
        BY <1>1, <2>1, <3>1
      <4> QED
        BY <1>1, <2>5, <2>6, <3>1, <4>1
    <3>2. CASE t \in charged /\ s \in charged
      BY <1>2, <3>2 DEF RollingCeiling, Spaced
    <3>3. CASE t \in charged /\ s = now
      BY <1>1, <2>5, <3>3
    <3> QED
      BY <2>1, <3>1, <3>2, <3>3
  <2>9. charged' \subseteq 0 .. now' /\ ledger'.attempts \subseteq charged'
    BY <1>1, <1>2, <2>1, <2>4
  <2>10. \A t \in charged' : t > now' - Cycle => t \in ledger'.attempts
    BY <2>1, <2>4
  <2> QED
    BY <2>1, <2>7, <2>8, <2>9, <2>10 DEF LedgerInv, RollingCeiling
<1>4. CASE charged' = charged /\ ledger'.attempts = ledger.attempts /\ now' \in Nat /\ now <= now'
  <2>1. RollingCeiling'
    BY <1>2, <1>4 DEF RollingCeiling, Spaced
  <2>2. charged' \subseteq 0 .. now' /\ ledger'.attempts \subseteq charged'
    BY <1>1, <1>2, <1>4
  <2>3. \A t \in charged' : t > now' - Cycle => t \in ledger'.attempts
    BY <1>1, <1>2, <1>4
  <2> QED
    BY <2>1, <2>2, <2>3 DEF LedgerInv
<1>5. CASE UNCHANGED vars
  BY <1>1, <1>4, <1>5 DEF vars, hist
<1>6. ASSUME NEW m \in Manager, RunNext(m) \/ Crash(m) \/ Boot(m) PROVE LedgerInv'
  <2>1. CASE PauseLedger(m)
    BY <1>1, <1>4, <2>1, PauseLedgerIs DEF PauseLedger, hist
  <2>2. CASE ChargeAttempt(m)
    BY <1>3, <2>2
  <2>3. CASE ~PauseLedger(m) /\ ~ChargeAttempt(m)
    <3>1. charged' = charged /\ ledger' = ledger /\ now' = now
      BY <1>6, <2>3 DEF RunNext, ListDue, RescheduleOverdue, RescheduleTooSoon, PrepareClaim, Reschedule, Claim,
         PoolFull, StartRun, PrepareCorrection, CorrectPlan, RefuseAttempt, ConfirmInstead, Answer, RecordResult,
         CoolDown, SwitchOff, Crash, Boot, hist
    <3> QED
      BY <1>1, <1>4, <3>1
  <2> QED
    BY <2>1, <2>2, <2>3
<1>7. CASE RequestSwitch \/ Enable \/ Disable \/ Install \/ Tick
  <2>1. charged' = charged /\ ledger' = ledger
    BY <1>7 DEF RequestSwitch, Enable, Disable, Install, Tick, hist
  <2>2. now' = now \/ now' = now + 1
    BY <1>7 DEF RequestSwitch, Enable, Disable, Install, Tick
  <2>3. now' \in Nat /\ now <= now'
    BY <1>1, <2>2
  <2> QED
    BY <1>4, <2>1, <2>3
<1> QED
  BY <1>5, <1>6, <1>7 DEF Next

LEMMA LedgerInitially == Init => LedgerInv
BY DEF Init, InitWith, LedgerInv, RollingCeiling, Spaced

(* The ceiling in every rolling window and the minimum interval are kept by    *)
(* claimAppleCreationAttempt, whatever the managers, their plans, restarts and *)
(* the operator do, for any lengths of them.                                   *)
THEOREM CeilingsKept == Spec => []RollingCeiling
<1>1. Init => Types /\ LedgerInv
  BY TypesInitially, LedgerInitially
<1>2. Types /\ LedgerInv /\ [Next]_vars => (Types /\ LedgerInv)'
  BY TypesKept, LedgerKept
<1>3. Types /\ LedgerInv => RollingCeiling
  BY DEF LedgerInv
<1> QED
  BY <1>1, <1>2, <1>3, PTL DEF Spec

-----------------------------------------------------------------------------
(* Runs keep their distance: the parts of the invariant that a step of one     *)
(* manager has to restore.                                                     *)

LEMMA RunNumbers ==
    ASSUME NEW w \in Runs
    PROVE  /\ w.at \in Nat /\ w.exp \in Nat /\ w.delay \in Nat /\ w.slot \in Int /\ w.plan \in Plans
           /\ Cardinality(w.plan) \in Nat
           /\ w.plan # {} => Min(w.plan) \in Nat
<1>1. w.at \in Nat /\ w.exp \in Nat /\ w.delay \in Nat /\ w.slot \in Int /\ w.plan \in Plans
  BY DEF Runs
<1>2. Cardinality(w.plan) \in Nat
  BY <1>1, FS_CardinalityType DEF Plans
<1>3. w.plan # {} => Min(w.plan) \in Nat
  BY <1>1, MinIs DEF Plans
<1> QED
  BY <1>1, <1>2, <1>3

LEMMA RowNumbers ==
    ASSUME NEW s, SchedOK(s)
    PROVE  Cardinality(s.plan) \in Nat /\ (s.enabled => s.plan # {} /\ Min(s.plan) \in Nat)
<1>1. s.plan \in Plans /\ (s.enabled => s.plan # {})
  BY DEF SchedOK
<1>2. Cardinality(s.plan) \in Nat
  BY <1>1, FS_CardinalityType DEF Plans
<1>3. s.plan # {} => Min(s.plan) \in Nat
  BY <1>1, MinIs DEF Plans
<1> QED
  BY <1>1, <1>2, <1>3

LEMMA Numbers ==
    ASSUME Types
    PROVE  /\ now \in Nat /\ cooling \in Nat /\ Gap \in Nat \ {0} /\ Slots \in Nat
           /\ \A m \in Manager : /\ work[m].at \in Nat /\ work[m].exp \in Nat /\ work[m].delay \in Nat
                                 /\ Extended(m) => work[m].plan # {} /\ Min(work[m].plan) \in Nat /\ First(m) \in Nat
           /\ sched.enabled => sched.plan # {} /\ Min(sched.plan) \in Nat
           /\ \A s \in starts : s.at \in Nat
<1>1. \A m \in Manager : work[m] \in Runs /\ WorkOK(work[m])
  BY DEF Types
<1>2. ASSUME NEW m \in Manager
      PROVE  /\ work[m].at \in Nat /\ work[m].exp \in Nat /\ work[m].delay \in Nat
             /\ Extended(m) => work[m].plan # {} /\ Min(work[m].plan) \in Nat /\ First(m) \in Nat
  <2>1. Extended(m) => work[m].plan # {}
    BY <1>1 DEF Extended, WorkOK, Holding
  <2>2. /\ work[m].at \in Nat /\ work[m].exp \in Nat /\ work[m].delay \in Nat
        /\ work[m].plan # {} => Min(work[m].plan) \in Nat
    BY <1>1, RunNumbers
  <2> QED
    BY <2>1, <2>2 DEF First
<1>3. sched.enabled => sched.plan # {} /\ Min(sched.plan) \in Nat
  BY RowNumbers DEF Types
<1> QED
  BY <1>2, <1>3, AutoCreateAssumption DEF Types

(* What a manager holds counts the same while others move. *)
LEMMA OthersAre ==
    ASSUME NEW m \in Manager, Others(m), NEW n \in Manager \ {m}
    PROVE  /\ work'[n] = work[n] /\ Extended(n)' = Extended(n) /\ First(n)' = First(n)
BY DEF Others, Extended, First

LEMMA StepQuiet ==
    ASSUME QuietInv, NEW m \in Manager, Others(m), now' = now, upgraded', Untouched', RowInv',
           \A s \in starts' : s.at <= now, StartsSpaced',
           DraftOK(work[m])', SnapshotOK(work[m])', ExtendedOK(m)',
           \A n \in Manager \ {m} : SnapshotOK(work[n])' /\ ExtendedOK(n)',
           \A n \in Manager \ {m} : Extended(m)' /\ Extended(n) => Behind(m, n)' \/ Behind(n, m)'
    PROVE  QuietInv'
<1>1. \A n \in Manager \ {m} : work'[n] = work[n] /\ Extended(n)' = Extended(n) /\ First(n)' = First(n)
  BY OthersAre
<1>2. \A n \in Manager \ {m} : DraftOK(work[n])'
  BY <1>1 DEF QuietInv, DraftOK
<1>3. ASSUME NEW a \in Manager, NEW b \in Manager, a # b, Extended(a)', Extended(b)'
      PROVE  Behind(a, b)' \/ Behind(b, a)'
  <2>1. CASE a = m
    BY <1>1, <1>3, <2>1
  <2>2. CASE b = m
    BY <1>1, <1>3, <2>2
  <2>3. CASE a # m /\ b # m
    BY <1>1, <1>3, <2>3 DEF QuietInv, Behind
  <2> QED
    BY <2>1, <2>2, <2>3
<1>4. \A n \in Manager : DraftOK(work[n])' /\ SnapshotOK(work[n])' /\ ExtendedOK(n)'
  BY <1>2
<1> QED
  BY <1>3, <1>4 DEF QuietInv

(* A step that leaves the row as it is. *)
LEMMA OthersUnmoved ==
    ASSUME QuietInv, NEW m \in Manager, Others(m), now' = now,
           sched'.enabled = sched.enabled, sched'.plan = sched.plan, UNCHANGED <<starts, used, cooling>>
    PROVE  /\ RowInv' /\ StartsSpaced' /\ \A s \in starts' : s.at <= now
           /\ \A n \in Manager \ {m} : SnapshotOK(work[n])' /\ ExtendedOK(n)'
<1>1. RowInv' /\ StartsSpaced' /\ \A s \in starts' : s.at <= now
  BY DEF QuietInv, RowInv, StartsSpaced
<1>2. ASSUME NEW n \in Manager \ {m} PROVE SnapshotOK(work[n])' /\ ExtendedOK(n)'
  <2>1. work'[n] = work[n] /\ Extended(n)' = Extended(n) /\ First(n)' = First(n)
    BY OthersAre
  <2>2. SnapshotOK(work[n]) /\ ExtendedOK(n)
    BY DEF QuietInv
  <2>3. SnapshotOK(work[n])'
    BY <2>1, <2>2 DEF SnapshotOK
  <2>4. ExtendedOK(n)'
    BY <2>1, <2>2 DEF ExtendedOK
  <2> QED
    BY <2>3, <2>4
<1> QED
  BY <1>1, <1>2

(* A step that moves the row past all that other managers know of it. *)
LEMMA OthersMoved ==
    ASSUME QuietInv, Types, Types', NEW m \in Manager, Others(m), now' = now,
           \A n \in Manager \ {m} :
             /\ work[n].pc \in {"listed", "reschedule", "skip", "claim"} => work[n].exp < Min(sched'.plan)
             /\ Extended(n) => First(n) < Min(sched'.plan)
             /\ work[n].pc \in {"claimed", "correct"} =>
                  /\ \A s \in starts' : s.at + Gap <= work[n].at \/ First(n) <= s.at
                  /\ cooling' <= work[n].at \/ (First(n) < cooling' /\ First(n) <= now)
    PROVE  \A n \in Manager \ {m} : SnapshotOK(work[n])' /\ ExtendedOK(n)'
<1> SUFFICES ASSUME NEW n \in Manager \ {m} PROVE SnapshotOK(work[n])' /\ ExtendedOK(n)'
  OBVIOUS
<1>1. work'[n] = work[n] /\ Extended(n)' = Extended(n) /\ First(n)' = First(n)
  BY OthersAre
<1>2. ExtendedOK(n)
  BY DEF QuietInv
<1>3. sched'.enabled => Min(sched'.plan) \in Nat
  BY RowNumbers DEF Types
<1>4. work[n].exp \in Nat /\ (Extended(n) => First(n) \in Nat)
  BY Numbers
<1>5. SnapshotOK(work[n])'
  BY <1>1, <1>3, <1>4 DEF SnapshotOK
<1>6. work[n].pc \in {"claimed", "correct"} => Extended(n)
  BY DEF Extended
<1>7. ExtendedOK(n)'
  <2> SUFFICES ASSUME Extended(n) PROVE ExtendedOK(n)'
    BY <1>1 DEF ExtendedOK
  <2>1. First(n) < Min(sched'.plan) /\ First(n) \in Nat
    BY <1>4
  <2>2. sched'.enabled => First(n) <= Min(sched'.plan) /\ First(n) # Min(sched'.plan)
    BY <1>3, <2>1
  <2>3. work[n].pc \in {"claimed", "correct"} =>
          /\ \A s \in starts' : s.at + Gap <= work[n].at \/ First(n) <= s.at
          /\ cooling' <= work[n].at \/ (First(n) < cooling' /\ First(n) <= now)
    OBVIOUS
  <2> QED
    BY <1>1, <1>2, <2>2, <2>3 DEF ExtendedOK
<1> QED
  BY <1>5, <1>7

(* Nothing runs before the operator's first request is written. *)
LEMMA RunningIsTouched ==
    ASSUME QuietInv, NEW m \in Manager, work[m].pc \notin {"idle", "down"} \/ sched.enabled,
           toggles' = toggles, admin' = admin
    PROVE  Untouched'
BY DEF QuietInv, Untouched

LEMMA UpIsUpgraded ==
    ASSUME QuietInv, NEW m \in Manager, work[m].pc # "down", upgraded' = upgraded
    PROVE  upgraded'
BY DEF QuietInv

-----------------------------------------------------------------------------
(* Steps that leave the row as it is. *)

(* A run that goes on with the plan it has. *)
LEMMA ContinueQuiet ==
    ASSUME QuietInv, Types, NEW m \in Manager, Others(m), now' = now, toggles' = toggles, admin' = admin,
           upgraded' = upgraded, sched'.enabled = sched.enabled, sched'.plan = sched.plan,
           UNCHANGED <<starts, used, cooling>>, Extended(m), work[m].pc \notin {"claimed", "correct"},
           work'[m].pc \in {"remote", "confirm", "record", "pause", "cool"},
           work'[m].plan = work[m].plan, work'[m].at = work[m].at, DraftOK(work[m])'
    PROVE  QuietInv'
<1>1. work[m].pc \notin {"idle", "down", "claimed", "correct"}
  BY DEF Extended
<1>2. Untouched' /\ upgraded'
  BY <1>1, RunningIsTouched, UpIsUpgraded
<1>3. RowInv' /\ StartsSpaced' /\ \A s \in starts' : s.at <= now
  BY OthersUnmoved
<1>4. \A n \in Manager \ {m} : SnapshotOK(work[n])' /\ ExtendedOK(n)'
  BY OthersUnmoved
<1>5. First(m) = Min(work[m].plan) /\ First(m)' = First(m)
  BY <1>1 DEF First
<1>6. SnapshotOK(work[m])'
  BY DEF SnapshotOK
<1>7. ExtendedOK(m)'
  BY <1>5 DEF ExtendedOK, QuietInv
<1>8. ASSUME NEW n \in Manager \ {m}, Extended(n) PROVE Behind(m, n)' \/ Behind(n, m)'
  <2>1. work'[n] = work[n] /\ First(n)' = First(n)
    BY OthersAre
  <2>2. Behind(m, n) \/ Behind(n, m)
    BY <1>8 DEF QuietInv
  <2> QED
    BY <1>5, <2>1, <2>2 DEF Behind
<1> QED
  BY <1>2, <1>3, <1>4, <1>6, <1>7, <1>8, StepQuiet

(* A run that ends, and one that has not claimed anything yet. *)
LEMMA OutsideQuiet ==
    ASSUME QuietInv, NEW m \in Manager, Others(m), now' = now, upgraded', Untouched',
           sched'.enabled = sched.enabled, sched'.plan = sched.plan, UNCHANGED <<starts, used, cooling>>,
           ~Extended(m)', DraftOK(work[m])', SnapshotOK(work[m])'
    PROVE  QuietInv'
<1>1. RowInv' /\ StartsSpaced' /\ \A s \in starts' : s.at <= now
  BY OthersUnmoved
<1>2. \A n \in Manager \ {m} : SnapshotOK(work[n])' /\ ExtendedOK(n)'
  BY OthersUnmoved
<1>3. ExtendedOK(m)'
  BY DEF ExtendedOK
<1> QED
  BY <1>1, <1>2, <1>3, StepQuiet

(* What is left of a run that has ended. *)
LEMMA EndedIs ==
    ASSUME NEW m \in Manager, \/ work'[m].pc \in {"idle", "down", "switch"} /\ work'[m].out = "none"
                              \/ work'[m].pc = "record" /\ work'[m].plan = {} /\ work'[m].out = "conflict"
    PROVE  ~Extended(m)' /\ DraftOK(work[m])' /\ SnapshotOK(work[m])'
BY DEF Extended, DraftOK, SnapshotOK

LEMMA ListDueQuiet ==
    ASSUME QuietInv, Types, NEW m \in Manager, ListDue(m) PROVE QuietInv'
<1>1. /\ Types' /\ Others(m)
      /\ work'[m].pc = "listed" /\ work'[m].exp = Min(sched.plan) /\ work'[m].plan = sched.plan /\ work'[m].out = "none"
  BY ListDueIs
<1>2. /\ UNCHANGED <<now, sched, upgraded, ledger, admin, crashes, toggles, hist>>
      /\ sched.enabled /\ work[m].pc = "idle"
  BY DEF ListDue
<1>3. Untouched' /\ upgraded'
  BY <1>2, RunningIsTouched, UpIsUpgraded
<1>4. Min(sched.plan) \in Nat
  BY <1>2, Numbers
<1>5. ~Extended(m)' /\ DraftOK(work[m])' /\ SnapshotOK(work[m])'
  BY <1>1, <1>2, <1>4 DEF Extended, DraftOK, SnapshotOK
<1> QED
  BY <1>1, <1>2, <1>3, <1>5, OutsideQuiet DEF hist

LEMMA RescheduleOverdueQuiet ==
    ASSUME QuietInv, Types, NEW m \in Manager, RescheduleOverdue(m) PROVE QuietInv'
<1>1. /\ Types' /\ Others(m)
      /\ work'[m].pc = "reschedule" /\ work'[m].fresh /\ work'[m].at = now
      /\ work'[m].exp = work[m].exp /\ work'[m].out = work[m].out /\ work'[m].delay = work[m].delay
      /\ Spaced(work'[m].plan) /\ Cardinality(work'[m].plan) <= Slots /\ now + Gap <= Min(work'[m].plan)
  BY RescheduleOverdueIs
<1>2. UNCHANGED <<now, sched, upgraded, ledger, admin, crashes, toggles, hist>> /\ work[m].pc = "listed"
  BY DEF RescheduleOverdue
<1>3. Untouched' /\ upgraded'
  BY <1>2, RunningIsTouched, UpIsUpgraded
<1>4. work[m].exp <= now /\ work[m].exp \in Nat /\ now \in Nat /\ Gap \in Nat \ {0}
  BY <1>2, Numbers DEF Types, WorkOK
<1>5. work'[m].plan # {} /\ work'[m] \in Runs
  BY <1>1 DEF Types, WorkOK, Holding
<1>6. Min(work'[m].plan) \in Nat
  BY <1>5, RunNumbers
<1>7. work[m].exp < Min(work'[m].plan)
  BY <1>1, <1>4, <1>6
<1>8. DraftOK(work[m]) /\ SnapshotOK(work[m])
  BY DEF QuietInv
<1>9. ~Extended(m)' /\ DraftOK(work[m])' /\ SnapshotOK(work[m])'
  BY <1>1, <1>2, <1>4, <1>7, <1>8 DEF Extended, DraftOK, SnapshotOK
<1> QED
  BY <1>1, <1>2, <1>3, <1>9, OutsideQuiet DEF hist

LEMMA RescheduleTooSoonQuiet ==
    ASSUME QuietInv, Types, NEW m \in Manager, RescheduleTooSoon(m) PROVE QuietInv'
<1>1. /\ Types' /\ Others(m)
      /\ work'[m].pc = "reschedule" /\ work'[m].at = now
      /\ work'[m].exp = work[m].exp /\ work'[m].out = work[m].out /\ work'[m].delay = work[m].delay
      /\ Spaced(work'[m].plan) /\ Cardinality(work'[m].plan) <= Slots /\ work[m].exp < Min(work'[m].plan)
      /\ work[m].exp = Min(work[m].plan) /\ Spaced(work[m].plan) /\ Cardinality(work[m].plan) <= Slots =>
           Cardinality(work'[m].plan) = Cardinality(work[m].plan)
  BY RescheduleTooSoonIs
<1>2. UNCHANGED <<now, sched, upgraded, ledger, admin, crashes, toggles, hist>> /\ work[m].pc = "listed"
  BY DEF RescheduleTooSoon
<1>3. Untouched' /\ upgraded'
  BY <1>2, RunningIsTouched, UpIsUpgraded
<1>4. work[m].exp <= now /\ now \in Nat
  BY <1>2 DEF Types, WorkOK
<1>5. DraftOK(work[m]) /\ SnapshotOK(work[m]) /\ RowInv
  BY DEF QuietInv
<1>6. ~Extended(m)' /\ DraftOK(work[m])'
  BY <1>1, <1>2, <1>4, <1>5 DEF Extended, DraftOK
<1>7. Cardinality(sched.plan) \in Nat
  BY RowNumbers DEF Types
<1>8. SnapshotOK(work[m])'
  <2> SUFFICES ASSUME sched.enabled
               PROVE  /\ work[m].exp <= Min(sched.plan)
                      /\ work[m].exp = Min(sched.plan) => Cardinality(work'[m].plan) = Cardinality(sched.plan) - 0
    BY <1>1, <1>2 DEF SnapshotOK
  <2>1. work[m].exp <= Min(sched.plan) /\ (work[m].exp = Min(sched.plan) => work[m].plan = sched.plan)
    BY <1>2, <1>5 DEF SnapshotOK
  <2> QED
    BY <1>1, <1>5, <1>7, <2>1 DEF RowInv
<1> QED
  BY <1>1, <1>2, <1>3, <1>6, <1>8, OutsideQuiet DEF hist

LEMMA PrepareClaimQuiet ==
    ASSUME QuietInv, Types, NEW m \in Manager, PrepareClaim(m) PROVE QuietInv'
<1>1. /\ Types' /\ Others(m)
      /\ work'[m].pc \in {"skip", "claim"} /\ work'[m].at = now /\ work'[m].slot = SlotOf(work[m].plan, work[m].exp)
      /\ work'[m].exp = work[m].exp /\ work'[m].out = work[m].out /\ work'[m].delay = work[m].delay
      /\ Spaced(work'[m].plan) /\ Cardinality(work'[m].plan) <= Slots
      /\ work[m].exp < Min(work'[m].plan) /\ now + Gap <= Min(work'[m].plan)
      /\ work[m].exp = Min(work[m].plan) /\ Spaced(work[m].plan) /\ Cardinality(work[m].plan) <= Slots
           /\ ~work'[m].fresh => Cardinality(work'[m].plan) = Cardinality(work[m].plan) - 1
  BY PrepareClaimIs
<1>2. UNCHANGED <<now, sched, upgraded, ledger, admin, crashes, toggles, hist>> /\ work[m].pc = "listed"
  BY DEF PrepareClaim
<1>3. Untouched' /\ upgraded'
  BY <1>2, RunningIsTouched, UpIsUpgraded
<1>4. work[m].exp <= now /\ now \in Nat /\ work[m].exp \in work[m].plan /\ work[m].plan \in Plans
  BY <1>2 DEF Types, WorkOK, Runs
<1>5. DraftOK(work[m]) /\ SnapshotOK(work[m]) /\ RowInv /\ work[m].exp = Min(work[m].plan)
  BY <1>2 DEF QuietInv, DraftOK
<1>6. ~Extended(m)' /\ DraftOK(work[m])'
  BY <1>1, <1>2, <1>4, <1>5 DEF Extended, DraftOK
<1>7. SnapshotOK(work[m])'
  <2> SUFFICES ASSUME sched.enabled
               PROVE  /\ work[m].exp <= Min(sched.plan)
                      /\ work[m].exp = Min(sched.plan) =>
                           /\ work'[m].slot = Slots - Cardinality(sched.plan)
                           /\ ~work'[m].fresh => Cardinality(work'[m].plan) = Cardinality(sched.plan) - 1
    BY <1>1, <1>2 DEF SnapshotOK
  <2>1. work[m].exp <= Min(sched.plan) /\ (work[m].exp = Min(sched.plan) => work[m].plan = sched.plan)
    BY <1>2, <1>5 DEF SnapshotOK
  <2>2. work'[m].slot = Slots - Cardinality(work[m].plan)
    BY <1>1, <1>4, <1>5, SlotIs
  <2> QED
    BY <1>1, <1>5, <2>1, <2>2 DEF RowInv
<1> QED
  BY <1>1, <1>2, <1>3, <1>6, <1>7, OutsideQuiet DEF hist

LEMMA ContinuingSteps ==
    ASSUME QuietInv, Types, NEW m \in Manager,
           ChargeAttempt(m) \/ RefuseAttempt(m) \/ ConfirmInstead(m) \/ Answer(m) \/ PauseLedger(m)
    PROVE  QuietInv'
<1>1. DraftOK(work[m]) /\ WorkOK(work[m])
  BY DEF QuietInv, Types
<1>2. UNCHANGED <<now, sched, upgraded, admin, toggles, starts, used, cooling>>
  BY DEF ChargeAttempt, RefuseAttempt, ConfirmInstead, Answer, PauseLedger, hist
<1>3. work[m].pc \in {"create", "remote", "confirm", "pause"}
  BY DEF ChargeAttempt, RefuseAttempt, ConfirmInstead, Answer, PauseLedger
<1>4. Extended(m)
  BY <1>3 DEF Extended
<1>5. /\ Others(m) /\ work'[m].plan = work[m].plan /\ work'[m].at = work[m].at
      /\ work'[m].pc \in {"remote", "confirm", "record", "pause"} /\ DraftOK(work[m])'
  <2>1. CASE ChargeAttempt(m)
    BY <1>1, <2>1, ChargeAttemptIs DEF DraftOK
  <2>2. CASE RefuseAttempt(m)
    BY <2>2, RefuseAttemptIs DEF DraftOK
  <2>3. CASE ConfirmInstead(m)
    BY <1>1, <2>3, ConfirmInsteadIs DEF DraftOK
  <2>4. CASE Answer(m)
    BY <2>4, AnswerIs DEF DraftOK
  <2>5. CASE PauseLedger(m)
    BY <1>1, <2>5, PauseLedgerIs DEF DraftOK
  <2> QED
    BY <2>1, <2>2, <2>3, <2>4, <2>5
<1> QED
  BY <1>2, <1>3, <1>4, <1>5, ContinueQuiet

LEMMA RecordResultQuiet ==
    ASSUME QuietInv, Types, NEW m \in Manager, RecordResult(m) PROVE QuietInv'
<1>1. /\ Types' /\ Others(m)
      /\ sched'.plan = sched.plan /\ sched'.enabled = sched.enabled
      /\ \/ /\ work'[m].pc = "cool" /\ work'[m].plan = work[m].plan /\ work'[m].at = work[m].at
            /\ work'[m].out = work[m].out /\ work'[m].delay = work[m].delay
            /\ work[m].out \in {"wait", "limited", "limitedOff"} /\ work[m].plan # {}
         \/ work'[m].pc \in {"switch", "idle"} /\ work'[m].out = "none"
  BY RecordResultIs
<1>2. UNCHANGED <<now, upgraded, admin, toggles, starts, used, cooling>> /\ work[m].pc = "record"
  BY DEF RecordResult, hist
<1>3. CASE work'[m].pc = "cool"
  <2>1. Extended(m) /\ work[m].out \in {"wait", "limited", "limitedOff"}
    BY <1>1, <1>2, <1>3 DEF Extended
  <2>2. DraftOK(work[m])
    BY DEF QuietInv
  <2>3. DraftOK(work[m])'
    BY <1>1, <1>3, <2>2 DEF DraftOK
  <2> QED
    BY <1>1, <1>2, <1>3, <2>1, <2>3, ContinueQuiet
<1>4. CASE work'[m].pc # "cool"
  <2>1. work'[m].pc \in {"switch", "idle"} /\ work'[m].out = "none"
    BY <1>1, <1>4
  <2>2. ~Extended(m)' /\ DraftOK(work[m])' /\ SnapshotOK(work[m])'
    BY <2>1, EndedIs
  <2>3. Untouched' /\ upgraded'
    BY <1>2, RunningIsTouched, UpIsUpgraded
  <2> QED
    BY <1>1, <1>2, <2>2, <2>3, OutsideQuiet
<1> QED
  BY <1>3, <1>4

(* A run that ends without having changed the row. *)
LEMMA EndQuiet ==
    ASSUME QuietInv, NEW m \in Manager, Others(m), work[m].pc \notin {"idle", "down"},
           UNCHANGED <<now, sched, upgraded, admin, toggles, starts, used, cooling>>,
           \/ work'[m] \in {Idle, Down}
           \/ work'[m].pc \in {"idle", "down", "switch"} /\ work'[m].out = "none"
           \/ work'[m].pc = "record" /\ work'[m].plan = {} /\ work'[m].out = "conflict"
    PROVE  QuietInv'
<1>1. ~Extended(m)' /\ DraftOK(work[m])' /\ SnapshotOK(work[m])'
  BY EndedIs, PlainRuns
<1>2. Untouched' /\ upgraded'
  BY RunningIsTouched, UpIsUpgraded
<1> QED
  BY <1>1, <1>2, OutsideQuiet

-----------------------------------------------------------------------------
(* Steps that move the row. *)

LEMMA RowAdvances ==
    ASSUME QuietInv, Types, Types', NEW m \in Manager, Others(m), now' = now, starts' = starts, cooling' = cooling,
           sched.enabled, sched'.enabled, Min(sched.plan) < Min(sched'.plan)
    PROVE  \A n \in Manager \ {m} : SnapshotOK(work[n])' /\ ExtendedOK(n)'
<1>1. Min(sched.plan) \in Nat /\ Min(sched'.plan) \in Nat
  BY RowNumbers DEF Types
<1>2. ASSUME NEW n \in Manager \ {m}
      PROVE  /\ work[n].pc \in {"listed", "reschedule", "skip", "claim"} => work[n].exp < Min(sched'.plan)
             /\ Extended(n) => First(n) < Min(sched'.plan)
             /\ work[n].pc \in {"claimed", "correct"} =>
                  /\ \A s \in starts' : s.at + Gap <= work[n].at \/ First(n) <= s.at
                  /\ cooling' <= work[n].at \/ (First(n) < cooling' /\ First(n) <= now)
  <2>1. SnapshotOK(work[n]) /\ ExtendedOK(n)
    BY DEF QuietInv
  <2>2. work[n].exp \in Nat /\ (Extended(n) => First(n) \in Nat)
    BY Numbers
  <2>3. work[n].pc \in {"claimed", "correct"} => Extended(n)
    BY DEF Extended
  <2>4. work[n].pc \in {"listed", "reschedule", "skip", "claim"} => work[n].exp < Min(sched'.plan)
    BY <1>1, <2>1, <2>2 DEF SnapshotOK
  <2>5. Extended(n) => First(n) < Min(sched'.plan)
    BY <1>1, <2>1, <2>2 DEF ExtendedOK
  <2> QED
    BY <2>1, <2>3, <2>4, <2>5 DEF ExtendedOK
<1> QED
  BY <1>2, OthersMoved

(* The row's own part of the invariant when its first deadline is consumed. *)
LEMMA RowConsumed ==
    ASSUME QuietInv, Types, Types', starts' = starts, cooling' = cooling,
           sched.enabled, sched'.enabled, Min(sched.plan) < Min(sched'.plan),
           Spaced(sched'.plan), Cardinality(sched'.plan) <= Slots,
           \A u \in used' : u \in Int /\ u < Slots - Cardinality(sched'.plan)
    PROVE  RowInv'
<1>1. Min(sched.plan) \in Nat /\ Min(sched'.plan) \in Nat /\ Gap \in Nat /\ cooling \in Nat /\ \A s \in starts : s.at \in Nat
  BY RowNumbers, Numbers DEF Types
<1>2. (\A s \in starts : s.at + Gap <= Min(sched.plan)) /\ cooling <= Min(sched.plan)
  BY DEF QuietInv, RowInv
<1>3. \A s \in starts' : s.at + Gap <= Min(sched'.plan)
  <2> TAKE s \in starts'
  <2>1. s \in starts
    OBVIOUS
  <2> QED
    BY <1>1, <1>2, <2>1
<1>4. cooling' <= Min(sched'.plan)
  BY <1>1, <1>2
<1> QED
  BY <1>3, <1>4 DEF RowInv

LEMMA RescheduleQuiet ==
    ASSUME QuietInv, Types, NEW m \in Manager, Reschedule(m)
    PROVE  /\ QuietInv'
           /\ work[m].pc = "skip" /\ Unchanged(work[m].exp) => work[m].slot \notin used
<1>1. /\ Types' /\ Others(m) /\ work'[m] = Idle
      /\ Unchanged(work[m].exp) => sched'.enabled /\ sched'.plan = work[m].plan
      /\ ~Unchanged(work[m].exp) => sched' = sched /\ used' = used
  BY RescheduleIs
<1>2. UNCHANGED <<now, upgraded, admin, toggles, starts, cooling>> /\ work[m].pc \in {"reschedule", "skip"}
  BY DEF Reschedule
<1>3. CASE ~Unchanged(work[m].exp)
  BY <1>1, <1>2, <1>3, EndQuiet
<1>4. CASE Unchanged(work[m].exp)
  <2>1. sched.enabled /\ Min(sched.plan) = work[m].exp /\ sched'.enabled /\ sched'.plan = work[m].plan
    BY <1>1, <1>4 DEF Unchanged
  <2>2. DraftOK(work[m]) /\ SnapshotOK(work[m]) /\ RowInv
    BY DEF QuietInv
  <2>3. Spaced(work[m].plan) /\ Cardinality(work[m].plan) <= Slots /\ work[m].exp < Min(work[m].plan)
    BY <1>2, <2>2 DEF DraftOK
  <2>4. /\ work[m].pc = "skip" => work[m].slot = Slots - Cardinality(sched.plan)
        /\ ~work[m].fresh =>
             Cardinality(work[m].plan) = Cardinality(sched.plan) - (IF work[m].pc = "reschedule" THEN 0 ELSE 1)
    BY <1>2, <2>1, <2>2 DEF SnapshotOK
  <2>5. \A u \in used : u \in Int /\ u < Slots - Cardinality(sched.plan)
    BY <2>1, <2>2 DEF RowInv
  <2>6. used' = IF work[m].fresh THEN {} ELSE IF work[m].pc = "skip" THEN used \cup {work[m].slot} ELSE used
    BY <1>4 DEF Reschedule
  <2>7. Cardinality(sched.plan) \in Nat /\ Slots \in Nat
    BY RowNumbers, Numbers DEF Types
  <2>8. \A u \in used' : u \in Int /\ u < Slots - Cardinality(sched'.plan)
    <3>1. CASE work[m].fresh
      BY <2>6, <3>1
    <3>2. CASE ~work[m].fresh /\ work[m].pc = "reschedule"
      BY <2>1, <2>4, <2>5, <2>6, <2>7, <3>2
    <3>3. CASE ~work[m].fresh /\ work[m].pc = "skip"
      <4>1. Cardinality(work[m].plan) = Cardinality(sched.plan) - 1
        BY <2>4, <3>3
      <4>2. used' = used \cup {work[m].slot} /\ work[m].slot = Slots - Cardinality(sched.plan)
        BY <2>4, <2>6, <3>3
      <4> QED
        BY <2>1, <2>5, <2>7, <4>1, <4>2
    <3> QED
      BY <1>2, <3>1, <3>2, <3>3
  <2>9. RowInv'
    BY <1>1, <1>2, <2>1, <2>3, <2>8, RowConsumed
  <2>10. \A n \in Manager \ {m} : SnapshotOK(work[n])' /\ ExtendedOK(n)'
    BY <1>1, <1>2, <2>1, <2>3, RowAdvances
  <2>11. ~Extended(m)' /\ DraftOK(work[m])' /\ SnapshotOK(work[m])'
    BY <1>1, EndedIs, PlainRuns
  <2>12. Untouched' /\ upgraded'
    BY <1>2, RunningIsTouched, UpIsUpgraded
  <2>13. StartsSpaced' /\ (\A s \in starts' : s.at <= now) /\ ExtendedOK(m)'
    BY <1>2, <2>11 DEF QuietInv, StartsSpaced, ExtendedOK
  <2>14. QuietInv'
    BY <1>1, <1>2, <2>9, <2>10, <2>11, <2>12, <2>13, StepQuiet
  <2>15. work[m].pc = "skip" => work[m].slot \notin used
    BY <2>4, <2>5, <2>7
  <2> QED
    BY <2>14, <2>15
<1> QED
  BY <1>3, <1>4

LEMMA ClaimQuiet ==
    ASSUME QuietInv, Types, NEW m \in Manager, Claim(m)
    PROVE  /\ QuietInv'
           /\ Unchanged(work[m].exp) => work[m].slot \notin used
<1>1. /\ Types' /\ Others(m)
      /\ Unchanged(work[m].exp) =>
           /\ sched'.enabled /\ sched'.plan = work[m].plan
           /\ work'[m].pc = "claimed" /\ work'[m].plan = work[m].plan /\ work'[m].at = work[m].at
           /\ work'[m].out = work[m].out /\ work'[m].delay = work[m].delay
      /\ ~Unchanged(work[m].exp) => sched' = sched /\ used' = used /\ work'[m] = Idle
  BY ClaimIs
<1>2. UNCHANGED <<now, upgraded, admin, toggles, starts, cooling>> /\ work[m].pc = "claim"
  BY DEF Claim
<1>3. CASE ~Unchanged(work[m].exp)
  BY <1>1, <1>2, <1>3, EndQuiet
<1>4. CASE Unchanged(work[m].exp)
  <2>1. /\ sched.enabled /\ Min(sched.plan) = work[m].exp /\ sched'.enabled /\ sched'.plan = work[m].plan
        /\ work'[m].pc = "claimed" /\ work'[m].plan = work[m].plan /\ work'[m].at = work[m].at
        /\ work'[m].out = work[m].out /\ work'[m].delay = work[m].delay
    BY <1>1, <1>4 DEF Unchanged
  <2>2. DraftOK(work[m]) /\ SnapshotOK(work[m]) /\ RowInv
    BY DEF QuietInv
  <2>3. /\ Spaced(work[m].plan) /\ Cardinality(work[m].plan) <= Slots /\ work[m].exp < Min(work[m].plan)
        /\ work[m].exp <= work[m].at /\ work[m].at <= now /\ work[m].at + Gap <= Min(work[m].plan)
    BY <1>2, <2>2 DEF DraftOK
  <2>4. /\ work[m].slot = Slots - Cardinality(sched.plan)
        /\ ~work[m].fresh => Cardinality(work[m].plan) = Cardinality(sched.plan) - 1
    BY <1>2, <2>1, <2>2 DEF SnapshotOK
  <2>5. /\ \A u \in used : u \in Int /\ u < Slots - Cardinality(sched.plan)
        /\ \A s \in starts : s.at + Gap <= work[m].exp
        /\ cooling <= work[m].exp
    BY <2>1, <2>2 DEF RowInv
  <2>6. used' = IF work[m].fresh THEN {} ELSE used \cup {work[m].slot}
    BY <1>4 DEF Claim
  <2>7. /\ Cardinality(sched.plan) \in Nat /\ Slots \in Nat /\ now \in Nat /\ cooling \in Nat /\ Gap \in Nat
        /\ work[m].exp \in Nat /\ work[m].at \in Nat /\ Min(work[m].plan) \in Nat
        /\ \A s \in starts : s.at \in Nat
    BY <1>1, <2>1, RowNumbers, Numbers DEF Types
  <2>8. \A u \in used' : u \in Int /\ u < Slots - Cardinality(sched'.plan)
    <3>1. CASE work[m].fresh
      BY <2>6, <3>1
    <3>2. CASE ~work[m].fresh
      <4>1. Cardinality(work[m].plan) = Cardinality(sched.plan) - 1
        BY <2>4, <3>2
      <4>2. used' = used \cup {work[m].slot} /\ work[m].slot = Slots - Cardinality(sched.plan)
        BY <2>4, <2>6, <3>2
      <4> QED
        BY <2>1, <2>5, <2>7, <4>1, <4>2
    <3> QED
      BY <3>1, <3>2
  <2>9. RowInv'
    BY <1>1, <1>2, <2>1, <2>3, <2>8, RowConsumed
  <2>10. \A n \in Manager \ {m} : SnapshotOK(work[n])' /\ ExtendedOK(n)'
    BY <1>1, <1>2, <2>1, <2>3, RowAdvances
  <2>11. Untouched' /\ upgraded'
    BY <1>2, RunningIsTouched, UpIsUpgraded
  <2>12. DraftOK(work[m])' /\ SnapshotOK(work[m])'
    BY <1>2, <2>1, <2>2 DEF DraftOK, SnapshotOK
  <2>13. First(m)' = Min(work[m].plan)
    BY <2>1 DEF First
  <2>14. /\ \A s \in starts : s.at + Gap <= work[m].at
         /\ cooling <= work[m].at
    BY <2>3, <2>5, <2>7
  <2>15. ExtendedOK(m)'
    BY <1>2, <2>1, <2>3, <2>7, <2>13, <2>14 DEF ExtendedOK
  <2>16. ASSUME NEW n \in Manager \ {m}, Extended(n) PROVE Behind(n, m)'
    <3>1. First(n)' = First(n) /\ First(n) \in Nat
      BY <2>16, OthersAre, Numbers, <1>1
    <3>2. First(n) <= work[m].exp
      BY <2>1, <2>16 DEF QuietInv, ExtendedOK
    <3> QED
      BY <2>1, <2>3, <2>7, <2>13, <3>1, <3>2 DEF Behind
  <2>17. StartsSpaced' /\ \A s \in starts' : s.at <= now
    BY <1>2 DEF QuietInv, StartsSpaced
  <2>18. QuietInv'
    BY <1>1, <1>2, <2>9, <2>10, <2>11, <2>12, <2>15, <2>16, <2>17, StepQuiet
  <2>19. work[m].slot \notin used
    BY <2>4, <2>5, <2>7
  <2> QED
    BY <2>18, <2>19
<1> QED
  BY <1>3, <1>4

-----------------------------------------------------------------------------
(* Steps after the claim. *)

(* A start that keeps its distance from those before it. *)
LEMMA StartAdded ==
    ASSUME StartsSpaced, NEW m \in Manager, NEW t \in Nat, starts' = starts \cup {[by |-> m, at |-> t]},
           Gap \in Nat, \A s \in starts : s.at \in Nat, \A s \in starts : s.at + Gap <= t
    PROVE  StartsSpaced'
<1>1. ASSUME NEW a \in starts', NEW b \in starts', a # b PROVE a.at - b.at >= Gap \/ b.at - a.at >= Gap
  <2>1. CASE a \in starts /\ b \in starts
    BY <1>1, <2>1 DEF StartsSpaced
  <2>2. CASE a \notin starts
    <3>1. a.at = t /\ b \in starts
      BY <1>1, <2>2
    <3>2. b.at \in Nat /\ b.at + Gap <= t
      BY <3>1
    <3> QED
      BY <3>1, <3>2
  <2>3. CASE b \notin starts
    <3>1. b.at = t /\ a \in starts
      BY <1>1, <2>3
    <3>2. a.at \in Nat /\ a.at + Gap <= t
      BY <3>1
    <3> QED
      BY <3>1, <3>2
  <2> QED
    BY <2>1, <2>2, <2>3
<1> QED
  BY <1>1 DEF StartsSpaced

LEMMA StartRunQuiet ==
    ASSUME QuietInv, Types, NEW m \in Manager, StartRun(m)
    PROVE  QuietInv' /\ cooling <= now
<1>1. /\ Types' /\ Others(m)
      /\ work'[m].pc = "create" /\ work'[m].plan = work[m].plan /\ work'[m].at = now
      /\ work'[m].out = work[m].out /\ work'[m].delay = work[m].delay
      /\ starts' = starts \cup {[by |-> m, at |-> now]}
  BY StartRunIs
<1>2. /\ UNCHANGED <<now, sched, upgraded, admin, toggles, used, cooling>> /\ work[m].pc = "claimed"
      /\ ~(now > work[m].at /\ Min(work[m].plan) < now + Gap)
  BY DEF StartRun, NeedsCorrection
<1>3. Extended(m) /\ First(m) = Min(work[m].plan) /\ First(m)' = Min(work[m].plan)
  BY <1>1, <1>2 DEF Extended, First
<1>4. DraftOK(work[m]) /\ ExtendedOK(m) /\ RowInv
  BY DEF QuietInv
<1>5. /\ now \in Nat /\ cooling \in Nat /\ Gap \in Nat \ {0} /\ work[m].at \in Nat /\ Min(work[m].plan) \in Nat
      /\ \A s \in starts : s.at \in Nat
      /\ sched.enabled => Min(sched.plan) \in Nat
  BY <1>3, Numbers
<1>6. /\ work[m].at <= now /\ work[m].at + Gap <= Min(work[m].plan)
      /\ sched.enabled => Min(work[m].plan) <= Min(sched.plan)
      /\ \A s \in starts : s.at + Gap <= work[m].at \/ Min(work[m].plan) <= s.at
      /\ cooling <= work[m].at \/ (Min(work[m].plan) < cooling /\ Min(work[m].plan) <= now)
  BY <1>2, <1>3, <1>4 DEF ExtendedOK
<1>7. now + Gap <= Min(work[m].plan)
  BY <1>2, <1>5, <1>6
<1>8. \A s \in starts : s.at <= now
  BY DEF QuietInv
<1>9. \A s \in starts : s.at + Gap <= now
  <2> TAKE s \in starts
  <2>1. s.at <= now /\ s.at \in Nat /\ (s.at + Gap <= work[m].at \/ Min(work[m].plan) <= s.at)
    BY <1>5, <1>6, <1>8
  <2> QED
    BY <1>5, <1>6, <1>7, <2>1
<1>10. cooling <= now
  BY <1>5, <1>6, <1>7
<1>11. StartsSpaced'
  BY <1>1, <1>5, <1>9, StartAdded DEF QuietInv
<1>12. \A s \in starts' : s.at <= now /\ (s \in starts \/ s.at = now)
  BY <1>1, <1>5, <1>8
<1>13. RowInv'
  <2> SUFFICES ASSUME sched.enabled PROVE \A s \in starts' : s.at + Gap <= Min(sched.plan)
    BY <1>2, <1>4 DEF RowInv
  <2>1. now + Gap <= Min(sched.plan)
    BY <1>5, <1>6, <1>7
  <2> QED
    BY <1>4, <1>12, <2>1 DEF RowInv
<1>14. Untouched' /\ upgraded'
  BY <1>2, RunningIsTouched, UpIsUpgraded
<1>15. DraftOK(work[m])' /\ SnapshotOK(work[m])' /\ ExtendedOK(m)'
  BY <1>1, <1>2, <1>3, <1>4, <1>5, <1>6, <1>7 DEF DraftOK, SnapshotOK, ExtendedOK
<1>16. ASSUME NEW n \in Manager \ {m}
       PROVE  /\ SnapshotOK(work[n])' /\ ExtendedOK(n)'
              /\ Extended(n) => Behind(m, n)' \/ Behind(n, m)'
  <2>1. work'[n] = work[n] /\ Extended(n)' = Extended(n) /\ First(n)' = First(n)
    BY <1>1, OthersAre
  <2>2. SnapshotOK(work[n]) /\ ExtendedOK(n)
    BY DEF QuietInv
  <2>3. SnapshotOK(work[n])'
    BY <1>2, <2>1, <2>2 DEF SnapshotOK
  <2>4. Extended(n) => First(n) \in Nat /\ work[n].at \in Nat
    BY Numbers
  <2>5. Extended(n) => Behind(m, n) \/ Behind(n, m)
    BY <1>3 DEF QuietInv
  <2>6. Extended(n) => Behind(m, n)' \/ Behind(n, m)'
    BY <1>1, <1>3, <1>5, <1>6, <2>1, <2>4, <2>5 DEF Behind
  <2>7. ExtendedOK(n)'
    <3> SUFFICES ASSUME Extended(n), work[n].pc \in {"claimed", "correct"}
                 PROVE  \A s \in starts' : s.at + Gap <= work[n].at \/ First(n) <= s.at
      BY <1>2, <2>1, <2>2 DEF ExtendedOK
    <3>1. now + Gap <= work[n].at \/ First(n) <= now
      BY <1>3, <1>5, <1>6, <1>7, <2>4, <2>5 DEF Behind
    <3> QED
      BY <1>12, <2>2, <3>1 DEF ExtendedOK
  <2> QED
    BY <2>3, <2>6, <2>7
<1>17. QuietInv'
  BY <1>1, <1>2, <1>11, <1>12, <1>13, <1>14, <1>15, <1>16, StepQuiet
<1> QED
  BY <1>10, <1>17

LEMMA PrepareCorrectionQuiet ==
    ASSUME QuietInv, Types, NEW m \in Manager, PrepareCorrection(m) PROVE QuietInv'
<1>1. /\ Types' /\ Others(m)
      /\ work'[m].pc = "correct" /\ work'[m].at = now /\ work'[m].exp = Min(work[m].plan)
      /\ now + Gap <= Min(work'[m].plan) /\ Min(work[m].plan) < Min(work'[m].plan)
      /\ Cardinality(work'[m].plan) = Cardinality(work[m].plan) /\ (Spaced(work[m].plan) => Spaced(work'[m].plan))
      /\ work'[m].out = work[m].out /\ work'[m].delay = work[m].delay
  BY PrepareCorrectionIs
<1>2. UNCHANGED <<now, sched, upgraded, admin, toggles, starts, used, cooling>> /\ work[m].pc = "claimed"
  BY DEF PrepareCorrection, hist
<1>3. Extended(m) /\ First(m) = Min(work[m].plan) /\ First(m)' = First(m)
  BY <1>1, <1>2 DEF Extended, First
<1>4. DraftOK(work[m]) /\ ExtendedOK(m)
  BY DEF QuietInv
<1>5. /\ now \in Nat /\ cooling \in Nat /\ Gap \in Nat /\ work[m].at \in Nat /\ First(m) \in Nat
      /\ \A s \in starts : s.at \in Nat
  BY <1>3, Numbers
<1>6. /\ work[m].at <= now
      /\ sched.enabled => First(m) <= Min(sched.plan)
      /\ sched.enabled /\ First(m) = Min(sched.plan) => Cardinality(sched.plan) = Cardinality(work[m].plan)
      /\ Spaced(work[m].plan) /\ Cardinality(work[m].plan) <= Slots
      /\ \A s \in starts : s.at + Gap <= work[m].at \/ First(m) <= s.at
      /\ cooling <= work[m].at \/ (First(m) < cooling /\ First(m) <= now)
  BY <1>2, <1>3, <1>4 DEF ExtendedOK
<1>7. /\ \A s \in starts : s.at + Gap <= now \/ First(m) <= s.at
      /\ cooling <= now \/ (First(m) < cooling /\ First(m) <= now)
  <2>1. ASSUME NEW s \in starts PROVE s.at + Gap <= now \/ First(m) <= s.at
    <3>1. s.at \in Nat /\ (s.at + Gap <= work[m].at \/ First(m) <= s.at)
      BY <1>5, <1>6
    <3> QED
      BY <1>5, <1>6, <3>1
  <2> QED
    BY <1>5, <1>6, <2>1
<1>8. ExtendedOK(m)'
  BY <1>1, <1>2, <1>3, <1>5, <1>6, <1>7 DEF ExtendedOK
<1>9. DraftOK(work[m])' /\ SnapshotOK(work[m])'
  BY <1>1, <1>2, <1>4, <1>6 DEF DraftOK, SnapshotOK
<1>10. RowInv' /\ StartsSpaced' /\ \A s \in starts' : s.at <= now
  BY <1>1, <1>2, OthersUnmoved
<1>11. \A n \in Manager \ {m} : SnapshotOK(work[n])' /\ ExtendedOK(n)'
  BY <1>1, <1>2, OthersUnmoved
<1>12. Untouched' /\ upgraded'
  BY <1>2, RunningIsTouched, UpIsUpgraded
<1>13. ASSUME NEW n \in Manager \ {m}, Extended(n) PROVE Behind(m, n)' \/ Behind(n, m)'
  <2>1. work'[n] = work[n] /\ First(n)' = First(n) /\ First(n) \in Nat
    BY <1>1, <1>13, OthersAre, Numbers
  <2>2. Behind(m, n) \/ Behind(n, m)
    BY <1>3, <1>13 DEF QuietInv
  <2> QED
    BY <1>1, <1>3, <1>5, <1>6, <2>1, <2>2 DEF Behind
<1> QED
  BY <1>1, <1>2, <1>8, <1>9, <1>10, <1>11, <1>12, <1>13, StepQuiet

LEMMA CorrectPlanQuiet ==
    ASSUME QuietInv, Types, NEW m \in Manager, CorrectPlan(m)
    PROVE  QuietInv' /\ (Unchanged(work[m].exp) => cooling <= work[m].at)
<1>1. /\ Types' /\ Others(m)
      /\ Unchanged(work[m].exp) =>
           /\ sched'.enabled /\ sched'.plan = work[m].plan
           /\ work'[m].pc = "create" /\ work'[m].plan = work[m].plan /\ work'[m].at = work[m].at
           /\ work'[m].out = work[m].out /\ work'[m].delay = work[m].delay
           /\ starts' = starts \cup {[by |-> m, at |-> work[m].at]}
      /\ ~Unchanged(work[m].exp) =>
           /\ sched' = sched /\ starts' = starts
           /\ work'[m].pc = "record" /\ work'[m].plan = {} /\ work'[m].out = "conflict"
  BY CorrectPlanIs
<1>2. UNCHANGED <<now, upgraded, admin, toggles, used, cooling>> /\ work[m].pc = "correct"
  BY DEF CorrectPlan
<1>3. CASE ~Unchanged(work[m].exp)
  BY <1>1, <1>2, <1>3, EndQuiet
<1>4. CASE Unchanged(work[m].exp)
  <2>1. /\ sched.enabled /\ Min(sched.plan) = work[m].exp /\ sched'.enabled /\ sched'.plan = work[m].plan
        /\ work'[m].pc = "create" /\ work'[m].plan = work[m].plan /\ work'[m].at = work[m].at
        /\ work'[m].out = work[m].out /\ work'[m].delay = work[m].delay
        /\ starts' = starts \cup {[by |-> m, at |-> work[m].at]}
    BY <1>1, <1>4 DEF Unchanged
  <2>2. DraftOK(work[m]) /\ ExtendedOK(m) /\ RowInv /\ StartsSpaced
    BY DEF QuietInv
  <2>3. Extended(m) /\ First(m) = work[m].exp /\ First(m)' = Min(work[m].plan)
    BY <1>2, <2>1 DEF Extended, First
  <2>4. /\ now \in Nat /\ cooling \in Nat /\ Gap \in Nat \ {0} /\ Slots \in Nat /\ work[m].at \in Nat /\ work[m].exp \in Nat
        /\ Min(work[m].plan) \in Nat /\ \A s \in starts : s.at \in Nat
    BY <2>3, Numbers
  <2>5. /\ work[m].at <= now /\ work[m].at + Gap <= Min(work[m].plan) /\ work[m].exp < Min(work[m].plan)
        /\ Cardinality(sched.plan) = Cardinality(work[m].plan)
        /\ Spaced(work[m].plan) /\ Cardinality(work[m].plan) <= Slots
        /\ \A s \in starts : s.at + Gap <= work[m].at \/ work[m].exp <= s.at
        /\ cooling <= work[m].at \/ work[m].exp < cooling
    BY <1>2, <2>1, <2>2, <2>3 DEF ExtendedOK, DraftOK
  <2>6. /\ \A u \in used : u \in Int /\ u < Slots - Cardinality(sched.plan)
        /\ \A s \in starts : s.at + Gap <= work[m].exp
        /\ cooling <= work[m].exp
    BY <2>1, <2>2 DEF RowInv
  <2>7. cooling <= work[m].at
    BY <2>4, <2>5, <2>6
  <2>8. \A s \in starts : s.at + Gap <= work[m].at
    <3> TAKE s \in starts
    <3>1. s.at \in Nat /\ s.at + Gap <= work[m].exp /\ (s.at + Gap <= work[m].at \/ work[m].exp <= s.at)
      BY <2>4, <2>5, <2>6
    <3> QED
      BY <2>4, <3>1
  <2>9. StartsSpaced'
    BY <2>1, <2>2, <2>4, <2>8, StartAdded
  <2>10. \A s \in starts' : s.at <= now /\ s.at + Gap <= Min(sched'.plan)
    <3>1. ASSUME NEW s \in starts PROVE s.at <= now /\ s.at + Gap <= Min(work[m].plan)
      <4>1. s.at \in Nat /\ s.at + Gap <= work[m].at
        BY <2>4, <2>8
      <4> QED
        BY <2>4, <2>5, <4>1
    <3> QED
      BY <2>1, <2>5, <3>1
  <2>11. RowInv'
    <3>1. cooling' <= Min(sched'.plan)
      BY <1>2, <2>1, <2>4, <2>5, <2>6
    <3> QED
      BY <1>2, <2>1, <2>5, <2>6, <2>10, <3>1 DEF RowInv
  <2>12. ASSUME NEW n \in Manager \ {m}
         PROVE  /\ work[n].pc \in {"listed", "reschedule", "skip", "claim"} => work[n].exp < Min(sched'.plan)
                /\ Extended(n) => First(n) < Min(sched'.plan) /\ Behind(n, m)'
                /\ work[n].pc \in {"claimed", "correct"} =>
                     /\ \A s \in starts' : s.at + Gap <= work[n].at \/ First(n) <= s.at
                     /\ cooling' <= work[n].at \/ (First(n) < cooling' /\ First(n) <= now)
    <3>1. work'[n] = work[n] /\ Extended(n)' = Extended(n) /\ First(n)' = First(n)
      BY <1>1, OthersAre
    <3>2. SnapshotOK(work[n]) /\ ExtendedOK(n)
      BY DEF QuietInv
    <3>3. work[n].exp \in Nat /\ work[n].at \in Nat /\ (Extended(n) => First(n) \in Nat)
      BY Numbers
    <3>4. work[n].pc \in {"listed", "reschedule", "skip", "claim"} => work[n].exp < Min(sched'.plan)
      BY <2>1, <2>4, <2>5, <3>2, <3>3 DEF SnapshotOK
    <3>5. Extended(n) => First(n) <= work[m].exp
      BY <2>1, <3>2 DEF ExtendedOK
    <3>6. Extended(n) => First(n) <= work[m].at /\ First(n) < work[m].exp
      <4>1. Extended(n) => Behind(m, n) \/ Behind(n, m)
        BY <2>3 DEF QuietInv
      <4> QED
        BY <2>3, <2>4, <3>3, <3>5, <4>1 DEF Behind
    <3>7. Extended(n) => First(n) < Min(sched'.plan) /\ Behind(n, m)'
      BY <2>1, <2>3, <2>4, <2>5, <3>1, <3>3, <3>6 DEF Behind
    <3>8. work[n].pc \in {"claimed", "correct"} => Extended(n)
      BY DEF Extended
    <3>9. work[n].pc \in {"claimed", "correct"} =>
            /\ \A s \in starts' : s.at + Gap <= work[n].at \/ First(n) <= s.at
            /\ cooling' <= work[n].at \/ (First(n) < cooling' /\ First(n) <= now)
      BY <1>2, <2>1, <3>2, <3>6, <3>8 DEF ExtendedOK
    <3> QED
      BY <3>4, <3>7, <3>9
  <2>13. \A n \in Manager \ {m} : SnapshotOK(work[n])' /\ ExtendedOK(n)'
    BY <1>1, <1>2, <2>12, OthersMoved
  <2>14. Untouched' /\ upgraded'
    BY <1>2, RunningIsTouched, UpIsUpgraded
  <2>15. DraftOK(work[m])' /\ SnapshotOK(work[m])' /\ ExtendedOK(m)'
    BY <1>2, <2>1, <2>2, <2>3, <2>4, <2>5 DEF DraftOK, SnapshotOK, ExtendedOK
  <2>16. QuietInv'
    BY <1>1, <1>2, <2>9, <2>10, <2>11, <2>12, <2>13, <2>14, <2>15, StepQuiet
  <2> QED
    BY <2>7, <2>16
<1> QED
  BY <1>3, <1>4

LEMMA CoolDownQuiet ==
    ASSUME QuietInv, Types, NEW m \in Manager, CoolDown(m) PROVE QuietInv'
<1>1. /\ Types' /\ Others(m) /\ sched'.enabled = sched.enabled
      /\ work'[m].pc \in {"switch", "idle"} /\ work'[m].out = "none"
      /\ Unchanged(Min(work[m].plan)) =>
           /\ Min(sched'.plan) = now + work[m].delay /\ cooling' = now + work[m].delay /\ used' = {}
           /\ Spaced(sched'.plan) /\ Cardinality(sched'.plan) <= Slots
      /\ ~Unchanged(Min(work[m].plan)) => sched' = sched /\ used' = used /\ cooling' = cooling
  BY CoolDownIs
<1>2. UNCHANGED <<now, upgraded, admin, toggles, starts>> /\ work[m].pc = "cool"
  BY DEF CoolDown
<1>3. CASE ~Unchanged(Min(work[m].plan))
  BY <1>1, <1>2, <1>3, EndQuiet
<1>4. CASE Unchanged(Min(work[m].plan))
  <2>1. /\ sched.enabled /\ Min(sched.plan) = Min(work[m].plan) /\ sched'.enabled
        /\ Min(sched'.plan) = now + work[m].delay /\ cooling' = now + work[m].delay /\ used' = {}
        /\ Spaced(sched'.plan) /\ Cardinality(sched'.plan) <= Slots
    BY <1>1, <1>4 DEF Unchanged
  <2>2. DraftOK(work[m]) /\ ExtendedOK(m)
    BY DEF QuietInv
  <2>3. work[m].plan # {}
    BY <1>2 DEF Types, WorkOK, Holding
  <2>4. Extended(m) /\ First(m) = Min(work[m].plan)
    BY <1>2, <2>3 DEF Extended, First
  <2>5. /\ now \in Nat /\ Gap \in Nat \ {0} /\ work[m].at \in Nat /\ work[m].delay \in Nat
        /\ Min(work[m].plan) \in Nat /\ \A s \in starts : s.at \in Nat
    BY <2>4, Numbers
  <2>6. work[m].delay >= Gap /\ work[m].at <= now
    BY <1>2, <2>2, <2>4 DEF DraftOK, ExtendedOK
  <2>7. \A s \in starts : s.at <= now
    BY DEF QuietInv
  <2>8. RowInv'
    <3>1. \A s \in starts' : s.at + Gap <= Min(sched'.plan)
      <4> TAKE s \in starts'
      <4>1. s.at \in Nat /\ s.at <= now
        BY <1>2, <2>5, <2>7
      <4> QED
        BY <2>1, <2>5, <2>6, <4>1
    <3>2. cooling' <= Min(sched'.plan)
      BY <2>1, <2>5
    <3> QED
      BY <2>1, <3>1, <3>2 DEF RowInv
  <2>9. ASSUME NEW n \in Manager \ {m}
        PROVE  /\ work[n].pc \in {"listed", "reschedule", "skip", "claim"} => work[n].exp < Min(sched'.plan)
               /\ Extended(n) => First(n) < Min(sched'.plan)
               /\ work[n].pc \in {"claimed", "correct"} =>
                    /\ \A s \in starts' : s.at + Gap <= work[n].at \/ First(n) <= s.at
                    /\ cooling' <= work[n].at \/ (First(n) < cooling' /\ First(n) <= now)
    <3>1. DraftOK(work[n]) /\ ExtendedOK(n)
      BY DEF QuietInv
    <3>2. work[n].exp \in Nat /\ work[n].at \in Nat /\ (Extended(n) => First(n) \in Nat)
      BY Numbers
    <3>3. work[n].pc \in {"listed", "reschedule", "skip", "claim"} => work[n].exp <= now
      BY <3>1 DEF DraftOK, Types, WorkOK
    <3>4. Extended(n) => First(n) <= now
      <4>1. Extended(n) => First(n) <= First(m)
        BY <2>1, <2>4, <3>1 DEF ExtendedOK
      <4>2. Extended(n) => Behind(m, n) \/ Behind(n, m)
        BY <2>4 DEF QuietInv
      <4> QED
        BY <2>4, <2>5, <2>6, <3>2, <4>1, <4>2 DEF Behind
    <3>5. work[n].pc \in {"claimed", "correct"} => Extended(n)
      BY DEF Extended
    <3>6. Extended(n) => First(n) < now + work[m].delay
      BY <2>5, <2>6, <3>2, <3>4
    <3>7. work[n].pc \in {"listed", "reschedule", "skip", "claim"} => work[n].exp < now + work[m].delay
      BY <2>5, <2>6, <3>2, <3>3
    <3>8. work[n].pc \in {"claimed", "correct"} =>
            \A s \in starts' : s.at + Gap <= work[n].at \/ First(n) <= s.at
      BY <1>2, <3>1, <3>5 DEF ExtendedOK
    <3> QED
      BY <2>1, <3>4, <3>5, <3>6, <3>7, <3>8
  <2>10. \A n \in Manager \ {m} : SnapshotOK(work[n])' /\ ExtendedOK(n)'
    BY <1>1, <1>2, <2>9, OthersMoved
  <2>11. ~Extended(m)' /\ DraftOK(work[m])' /\ SnapshotOK(work[m])'
    BY <1>1, EndedIs
  <2>12. Untouched' /\ upgraded'
    BY <1>2, RunningIsTouched, UpIsUpgraded
  <2>13. StartsSpaced' /\ (\A s \in starts' : s.at <= now) /\ ExtendedOK(m)'
    BY <1>2, <2>11 DEF QuietInv, StartsSpaced, ExtendedOK
  <2> QED
    BY <1>1, <1>2, <2>8, <2>10, <2>11, <2>12, <2>13, StepQuiet
<1> QED
  BY <1>3, <1>4

-----------------------------------------------------------------------------
(* The end of an opt-in, restarts, the operator and time. *)

LEMMA SwitchOffQuiet ==
    ASSUME QuietInv, Types, NEW m \in Manager, SwitchOff(m) PROVE QuietInv'
<1>1. Types' /\ Others(m) /\ work'[m] = Idle /\ ~sched'.enabled
  BY SwitchOffIs
<1>2. UNCHANGED <<now, upgraded, admin, toggles, starts, used, cooling>> /\ work[m].pc = "switch"
  BY DEF SwitchOff, hist
<1>3. ~Extended(m)' /\ DraftOK(work[m])' /\ SnapshotOK(work[m])'
  BY <1>1, EndedIs, PlainRuns
<1>4. ASSUME NEW n \in Manager \ {m} PROVE SnapshotOK(work[n])' /\ ExtendedOK(n)'
  <2>1. work'[n] = work[n] /\ Extended(n)' = Extended(n) /\ First(n)' = First(n)
    BY <1>1, OthersAre
  <2>2. ExtendedOK(n)
    BY DEF QuietInv
  <2> QED
    BY <1>1, <1>2, <2>1, <2>2 DEF SnapshotOK, ExtendedOK
<1>5. Untouched' /\ upgraded'
  BY <1>2, RunningIsTouched, UpIsUpgraded
<1>6. RowInv' /\ StartsSpaced' /\ (\A s \in starts' : s.at <= now) /\ ExtendedOK(m)'
  BY <1>1, <1>2, <1>3 DEF QuietInv, RowInv, StartsSpaced, ExtendedOK
<1> QED
  BY <1>1, <1>2, <1>3, <1>4, <1>5, <1>6, StepQuiet

LEMMA CrashQuiet ==
    ASSUME QuietInv, Types, NEW m \in Manager, Crash(m) PROVE QuietInv'
<1>1. Types' /\ Others(m) /\ work'[m] = Down
  BY CrashIs
<1>2. UNCHANGED <<now, sched, upgraded, admin, toggles, starts, used, cooling>> /\ work[m].pc # "down"
  BY DEF Crash, hist
<1>3. ~Extended(m)' /\ DraftOK(work[m])' /\ SnapshotOK(work[m])'
  BY <1>1, EndedIs, PlainRuns
<1>4. Untouched' /\ upgraded'
  BY <1>1, <1>2, PlainRuns, UpIsUpgraded DEF QuietInv, Untouched, Others
<1> QED
  BY <1>1, <1>2, <1>3, <1>4, OutsideQuiet

LEMMA BootQuiet ==
    ASSUME QuietInv, Types, NEW m \in Manager, Boot(m) PROVE QuietInv'
<1>1. /\ Types' /\ Others(m) /\ work'[m] = Idle /\ sched'.enabled = sched.enabled
      /\ ~upgraded /\ sched.enabled =>
           /\ Spaced(sched'.plan) /\ Cardinality(sched'.plan) <= Slots /\ used' = {}
           /\ now + Gap <= Min(sched'.plan)
           /\ cooling' = 0 \/ (cooling' = cooling /\ Min(sched.plan) <= Min(sched'.plan))
      /\ ~(~upgraded /\ sched.enabled) => sched' = sched /\ used' = used /\ cooling' = cooling
  BY BootIs
<1>2. UNCHANGED <<now, admin, toggles, starts>> /\ work[m].pc = "down" /\ upgraded'
  BY DEF Boot
<1>3. ~Extended(m)' /\ DraftOK(work[m])' /\ SnapshotOK(work[m])'
  BY <1>1, EndedIs, PlainRuns
<1>4. Untouched'
  BY <1>1, <1>2, PlainRuns DEF QuietInv, Untouched, Others
<1>5. CASE ~(~upgraded /\ sched.enabled)
  BY <1>1, <1>2, <1>3, <1>4, <1>5, OutsideQuiet
<1>6. CASE ~upgraded /\ sched.enabled
  <2>1. \A n \in Manager : work[n].pc = "down"
    BY <1>6 DEF QuietInv
  <2>2. ASSUME NEW n \in Manager \ {m} PROVE SnapshotOK(work[n])' /\ ExtendedOK(n)' /\ ~Extended(n)
    <3>1. work'[n] = work[n] /\ Extended(n)' = Extended(n) /\ ~Extended(n)
      BY <1>1, <2>1, OthersAre DEF Extended
    <3> QED
      BY <2>1, <3>1 DEF SnapshotOK, ExtendedOK
  <2>3. /\ now \in Nat /\ cooling \in Nat /\ Gap \in Nat /\ Min(sched.plan) \in Nat /\ Min(sched'.plan) \in Nat
        /\ \A s \in starts : s.at \in Nat
    BY <1>1, <1>6, Numbers, RowNumbers DEF Types
  <2>4. cooling <= Min(sched.plan) /\ \A s \in starts : s.at <= now
    BY <1>6 DEF QuietInv, RowInv
  <2>5. RowInv'
    <3>1. \A s \in starts' : s.at + Gap <= Min(sched'.plan)
      <4> TAKE s \in starts'
      <4>1. s.at \in Nat /\ s.at <= now
        BY <1>2, <2>3, <2>4
      <4> QED
        BY <1>1, <1>6, <2>3, <4>1
    <3>2. cooling' <= Min(sched'.plan)
      BY <1>1, <1>6, <2>3, <2>4
    <3> QED
      BY <1>1, <1>6, <3>1, <3>2 DEF RowInv
  <2>6. StartsSpaced' /\ (\A s \in starts' : s.at <= now) /\ ExtendedOK(m)'
    BY <1>2, <1>3 DEF QuietInv, StartsSpaced, ExtendedOK
  <2> QED
    BY <1>1, <1>2, <1>3, <1>4, <2>2, <2>5, <2>6, StepQuiet
<1> QED
  BY <1>5, <1>6

(* A step that leaves the managers, the row and the clock alone. *)
LEMMA StillQuiet ==
    ASSUME QuietInv, UNCHANGED <<now, sched, work, starts, used, cooling>>, Untouched',
           ~upgraded' => \A m \in Manager : work[m].pc = "down"
    PROVE  QuietInv'
<1>1. RowInv' /\ StartsSpaced' /\ (\A s \in starts' : s.at <= now')
  BY DEF QuietInv, RowInv, StartsSpaced
<1>2. \A m \in Manager : DraftOK(work[m])' /\ SnapshotOK(work[m])' /\ ExtendedOK(m)'
  <2> TAKE m \in Manager
  <2>1. DraftOK(work[m]) /\ SnapshotOK(work[m]) /\ ExtendedOK(m)
    BY DEF QuietInv
  <2>2. Extended(m)' = Extended(m) /\ First(m)' = First(m)
    BY DEF Extended, First
  <2> QED
    BY <2>1, <2>2 DEF DraftOK, SnapshotOK, ExtendedOK
<1>3. \A m, n \in Manager : m # n /\ Extended(m)' /\ Extended(n)' => Behind(m, n)' \/ Behind(n, m)'
  BY DEF QuietInv, Behind, Extended, First
<1> QED
  BY <1>1, <1>2, <1>3 DEF QuietInv

LEMMA OperatorQuiet ==
    ASSUME QuietInv, Types, toggles' <= 1, RequestSwitch \/ Enable \/ Disable \/ Install \/ Tick
    PROVE  QuietInv'
<1>1. /\ toggles \in Nat /\ now \in Nat /\ SchedOK(sched) /\ admin \in [pc : {"idle", "write"}, on : BOOLEAN, at : Nat]
      /\ Gap \in Nat /\ Slots \in Nat
  BY AutoCreateAssumption DEF Types
<1>2. CASE RequestSwitch
  <2>1. toggles = 0
    BY <1>1, <1>2 DEF RequestSwitch
  <2> QED
    BY <1>2, <2>1, StillQuiet DEF RequestSwitch, QuietInv, Untouched, hist
<1>3. CASE Enable \/ Disable
  <2>1. ~sched.enabled /\ starts = {} /\ (\A m \in Manager : work[m].pc \in {"idle", "down"}) /\ toggles # 0
    BY <1>3 DEF Enable, Disable, QuietInv, Untouched, Types
  <2>2. UNCHANGED <<now, upgraded, work, toggles, starts>> /\ admin' = NoRequest
    BY <1>3 DEF Enable, Disable, hist
  <2>3. NoRequest.pc = "idle"
    BY DEF NoRequest
  <2>4. Untouched'
    BY <2>1, <2>2, <2>3 DEF Untouched
  <2>5. RowInv'
    <3>1. CASE Disable
      BY <1>1, <3>1, DisabledIs DEF Disable, RowInv
    <3>2. CASE Enable
      <4>1. PICK P \in NewPlans(admin.at) : sched' = [sched EXCEPT !.enabled = TRUE, !.plan = P, !.err = "none"]
        BY <3>2 DEF Enable
      <4>2. admin.at \in Nat /\ admin.at \in Int /\ 0 <= admin.at + Gap
        BY <1>1
      <4>3. P \in Plans /\ P # {} /\ Cardinality(P) = Slots /\ Spaced(P)
        BY <4>1, <4>2, NewPlanIs
      <4>4. sched'.plan = P /\ Min(P) \in Nat
        BY <1>1, <4>1, <4>3, MinIs DEF SchedOK, Plans
      <4>5. used' = {} /\ cooling' = 0
        BY <3>2 DEF Enable
      <4> QED
        BY <1>1, <2>1, <2>2, <4>3, <4>4, <4>5 DEF RowInv
    <3> QED
      BY <1>3, <3>1, <3>2
  <2>6. \A m \in Manager : work[m]' = work[m] /\ ~Extended(m)'
    BY <2>1, <2>2 DEF Extended
  <2>7. \A m \in Manager : DraftOK(work[m])' /\ SnapshotOK(work[m])' /\ ExtendedOK(m)'
    <3> TAKE m \in Manager
    <3>1. DraftOK(work[m])
      BY DEF QuietInv
    <3> QED
      BY <2>1, <2>2, <2>6, <3>1 DEF DraftOK, SnapshotOK, ExtendedOK
  <2>8. StartsSpaced' /\ (\A s \in starts' : s.at <= now') /\ (~upgraded' => \A m \in Manager : work'[m].pc = "down")
    BY <2>1, <2>2 DEF QuietInv, StartsSpaced
  <2> QED
    BY <2>4, <2>5, <2>6, <2>7, <2>8 DEF QuietInv
<1>4. CASE Install
  BY <1>4, StillQuiet DEF Install, QuietInv, Untouched, hist
<1>5. CASE Tick
  <2>1. UNCHANGED <<sched, upgraded, work, admin, toggles, starts, used, cooling>> /\ now' = now + 1
    BY <1>5 DEF Tick, hist
  <2>2. Untouched' /\ RowInv' /\ StartsSpaced' /\ (~upgraded' => \A m \in Manager : work'[m].pc = "down")
    BY <2>1 DEF QuietInv, Untouched, RowInv, StartsSpaced
  <2>3. \A s \in starts' : s.at <= now'
    <3> TAKE s \in starts'
    <3>1. s.at \in Nat /\ s.at <= now
      BY <2>1, Numbers DEF QuietInv
    <3> QED
      BY <1>1, <2>1, <3>1
  <2>4. \A m \in Manager : DraftOK(work[m])' /\ SnapshotOK(work[m])' /\ ExtendedOK(m)'
    <3> TAKE m \in Manager
    <3>1. DraftOK(work[m]) /\ SnapshotOK(work[m]) /\ ExtendedOK(m)
      BY DEF QuietInv
    <3>2. Extended(m)' = Extended(m) /\ First(m)' = First(m)
      BY <2>1 DEF Extended, First
    <3>3. work[m].at \in Nat /\ work[m].exp \in Nat /\ (Extended(m) => First(m) \in Nat)
      BY Numbers
    <3>4. DraftOK(work[m])'
      BY <1>1, <2>1, <3>1, <3>3 DEF DraftOK
    <3>5. SnapshotOK(work[m])'
      BY <2>1, <3>1 DEF SnapshotOK
    <3>6. ExtendedOK(m)'
      BY <1>1, <2>1, <3>1, <3>2, <3>3 DEF ExtendedOK
    <3> QED
      BY <3>4, <3>5, <3>6
  <2>5. \A m, n \in Manager : m # n /\ Extended(m)' /\ Extended(n)' => Behind(m, n)' \/ Behind(n, m)'
    BY <2>1 DEF QuietInv, Behind, Extended, First
  <2> QED
    BY <2>2, <2>3, <2>4, <2>5 DEF QuietInv
<1> QED
  BY <1>2, <1>3, <1>4, <1>5

-----------------------------------------------------------------------------
(* What is proved of the runs. *)

(* Until creation is switched on a second time. *)
Quiet == toggles <= 1 => QuietInv

LEMMA QuietInitially == Init => Quiet
<1> SUFFICES ASSUME Init PROVE QuietInv
  BY DEF Quiet
<1>1. sched.enabled = FALSE /\ starts = {} /\ upgraded = TRUE /\ \A m \in Manager : work[m] = Idle
  BY DEF Init, InitWith
<1>2. \A m \in Manager : work[m].pc = "idle" /\ work[m].out = "none"
  BY <1>1, PlainRuns
<1>3. \A m \in Manager : ~Extended(m) /\ DraftOK(work[m]) /\ SnapshotOK(work[m]) /\ ExtendedOK(m)
  BY <1>1, <1>2 DEF Extended, DraftOK, SnapshotOK, ExtendedOK
<1> QED
  BY <1>1, <1>2, <1>3 DEF QuietInv, Untouched, RowInv, StartsSpaced

LEMMA RunQuiet ==
    ASSUME QuietInv, Types, NEW m \in Manager, RunNext(m) \/ Crash(m) \/ Boot(m)
    PROVE  QuietInv'
<1>1. CASE PoolFull(m)
  <2>1. Others(m) /\ work'[m] = Idle
    BY <1>1, PoolFullIs
  <2> QED
    BY <1>1, <2>1, EndQuiet DEF PoolFull, hist
<1>2. CASE ~PoolFull(m)
  BY <1>2, ListDueQuiet, RescheduleOverdueQuiet, RescheduleTooSoonQuiet, PrepareClaimQuiet, RescheduleQuiet,
     ClaimQuiet, StartRunQuiet, PrepareCorrectionQuiet, CorrectPlanQuiet, ContinuingSteps, RecordResultQuiet,
     CoolDownQuiet, SwitchOffQuiet, CrashQuiet, BootQuiet DEF RunNext
<1> QED
  BY <1>1, <1>2

LEMMA TogglesGrow == Types /\ [Next]_vars => toggles <= toggles'
<1> SUFFICES ASSUME Types, [Next]_vars PROVE toggles <= toggles'
  OBVIOUS
<1>1. toggles' = toggles \/ toggles' = toggles + 1
  BY DEF Next, RunNext, vars, ListDue, RescheduleOverdue, RescheduleTooSoon, PrepareClaim, Reschedule, Claim,
     PoolFull, StartRun, PrepareCorrection, CorrectPlan, ChargeAttempt, RefuseAttempt, ConfirmInstead, Answer,
     PauseLedger, RecordResult, CoolDown, SwitchOff, Crash, Boot, RequestSwitch, Enable, Disable, Install, Tick
<1> QED
  BY <1>1 DEF Types

LEMMA QuietKept == Types /\ Quiet /\ [Next]_vars => Quiet'
<1> SUFFICES ASSUME Types, Quiet, [Next]_vars, toggles' <= 1 PROVE QuietInv'
  BY DEF Quiet
<1>1. QuietInv
  <2>1. toggles <= toggles' /\ toggles \in Nat
    BY TogglesGrow DEF Types
  <2>2. toggles' \in Nat
    BY TypesKept DEF Types
  <2> QED
    BY <2>1, <2>2 DEF Quiet
<1>2. CASE UNCHANGED vars
  BY <1>1, <1>2, StillQuiet DEF vars, hist, QuietInv, Untouched
<1>3. ASSUME NEW m \in Manager, RunNext(m) \/ Crash(m) \/ Boot(m) PROVE QuietInv'
  BY <1>1, <1>3, RunQuiet
<1>4. CASE RequestSwitch \/ Enable \/ Disable \/ Install \/ Tick
  BY <1>1, <1>4, OperatorQuiet
<1> QED
  BY <1>2, <1>3, <1>4 DEF Next

(* Whoever runs them, however late they read the clock after the claim and     *)
(* across restarts and upgrades, runs call the creator at least a minimum      *)
(* interval apart, unless the operator has switched creation on again.         *)
THEOREM RunsKeepTheirDistance == Spec => []SpacedBeforeReoptin
<1>1. Init => Types /\ Quiet
  BY TypesInitially, QuietInitially
<1>2. Types /\ Quiet /\ [Next]_vars => (Types /\ Quiet)'
  BY TypesKept, QuietKept
<1>3. Types /\ Quiet => SpacedBeforeReoptin
  BY DEF Quiet, QuietInv, SpacedBeforeReoptin
<1> QED
  BY <1>1, <1>2, <1>3, PTL DEF Spec

LEMMA SlotStep ==
    Types /\ QuietInv /\ [Next]_vars =>
      [\A m \in Manager :
         work[m].pc \in {"claim", "skip"} /\ Unchanged(work[m].exp) /\ work'[m].pc \in {"claimed", "idle"}
           /\ sched' # sched
         => work[m].slot \notin used]_vars
<1> SUFFICES ASSUME Types, QuietInv, Next, NEW m \in Manager,
                    work[m].pc \in {"claim", "skip"}, Unchanged(work[m].exp), work'[m].pc \in {"claimed", "idle"}
             PROVE  work[m].slot \notin used
  OBVIOUS
<1>1. CASE RequestSwitch \/ Enable \/ Disable \/ Install \/ Tick
  <2>1. work' = work
    BY <1>1 DEF RequestSwitch, Enable, Disable, Install, Tick
  <2> QED
    BY <2>1
<1>2. ASSUME NEW n \in Manager, RunNext(n) \/ Crash(n) \/ Boot(n), n # m PROVE FALSE
  <2>1. Others(n)
    BY <1>2, ListDueIs, RescheduleOverdueIs, RescheduleTooSoonIs, PrepareClaimIs, RescheduleIs, ClaimIs, PoolFullIs,
       StartRunIs, PrepareCorrectionIs, CorrectPlanIs, ChargeAttemptIs, RefuseAttemptIs, ConfirmInsteadIs, AnswerIs,
       PauseLedgerIs, RecordResultIs, CoolDownIs, SwitchOffIs, CrashIs, BootIs DEF RunNext
  <2>2. work'[m] = work[m]
    BY <1>2, <2>1 DEF Others
  <2> QED
    BY <2>2
<1>3. CASE RunNext(m) \/ Crash(m) \/ Boot(m)
  <2>1. ~Crash(m)
    <3> SUFFICES ASSUME Crash(m) PROVE FALSE
      OBVIOUS
    <3> QED
      BY CrashIs, PlainRuns
  <2>2. Reschedule(m) \/ Claim(m)
    BY <1>3, <2>1 DEF RunNext, ListDue, RescheduleOverdue, RescheduleTooSoon, PrepareClaim,
       PoolFull, StartRun, PrepareCorrection, CorrectPlan, ChargeAttempt, RefuseAttempt, ConfirmInstead, Answer,
       PauseLedger, RecordResult, CoolDown, SwitchOff, Boot
  <2>3. CASE Reschedule(m)
    <3>1. work[m].pc = "skip"
      BY <2>3 DEF Reschedule
    <3> QED
      BY <2>3, <3>1, RescheduleQuiet
  <2>4. CASE Claim(m)
    BY <2>4, ClaimQuiet
  <2> QED
    BY <2>2, <2>3, <2>4
<1> QED
  BY <1>1, <1>2, <1>3 DEF Next

LEMMA StartStep ==
    Types /\ QuietInv /\ [Next]_vars => [\A s \in starts' \ starts : s.at >= cooling]_vars
<1> SUFFICES ASSUME Types, QuietInv, Next, NEW s \in starts' \ starts PROVE s.at >= cooling
  OBVIOUS
<1>1. PICK m \in Manager : StartRun(m) \/ CorrectPlan(m)
  BY DEF Next, RunNext, hist, ListDue, RescheduleOverdue, RescheduleTooSoon, PrepareClaim, Reschedule, Claim,
     PoolFull, PrepareCorrection, ChargeAttempt, RefuseAttempt, ConfirmInstead, Answer,
     PauseLedger, RecordResult, CoolDown, SwitchOff, Crash, Boot, RequestSwitch, Enable, Disable, Install, Tick
<1>2. CASE StartRun(m)
  <2>1. s.at = now /\ cooling <= now
    BY <1>2, StartRunIs, StartRunQuiet
  <2> QED
    BY <2>1, Numbers
<1>3. CASE CorrectPlan(m)
  <2>1. Unchanged(work[m].exp)
    BY <1>3, CorrectPlanIs
  <2>2. s.at = work[m].at /\ cooling <= work[m].at
    BY <1>3, <2>1, CorrectPlanIs, CorrectPlanQuiet
  <2> QED
    BY <2>2, Numbers
<1> QED
  BY <1>1, <1>2, <1>3

(* A slot of a cycle is claimed or skipped once at most, although every claim  *)
(* writes a plan that was drawn up from a snapshot of the row.                *)
THEOREM SlotsUsedOnce == Spec /\ [](toggles <= 1) => SlotOnce
<1>1. Init => Types /\ Quiet
  BY TypesInitially, QuietInitially
<1>2. Types /\ Quiet /\ [Next]_vars => (Types /\ Quiet)'
  BY TypesKept, QuietKept
<1>3. Types /\ Quiet /\ toggles <= 1 /\ [Next]_vars =>
        [\A m \in Manager :
           work[m].pc \in {"claim", "skip"} /\ Unchanged(work[m].exp) /\ work'[m].pc \in {"claimed", "idle"}
             /\ sched' # sched
           => work[m].slot \notin used]_vars
  BY SlotStep DEF Quiet
<1> QED
  BY <1>1, <1>2, <1>3, PTL DEF Spec, SlotOnce

(* After a cooldown is stored in the plan no run calls the creator before its  *)
(* end: not one that had claimed its deadline, not after an upgrade.          *)
THEOREM CooldownsAreServed == Spec /\ [](toggles <= 1) => CooldownHonoured
<1>1. Init => Types /\ Quiet
  BY TypesInitially, QuietInitially
<1>2. Types /\ Quiet /\ [Next]_vars => (Types /\ Quiet)'
  BY TypesKept, QuietKept
<1>3. Types /\ Quiet /\ toggles <= 1 /\ [Next]_vars => [\A s \in starts' \ starts : s.at >= cooling]_vars
  BY StartStep DEF Quiet
<1> QED
  BY <1>1, <1>2, <1>3, PTL DEF Spec, CooldownHonoured

=============================================================================
