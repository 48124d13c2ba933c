---------------------------- MODULE MCAutoCreate ----------------------------
(***************************************************************************)
(* Small instances of AutoCreate, in two scenes that share their constants: *)
(* in "managers" two interchangeable polling loops race and the operator    *)
(* throws the switch once; in "operator" at most one loop runs, and the     *)
(* switch is thrown up to three times with slow writes.                     *)
(***************************************************************************)
EXTENDS AutoCreate, TLC
CONSTANTS m1, m2,
    Scenes,        \* the scenes explored
    ManagersTime,  \* bound: the last tick of "managers"
    ManagersToggles \* bound: switches thrown in "managers"
VARIABLE scene

Managers == {m1, m2}
One == {m1}
WebLast == {Slots - 1}
Symm == Permutations(Manager)
BothScenes == {"managers", "operator"}
OperatorScene == {"operator"}

Up(w) == { m \in Manager : w[m].pc # "down" }

MCInit ==
    /\ scene \in Scenes
    /\ \E m \in Manager :
         InitWith([o \in Manager |-> IF scene = "managers" \/ o = m THEN Idle ELSE Down])

(* The operator's requests take no time beside two loops.                   *)
InScene ==
    \/ /\ scene = "managers" /\ now' <= ManagersTime /\ toggles' <= ManagersToggles
       /\ (admin'.pc = "write" => admin'.at = now')
    \/ /\ scene = "operator" /\ Cardinality(Up(work')) <= 1

MCNext == Next /\ InScene /\ UNCHANGED scene
MCSpec == MCInit /\ [][MCNext]_<<vars, scene>>
=============================================================================
