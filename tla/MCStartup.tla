------------------------------ MODULE MCStartup ------------------------------
(***************************************************************************)
(* Instances of Startup, in scenes: a fresh installation with one or two    *)
(* sources of its key; the import of a legacy database that is still        *)
(* written; a database from before keys were bound, under one key or another. *)
(***************************************************************************)
EXTENDS Startup, TLC

CONSTANTS p, q, k1, k2, k3

Serve0 == [mode |-> "serve", env |-> None, path |-> None, legacy |-> FALSE, name |-> "operator", version |-> 1]
Both(s) == p :> s @@ q :> s
Pair(s, t) == p :> s @@ q :> t

Fresh == [keyFile |-> None, bound |-> None, secrets |-> {}, schema |-> 0, waiting |-> {}, admins |-> {},
          edition |-> MaxWrites, sourceKey |-> k1]
Old == [Fresh EXCEPT !.secrets = {k1}, !.schema = 1, !.waiting = {"v2", "stale"},
                     !.admins = {LegacyAdmin}]

(* Everything new: servers beside each other, beside a check and a reset.      *)
FreshScene ==
    {[settings |-> Pair(Serve0, t), origin |-> Fresh] :
        t \in {Serve0, [Serve0 EXCEPT !.env = k1, !.path = k1], [Serve0 EXCEPT !.mode = "verify"],
               [Serve0 EXCEPT !.mode = "reset"]}}
ImportScene ==
    {[settings |-> Pair([Serve0 EXCEPT !.env = k1, !.legacy = TRUE, !.path = k1], t), origin |-> [Fresh EXCEPT !.edition = v]] :
        t \in {[Serve0 EXCEPT !.env = k1, !.legacy = TRUE, !.path = k1],
               [Serve0 EXCEPT !.mode = "reset", !.name = "legacy", !.env = k1]},
        v \in {0, 1}}
Owner == [id |-> 2, name |-> "owner", ver |-> 1]
Two(f) == [Old EXCEPT !.keyFile = f, !.admins = @ \cup {Owner}, !.bound = IF f = k1 THEN k1 ELSE None]
OldScene ==
    {[settings |-> Pair([Serve0 EXCEPT !.env = e], t), origin |-> o] :
        e \in {k1, k2}, t \in {[Serve0 EXCEPT !.version = 2], [Serve0 EXCEPT !.mode = "reset"]},
        o \in UNION {{[Old EXCEPT !.keyFile = f], Two(f)} : f \in {None, k1, k2}}}
MCScenes == FreshScene \cup ImportScene \cup OldScene
=============================================================================
