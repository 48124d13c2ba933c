----------------------------- MODULE MCMailSync -----------------------------
(***************************************************************************)
(* Instances of MailSync. Every behaviour belongs to one scenario, which   *)
(* says how often each of its actions may happen.                          *)
(*   Windows: batches, recovery windows, pinned windows, full reads.       *)
(*   Aliases: aliases come and go while a read is under way.               *)
(*   Edits: credentials, enabled state, transport and UIDVALIDITY change   *)
(*          while a read is under way.                                     *)
(*   Targets: reads on behalf of one alias, across a UIDVALIDITY change.   *)
(*   Stores: IMAP and web content, a change of source, evictions and a     *)
(*           stop at any point.                                            *)
(***************************************************************************)
EXTENDS MailSync, TLC

CONSTANTS a, b

Nothing == [k \in {"account", "target", "mail", "tick", "toggle", "edit", "renumber",
                   "fault", "evict", "crash"} |-> 0]
Windows == [Nothing EXCEPT !["account"] = 4, !["mail"] = 3, !["tick"] = 2]
Aliases == [Nothing EXCEPT !["account"] = 3, !["mail"] = 2, !["toggle"] = 2]
Edits == [Nothing EXCEPT !["account"] = 3, !["mail"] = 1, !["tick"] = 1, !["edit"] = 2,
                         !["renumber"] = 1]
Targets == [Nothing EXCEPT !["target"] = 3, !["mail"] = 2, !["tick"] = 1, !["renumber"] = 1,
                           !["toggle"] = 1]
Stores == [Nothing EXCEPT !["account"] = 2, !["target"] = 2, !["mail"] = 1, !["edit"] = 2,
                          !["fault"] = 1, !["evict"] = 1, !["crash"] = 1]
AllScenarios == {Windows, Aliases, Edits, Targets, Stores}

Either == Permutations({a, b})
=============================================================================
