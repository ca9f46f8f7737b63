----------------------------- MODULE MCUpdater -----------------------------
(***************************************************************************)
(* Small installations for TLC: one or two servers that list one or two    *)
(* mods, each mod in a folder of its own.                                  *)
(***************************************************************************)
EXTENDS UpdaterInvariant, TLC

CONSTANTS f1, f2, f3

\* The list names both mods and never changes.
FixedList == {[m \in {1, 2} |-> IF m = 1 THEN f1 ELSE f2]}

\* One mod that is on the list or taken off it.
ListsOfOne == {[m \in {} |-> f1], [m \in {1} |-> f1]}

\* One mod that stays on the list.
OneMod == {[m \in {1} |-> f1]}

\* One mod whose author changes its display name.
RenamedLists == {[m \in {1} |-> f1], [m \in {1} |-> f3]}

TwoServers == Permutations(Servers)
=============================================================================
