--------------------------- MODULE MCPermissionRules ---------------------------
(***************************************************************************)
(* Instances of PermissionRulesHistory for TLC: engines, commands and      *)
(* targets are model values, given in the .cfg files.                      *)
(***************************************************************************)
EXTENDS PermissionRulesHistory, FiniteSets, TLC

\* Every engine escalates the call it has no decision for to a user.
Confirming == [e \in Engines |-> "confirm"]

Symmetry == Permutations(Commands)

\* Bounds: an engine dies only where one command at least has not begun, and
\* nobody goes on once two keys have been allowed; the others are denied.
DeathsOrCommands == \/ \A e \in Engines : crashes[e] = 0
                    \/ \E c \in Commands : pc[c] = "start"
OneGrant == Cardinality(granted) <= 1
=============================================================================
