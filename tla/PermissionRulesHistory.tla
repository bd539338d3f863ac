------------------------- MODULE PermissionRulesHistory ------------------------
(***************************************************************************)
(* PermissionRules with a memory of what each process does not know: the   *)
(* rules that others changed in the file, or reported as stored, since it  *)
(* read the file, and whether another process was about to write the file  *)
(* while it was (internal/permissions/engine.go, cmd/claw/rules.go).       *)
(*                                                                         *)
(* No process reads the file again, or locks it, before it replaces it by  *)
(* its own memory.  The history says whom a lost rule, or a damaged file,  *)
(* may be blamed on.                                                       *)
(***************************************************************************)
EXTENDS PermissionRules

VARIABLES
    missed,             \* the keys changed behind a process's back
    crossed             \* the writers that were not alone as they wrote

HistoryVars == <<vars, missed, crossed>>

\* Between the open of the temporary file and its rename.
Writing(p) == pc[p] \in {"write", "rename"}

\* Two writers share the one temporary file, from the moment the second opens
\* it; a writer that is dead does nothing to it any more.
NoteCrossed ==
    crossed' = {p \in Processes :
                   /\ Writing(p)'
                   /\ \/ p \in crossed
                      \/ \E q \in Processes \ {p} : Writing(q)'}

\* A process with a picture of the file that it may still write.
Remembers(p) == IF p \in Engines THEN loaded[p] = "yes"
                ELSE pc[p] \notin {"start", "done", "failed"}

\* The keys about which this step made a difference.
Touched == {k \in Keys : \/ Decoded(path')[k] # Decoded(path)[k]
                         \/ acked'[k] # acked[k]}

\* Whoever changes the file or acked knows of it, if it was alone: a writer
\* that was not does not know what it has renamed.
NoteMissed ==
    missed' = [p \in Processes |->
        IF ~Remembers(p) \/ ~Remembers(p)' THEN {}
        ELSE missed[p] \cup (IF pc'[p] = pc[p] \/ p \in crossed
                             THEN Touched ELSE {})]

HistoryInit == /\ Init
               /\ missed = [p \in Processes |-> {}]
               /\ crossed = {}
HistoryNext == Next /\ NoteMissed /\ NoteCrossed
HistorySpec == HistoryInit /\ [][HistoryNext]_HistoryVars

-----------------------------------------------------------------------------
(* Properties                                                              *)

\* Goes on writing, renames or gives up.
Moves(p) == Writing(p) /\ pc'[p] # pc[p]

\* The rule file is taken away by a command, or replaced by exactly what one
\* process meant to write, whatever half written temporary file killed and
\* failed writers have left behind.  Anything else is done to it by a process
\* that was not alone between its open and its rename: nothing in
\* persistRuleDecisionFile keeps another process from the same file.
RenameInstalls ==
    [][path' # path =>
          \/ path' = Absent
          \/ \E p \in Processes : /\ pc[p] = "rename" /\ Moves(p)
                                  /\ path' = File(rules[p])
                                  /\ path' \notin {Truncated, Garbage}
          \/ \E p \in crossed : Moves(p)]_HistoryVars

\* Nobody but two processes that write at once leaves a truncated or a half
\* written rule file, whoever dies and whichever call fails.
DamagedByTwo ==
    [][path' # path /\ path' \in {Truncated, Garbage} =>
          \E p \in crossed : Moves(p)]_HistoryVars

Holds(k) == acked[k] # "none" /\ Decodable(path) /\ Decoded(path)[k] = acked[k]

\* A rule that was reported as stored leaves the file, with nobody having
\* changed or removed it, only when a process renames a file over it that was
\* made from an older reading, or that two processes wrote at once: one
\* process alone, however often it is killed and started again, loses none,
\* and neither does a command that read the file after the rule was stored
\* and wrote it alone.
LostOnlyToStaleWriter ==
    [][\A k \in Keys :
          Holds(k) /\ acked'[k] = acked[k] /\ ~Holds(k)' =>
              \E p \in Processes :
                  /\ Moves(p)
                  /\ p \in crossed \/ (pc[p] = "rename" /\ k \in missed[p])]_HistoryVars
=============================================================================
