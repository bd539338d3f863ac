---------------------------- MODULE PermissionRules ----------------------------
(***************************************************************************)
(* Tool calls that need more than the current mode allows, and the file of *)
(* standing decisions about them: permissions.StaticEngine and the rule    *)
(* file (internal/permissions/engine.go), and the "permissions rules"      *)
(* commands that edit the same file (cmd/claw/rules.go).                   *)
(*                                                                         *)
(* Every engine is a process of its own, a REPL or a server, that reads    *)
(* the file once and from then on saves its own memory as a whole; every   *)
(* command is another process.  They all write the one temporary file and  *)
(* rename it, with no lock between processes.  A process may be killed     *)
(* between any two system calls.                                           *)
(*                                                                         *)
(* Tool and modes are fixed, so a rule's key is its target.  A file is     *)
(* absent, undecodable, or a set of rules; the file just truncated is the  *)
(* one without any.                                                        *)
(*                                                                         *)
(* An operator marked "Mutant" is the definition after it with a plausible *)
(* bug, and is used only to see that a property notices (PROJECT.json).    *)
(***************************************************************************)
EXTENDS Naturals

CONSTANTS
    Engines,            \* processes that decide tool calls
    Commands,           \* "permissions rules" processes, one change each
    Targets,            \* command prefixes, hosts or paths
    Escalation,         \* what each engine does when it has no decision
    MaxCrashes          \* bound: deaths of one engine

Untargeted == "any"     \* the kind Matcher gives a request without a target
Blank      == ""        \* the kind a rule added without one is stored with

RequestKeys == Targets \cup {Untargeted}
CommandKeys == Targets \cup {Blank}
Keys        == RequestKeys \cup CommandKeys

ASSUME PermissionAssumption ==
    /\ Engines \cap Commands = {}
    /\ Escalation \in [Engines -> {"confirm", "prompt", "deny"}]
    /\ MaxCrashes \in Nat

Processes == Engines \cup Commands
Decisions == {"allow", "deny"}
Rules     == [Keys -> Decisions \cup {"none"}]
NoRules   == [k \in Keys |-> "none"]

File(r)   == [kind |-> "rules", rules |-> r]
Truncated == File(NoRules)
Absent    == [kind |-> "absent", rules |-> NoRules]
Garbage   == [kind |-> "garbage", rules |-> NoRules]
Files     == {Absent, Garbage} \cup {File(r) : r \in Rules}

VARIABLES
    path,               \* the rule file
    tmp,                \* the temporary file beside it
    pc,                 \* where each process is
    fd,                 \* the file it has open for writing
    rules,              \* the rules it has in memory
    session,            \* an engine's decisions for its own life
    loaded,             \* whether an engine has read the file, and how it went
    asked,              \* the request it is deciding
    verdict,            \* history: its last answer
    granted,            \* history: the keys somebody has ever allowed
    acked,              \* history: the rules last reported as stored
    crashes             \* deaths so far

files  == <<path, tmp>>
memory == <<rules, session, loaded>>
vars   == <<files, pc, fd, memory, asked, verdict, granted, acked, crashes>>

Init ==
    /\ path = Absent
    /\ tmp = Absent
    /\ pc = [p \in Processes |-> IF p \in Engines THEN "idle" ELSE "start"]
    /\ fd = [p \in Processes |-> "none"]
    /\ rules = [p \in Processes |-> NoRules]
    /\ session = [e \in Engines |-> NoRules]
    /\ loaded = [e \in Engines |-> "no"]
    /\ asked = [e \in Engines |-> Untargeted]
    /\ verdict = [e \in Engines |-> [key |-> Untargeted, answer |-> "none"]]
    /\ granted = {}
    /\ acked = NoRules
    /\ crashes = [e \in Engines |-> 0]

-----------------------------------------------------------------------------
(* Helpers                                                                 *)

Goto(p, label) == pc' = [pc EXCEPT ![p] = label]

Answer(e, k, answer) ==
    verdict' = [verdict EXCEPT ![e] = [key |-> k, answer |-> answer]]

\* loadRuleDecisionFile: no file, or an empty one, is no rules.
Decodable(file) == file.kind # "garbage"
Decoded(file)   == file.rules

\* Mutant: the target is left out of the key.
LookupTool(decisions, k) ==
    IF \E j \in Keys : decisions[j] # "none"
    THEN decisions[CHOOSE j \in Keys : decisions[j] # "none"]
    ELSE "none"

\* lookupRuleDecision and lookupSessionDecision, by the key of the request.
Lookup(decisions, k) == decisions[k]

\* Whoever had the rule file open now has a file nobody can reach.
Unlinked == [p \in Processes |-> IF fd[p] = "path" THEN "gone" ELSE fd[p]]

Renamed == [p \in Processes |-> CASE fd[p] = "tmp"  -> "path"
                                  [] fd[p] = "path" -> "gone"
                                  [] OTHER          -> fd[p]]

\* What writing rules at the start of a file leaves in it: two writers have
\* truncated it before either wrote, and the longer text shows at the end.
Overlay(old, new) == IF old \in {Truncated, new} THEN {new} ELSE {new, Garbage}

-----------------------------------------------------------------------------
(* StaticEngine.Decide, of a call that the current mode does not allow     *)

\* Mutant: an engine that is started again does not read the file.
EnsureLoadedOnce(e) ==
    IF loaded[e] = "no" /\ crashes[e] = 0
    THEN \/ /\ Decodable(path)
            /\ rules' = [rules EXCEPT ![e] = Decoded(path)]
            /\ loaded' = [loaded EXCEPT ![e] = "yes"]
         \/ /\ loaded' = [loaded EXCEPT ![e] = "error"]
            /\ UNCHANGED rules
    ELSE /\ loaded' = [loaded EXCEPT ![e] = IF @ = "no" THEN "yes" ELSE @]
         /\ UNCHANGED rules

\* ensureRuleDecisionsLoaded: once in a life, and a failure is kept too.
EnsureLoaded(e) ==
    IF loaded[e] = "no"
    THEN \/ /\ Decodable(path)
            /\ rules' = [rules EXCEPT ![e] = Decoded(path)]
            /\ loaded' = [loaded EXCEPT ![e] = "yes"]
         \/ /\ loaded' = [loaded EXCEPT ![e] = "error"]
            /\ UNCHANGED rules
    ELSE UNCHANGED <<rules, loaded>>

LoadFails(e, k) ==
    /\ loaded'[e] = "error"
    /\ Answer(e, k, "error")
    /\ UNCHANGED <<pc, asked>>

\* A rule comes before a decision of the session.
Reuse(e, k) ==
    /\ loaded'[e] = "yes"
    /\ LET rule == Lookup(rules'[e], k)
           kept == Lookup(session[e], k)
       IN  \/ rule # "none" /\ Answer(e, k, rule)
           \/ rule = "none" /\ kept # "none" /\ Answer(e, k, kept)
    /\ UNCHANGED <<pc, asked>>

Escalate(e, k) ==
    /\ loaded'[e] = "yes"
    /\ Lookup(rules'[e], k) = "none"
    /\ Lookup(session[e], k) = "none"
    /\ IF Escalation[e] = "confirm"
       THEN /\ Goto(e, "asking")
            /\ asked' = [asked EXCEPT ![e] = k]
            /\ UNCHANGED verdict
       ELSE /\ Answer(e, k, Escalation[e])
            /\ UNCHANGED <<pc, asked>>

Decide(e) ==
    /\ pc[e] = "idle"
    /\ EnsureLoaded(e)
    /\ \E k \in RequestKeys : LoadFails(e, k) \/ Reuse(e, k) \/ Escalate(e, k)
    /\ UNCHANGED <<files, fd, session, granted, acked, crashes>>

Granted(k, decision) ==
    granted' = IF decision = "allow" THEN granted \cup {k} ELSE granted

\* The user answers for this once or for the session, or cannot answer.
Confirm(e) ==
    /\ pc[e] = "asking"
    /\ \/ \E decision \in Decisions :
             /\ \/ UNCHANGED session
                \/ session' = [session EXCEPT ![e][asked[e]] = decision]
             /\ Granted(asked[e], decision)
             /\ Answer(e, asked[e], decision)
       \/ /\ Answer(e, asked[e], "error")
          /\ UNCHANGED <<session, granted>>
    /\ Goto(e, "idle")
    /\ UNCHANGED <<files, fd, rules, loaded, asked, acked, crashes>>

\* Mutant: the answer is stored without normalizeConfirmationOutcome.
ConfirmRuleRaw(e) ==
    /\ pc[e] = "asking"
    /\ \E decision \in Decisions \cup {"prompt"} :
          /\ rules' = [rules EXCEPT ![e][asked[e]] = decision]
          /\ Granted(asked[e], decision)
    /\ Goto(e, "open")
    /\ UNCHANGED <<files, fd, session, loaded, asked, verdict, acked, crashes>>

\* storeRuleDecision: into memory first, then all of memory into the file.
ConfirmRule(e) ==
    /\ pc[e] = "asking"
    /\ \E decision \in Decisions :
          /\ rules' = [rules EXCEPT ![e][asked[e]] = decision]
          /\ Granted(asked[e], decision)
    /\ Goto(e, "open")
    /\ UNCHANGED <<files, fd, session, loaded, asked, verdict, acked, crashes>>

-----------------------------------------------------------------------------
(* persistRuleDecisionFile, in an engine or a command                      *)

\* The engine answers with the error and keeps the rule in its memory.
GiveUp(p) ==
    /\ fd' = [fd EXCEPT ![p] = "none"]
    /\ IF p \in Engines
       THEN Goto(p, "idle") /\ Answer(p, asked[p], "error")
       ELSE Goto(p, "failed") /\ UNCHANGED verdict

\* os.WriteFile creates or truncates the temporary file...
Open(p) ==
    /\ pc[p] = "open"
    /\ \/ /\ tmp' = Truncated
          /\ fd' = [fd EXCEPT ![p] = "tmp"]
          /\ Goto(p, "write")
          /\ UNCHANGED verdict
       \/ GiveUp(p) /\ UNCHANGED tmp
    /\ UNCHANGED <<path, memory, asked, granted, acked, crashes>>

\* ... and writes it, wherever a rename has put it meanwhile.
WriteTo(p, contents) ==
    \/ fd[p] = "tmp" /\ tmp' \in contents /\ UNCHANGED path
    \/ fd[p] = "path" /\ path' \in contents /\ UNCHANGED tmp
    \/ fd[p] = "gone" /\ UNCHANGED files

\* Mutant: a failed write does not stop the rename.
WriteUnchecked(p) ==
    /\ pc[p] = "write"
    /\ LET old == IF fd[p] = "tmp" THEN tmp ELSE path
       IN  WriteTo(p, Overlay(old, File(rules[p])) \cup {old, Garbage})
    /\ fd' = [fd EXCEPT ![p] = "none"]
    /\ Goto(p, "rename")
    /\ UNCHANGED <<memory, asked, verdict, granted, acked, crashes>>

Write(p) ==
    /\ pc[p] = "write"
    /\ LET old == IF fd[p] = "tmp" THEN tmp ELSE path
       IN  \/ /\ WriteTo(p, Overlay(old, File(rules[p])))
              /\ fd' = [fd EXCEPT ![p] = "none"]
              /\ Goto(p, "rename")
              /\ UNCHANGED verdict
           \/ WriteTo(p, {old, Garbage}) /\ GiveUp(p)
    /\ UNCHANGED <<memory, asked, granted, acked, crashes>>

\* Whatever the temporary file holds now; there may be none any more.
Rename(p) ==
    /\ pc[p] = "rename"
    /\ \/ /\ tmp # Absent
          /\ path' = tmp
          /\ tmp' = Absent
          /\ fd' = Renamed
          /\ acked' = [k \in Keys |-> IF rules[p][k] # "none" THEN rules[p][k]
                                                              ELSE acked[k]]
          /\ IF p \in Engines
             THEN /\ Goto(p, "idle")
                  /\ Answer(p, asked[p], rules[p][asked[p]])
             ELSE Goto(p, "done") /\ UNCHANGED verdict
       \/ GiveUp(p) /\ UNCHANGED <<files, acked>>
    /\ UNCHANGED <<memory, asked, granted, crashes>>

-----------------------------------------------------------------------------
(* The commands                                                            *)

\* add: LoadRules, and the rule replaces the one with the same key.
AddRule(c) ==
    /\ pc[c] = "start"
    /\ Decodable(path)
    /\ \E k \in CommandKeys, decision \in Decisions :
          /\ rules' = [rules EXCEPT ![c] = [Decoded(path) EXCEPT ![k] = decision]]
          /\ Granted(k, decision)
    /\ Goto(c, "open")
    /\ UNCHANGED <<files, fd, session, loaded, asked, verdict, acked, crashes>>

\* remove: by index or by filter, at least one; the last takes the file away.
RemoveRules(c) ==
    /\ pc[c] = "start"
    /\ Decodable(path)
    /\ \E gone \in SUBSET {k \in Keys : Decoded(path)[k] # "none"} :
          /\ gone # {}
          /\ LET kept == [k \in Keys |-> IF k \in gone THEN "none"
                                                       ELSE Decoded(path)[k]]
             IN  /\ rules' = [rules EXCEPT ![c] = kept]
                 /\ Goto(c, IF kept = NoRules THEN "clear" ELSE "open")
          /\ acked' = [k \in Keys |-> IF k \in gone THEN "none" ELSE acked[k]]
    /\ UNCHANGED <<files, fd, session, loaded, asked, verdict, granted, crashes>>

\* clear, and what remove does when nothing is left.
ClearRules(c) ==
    /\ pc[c] \in {"start", "clear"}
    /\ path' = Absent
    /\ fd' = Unlinked
    /\ acked' = NoRules
    /\ Goto(c, "done")
    /\ UNCHANGED <<tmp, memory, asked, verdict, granted, crashes>>

-----------------------------------------------------------------------------
(* A process dies: memory and open files go, the temporary file stays.     *)

\* An engine that has died, or has simply ended, is started again.
CrashEngine(e) ==
    /\ crashes[e] < MaxCrashes
    /\ crashes' = [crashes EXCEPT ![e] = @ + 1]
    /\ Goto(e, "idle")
    /\ fd' = [fd EXCEPT ![e] = "none"]
    /\ rules' = [rules EXCEPT ![e] = NoRules]
    /\ session' = [session EXCEPT ![e] = NoRules]
    /\ loaded' = [loaded EXCEPT ![e] = "no"]
    /\ UNCHANGED <<files, asked, verdict, granted, acked>>

\* A command that dies, is misused, or cannot read the file, does no more.
EndCommand(c) ==
    /\ pc[c] \notin {"done", "failed"}
    /\ Goto(c, "failed")
    /\ fd' = [fd EXCEPT ![c] = "none"]
    /\ UNCHANGED <<files, memory, asked, verdict, granted, acked, crashes>>

Next ==
    \/ \E e \in Engines :
          Decide(e) \/ Confirm(e) \/ ConfirmRule(e) \/ CrashEngine(e)
    \/ \E p \in Processes : Open(p) \/ Write(p) \/ Rename(p)
    \/ \E c \in Commands :
          AddRule(c) \/ RemoveRules(c) \/ ClearRules(c) \/ EndCommand(c)

Spec == Init /\ [][Next]_vars

-----------------------------------------------------------------------------
(* Properties                                                              *)

TypeOK ==
    /\ path \in Files
    /\ tmp \in Files
    /\ pc \in [Processes -> {"idle", "asking", "open", "write", "rename",
                             "start", "clear", "done", "failed"}]
    /\ fd \in [Processes -> {"none", "tmp", "path", "gone"}]
    /\ rules \in [Processes -> Rules]
    /\ session \in [Engines -> Rules]
    /\ loaded \in [Engines -> {"no", "yes", "error"}]
    /\ asked \in [Engines -> RequestKeys]
    /\ verdict \in [Engines -> [key: RequestKeys,
                                answer: {"none", "allow", "deny", "prompt",
                                         "error"}]]
    /\ granted \subseteq Keys
    /\ acked \in Rules
    /\ crashes \in [Engines -> 0 .. MaxCrashes]

\* A tool call is allowed only by somebody's allow of exactly its target.
AllowsAreGranted == \A e \in Engines :
    verdict[e].answer = "allow" => verdict[e].key \in granted

\* A rule reported as stored is in the file until it is changed or removed.
\* It holds of one engine, whatever its deaths; not of two processes.
AckedRulesKept == \A k \in Keys :
    acked[k] # "none" => Decodable(path) /\ Decoded(path)[k] = acked[k]
=============================================================================
