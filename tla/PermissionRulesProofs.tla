------------------------- MODULE PermissionRulesProofs -------------------------
(***************************************************************************)
(* Proofs about PermissionRules, for any engines, commands and targets,    *)
(* whoever writes when and dies where: no allow without somebody's allow   *)
(* of that target; a rule file that only two processes writing at once can *)
(* damage; and no reported rule lost but to them, or to a process that has *)
(* not read it.                                                            *)
(***************************************************************************)
EXTENDS PermissionRulesHistory, TLAPS

-----------------------------------------------------------------------------
(* What files hold                                                         *)

LEMMA KeyFacts ==
    /\ RequestKeys \subseteq Keys /\ CommandKeys \subseteq Keys
    /\ Untargeted \in RequestKeys
  BY DEF Keys, RequestKeys, CommandKeys

LEMMA RulesFacts ==
    /\ NoRules \in Rules
    /\ \A r \in Rules, k \in Keys : r[k] \in Decisions \cup {"none"}
    /\ \A r \in Rules, k \in Keys, d \in Decisions :
          [r EXCEPT ![k] = d] \in Rules
  BY DEF Rules, NoRules

LEMMA SetRuleTyped ==
    ASSUME NEW S, NEW f \in [S -> Rules], NEW x \in S,
           NEW k \in Keys, NEW d \in Decisions
    PROVE  [f EXCEPT ![x][k] = d] \in [S -> Rules]
<1>1. f[x] \in Rules
  OBVIOUS
<1>2. [f[x] EXCEPT ![k] = d] \in Rules
  BY <1>1, RulesFacts
<1>3. [f EXCEPT ![x] = [f[x] EXCEPT ![k] = d]] \in [S -> Rules]
  BY <1>2
<1> QED
  BY <1>3

LEMMA FileFacts ==
    /\ Absent \in Files /\ Garbage \in Files /\ Truncated \in Files
    /\ \A r \in Rules : File(r) \in Files
    /\ \A f \in Files : Decoded(f) \in Rules
<1>1. /\ Absent \in Files /\ Garbage \in Files
      /\ \A r \in Rules : File(r) \in Files
  BY DEF Files
<1>2. Truncated \in Files
  BY <1>1, RulesFacts DEF Truncated
<1>3. ASSUME NEW f \in Files PROVE Decoded(f) \in Rules
  <2>1. CASE f \in {Absent, Garbage}
    BY <2>1, RulesFacts DEF Absent, Garbage, Decoded
  <2>2. CASE \E r \in Rules : f = File(r)
    BY <2>2 DEF File, Decoded
  <2> QED
    BY <2>1, <2>2 DEF Files
<1> QED
  BY <1>1, <1>2, <1>3

-----------------------------------------------------------------------------
(* The type invariant                                                      *)

PcValues == {"idle", "asking", "open", "write", "rename",
             "start", "clear", "done", "failed"}
Answers  == {"none", "allow", "deny", "prompt", "error"}
Verdicts == [key: RequestKeys, answer: Answers]

LEMMA InitTyped == Init => TypeOK
<1> SUFFICES ASSUME Init PROVE TypeOK
  OBVIOUS
<1>1. [key |-> Untargeted, answer |-> "none"] \in Verdicts
  BY KeyFacts DEF Verdicts, Answers
<1> QED
  BY <1>1, PermissionAssumption, KeyFacts, RulesFacts, FileFacts
     DEF Init, TypeOK, Processes, Verdicts, Answers

LEMMA AnswerTyped ==
    ASSUME TypeOK, NEW e \in Engines, NEW k \in RequestKeys,
           NEW answer \in Answers, Answer(e, k, answer)
    PROVE  verdict' \in [Engines -> Verdicts]
<1>1. [key |-> k, answer |-> answer] \in Verdicts
  BY DEF Verdicts
<1>2. verdict \in [Engines -> Verdicts]
  BY DEF TypeOK, Verdicts, Answers
<1> QED
  BY <1>1, <1>2 DEF Answer

\* Writing keeps the files files.
LEMMA WriteTyped ==
    ASSUME NEW p \in Processes, NEW contents \in SUBSET Files,
           path \in Files, tmp \in Files, WriteTo(p, contents)
    PROVE  path' \in Files /\ tmp' \in Files
  BY DEF WriteTo, files

\* The same as TypeOK, without its details.
LEMMA TypeOKForm ==
    TypeOK <=> /\ path \in Files /\ tmp \in Files
               /\ pc \in [Processes -> PcValues]
               /\ fd \in [Processes -> {"none", "tmp", "path", "gone"}]
               /\ rules \in [Processes -> Rules]
               /\ session \in [Engines -> Rules]
               /\ loaded \in [Engines -> {"no", "yes", "error"}]
               /\ asked \in [Engines -> RequestKeys]
               /\ verdict \in [Engines -> Verdicts]
               /\ granted \subseteq Keys
               /\ acked \in Rules
               /\ crashes \in [Engines -> 0 .. MaxCrashes]
  BY DEF TypeOK, PcValues, Verdicts, Answers

LEMMA GiveUpTyped ==
    ASSUME TypeOK, NEW p \in Processes, GiveUp(p)
    PROVE  /\ fd' \in [Processes -> {"none", "tmp", "path", "gone"}]
           /\ pc' \in [Processes -> PcValues]
           /\ verdict' \in [Engines -> Verdicts]
<1>1. /\ fd' \in [Processes -> {"none", "tmp", "path", "gone"}]
      /\ pc' \in [Processes -> PcValues]
  BY TypeOKForm DEF GiveUp, Goto, PcValues
<1>2. CASE p \in Engines
  BY <1>1, <1>2, AnswerTyped, TypeOKForm DEF GiveUp, Answers
<1>3. CASE p \notin Engines
  BY <1>1, <1>3, TypeOKForm DEF GiveUp
<1> QED
  BY <1>2, <1>3

\* Every step keeps the types.
LEMMA NextTyped == TypeOK /\ [Next]_vars => TypeOK'
<1> SUFFICES ASSUME TypeOK, [Next]_vars PROVE TypeOK'
  OBVIOUS
<1>t. /\ path \in Files /\ tmp \in Files
      /\ pc \in [Processes -> PcValues]
      /\ fd \in [Processes -> {"none", "tmp", "path", "gone"}]
      /\ rules \in [Processes -> Rules]
      /\ session \in [Engines -> Rules]
      /\ loaded \in [Engines -> {"no", "yes", "error"}]
      /\ asked \in [Engines -> RequestKeys]
      /\ verdict \in [Engines -> Verdicts]
      /\ granted \subseteq Keys
      /\ acked \in Rules
      /\ crashes \in [Engines -> 0 .. MaxCrashes]
  BY TypeOKForm
<1>s. /\ path' \in Files /\ tmp' \in Files
      /\ pc' \in [Processes -> PcValues]
      /\ fd' \in [Processes -> {"none", "tmp", "path", "gone"}]
      /\ rules' \in [Processes -> Rules]
      /\ session' \in [Engines -> Rules]
      /\ loaded' \in [Engines -> {"no", "yes", "error"}]
      /\ asked' \in [Engines -> RequestKeys]
      /\ verdict' \in [Engines -> Verdicts]
      /\ granted' \subseteq Keys
      /\ acked' \in Rules
      /\ crashes' \in [Engines -> 0 .. MaxCrashes]
      => TypeOK'
  BY DEF TypeOK, PcValues, Verdicts, Answers
<1>1. ASSUME NEW e \in Engines, Decide(e) PROVE TypeOK'
  <2>1. /\ rules' \in [Processes -> Rules]
        /\ loaded' \in [Engines -> {"no", "yes", "error"}]
    <3>1. Decoded(path) \in Rules
      BY <1>t, FileFacts
    <3> QED
      BY <1>1, <1>t, <3>1 DEF Decide, EnsureLoaded
  <2>2. PICK k \in RequestKeys :
           LoadFails(e, k) \/ Reuse(e, k) \/ Escalate(e, k)
    BY <1>1 DEF Decide
  <2>3. /\ pc' \in [Processes -> PcValues]
        /\ asked' \in [Engines -> RequestKeys]
    BY <1>t, <2>2 DEF LoadFails, Reuse, Escalate, Goto, PcValues
  <2>4. verdict' \in [Engines -> Verdicts]
    <3>1. CASE LoadFails(e, k)
      BY <3>1, AnswerTyped DEF LoadFails, Answers
    <3>2. CASE Reuse(e, k)
      <4>1. rules'[e] \in Rules /\ session[e] \in Rules /\ k \in Keys
        BY <1>t, <2>1, <2>2, KeyFacts DEF Processes
      <4>2. rules'[e][k] \in Answers /\ session[e][k] \in Answers
        BY <4>1, RulesFacts DEF Answers, Decisions
      <4>3. Answer(e, k, rules'[e][k]) \/ Answer(e, k, session[e][k])
        BY <3>2 DEF Reuse, Lookup
      <4> QED
        BY <4>2, <4>3, AnswerTyped
    <3>3. CASE Escalate(e, k)
      <4>1. Escalation[e] \in {"confirm"} \cup Answers
        BY PermissionAssumption DEF Answers
      <4>2. \/ UNCHANGED verdict
            \/ Escalation[e] # "confirm" /\ Answer(e, k, Escalation[e])
        BY <3>3 DEF Escalate
      <4>3. CASE UNCHANGED verdict
        BY <1>t, <4>3
      <4>4. CASE Escalation[e] # "confirm" /\ Answer(e, k, Escalation[e])
        BY <4>1, <4>4, AnswerTyped
      <4> QED
        BY <4>2, <4>3, <4>4
    <3> QED
      BY <2>2, <3>1, <3>2, <3>3
  <2> QED
    BY <1>1, <1>t, <2>1, <2>3, <2>4, <1>s DEF Decide, files
<1>2. ASSUME NEW e \in Engines, Confirm(e) PROVE TypeOK'
  <2>1. asked[e] \in RequestKeys /\ asked[e] \in Keys
    BY <1>t, KeyFacts
  <2>2. PICK answer \in Decisions \cup {"error"} :
           /\ Answer(e, asked[e], answer)
           /\ \/ answer = "error" /\ UNCHANGED <<session, granted>>
              \/ /\ answer \in Decisions /\ Granted(asked[e], answer)
                 /\ \/ UNCHANGED session
                    \/ session' = [session EXCEPT ![e][asked[e]] = answer]
    BY <1>2 DEF Confirm
  <2>3. verdict' \in [Engines -> Verdicts]
    <3>1. answer \in Answers
      BY DEF Answers, Decisions
    <3> QED
      BY <2>1, <2>2, <3>1, AnswerTyped
  <2>4. session' \in [Engines -> Rules]
    <3>1. CASE UNCHANGED session
      BY <1>t, <3>1
    <3>2. CASE /\ answer \in Decisions
               /\ session' = [session EXCEPT ![e][asked[e]] = answer]
      BY <1>t, <2>1, <3>2, SetRuleTyped
    <3> QED
      BY <2>2, <3>1, <3>2
  <2>5. granted' \subseteq Keys
    BY <1>t, <2>1, <2>2 DEF Granted
  <2>6. pc' \in [Processes -> PcValues]
    BY <1>2, <1>t DEF Confirm, Goto, PcValues
  <2> QED
    BY <1>2, <1>t, <2>3, <2>4, <2>5, <2>6, <1>s DEF Confirm, files
<1>3. ASSUME NEW e \in Engines, ConfirmRule(e) PROVE TypeOK'
  <2>1. asked[e] \in Keys /\ e \in Processes
    BY <1>t, KeyFacts DEF Processes
  <2>2. PICK decision \in Decisions :
           /\ rules' = [rules EXCEPT ![e][asked[e]] = decision]
           /\ Granted(asked[e], decision)
    BY <1>3 DEF ConfirmRule
  <2>3. rules' \in [Processes -> Rules]
    <3>1. rules \in [Processes -> Rules]
      BY <1>t
    <3> QED
      BY <2>1, <2>2, <3>1, SetRuleTyped
  <2>4. granted' \subseteq Keys
    BY <1>t, <2>1, <2>2 DEF Granted
  <2>5. pc' \in [Processes -> PcValues]
    BY <1>3, <1>t DEF ConfirmRule, Goto, PcValues
  <2> QED
    BY <1>3, <1>t, <2>3, <2>4, <2>5, <1>s DEF ConfirmRule, files
<1>4. ASSUME NEW e \in Engines, CrashEngine(e) PROVE TypeOK'
  <2>1. crashes' \in [Engines -> 0 .. MaxCrashes]
    BY <1>4, <1>t, PermissionAssumption DEF CrashEngine
  <2>2. /\ rules' \in [Processes -> Rules]
        /\ session' \in [Engines -> Rules]
    BY <1>4, <1>t, RulesFacts DEF CrashEngine
  <2> QED
    BY <1>4, <1>s, <1>t, <2>1, <2>2
       DEF CrashEngine, Goto, PcValues, files
<1>5. ASSUME NEW p \in Processes, Open(p) PROVE TypeOK'
  BY <1>5, <1>s, <1>t, GiveUpTyped, FileFacts
     DEF Open, Goto, PcValues, memory
<1>6. ASSUME NEW p \in Processes, Write(p) PROVE TypeOK'
  <2> DEFINE old == IF fd[p] = "tmp" THEN tmp ELSE path
  <2>1. old \in Files /\ File(rules[p]) \in Files /\ Garbage \in Files
    BY <1>t, FileFacts
  <2>2. /\ Overlay(old, File(rules[p])) \in SUBSET Files
        /\ {old, Garbage} \in SUBSET Files
    BY <2>1 DEF Overlay
  <2>3. \/ WriteTo(p, Overlay(old, File(rules[p])))
        \/ WriteTo(p, {old, Garbage})
    BY <1>6 DEF Write
  <2>4. path' \in Files /\ tmp' \in Files
    BY <1>t, <2>2, <2>3, WriteTyped
  <2>5. /\ \/ /\ fd' = [fd EXCEPT ![p] = "none"]
              /\ Goto(p, "rename") /\ UNCHANGED verdict
           \/ GiveUp(p)
        /\ UNCHANGED <<memory, asked, granted, acked, crashes>>
    BY <1>6 DEF Write
  <2> QED
    BY <1>t, <2>4, <2>5, <1>s, GiveUpTyped DEF Goto, PcValues, memory
<1>7. ASSUME NEW p \in Processes, Rename(p) PROVE TypeOK'
  <2>1. CASE GiveUp(p) /\ UNCHANGED <<files, acked>>
    BY <1>7, <1>t, <2>1, <1>s, GiveUpTyped DEF Rename, files, memory
  <2>2. ASSUME path' = tmp, tmp' = Absent, fd' = Renamed,
               acked' = [k \in Keys |-> IF rules[p][k] # "none"
                                        THEN rules[p][k] ELSE acked[k]],
               IF p \in Engines
               THEN /\ Goto(p, "idle")
                    /\ Answer(p, asked[p], rules[p][asked[p]])
               ELSE Goto(p, "done") /\ UNCHANGED verdict
        PROVE  TypeOK'
    <3>1. fd' \in [Processes -> {"none", "tmp", "path", "gone"}]
      BY <1>t, <2>2 DEF Renamed
    <3>2. acked' \in Rules
      BY <1>t, <2>2 DEF Rules
    <3>3. verdict' \in [Engines -> Verdicts]
      <4>1. CASE p \in Engines
        <5>1. rules[p] \in Rules /\ asked[p] \in RequestKeys
          BY <1>t, <4>1
        <5>2. rules[p][asked[p]] \in Answers
          BY <5>1, RulesFacts, KeyFacts DEF Answers, Decisions
        <5> QED
          BY <2>2, <4>1, <5>1, <5>2, AnswerTyped
      <4>2. CASE p \notin Engines
        BY <1>t, <2>2, <4>2
      <4> QED
        BY <4>1, <4>2
    <3>4. pc' \in [Processes -> PcValues]
      BY <1>t, <2>2 DEF Goto, PcValues
    <3> QED
      BY <1>7, <1>t, <2>2, <3>1, <3>2, <3>3, <3>4, <1>s, FileFacts
         DEF Rename, memory
  <2> QED
    BY <1>7, <2>1, <2>2 DEF Rename
<1>8. ASSUME NEW c \in Commands, AddRule(c) PROVE TypeOK'
  <2>1. PICK k \in CommandKeys, decision \in Decisions :
          /\ rules' = [rules EXCEPT ![c] = [Decoded(path) EXCEPT ![k] = decision]]
          /\ Granted(k, decision)
    BY <1>8 DEF AddRule
  <2>2. Decoded(path) \in Rules /\ k \in Keys
    BY <1>t, <2>1, FileFacts, KeyFacts
  <2>3. [Decoded(path) EXCEPT ![k] = decision] \in Rules
    BY <2>2, RulesFacts
  <2>4. rules' \in [Processes -> Rules]
    BY <1>t, <2>1, <2>3
  <2>5. granted' \subseteq Keys
    BY <1>t, <2>1, <2>2 DEF Granted
  <2>6. pc' \in [Processes -> PcValues]
    BY <1>8, <1>t DEF AddRule, Goto, PcValues
  <2> QED
    BY <1>8, <1>t, <2>4, <2>5, <2>6, <1>s DEF AddRule, files
<1>9. ASSUME NEW c \in Commands, RemoveRules(c) PROVE TypeOK'
  <2>1. PICK gone \in SUBSET Keys :
          /\ rules' = [rules EXCEPT ![c] =
                          [k \in Keys |-> IF k \in gone THEN "none"
                                                        ELSE Decoded(path)[k]]]
          /\ acked' = [k \in Keys |-> IF k \in gone THEN "none" ELSE acked[k]]
    BY <1>9 DEF RemoveRules
  <2>2. Decoded(path) \in Rules
    BY <1>t, FileFacts
  <2>3. [k \in Keys |-> IF k \in gone THEN "none" ELSE Decoded(path)[k]]
           \in Rules
    BY <2>2 DEF Rules
  <2>4. rules' \in [Processes -> Rules]
    BY <1>t, <2>1, <2>3
  <2>5. acked' \in Rules
    BY <1>t, <2>1 DEF Rules
  <2>6. pc' \in [Processes -> PcValues]
    BY <1>9, <1>t DEF RemoveRules, Goto, PcValues
  <2> QED
    BY <1>9, <1>t, <2>4, <2>5, <2>6, <1>s DEF RemoveRules, files
<1>10. ASSUME NEW c \in Commands, ClearRules(c) PROVE TypeOK'
  BY <1>10, <1>s, <1>t, RulesFacts, FileFacts
     DEF ClearRules, Unlinked, Goto, PcValues, memory
<1>11. ASSUME NEW c \in Commands, EndCommand(c) PROVE TypeOK'
  BY <1>11, <1>s, <1>t DEF EndCommand, Goto, PcValues, files, memory
<1>12. CASE UNCHANGED vars
  BY <1>12, <1>s, <1>t DEF vars, files, memory
<1> QED
  BY <1>1, <1>2, <1>3, <1>4, <1>5, <1>6, <1>7, <1>8, <1>9, <1>10, <1>11,
     <1>12 DEF Next

\* Every variable of the model keeps its type: above all, what is decoded
\* from the file is always a decision for each key.
THEOREM TypeCorrect == Spec => []TypeOK
<1>1. Init => TypeOK
  BY InitTyped
<1>2. TypeOK /\ [Next]_vars => TypeOK'
  BY NextTyped
<1> QED
  BY <1>1, <1>2, PTL DEF Spec
-----------------------------------------------------------------------------
(* No allow out of nowhere                                                 *)

AllowedBy(r, g) == \A k \in Keys : r[k] = "allow" => k \in g

\* Wherever an engine may find an allow, somebody has put it: in the memory
\* of a process, the decisions of a session, the rule file, and also the
\* temporary file, which may be renamed by a process that did not write it.
GrantInv ==
    /\ \A p \in Processes : AllowedBy(rules[p], granted)
    /\ \A e \in Engines : AllowedBy(session[e], granted)
    /\ AllowedBy(path.rules, granted)
    /\ AllowedBy(tmp.rules, granted)
    /\ AllowsAreGranted

LEMMA AllowedFacts ==
    /\ \A g : AllowedBy(NoRules, g)
    /\ \A g : AllowedBy(Absent.rules, g) /\ AllowedBy(Garbage.rules, g)
    /\ \A g : AllowedBy(Truncated.rules, g)
    /\ \A r, g : AllowedBy(r, g) => AllowedBy(File(r).rules, g)
    /\ \A r, g, h : AllowedBy(r, g) /\ g \subseteq h => AllowedBy(r, h)
  BY DEF AllowedBy, NoRules, Absent, Garbage, Truncated, File

LEMMA SetRuleAllowed ==
    ASSUME NEW r \in Rules, NEW k \in Keys, NEW d \in Decisions, NEW g,
           AllowedBy(r, g)
    PROVE  AllowedBy([r EXCEPT ![k] = d],
                     IF d = "allow" THEN g \cup {k} ELSE g)
  BY DEF AllowedBy, Rules

\* An answer that is an allow is one only for a granted key.
LEMMA AnswerGranted ==
    ASSUME TypeOK, AllowsAreGranted, granted \subseteq granted',
           NEW e \in Engines, NEW k, NEW answer, Answer(e, k, answer),
           answer = "allow" => k \in granted'
    PROVE  AllowsAreGranted'
<1>1. verdict \in [Engines -> Verdicts]
  BY TypeOKForm
<1>2. verdict' = [verdict EXCEPT ![e] = [key |-> k, answer |-> answer]]
  BY DEF Answer
<1> SUFFICES ASSUME NEW f \in Engines, verdict'[f].answer = "allow"
             PROVE  verdict'[f].key \in granted'
  BY DEF AllowsAreGranted
<1>3. CASE f = e
  BY <1>1, <1>2, <1>3
<1>4. CASE f # e
  BY <1>1, <1>2, <1>4 DEF AllowsAreGranted
<1> QED
  BY <1>3, <1>4

LEMMA GiveUpGranted ==
    ASSUME TypeOK, AllowsAreGranted, granted' = granted,
           NEW p \in Processes, GiveUp(p)
    PROVE  AllowsAreGranted'
<1>1. CASE p \in Engines
  <2>1. Answer(p, asked[p], "error")
    BY <1>1 DEF GiveUp
  <2> QED
    BY <1>1, <2>1, AnswerGranted
<1>2. CASE p \notin Engines
  BY <1>2 DEF GiveUp, AllowsAreGranted
<1> QED
  BY <1>1, <1>2

LEMMA InitGrant == Init => GrantInv
<1> SUFFICES ASSUME Init PROVE GrantInv
  OBVIOUS
<1>1. /\ \A p \in Processes : rules[p] = NoRules
      /\ \A e \in Engines : session[e] = NoRules
      /\ path = Absent /\ tmp = Absent
      /\ \A e \in Engines : verdict[e].answer = "none"
  BY DEF Init
<1> QED
  BY <1>1, AllowedFacts DEF GrantInv, AllowsAreGranted

\* Every step keeps every allow within what has been granted.
LEMMA NextGrant == TypeOK /\ GrantInv /\ [Next]_vars => GrantInv'
<1> SUFFICES ASSUME TypeOK, GrantInv, [Next]_vars PROVE GrantInv'
  OBVIOUS
<1>t. /\ path \in Files /\ tmp \in Files
      /\ rules \in [Processes -> Rules]
      /\ session \in [Engines -> Rules]
      /\ asked \in [Engines -> RequestKeys]
      /\ Engines \subseteq Processes /\ Commands \subseteq Processes
  BY TypeOKForm DEF Processes
<1>g. /\ \A p \in Processes : AllowedBy(rules[p], granted)
      /\ \A e \in Engines : AllowedBy(session[e], granted)
      /\ AllowedBy(path.rules, granted)
      /\ AllowedBy(tmp.rules, granted)
      /\ AllowsAreGranted
  BY DEF GrantInv
<1>1. ASSUME NEW e \in Engines, Decide(e) PROVE GrantInv'
  <2>1. UNCHANGED <<path, tmp, session, granted>>
    BY <1>1 DEF Decide, files
  <2>2. \A p \in Processes : AllowedBy(rules'[p], granted)
    <3>1. UNCHANGED rules \/ rules' = [rules EXCEPT ![e] = path.rules]
      BY <1>1 DEF Decide, EnsureLoaded, Decoded
    <3> QED
      BY <3>1, <1>t, <1>g
  <2>3. PICK k \in RequestKeys :
           LoadFails(e, k) \/ Reuse(e, k) \/ Escalate(e, k)
    BY <1>1 DEF Decide
  <2>4. AllowsAreGranted'
    <3>1. CASE LoadFails(e, k)
      BY <2>1, <3>1, <1>g, AnswerGranted DEF LoadFails
    <3>2. CASE Reuse(e, k)
      <4>1. Answer(e, k, rules'[e][k]) \/ Answer(e, k, session[e][k])
        BY <3>2 DEF Reuse, Lookup
      <4>2. /\ rules'[e][k] = "allow" => k \in granted'
            /\ session[e][k] = "allow" => k \in granted'
        BY <1>t, <1>g, <2>1, <2>2, <2>3, KeyFacts DEF AllowedBy
      <4> QED
        BY <2>1, <4>1, <4>2, <1>g, AnswerGranted
    <3>3. CASE Escalate(e, k)
      <4>1. UNCHANGED verdict \/ Answer(e, k, Escalation[e])
        BY <3>3 DEF Escalate
      <4>2. Escalation[e] # "allow"
        BY PermissionAssumption
      <4>3. CASE UNCHANGED verdict
        BY <2>1, <4>3, <1>g DEF AllowsAreGranted
      <4> QED
        BY <2>1, <4>1, <4>2, <4>3, <1>g, AnswerGranted
    <3> QED
      BY <2>3, <3>1, <3>2, <3>3
  <2> QED
    BY <2>1, <2>2, <2>4, <1>g DEF GrantInv
<1>2. ASSUME NEW e \in Engines, Confirm(e) PROVE GrantInv'
  <2>1. UNCHANGED <<path, tmp, rules>>
    BY <1>2 DEF Confirm, files
  <2>2. PICK answer \in Decisions \cup {"error"} :
           /\ Answer(e, asked[e], answer)
           /\ \/ answer = "error" /\ UNCHANGED <<session, granted>>
              \/ /\ answer \in Decisions /\ Granted(asked[e], answer)
                 /\ \/ UNCHANGED session
                    \/ session' = [session EXCEPT ![e][asked[e]] = answer]
    BY <1>2 DEF Confirm
  <2>3. granted \subseteq granted' /\ (answer = "allow" => asked[e] \in granted')
    BY <2>2 DEF Granted
  <2>4. AllowsAreGranted'
    BY <2>2, <2>3, <1>g, AnswerGranted
  <2>5. \A f \in Engines : AllowedBy(session'[f], granted')
    <3>1. CASE UNCHANGED session
      BY <3>1, <2>3, <1>g, AllowedFacts
    <3>2. ASSUME answer \in Decisions, Granted(asked[e], answer),
                 session' = [session EXCEPT ![e][asked[e]] = answer]
          PROVE  \A f \in Engines : AllowedBy(session'[f], granted')
      <4>1. session'[e] = [session[e] EXCEPT ![asked[e]] = answer]
        BY <3>2, <1>t
      <4>2. AllowedBy(session'[e], granted')
        BY <3>2, <4>1, <1>t, <1>g, KeyFacts, SetRuleAllowed DEF Granted
      <4>3. \A f \in Engines \ {e} : session'[f] = session[f]
        BY <3>2, <1>t
      <4> QED
        BY <4>2, <4>3, <2>3, <1>g, AllowedFacts
    <3> QED
      BY <2>2, <3>1, <3>2
  <2> QED
    BY <2>1, <2>3, <2>4, <2>5, <1>g, AllowedFacts DEF GrantInv
<1>3. ASSUME NEW e \in Engines, ConfirmRule(e) PROVE GrantInv'
  <2>1. UNCHANGED <<path, tmp, session, verdict>>
    BY <1>3 DEF ConfirmRule, files
  <2>2. PICK decision \in Decisions :
           /\ rules' = [rules EXCEPT ![e][asked[e]] = decision]
           /\ Granted(asked[e], decision)
    BY <1>3 DEF ConfirmRule
  <2>3. granted \subseteq granted'
    BY <2>2 DEF Granted
  <2>4. rules'[e] = [rules[e] EXCEPT ![asked[e]] = decision]
    BY <2>2, <1>t
  <2>5. AllowedBy(rules'[e], granted')
    BY <2>2, <2>4, <1>t, <1>g, KeyFacts, SetRuleAllowed DEF Granted
  <2>6. \A q \in Processes \ {e} : rules'[q] = rules[q]
    BY <2>2, <1>t
  <2>7. \A q \in Processes : AllowedBy(rules'[q], granted')
    BY <2>5, <2>6, <2>3, <1>g, AllowedFacts
  <2>8. AllowsAreGranted'
    BY <2>1, <2>3, <1>g DEF AllowsAreGranted
  <2> QED
    BY <2>1, <2>3, <2>7, <2>8, <1>g, AllowedFacts DEF GrantInv
<1>4. ASSUME NEW e \in Engines, CrashEngine(e) PROVE GrantInv'
  <2>1. /\ rules' = [rules EXCEPT ![e] = NoRules]
        /\ session' = [session EXCEPT ![e] = NoRules]
        /\ UNCHANGED <<path, tmp, verdict, granted>>
    BY <1>4 DEF CrashEngine, files
  <2> QED
    BY <2>1, <1>t, <1>g, AllowedFacts DEF GrantInv, AllowsAreGranted
<1>5. ASSUME NEW p \in Processes, Open(p) PROVE GrantInv'
  <2>1. UNCHANGED <<path, rules, session, granted>>
    BY <1>5 DEF Open, memory
  <2>2. AllowsAreGranted'
    BY <1>5, <2>1, <1>g, GiveUpGranted DEF Open, AllowsAreGranted
  <2>3. tmp' = Truncated \/ tmp' = tmp
    BY <1>5 DEF Open
  <2> QED
    BY <2>1, <2>2, <2>3, <1>g, AllowedFacts DEF GrantInv
<1>6. ASSUME NEW p \in Processes, Write(p) PROVE GrantInv'
  <2> DEFINE old == IF fd[p] = "tmp" THEN tmp ELSE path
  <2>1. UNCHANGED <<rules, session, granted>>
    BY <1>6 DEF Write, memory
  <2>2. AllowsAreGranted'
    BY <1>6, <2>1, <1>g, GiveUpGranted DEF Write, AllowsAreGranted
  <2>3. \A f \in {old, Garbage} \cup Overlay(old, File(rules[p])) :
           AllowedBy(f.rules, granted)
    BY <1>g, AllowedFacts DEF Overlay
  <2>4. \/ WriteTo(p, Overlay(old, File(rules[p])))
        \/ WriteTo(p, {old, Garbage})
    BY <1>6 DEF Write
  <2>5. AllowedBy(path'.rules, granted) /\ AllowedBy(tmp'.rules, granted)
    BY <2>3, <2>4, <1>g DEF WriteTo, files
  <2> QED
    BY <2>1, <2>2, <2>5, <1>g DEF GrantInv
<1>7. ASSUME NEW p \in Processes, Rename(p) PROVE GrantInv'
  <2>1. UNCHANGED <<rules, session, granted>>
    BY <1>7 DEF Rename, memory
  <2>2. AllowedBy(path'.rules, granted) /\ AllowedBy(tmp'.rules, granted)
    BY <1>7, <1>g, AllowedFacts DEF Rename, files
  <2>3. AllowsAreGranted'
    <3>1. CASE GiveUp(p)
      BY <2>1, <3>1, <1>g, GiveUpGranted
    <3>2. CASE p \in Engines /\ Answer(p, asked[p], rules[p][asked[p]])
      <4>1. rules[p][asked[p]] = "allow" => asked[p] \in granted'
        BY <2>1, <3>2, <1>t, <1>g, KeyFacts DEF AllowedBy
      <4> QED
        BY <2>1, <3>2, <4>1, <1>g, AnswerGranted
    <3>3. CASE UNCHANGED verdict
      BY <2>1, <3>3, <1>g DEF AllowsAreGranted
    <3> QED
      BY <1>7, <3>1, <3>2, <3>3 DEF Rename
  <2> QED
    BY <2>1, <2>2, <2>3, <1>g DEF GrantInv
<1>8. ASSUME NEW c \in Commands, AddRule(c) PROVE GrantInv'
  <2>1. UNCHANGED <<path, tmp, session, verdict>>
    BY <1>8 DEF AddRule, files
  <2>2. PICK k \in CommandKeys, decision \in Decisions :
          /\ rules' = [rules EXCEPT ![c] = [path.rules EXCEPT ![k] = decision]]
          /\ Granted(k, decision)
    BY <1>8 DEF AddRule, Decoded
  <2>3. granted \subseteq granted'
    BY <2>2 DEF Granted
  <2>4. path.rules \in Rules /\ k \in Keys
    BY <1>t, <2>2, FileFacts, KeyFacts DEF Decoded
  <2>5. AllowedBy([path.rules EXCEPT ![k] = decision], granted')
    BY <2>2, <2>4, <1>g, SetRuleAllowed DEF Granted
  <2>6. \A q \in Processes : AllowedBy(rules'[q], granted')
    BY <2>2, <2>3, <2>5, <1>t, <1>g, AllowedFacts
  <2>7. AllowsAreGranted'
    BY <2>1, <2>3, <1>g DEF AllowsAreGranted
  <2> QED
    BY <2>1, <2>3, <2>6, <2>7, <1>g, AllowedFacts DEF GrantInv
<1>9. ASSUME NEW c \in Commands, RemoveRules(c) PROVE GrantInv'
  <2>1. UNCHANGED <<path, tmp, session, verdict, granted>>
    BY <1>9 DEF RemoveRules, files
  <2>2. PICK gone \in SUBSET Keys :
          rules' = [rules EXCEPT ![c] =
                       [k \in Keys |-> IF k \in gone THEN "none"
                                                     ELSE path.rules[k]]]
    BY <1>9 DEF RemoveRules, Decoded
  <2>3. AllowedBy([k \in Keys |-> IF k \in gone THEN "none"
                                                ELSE path.rules[k]], granted)
    BY <1>g DEF AllowedBy
  <2>4. \A q \in Processes : AllowedBy(rules'[q], granted)
    BY <2>2, <2>3, <1>t, <1>g
  <2> QED
    BY <2>1, <2>4, <1>g DEF GrantInv, AllowsAreGranted
<1>10. ASSUME NEW c \in Commands, ClearRules(c) PROVE GrantInv'
  <2>1. path' = Absent /\ UNCHANGED <<tmp, rules, session, verdict, granted>>
    BY <1>10 DEF ClearRules, memory
  <2> QED
    BY <2>1, <1>g, AllowedFacts DEF GrantInv, AllowsAreGranted
<1>11. ASSUME NEW c \in Commands, EndCommand(c) PROVE GrantInv'
  <2>1. UNCHANGED <<path, tmp, rules, session, verdict, granted>>
    BY <1>11 DEF EndCommand, files, memory
  <2> QED
    BY <2>1, <1>g DEF GrantInv, AllowsAreGranted
<1>12. CASE UNCHANGED vars
  <2>1. UNCHANGED <<path, tmp, rules, session, verdict, granted>>
    BY <1>12 DEF vars, files, memory
  <2> QED
    BY <2>1, <1>g DEF GrantInv, AllowsAreGranted
<1> QED
  BY <1>1, <1>2, <1>3, <1>4, <1>5, <1>6, <1>7, <1>8, <1>9, <1>10, <1>11,
     <1>12 DEF Next

\* A tool call is never allowed but by somebody's allow of exactly its
\* target, whatever the engines, the commands, their interleaving and their
\* deaths; even when two of them write the temporary file at once.
THEOREM AllowsAreGrantedHolds == Spec => []AllowsAreGranted
<1>1. Init => TypeOK /\ GrantInv
  BY InitTyped, InitGrant
<1>2. TypeOK /\ GrantInv /\ [Next]_vars => TypeOK' /\ GrantInv'
  BY NextTyped, NextGrant
<1>3. GrantInv => AllowsAreGranted
  BY DEF GrantInv
<1> QED
  BY <1>1, <1>2, <1>3, PTL DEF Spec
-----------------------------------------------------------------------------
(* Writers that are alone                                                  *)

\* A process that writes and has been alone has the temporary file to itself:
\* truncated while it has it open, and what it meant to write until it renames
\* it.  Two that write at once are both crossed.  The rules that are saved are
\* never none, because none removes the file instead.
WriterInv ==
    /\ \A p \in Processes : fd[p] # "none" => pc[p] = "write"
    /\ \A p, q \in Processes : Writing(p) /\ Writing(q) /\ p # q => p \in crossed
    /\ \A p \in Processes \ crossed :
          pc[p] = "write" => fd[p] = "tmp" /\ tmp = Truncated
    /\ \A p \in Processes \ crossed :
          pc[p] = "rename" => tmp = File(rules[p])
    /\ \A p \in Processes :
          pc[p] = "open" \/ Writing(p) => rules[p] # NoRules

LEMMA FilesDiffer ==
    /\ Absent \notin {Truncated, Garbage}
    /\ \A r : r # NoRules => File(r) \notin {Truncated, Garbage}
    /\ \A r, k, d : k \in Keys /\ d \in Decisions /\ r \in Rules
                       => [r EXCEPT ![k] = d] # NoRules
<1>1. /\ Absent \notin {Truncated, Garbage}
      /\ \A r : r # NoRules => File(r) \notin {Truncated, Garbage}
  BY DEF Absent, Truncated, Garbage, File
<1>2. ASSUME NEW r \in Rules, NEW k \in Keys, NEW d \in Decisions
      PROVE  [r EXCEPT ![k] = d] # NoRules
  <2>1. [r EXCEPT ![k] = d][k] = d /\ NoRules[k] = "none"
    BY DEF Rules, NoRules
  <2>2. d # "none"
    BY DEF Decisions
  <2> QED
    BY <2>1, <2>2
<1> QED
  BY <1>1, <1>2

LEMMA InitWriter == HistoryInit => WriterInv
<1> SUFFICES ASSUME HistoryInit PROVE WriterInv
  OBVIOUS
<1>1. \A p \in Processes : pc[p] \in {"idle", "start"} /\ fd[p] = "none"
  BY DEF HistoryInit, Init
<1> QED
  BY <1>1 DEF WriterInv, Writing

\* A writer that ends a step uncrossed has begun it so, or not writing, and
\* nobody else writes before the step or after it.
LEMMA StaysAlone ==
    ASSUME WriterInv, NoteCrossed, NEW p \in Processes,
           \A q \in Processes \ {p} : pc'[q] = pc[q],
           NEW r \in Processes \ crossed', Writing(r)'
    PROVE  /\ \A q \in Processes \ {r} : ~Writing(q)'
           /\ r \notin crossed
           /\ r # p => Writing(r) /\ ~Writing(p) /\ ~Writing(p)'
<1>1. /\ r \notin crossed
      /\ \A q \in Processes \ {r} : ~Writing(q)'
  BY DEF NoteCrossed
<1>2. ASSUME r # p PROVE Writing(r) /\ ~Writing(p) /\ ~Writing(p)'
  <2>1. Writing(r)
    BY <1>2 DEF Writing
  <2>2. ~Writing(p)
    BY <1>1, <1>2, <2>1 DEF WriterInv
  <2> QED
    BY <1>1, <1>2, <2>1, <2>2
<1> QED
  BY <1>1, <1>2

\* The invariant after a step of p, from what the step does to p: whoever does
\* not write leaves the temporary file, and whoever has it open, alone.
LEMMA StepKeepsWriter ==
    ASSUME TypeOK, WriterInv, NoteCrossed, NEW p \in Processes,
           pc' = [pc EXCEPT ![p] = pc'[p]],
           \A q \in Processes \ {p} : rules'[q] = rules[q],
           \A q \in Processes : fd'[q] # "none" => pc'[q] = "write",
           ~Writing(p) /\ ~Writing(p)' =>
              /\ tmp' = tmp
              /\ \A q \in Processes \ {p} : fd[q] = "tmp" => fd'[q] = "tmp",
           pc'[p] = "open" \/ Writing(p)' => rules'[p] # NoRules,
           p \notin crossed' /\ pc'[p] = "write" =>
              fd'[p] = "tmp" /\ tmp' = Truncated,
           p \notin crossed' /\ pc'[p] = "rename" => tmp' = File(rules'[p])
    PROVE  WriterInv'
<1>1. \A q \in Processes \ {p} : pc'[q] = pc[q]
  BY TypeOKForm
<1>2. ASSUME NEW q \in Processes, NEW r \in Processes, Writing(q)', Writing(r)',
             q # r
      PROVE  q \in crossed'
  BY <1>2 DEF NoteCrossed
<1>3. ASSUME NEW r \in Processes \ crossed', pc'[r] = "write"
      PROVE  fd'[r] = "tmp" /\ tmp' = Truncated
  <2>1. CASE r = p
    BY <1>3, <2>1
  <2>2. CASE r # p
    <3>1. Writing(r)'
      BY <1>3 DEF Writing
    <3>2. r \notin crossed /\ ~Writing(p) /\ ~Writing(p)'
      BY <1>1, <2>2, <3>1, StaysAlone
    <3>3. pc[r] = "write" /\ tmp' = tmp /\ (fd[r] = "tmp" => fd'[r] = "tmp")
      BY <1>1, <1>3, <2>2, <3>2
    <3> QED
      BY <3>2, <3>3 DEF WriterInv
  <2> QED
    BY <2>1, <2>2
<1>4. ASSUME NEW r \in Processes \ crossed', pc'[r] = "rename"
      PROVE  tmp' = File(rules'[r])
  <2>1. CASE r = p
    BY <1>4, <2>1
  <2>2. CASE r # p
    <3>1. Writing(r)'
      BY <1>4 DEF Writing
    <3>2. r \notin crossed /\ ~Writing(p) /\ ~Writing(p)'
      BY <1>1, <2>2, <3>1, StaysAlone
    <3>3. pc[r] = "rename" /\ tmp' = tmp /\ rules'[r] = rules[r]
      BY <1>1, <1>4, <2>2, <3>2
    <3> QED
      BY <3>2, <3>3 DEF WriterInv
  <2> QED
    BY <2>1, <2>2
<1>5. ASSUME NEW q \in Processes, pc'[q] = "open" \/ Writing(q)'
      PROVE  rules'[q] # NoRules
  <2>1. CASE q = p
    BY <1>5, <2>1
  <2>2. CASE q # p
    BY <1>1, <1>5, <2>2 DEF WriterInv, Writing
  <2> QED
    BY <2>1, <2>2
<1> QED
  BY <1>2, <1>3, <1>4, <1>5 DEF WriterInv

\* A step of p that ends outside of the writing.
LEMMA LeaveKeepsWriter ==
    ASSUME TypeOK, WriterInv, NoteCrossed, NEW p \in Processes, NEW label,
           label \notin {"write", "rename"}, Goto(p, label),
           \/ fd' = [fd EXCEPT ![p] = "none"]
           \/ UNCHANGED fd /\ pc[p] # "write",
           \A q \in Processes \ {p} : rules'[q] = rules[q],
           label = "open" => rules'[p] # NoRules,
           tmp' = tmp \/ Writing(p)
    PROVE  WriterInv'
<1>1. /\ pc' = [pc EXCEPT ![p] = label]
      /\ pc \in [Processes -> PcValues]
      /\ fd \in [Processes -> {"none", "tmp", "path", "gone"}]
  BY TypeOKForm DEF Goto
<1>2. pc'[p] = label /\ ~Writing(p)'
  BY <1>1 DEF Writing
<1>3. \A q \in Processes \ {p} : pc'[q] = pc[q] /\ fd'[q] = fd[q]
  BY <1>1
<1>4. fd'[p] = "none"
  BY <1>1 DEF WriterInv
<1>5. \A q \in Processes : fd'[q] # "none" => pc'[q] = "write"
  BY <1>3, <1>4 DEF WriterInv
<1>6. pc' = [pc EXCEPT ![p] = pc'[p]]
  BY <1>1, <1>2
<1>7. /\ pc'[p] = "open" \/ Writing(p)' => rules'[p] # NoRules
      /\ pc'[p] \notin {"write", "rename"}
  BY <1>2
<1>8. ~Writing(p) /\ ~Writing(p)' =>
         /\ tmp' = tmp
         /\ \A q \in Processes \ {p} : fd[q] = "tmp" => fd'[q] = "tmp"
  BY <1>3
<1> QED
  BY <1>5, <1>6, <1>7, <1>8, StepKeepsWriter

\* Every step keeps it, however many processes write.
LEMMA NextWriter ==
    ASSUME TypeOK, WriterInv, Next, NoteCrossed
    PROVE  WriterInv'
<1>t. /\ pc \in [Processes -> PcValues]
      /\ fd \in [Processes -> {"none", "tmp", "path", "gone"}]
      /\ rules \in [Processes -> Rules]
      /\ path \in Files
      /\ asked \in [Engines -> RequestKeys]
      /\ Engines \subseteq Processes /\ Commands \subseteq Processes
  BY TypeOKForm DEF Processes
<1>1. ASSUME NEW e \in Engines, Decide(e) PROVE WriterInv'
  <2>1. /\ pc[e] = "idle" /\ e \in Processes
        /\ UNCHANGED <<path, tmp, fd>>
        /\ \A q \in Processes \ {e} : rules'[q] = rules[q]
    BY <1>1, <1>t DEF Decide, EnsureLoaded, files
  <2>2. Goto(e, "idle") \/ Goto(e, "asking")
    BY <1>1, <1>t DEF Decide, LoadFails, Reuse, Escalate, Goto
  <2> QED
    BY <2>1, <2>2, LeaveKeepsWriter
<1>2. ASSUME NEW e \in Engines, Confirm(e) PROVE WriterInv'
  <2>1. /\ pc[e] = "asking" /\ e \in Processes /\ Goto(e, "idle")
        /\ UNCHANGED <<path, tmp, fd, rules>>
    BY <1>2, <1>t DEF Confirm, files
  <2> QED
    BY <2>1, LeaveKeepsWriter
<1>3. ASSUME NEW e \in Engines, ConfirmRule(e) PROVE WriterInv'
  <2>1. /\ pc[e] = "asking" /\ e \in Processes /\ Goto(e, "open")
        /\ UNCHANGED <<path, tmp, fd>>
    BY <1>3, <1>t DEF ConfirmRule, files
  <2>2. PICK decision \in Decisions :
           rules' = [rules EXCEPT ![e][asked[e]] = decision]
    BY <1>3 DEF ConfirmRule
  <2>3. /\ rules'[e] = [rules[e] EXCEPT ![asked[e]] = decision]
        /\ \A q \in Processes \ {e} : rules'[q] = rules[q]
    BY <2>1, <2>2, <1>t
  <2>4. rules'[e] # NoRules
    BY <2>1, <2>3, <1>t, KeyFacts, FilesDiffer
  <2> QED
    BY <2>1, <2>3, <2>4, LeaveKeepsWriter
<1>4. ASSUME NEW e \in Engines, CrashEngine(e) PROVE WriterInv'
  <2>1. /\ e \in Processes /\ Goto(e, "idle")
        /\ fd' = [fd EXCEPT ![e] = "none"] /\ UNCHANGED <<path, tmp>>
        /\ \A q \in Processes \ {e} : rules'[q] = rules[q]
    BY <1>4, <1>t DEF CrashEngine, files
  <2> QED
    BY <2>1, LeaveKeepsWriter
<1>g. ASSUME NEW p \in Processes, GiveUp(p), UNCHANGED rules,
             Writing(p) \/ UNCHANGED tmp
      PROVE  WriterInv'
  <2>1. /\ fd' = [fd EXCEPT ![p] = "none"]
        /\ Goto(p, "idle") \/ Goto(p, "failed")
    BY <1>g DEF GiveUp
  <2> QED
    BY <1>g, <2>1, LeaveKeepsWriter
<1>5. ASSUME NEW p \in Processes, Open(p) PROVE WriterInv'
  <2>1. pc[p] = "open" /\ UNCHANGED rules
    BY <1>5 DEF Open, memory
  <2>2. CASE GiveUp(p) /\ UNCHANGED tmp
    BY <2>1, <2>2, <1>g
  <2>3. ASSUME tmp' = Truncated, fd' = [fd EXCEPT ![p] = "tmp"],
               Goto(p, "write")
        PROVE  WriterInv'
    <3>1. /\ pc'[p] = "write" /\ fd'[p] = "tmp" /\ Writing(p)'
          /\ \A q \in Processes \ {p} : pc'[q] = pc[q] /\ fd'[q] = fd[q]
          /\ pc' = [pc EXCEPT ![p] = pc'[p]]
      BY <2>3, <1>t DEF Goto, Writing
    <3>2. \A q \in Processes : fd'[q] # "none" => pc'[q] = "write"
      BY <3>1 DEF WriterInv
    <3>3. rules'[p] # NoRules
      BY <2>1 DEF WriterInv
    <3> QED
      BY <2>1, <2>3, <3>1, <3>2, <3>3, StepKeepsWriter
  <2> QED
    BY <1>5, <2>2, <2>3 DEF Open
<1>6. ASSUME NEW p \in Processes, Write(p) PROVE WriterInv'
  <2>1. /\ pc[p] = "write" /\ rules[p] # NoRules /\ Writing(p)
        /\ UNCHANGED rules
    BY <1>6 DEF Write, WriterInv, Writing, memory
  <2>2. CASE GiveUp(p)
    BY <2>1, <2>2, <1>g
  <2>3. ASSUME WriteTo(p, Overlay(IF fd[p] = "tmp" THEN tmp ELSE path,
                                  File(rules[p]))),
               fd' = [fd EXCEPT ![p] = "none"], Goto(p, "rename")
        PROVE  WriterInv'
    <3>1. /\ pc'[p] = "rename" /\ fd'[p] = "none" /\ Writing(p)'
          /\ \A q \in Processes \ {p} : pc'[q] = pc[q] /\ fd'[q] = fd[q]
          /\ pc' = [pc EXCEPT ![p] = pc'[p]]
      BY <2>3, <1>t DEF Goto, Writing
    <3>2. \A q \in Processes : fd'[q] # "none" => pc'[q] = "write"
      BY <3>1 DEF WriterInv
    <3>3. ASSUME p \notin crossed' PROVE tmp' = File(rules'[p])
      <4>1. p \notin crossed
        BY <3>1, <3>3 DEF NoteCrossed
      <4>2. fd[p] = "tmp" /\ tmp = Truncated
        BY <2>1, <4>1 DEF WriterInv
      <4> QED
        BY <2>1, <2>3, <4>2 DEF WriteTo, Overlay
    <3> QED
      BY <2>1, <3>1, <3>2, <3>3, StepKeepsWriter
  <2> QED
    BY <1>6, <2>2, <2>3 DEF Write
<1>7. ASSUME NEW p \in Processes, Rename(p) PROVE WriterInv'
  <2>1. pc[p] = "rename" /\ Writing(p) /\ UNCHANGED rules
    BY <1>7 DEF Rename, Writing, memory
  <2>2. CASE GiveUp(p)
    BY <2>1, <2>2, <1>g
  <2>3. ASSUME fd' = Renamed, Goto(p, "idle") \/ Goto(p, "done")
        PROVE  WriterInv'
    <3>1. /\ pc'[p] \in {"idle", "done"}
          /\ \A q \in Processes \ {p} : pc'[q] = pc[q]
          /\ pc' = [pc EXCEPT ![p] = pc'[p]]
      BY <2>3, <1>t DEF Goto
    <3>2. \A q \in Processes : fd[q] = "none" => fd'[q] = "none"
      BY <2>3, <1>t DEF Renamed
    <3>3. fd[p] = "none"
      BY <2>1, <1>t DEF WriterInv
    <3>4. \A q \in Processes : fd'[q] # "none" => pc'[q] = "write"
      BY <3>1, <3>2, <3>3 DEF WriterInv
    <3>5. ~Writing(p)'
      BY <3>1 DEF Writing
    <3> QED
      BY <2>1, <3>1, <3>4, <3>5, StepKeepsWriter
  <2> QED
    BY <1>7, <2>2, <2>3 DEF Rename
<1>8. ASSUME NEW c \in Commands, AddRule(c) PROVE WriterInv'
  <2>1. /\ pc[c] = "start" /\ c \in Processes /\ Goto(c, "open")
        /\ UNCHANGED <<path, tmp, fd>>
    BY <1>8, <1>t DEF AddRule, files
  <2>2. PICK k \in CommandKeys, decision \in Decisions :
           rules' = [rules EXCEPT ![c] = [Decoded(path) EXCEPT ![k] = decision]]
    BY <1>8 DEF AddRule
  <2>3. /\ rules'[c] = [Decoded(path) EXCEPT ![k] = decision]
        /\ \A q \in Processes \ {c} : rules'[q] = rules[q]
    BY <2>1, <2>2, <1>t
  <2>4. rules'[c] # NoRules
    BY <2>3, <1>t, KeyFacts, FileFacts, FilesDiffer
  <2> QED
    BY <2>1, <2>3, <2>4, LeaveKeepsWriter
<1>9. ASSUME NEW c \in Commands, RemoveRules(c) PROVE WriterInv'
  <2>1. /\ pc[c] = "start" /\ c \in Processes
        /\ UNCHANGED <<path, tmp, fd>>
    BY <1>9, <1>t DEF RemoveRules, files
  <2>2. PICK kept :
           /\ rules' = [rules EXCEPT ![c] = kept]
           /\ Goto(c, IF kept = NoRules THEN "clear" ELSE "open")
    BY <1>9 DEF RemoveRules
  <2>3. /\ rules'[c] = kept
        /\ \A q \in Processes \ {c} : rules'[q] = rules[q]
    BY <2>1, <2>2, <1>t
  <2> QED
    BY <2>1, <2>2, <2>3, LeaveKeepsWriter
<1>10. ASSUME NEW c \in Commands, ClearRules(c) PROVE WriterInv'
  <2>1. /\ pc[c] \in {"start", "clear"} /\ c \in Processes /\ Goto(c, "done")
        /\ fd' = Unlinked /\ UNCHANGED <<tmp, rules>>
    BY <1>10, <1>t DEF ClearRules, memory
  <2>2. /\ pc'[c] = "done" /\ ~Writing(c) /\ ~Writing(c)'
        /\ \A q \in Processes \ {c} : pc'[q] = pc[q]
        /\ pc' = [pc EXCEPT ![c] = pc'[c]]
    BY <2>1, <1>t DEF Goto, Writing
  <2>3. /\ \A q \in Processes : fd[q] = "none" => fd'[q] = "none"
        /\ \A q \in Processes : fd[q] = "tmp" => fd'[q] = "tmp"
    BY <2>1 DEF Unlinked
  <2>4. fd[c] = "none"
    BY <2>1 DEF WriterInv
  <2>5. \A q \in Processes : fd'[q] # "none" => pc'[q] = "write"
    BY <2>2, <2>3, <2>4 DEF WriterInv
  <2> QED
    BY <2>1, <2>2, <2>3, <2>5, StepKeepsWriter
<1>11. ASSUME NEW c \in Commands, EndCommand(c) PROVE WriterInv'
  <2>1. /\ c \in Processes /\ Goto(c, "failed")
        /\ fd' = [fd EXCEPT ![c] = "none"] /\ UNCHANGED <<path, tmp, rules>>
    BY <1>11, <1>t DEF EndCommand, files, memory
  <2> QED
    BY <2>1, LeaveKeepsWriter
<1> QED
  BY <1>1, <1>2, <1>3, <1>4, <1>5, <1>6, <1>7, <1>8, <1>9, <1>10, <1>11
     DEF Next

\* A step of the history is one of the rules, and one of WriterInv.
LEMMA HistoryStep == [HistoryNext]_HistoryVars => [Next]_vars
  BY DEF HistoryVars, HistoryNext

LEMMA HistoryKeepsWriter ==
    ASSUME TypeOK, WriterInv, [HistoryNext]_HistoryVars
    PROVE  TypeOK' /\ WriterInv'
<1>1. TypeOK'
  BY NextTyped, HistoryStep
<1>2. CASE HistoryNext
  BY <1>1, <1>2, NextWriter DEF HistoryNext
<1>3. CASE UNCHANGED HistoryVars
  BY <1>1, <1>3 DEF HistoryVars, vars, files, memory, WriterInv, Writing
<1> QED
  BY <1>1, <1>2, <1>3

\* What may happen to the rule file in a step.
FileStep ==
    path' # path =>
        \/ path' = Absent
        \/ \E p \in Processes : /\ pc[p] = "rename" /\ Moves(p)
                                /\ path' = File(rules[p])
                                /\ path' \notin {Truncated, Garbage}
        \/ \E p \in crossed : Moves(p)

LEMMA FileSteps == TypeOK /\ WriterInv /\ Next => FileStep
<1> SUFFICES ASSUME TypeOK, WriterInv, Next, path' # path PROVE FileStep
  BY DEF FileStep
<1>t. /\ pc \in [Processes -> PcValues]
      /\ fd \in [Processes -> {"none", "tmp", "path", "gone"}]
      /\ Engines \subseteq Processes /\ Commands \subseteq Processes
  BY TypeOKForm DEF Processes
<1>1. ASSUME NEW p \in Processes, Write(p) PROVE FileStep
  <2>1. pc[p] = "write" /\ fd[p] # "tmp"
    BY <1>1 DEF Write, WriteTo
  <2>2. p \in crossed
    BY <2>1 DEF WriterInv
  <2>3. Moves(p)
    BY <1>1, <1>t, <2>1 DEF Write, GiveUp, Goto, Moves, Writing
  <2> QED
    BY <2>2, <2>3 DEF FileStep
<1>2. ASSUME NEW p \in Processes, Rename(p) PROVE FileStep
  <2>1. /\ pc[p] = "rename" /\ Writing(p) /\ path' = tmp
        /\ Goto(p, "idle") \/ Goto(p, "done")
    BY <1>2 DEF Rename, Writing, files
  <2>2. Moves(p)
    BY <1>t, <2>1 DEF Moves, Goto
  <2>3. CASE p \in crossed
    BY <2>2, <2>3 DEF FileStep
  <2>4. CASE p \notin crossed
    <3>1. path' = File(rules[p]) /\ rules[p] # NoRules
      BY <2>1, <2>4 DEF WriterInv
    <3> QED
      BY <2>1, <2>2, <3>1, FilesDiffer DEF FileStep
  <2> QED
    BY <2>3, <2>4
<1>3. ASSUME NEW c \in Commands, ClearRules(c) PROVE FileStep
  BY <1>3 DEF ClearRules, FileStep
<1>4. ASSUME NEW p \in Processes, Open(p) PROVE FALSE
  BY <1>4 DEF Open
<1>5. ASSUME NEW e \in Engines,
             Decide(e) \/ Confirm(e) \/ ConfirmRule(e) \/ CrashEngine(e)
      PROVE  FALSE
  BY <1>5 DEF Decide, Confirm, ConfirmRule, CrashEngine, files
<1>6. ASSUME NEW c \in Commands,
             AddRule(c) \/ RemoveRules(c) \/ EndCommand(c)
      PROVE  FALSE
  BY <1>6 DEF AddRule, RemoveRules, EndCommand, files
<1> QED
  BY <1>1, <1>2, <1>3, <1>4, <1>5, <1>6 DEF Next

\* However many processes write, and wherever they die or fail, a process that
\* was alone from its open to its rename puts exactly its own rules in place,
\* and what else happens to the file, but its removal, is done by processes
\* that were not.
THEOREM RenameInstallsHolds == HistorySpec => RenameInstalls
<1>1. HistoryInit => TypeOK /\ WriterInv
  BY InitTyped, InitWriter DEF HistoryInit
<1>2. TypeOK /\ WriterInv /\ [HistoryNext]_HistoryVars => TypeOK' /\ WriterInv'
  BY HistoryKeepsWriter
<1>3. TypeOK /\ WriterInv /\ [HistoryNext]_HistoryVars
         => [FileStep]_HistoryVars
  BY FileSteps DEF HistoryNext
<1>4. RenameInstalls <=> [][FileStep]_HistoryVars
  BY DEF RenameInstalls, FileStep
<1> QED
  BY <1>1, <1>2, <1>3, <1>4, PTL DEF HistorySpec

\* So a truncated or half written rule file goes back to two processes that
\* wrote at once; death and failure alone damage only the temporary file.
THEOREM DamagedByTwoHolds == HistorySpec => DamagedByTwo
<1> DEFINE Damage == path' # path /\ path' \in {Truncated, Garbage} =>
                        \E p \in crossed : Moves(p)
<1>1. [FileStep]_HistoryVars => [Damage]_HistoryVars
  BY FilesDiffer DEF FileStep
<1>2. RenameInstalls <=> [][FileStep]_HistoryVars
  BY DEF RenameInstalls, FileStep
<1>3. DamagedByTwo <=> [][Damage]_HistoryVars
  BY DEF DamagedByTwo
<1> QED
  BY <1>1, <1>2, <1>3, RenameInstallsHolds, PTL
-----------------------------------------------------------------------------
(* Whom a lost rule is to be blamed on                                     *)

Deciding(e) == pc[e] \in {"asking", "open", "write", "rename"}

\* A process that has a picture of the file, and lacks a rule the file has
\* as it was reported, has missed that rule.
Aware(p) == Remembers(p) => \A k \in Keys :
    rules[p][k] = "none" /\ k \notin missed[p] => ~Holds(k)

\* An engine at work on a decision has a picture.
MissedInv ==
    /\ \A e \in Engines : Deciding(e) => loaded[e] = "yes"
    /\ \A p \in Processes : Aware(p)

\* NoteMissed, process by process.
LEMMA NotedMissed ==
    ASSUME NoteMissed, NEW p \in Processes, Remembers(p), Remembers(p)'
    PROVE  /\ missed[p] \subseteq missed'[p]
           /\ pc'[p] = pc[p] \/ p \in crossed => Touched \subseteq missed'[p]
  BY DEF NoteMissed

\* Whoever takes no part in a step, or writes beside another, is told what it
\* changed.
LEMMA BystanderAware ==
    ASSUME TypeOK, NoteMissed, NEW p \in Processes, Aware(p),
           pc'[p] = pc[p] \/ (p \in crossed /\ (Remembers(p)' => Remembers(p))),
           rules'[p] = rules[p],
           p \in Engines => loaded'[p] = loaded[p]
    PROVE  Aware(p)'
<1> SUFFICES ASSUME Remembers(p)', NEW k \in Keys, rules'[p][k] = "none",
                    k \notin missed'[p], Holds(k)'
             PROVE  FALSE
  BY DEF Aware
<1>1. Remembers(p)
  BY DEF Remembers
<1>2. k \notin missed[p] /\ k \notin Touched
  BY <1>1, NotedMissed
<1>3. Decoded(path')[k] = Decoded(path)[k] /\ acked'[k] = acked[k]
  BY <1>2 DEF Touched
<1>4. Decoded(path)[k] # "none" /\ path \in Files
  BY <1>3, TypeOKForm DEF Holds
<1>5. path # Garbage
  BY <1>4 DEF Garbage, NoRules, Decoded
<1>6. Decodable(path)
  BY <1>4, <1>5 DEF Files, File, Absent, Decodable
<1>7. Holds(k)
  BY <1>3, <1>6 DEF Holds
<1> QED
  BY <1>1, <1>2, <1>7 DEF Aware

\* A process that has taken nothing out of its picture but what the file
\* has not either, while the file stays as it is.
LEMMA ReaderAware ==
    ASSUME NoteMissed, NEW p \in Processes, Aware(p),
           UNCHANGED <<path, acked>>,
           \A k \in Keys : rules'[p][k] = "none" =>
               \/ Decoded(path)[k] = "none"
               \/ Remembers(p) /\ rules[p][k] = "none"
    PROVE  Aware(p)'
<1> SUFFICES ASSUME Remembers(p)', NEW k \in Keys, rules'[p][k] = "none",
                    k \notin missed'[p], Holds(k)'
             PROVE  FALSE
  BY DEF Aware
<1>1. Holds(k)
  BY DEF Holds
<1>2. Decoded(path)[k] # "none"
  BY <1>1 DEF Holds
<1>3. Remembers(p) /\ rules[p][k] = "none"
  BY <1>2
<1>4. k \notin missed[p]
  BY <1>3, NotedMissed
<1> QED
  BY <1>1, <1>3, <1>4 DEF Aware

\* Nothing is known of the file by a process without a picture of it.
LEMMA ForgetfulAware ==
    ASSUME NEW p \in Processes, ~Remembers(p)'
    PROVE  Aware(p)'
  BY DEF Aware

\* The rest of the invariant, and the processes but p, after a step of p.
LEMMA StepOf ==
    ASSUME TypeOK, TypeOK', MissedInv, NoteMissed, NEW p \in Processes,
           pc' = [pc EXCEPT ![p] = pc'[p]],
           \A q \in Processes \ {p} : rules'[q] = rules[q],
           \A q \in Engines \ {p} : loaded'[q] = loaded[q],
           p \in Engines /\ Deciding(p)' => loaded'[p] = "yes",
           Aware(p)'
    PROVE  MissedInv'
<1>1. \A q \in Processes \ {p} : pc'[q] = pc[q]
  BY TypeOKForm
<1>2. ASSUME NEW q \in Processes PROVE Aware(q)'
  <2>1. CASE q = p
    BY <2>1
  <2>2. CASE q # p
    BY <1>1, <2>2, BystanderAware DEF MissedInv
  <2> QED
    BY <2>1, <2>2
<1>3. ASSUME NEW e \in Engines, Deciding(e)' PROVE loaded'[e] = "yes"
  <2>1. CASE e = p
    BY <1>3, <2>1
  <2>2. CASE e # p
    <3>1. e \in Processes
      BY DEF Processes
    <3> QED
      BY <1>1, <1>3, <2>2, <3>1 DEF Deciding, MissedInv
  <2> QED
    BY <2>1, <2>2
<1> QED
  BY <1>2, <1>3 DEF MissedInv

\* Every step keeps it.
LEMMA NextMissed ==
    ASSUME TypeOK, WriterInv, MissedInv, [HistoryNext]_HistoryVars
    PROVE  MissedInv'
<1>t. /\ pc \in [Processes -> PcValues]
      /\ rules \in [Processes -> Rules]
      /\ loaded \in [Engines -> {"no", "yes", "error"}]
      /\ path \in Files /\ acked \in Rules
      /\ asked \in [Engines -> RequestKeys]
      /\ Engines \subseteq Processes /\ Commands \subseteq Processes
      /\ Engines \cap Commands = {}
  BY TypeOKForm, PermissionAssumption DEF Processes
<1>0. TypeOK'
  BY NextTyped, HistoryStep
<1>l. \A e \in Engines : Deciding(e) => loaded[e] = "yes"
  BY DEF MissedInv
<1>m. \A p \in Processes : Aware(p)
  BY DEF MissedInv
\* A step of p that leaves the files alone, and p's rules or all but one.
<1>k. ASSUME NoteMissed, NEW p \in Processes,
             pc' = [pc EXCEPT ![p] = pc'[p]],
             UNCHANGED <<path, acked, loaded>>,
             \A q \in Processes \ {p} : rules'[q] = rules[q],
             \A k \in Keys : rules'[p][k] = "none" => rules[p][k] = "none",
             p \in Engines => Deciding(p) \/ ~Deciding(p)',
             Remembers(p)' => Remembers(p)
      PROVE  MissedInv'
  <2>1. Aware(p)'
    <3>1. CASE Remembers(p)'
      BY <1>k, <1>m, <3>1, ReaderAware
    <3>2. CASE ~Remembers(p)'
      BY <3>2, ForgetfulAware
    <3> QED
      BY <3>1, <3>2
  <2>2. p \in Engines /\ Deciding(p)' => loaded'[p] = "yes"
    BY <1>k, <1>l
  <2> QED
    BY <1>0, <1>k, <2>1, <2>2, StepOf
<1>1. ASSUME NoteMissed, NEW e \in Engines, Decide(e) PROVE MissedInv'
  <2>1. /\ pc[e] = "idle" /\ UNCHANGED <<path, acked>> /\ e \in Processes
    BY <1>1, <1>t DEF Decide, files
  <2>2. /\ \A q \in Processes \ {e} : rules'[q] = rules[q]
        /\ \A q \in Engines \ {e} : loaded'[q] = loaded[q]
    BY <1>1, <1>t DEF Decide, EnsureLoaded
  <2>3. /\ pc' = [pc EXCEPT ![e] = pc'[e]]
        /\ Deciding(e)' => loaded'[e] = "yes"
    <3>1. CASE UNCHANGED pc
      BY <1>t, <2>1, <3>1 DEF Deciding
    <3>2. CASE Goto(e, "asking") /\ loaded'[e] = "yes"
      BY <1>t, <2>1, <3>2 DEF Goto
    <3> QED
      BY <1>1, <3>1, <3>2 DEF Decide, LoadFails, Reuse, Escalate
  <2>4. Aware(e)'
    <3>1. CASE loaded'[e] # "yes"
      BY <2>1, <3>1, ForgetfulAware DEF Remembers
    <3>2. CASE loaded'[e] = "yes" /\ loaded[e] = "no"
      <4>1. rules'[e] = Decoded(path)
        BY <1>1, <1>t, <2>1, <3>2 DEF Decide, EnsureLoaded
      <4> QED
        BY <1>1, <1>m, <2>1, <4>1, ReaderAware
    <3>3. CASE loaded'[e] = "yes" /\ loaded[e] # "no"
      <4>1. rules'[e] = rules[e] /\ loaded[e] = "yes"
        BY <1>1, <3>3 DEF Decide, EnsureLoaded
      <4>2. Remembers(e)
        BY <4>1 DEF Remembers
      <4> QED
        BY <1>1, <1>m, <2>1, <4>1, <4>2, ReaderAware
    <3> QED
      BY <3>1, <3>2, <3>3
  <2> QED
    BY <1>0, <1>1, <2>1, <2>2, <2>3, <2>4, StepOf
<1>2. ASSUME NoteMissed, NEW e \in Engines, Confirm(e) PROVE MissedInv'
  <2>1. /\ Goto(e, "idle") /\ UNCHANGED <<path, acked, rules, loaded>>
    BY <1>2 DEF Confirm, files
  <2> QED
    BY <1>2, <1>k, <1>t, <2>1 DEF Goto, Deciding, Remembers
<1>3. ASSUME NoteMissed, NEW e \in Engines, ConfirmRule(e) PROVE MissedInv'
  <2>1. /\ pc[e] = "asking" /\ Goto(e, "open")
        /\ UNCHANGED <<path, acked, loaded>>
    BY <1>3 DEF ConfirmRule, files
  <2>2. PICK decision \in Decisions :
           rules' = [rules EXCEPT ![e][asked[e]] = decision]
    BY <1>3 DEF ConfirmRule
  <2>3. /\ rules'[e] = [rules[e] EXCEPT ![asked[e]] = decision]
        /\ \A q \in Processes \ {e} : rules'[q] = rules[q]
    BY <2>2, <1>t
  <2>4. decision # "none" /\ rules[e] \in Rules
    BY <1>t DEF Decisions
  <2>5. \A k \in Keys : rules'[e][k] = "none" => rules[e][k] = "none"
    BY <2>3, <2>4 DEF Rules
  <2>6. pc' = [pc EXCEPT ![e] = pc'[e]]
    BY <2>1, <1>t DEF Goto
  <2> QED
    BY <1>3, <1>k, <1>t, <2>1, <2>3, <2>5, <2>6 DEF Deciding, Remembers
<1>4. ASSUME NoteMissed, NEW e \in Engines, CrashEngine(e) PROVE MissedInv'
  <2>1. /\ Goto(e, "idle") /\ UNCHANGED path
        /\ \A q \in Processes \ {e} : rules'[q] = rules[q]
        /\ \A q \in Engines \ {e} : loaded'[q] = loaded[q]
        /\ loaded'[e] = "no"
    BY <1>4, <1>t DEF CrashEngine, files
  <2>2. pc' = [pc EXCEPT ![e] = pc'[e]] /\ ~Deciding(e)'
    BY <2>1, <1>t DEF Goto, Deciding
  <2>3. Aware(e)'
    BY <1>t, <2>1, ForgetfulAware DEF Remembers
  <2> QED
    BY <1>0, <1>4, <1>t, <2>1, <2>2, <2>3, StepOf
\* A step of a crossed writer, whatever it does to the files.
<1>x. ASSUME NoteMissed, NEW p \in crossed, p \in Processes, Writing(p),
             pc' = [pc EXCEPT ![p] = pc'[p]],
             UNCHANGED <<loaded, rules>>
      PROVE  MissedInv'
  <2>1. p \in Engines => Deciding(p)
    BY <1>x DEF Deciding, Writing
  <2>2. Remembers(p)' => Remembers(p)
    BY <1>x DEF Remembers, Writing
  <2>3. Aware(p)'
    BY <1>m, <1>x, <2>2, BystanderAware
  <2> QED
    BY <1>0, <1>l, <1>x, <2>1, <2>3, StepOf
\* A step of a writer that leaves the rule file and its rules alone.
<1>w. ASSUME NoteMissed, NEW p \in Processes, Writing(p) \/ pc[p] = "open",
             pc' = [pc EXCEPT ![p] = pc'[p]],
             UNCHANGED <<path, acked, loaded, rules>>
      PROVE  MissedInv'
  <2>1. p \in Engines => Deciding(p)
    BY <1>w DEF Deciding, Writing
  <2>2. Remembers(p)' => Remembers(p)
    BY <1>w DEF Remembers, Writing
  <2> QED
    BY <1>w, <1>k, <2>1, <2>2
<1>5. ASSUME NoteMissed, NEW p \in Processes, Open(p) PROVE MissedInv'
  <2>1. pc[p] = "open" /\ UNCHANGED <<path, acked, loaded, rules>>
    BY <1>5 DEF Open, memory
  <2>2. pc' = [pc EXCEPT ![p] = pc'[p]]
    BY <1>5, <1>t DEF Open, GiveUp, Goto
  <2> QED
    BY <1>5, <1>w, <2>1, <2>2
<1>6. ASSUME NoteMissed, NEW p \in Processes, Write(p) PROVE MissedInv'
  <2>1. Writing(p) /\ UNCHANGED <<acked, loaded, rules>>
    BY <1>6 DEF Write, Writing, memory
  <2>2. UNCHANGED path \/ p \in crossed
    BY <1>6 DEF Write, WriteTo, WriterInv
  <2>3. pc' = [pc EXCEPT ![p] = pc'[p]]
    BY <1>6, <1>t DEF Write, GiveUp, Goto
  <2> QED
    BY <1>6, <1>w, <1>x, <2>1, <2>2, <2>3
<1>7. ASSUME NoteMissed, NEW p \in Processes, Rename(p) PROVE MissedInv'
  <2>1. /\ pc[p] = "rename" /\ Writing(p) /\ UNCHANGED <<loaded, rules>>
        /\ p \in crossed \/ tmp = File(rules[p])
    BY <1>7 DEF Rename, WriterInv, Writing, memory
  <2>2. pc' = [pc EXCEPT ![p] = pc'[p]]
    BY <1>7, <1>t DEF Rename, GiveUp, Goto
  <2>5. CASE p \in crossed
    BY <1>7, <1>x, <2>1, <2>2, <2>5
  <2>3. CASE UNCHANGED <<files, acked>>
    BY <1>7, <1>w, <2>1, <2>2, <2>3 DEF files
  <2>4. CASE path' = tmp /\ p \notin crossed
    <3>1. Decodable(path') /\ Decoded(path') = rules[p]
      BY <2>1, <2>4 DEF File, Decodable, Decoded
    <3>2. Aware(p)'
      BY <2>1, <3>1 DEF Aware, Holds
    <3>3. p \in Engines /\ Deciding(p)' => loaded'[p] = "yes"
      BY <1>l, <2>1 DEF Deciding
    <3> QED
      BY <1>0, <1>7, <2>1, <2>2, <3>1, <3>2, <3>3, StepOf
  <2> QED
    BY <1>7, <2>3, <2>4, <2>5 DEF Rename
<1>8. ASSUME NoteMissed, NEW c \in Commands, AddRule(c) PROVE MissedInv'
  <2>1. /\ pc[c] = "start" /\ c \in Processes /\ Goto(c, "open")
        /\ UNCHANGED <<path, acked, loaded>>
    BY <1>8, <1>t DEF AddRule, files
  <2>2. PICK k \in CommandKeys, decision \in Decisions :
           rules' = [rules EXCEPT ![c] = [Decoded(path) EXCEPT ![k] = decision]]
    BY <1>8 DEF AddRule
  <2>3. /\ rules'[c] = [Decoded(path) EXCEPT ![k] = decision]
        /\ \A q \in Processes \ {c} : rules'[q] = rules[q]
    BY <2>1, <2>2, <1>t
  <2>4. decision # "none" /\ Decoded(path) \in Rules
    BY <1>t, FileFacts DEF Decisions
  <2>5. \A j \in Keys : rules'[c][j] = "none" => Decoded(path)[j] = "none"
    BY <2>3, <2>4 DEF Rules
  <2>6. Aware(c)'
    BY <1>8, <1>m, <2>1, <2>5, ReaderAware
  <2>7. pc' = [pc EXCEPT ![c] = pc'[c]] /\ c \notin Engines
    BY <1>t, <2>1 DEF Goto
  <2> QED
    BY <1>0, <1>8, <2>1, <2>3, <2>6, <2>7, StepOf
<1>9. ASSUME NoteMissed, NEW c \in Commands, RemoveRules(c) PROVE MissedInv'
  <2>1. /\ pc[c] = "start" /\ c \in Processes /\ UNCHANGED <<path, loaded>>
    BY <1>9, <1>t DEF RemoveRules, files
  <2>2. PICK gone \in SUBSET Keys :
           /\ rules' = [rules EXCEPT ![c] =
                          [k \in Keys |-> IF k \in gone THEN "none"
                                                        ELSE Decoded(path)[k]]]
           /\ acked' = [k \in Keys |-> IF k \in gone THEN "none"
                                                     ELSE acked[k]]
           /\ Goto(c, "clear") \/ Goto(c, "open")
    BY <1>9 DEF RemoveRules
  <2>3. /\ rules'[c] = [k \in Keys |-> IF k \in gone THEN "none"
                                                     ELSE Decoded(path)[k]]
        /\ \A q \in Processes \ {c} : rules'[q] = rules[q]
    BY <2>1, <2>2, <1>t
  <2>4. Aware(c)'
    BY <2>1, <2>2, <2>3 DEF Aware, Holds
  <2>5. pc' = [pc EXCEPT ![c] = pc'[c]] /\ c \notin Engines
    BY <1>t, <2>1, <2>2 DEF Goto
  <2> QED
    BY <1>0, <1>9, <2>1, <2>3, <2>4, <2>5, StepOf
<1>10. ASSUME NoteMissed, NEW c \in Commands, ClearRules(c) PROVE MissedInv'
  <2>1. /\ c \in Processes /\ Goto(c, "done") /\ UNCHANGED <<rules, loaded>>
    BY <1>10, <1>t DEF ClearRules, memory
  <2>2. pc' = [pc EXCEPT ![c] = pc'[c]] /\ c \notin Engines /\ pc'[c] = "done"
    BY <1>t, <2>1 DEF Goto
  <2>3. Aware(c)'
    BY <2>1, <2>2, ForgetfulAware DEF Remembers
  <2> QED
    BY <1>0, <1>10, <2>1, <2>2, <2>3, StepOf
<1>11. ASSUME NoteMissed, NEW c \in Commands, EndCommand(c) PROVE MissedInv'
  <2>1. /\ c \in Processes /\ Goto(c, "failed")
        /\ UNCHANGED <<rules, loaded, path>>
    BY <1>11, <1>t DEF EndCommand, memory, files
  <2>2. /\ pc' = [pc EXCEPT ![c] = pc'[c]] /\ c \notin Engines
        /\ pc'[c] = "failed"
    BY <1>t, <2>1 DEF Goto
  <2>3. Aware(c)'
    BY <2>1, <2>2, ForgetfulAware DEF Remembers
  <2> QED
    BY <1>0, <1>11, <2>1, <2>2, <2>3, StepOf
<1>12. CASE UNCHANGED HistoryVars
  BY <1>12 DEF HistoryVars, vars, files, memory, MissedInv, Aware, Remembers,
       Holds, Deciding, Decodable, Decoded
<1> QED
  BY <1>1, <1>2, <1>3, <1>4, <1>5, <1>6, <1>7, <1>8, <1>9, <1>10, <1>11,
     <1>12 DEF HistoryNext, Next

\* What the step that loses a rule may be.
LossIsBlamed ==
    \A k \in Keys :
        Holds(k) /\ acked'[k] = acked[k] /\ ~Holds(k)' =>
            \E p \in Processes :
                /\ Moves(p)
                /\ p \in crossed \/ (pc[p] = "rename" /\ k \in missed[p])

\* Only a writer takes a reported rule away: one that was not alone, or one
\* that missed it.
LEMMA LossStep ==
    ASSUME TypeOK, WriterInv, MissedInv, Next
    PROVE  LossIsBlamed
<1> SUFFICES ASSUME NEW k \in Keys, Holds(k), acked'[k] = acked[k], ~Holds(k)'
             PROVE  \E p \in Processes :
                        /\ Moves(p)
                        /\ \/ p \in crossed
                           \/ pc[p] = "rename" /\ k \in missed[p]
  BY DEF LossIsBlamed
<1>t. /\ pc \in [Processes -> PcValues]
      /\ Engines \subseteq Processes /\ Commands \subseteq Processes
  BY TypeOKForm DEF Processes
<1>1. path' # path
  BY DEF Holds
<1>2. ASSUME NEW c \in Commands, ClearRules(c) PROVE FALSE
  BY <1>2 DEF ClearRules, NoRules, Holds
<1>3. ASSUME NEW p \in Processes, Write(p) PROVE p \in crossed /\ Moves(p)
  <2>1. pc[p] = "write" /\ fd[p] # "tmp"
    BY <1>1, <1>3 DEF Write, WriteTo
  <2> QED
    BY <1>3, <1>t, <2>1 DEF WriterInv, Write, GiveUp, Goto, Moves, Writing
<1>4. ASSUME NEW p \in Processes, Open(p) PROVE FALSE
  BY <1>1, <1>4 DEF Open
<1>5. ASSUME NEW e \in Engines,
             Decide(e) \/ Confirm(e) \/ ConfirmRule(e) \/ CrashEngine(e)
      PROVE  FALSE
  BY <1>1, <1>5 DEF Decide, Confirm, ConfirmRule, CrashEngine, files
<1>6. ASSUME NEW c \in Commands,
             AddRule(c) \/ RemoveRules(c) \/ EndCommand(c)
      PROVE  FALSE
  BY <1>1, <1>6 DEF AddRule, RemoveRules, EndCommand, files
<1>7. ASSUME NEW p \in Processes, Rename(p)
      PROVE  Moves(p) /\ (p \in crossed \/ (pc[p] = "rename" /\ k \in missed[p]))
  <2>1. /\ pc[p] = "rename" /\ path' = tmp
        /\ Goto(p, "idle") \/ Goto(p, "done")
        /\ UNCHANGED rules
        /\ acked'[k] = IF rules[p][k] # "none" THEN rules[p][k] ELSE acked[k]
    BY <1>1, <1>7 DEF Rename, files, memory
  <2>2. Moves(p)
    BY <1>t, <2>1 DEF Goto, Moves, Writing
  <2>3. ASSUME p \notin crossed PROVE k \in missed[p]
    <3>1. tmp = File(rules[p])
      BY <2>1, <2>3 DEF WriterInv
    <3>2. rules[p][k] = "none"
      BY <2>1, <3>1 DEF Holds, File, Decodable, Decoded
    <3>3. Remembers(p)
      BY <2>1 DEF Remembers, MissedInv, Deciding
    <3> QED
      BY <3>2, <3>3 DEF MissedInv, Aware
  <2> QED
    BY <2>1, <2>2, <2>3
<1> QED
  BY <1>2, <1>3, <1>4, <1>5, <1>6, <1>7 DEF Next

\* However many engines and commands there are and whoever dies, a rule that
\* was reported as stored is lost only to a process that was not alone as it
\* wrote, or renames what it made of an older reading of the file
\* (persistRuleDecisionFile, which reads and locks nothing).
THEOREM LostOnlyToStaleWriterHolds == HistorySpec => LostOnlyToStaleWriter
<1>1. HistoryInit => TypeOK /\ WriterInv /\ MissedInv
  <2>1. HistoryInit => TypeOK /\ WriterInv
    BY InitTyped, InitWriter DEF HistoryInit
  <2>2. Init => MissedInv
    BY PermissionAssumption DEF Init, MissedInv, Deciding, Aware, Holds,
       NoRules, Processes
  <2> QED
    BY <2>1, <2>2 DEF HistoryInit
<1>2. TypeOK /\ WriterInv /\ MissedInv /\ [HistoryNext]_HistoryVars =>
          TypeOK' /\ WriterInv' /\ MissedInv'
  BY HistoryKeepsWriter, NextMissed
<1>3. TypeOK /\ WriterInv /\ MissedInv /\ [HistoryNext]_HistoryVars =>
          [LossIsBlamed]_HistoryVars
  BY LossStep DEF HistoryNext
<1>4. LostOnlyToStaleWriter <=> [][LossIsBlamed]_HistoryVars
  BY DEF LostOnlyToStaleWriter, LossIsBlamed
<1> QED
  BY <1>1, <1>2, <1>3, <1>4, PTL DEF HistorySpec
=============================================================================
