------------------------ MODULE SessionLifecycleProofs -------------------------
(***************************************************************************)
(* Proofs about SessionLifecycle, for any sessions, prompts, deletions and *)
(* limits: the types, and that the collector deletes a session only for a  *)
(* reason that held when its round began, or that a save has overtaken.    *)
(***************************************************************************)
EXTENDS SessionLifecycle, TLAPS

CreateSteps == {"no", "stored", "setup", "answered", "failed"}
Runs        == [at: {"running"}, on: Sessions, copy: Records]
DeleteSteps == [at: {"cleanup", "count", "done"}, of: Sessions]

LEMMA FileFacts ==
    /\ Absent \in Files /\ Torn \in Files /\ Absent # Torn
    /\ Records \subseteq Files
    /\ \A c, u \in Times : Session(c, u) \in Records
    /\ \A r \in Records :
          /\ r.createdAt \in Times /\ r.updatedAt \in Times
          /\ r.kind = "session" /\ r # Absent /\ r # Torn
    /\ \A f \in Files : f.kind = "session" => f \in Records
    /\ \A c, u : /\ Session(c, u).createdAt = c
                 /\ Session(c, u).updatedAt = u
  BY DEF Files, Records, Absent, Torn, Session

LEMMA HandlerFacts ==
    /\ \A r \in Runs : r # Idle /\ r.on \in Sessions /\ r.copy \in Records
    /\ \A d \in DeleteSteps : d.at # "idle" /\ d.of \in Sessions
    /\ \A s \in Sessions : Done(s) \in DeleteSteps
    /\ \A s \in Sessions, a \in {"cleanup", "count", "done"} :
          [at |-> a, of |-> s] \in DeleteSteps
    /\ \A d \in DeleteSteps, a \in {"count", "done"} :
          [d EXCEPT !.at = a] \in DeleteSteps
    /\ \A s \in Sessions, r \in Records :
          [at |-> "running", on |-> s, copy |-> r] \in Runs
    /\ Idle.at = "idle"
  BY DEF Runs, DeleteSteps, Idle, Done

-----------------------------------------------------------------------------
(* The type invariant                                                      *)

LEMMA TypeOKForm ==
    TypeOK <=> /\ now \in Times
               /\ file \in [Sessions -> Files]
               /\ worktrees \subseteq Sessions
               /\ activeSessions \in Int
               /\ creating \in [Sessions -> CreateSteps]
               /\ running \in [Prompts -> {Idle} \cup Runs]
               /\ deleting \in [Deletions -> {Idle} \cup DeleteSteps]
               /\ expired \subseteq Sessions
               /\ listedAt \in Times
               /\ used \in [Sessions -> Times]
               /\ born \in [Sessions -> Times]
               /\ restarts \in 0 .. MaxRestarts
  BY DEF TypeOK, CreateSteps, Runs, DeleteSteps

LEMMA InitTyped == Init => TypeOK
  BY LifecycleAssumption, FileFacts DEF Init, TypeOK, Times

LEMMA WriteFailsTyped ==
    ASSUME file \in [Sessions -> Files], NEW s \in Sessions, WriteFails(s)
    PROVE  file' \in [Sessions -> Files]
  BY FileFacts DEF WriteFails, Put

\* Every step keeps the types.
LEMMA NextTyped == TypeOK /\ [Next]_vars => TypeOK'
<1> SUFFICES ASSUME TypeOK, [Next]_vars PROVE TypeOK'
  OBVIOUS
<1>t. /\ now \in Times
      /\ file \in [Sessions -> Files]
      /\ worktrees \subseteq Sessions
      /\ activeSessions \in Int
      /\ creating \in [Sessions -> CreateSteps]
      /\ running \in [Prompts -> {Idle} \cup Runs]
      /\ deleting \in [Deletions -> {Idle} \cup DeleteSteps]
      /\ expired \subseteq Sessions
      /\ listedAt \in Times
      /\ used \in [Sessions -> Times]
      /\ born \in [Sessions -> Times]
      /\ restarts \in 0 .. MaxRestarts
  BY TypeOKForm
<1>s. /\ now' \in Times
      /\ file' \in [Sessions -> Files]
      /\ worktrees' \subseteq Sessions
      /\ activeSessions' \in Int
      /\ creating' \in [Sessions -> CreateSteps]
      /\ running' \in [Prompts -> {Idle} \cup Runs]
      /\ deleting' \in [Deletions -> {Idle} \cup DeleteSteps]
      /\ expired' \subseteq Sessions
      /\ listedAt' \in Times
      /\ used' \in [Sessions -> Times]
      /\ born' \in [Sessions -> Times]
      /\ restarts' \in 0 .. MaxRestarts
      => TypeOK'
  BY DEF TypeOK, CreateSteps, Runs, DeleteSteps
<1>1. ASSUME NEW s \in Sessions, CreateSession(s) PROVE TypeOK'
  <2>1. file' \in [Sessions -> Files]
    BY <1>1, <1>t, FileFacts, WriteFailsTyped, SMTT(60) DEF CreateSession, Put
  <2>2. /\ creating' \in [Sessions -> CreateSteps]
        /\ used' \in [Sessions -> Times] /\ born' \in [Sessions -> Times]
    BY <1>1, <1>t DEF CreateSession, CreateSteps, history
  <2> QED
    BY <1>1, <1>t, <2>1, <2>2, <1>s DEF CreateSession, round
<1>2. ASSUME NEW s \in Sessions, Setup(s) PROVE TypeOK'
  BY <1>2, <1>t, <1>s DEF Setup, CreateSteps, round, history
<1>3. ASSUME NEW s \in Sessions, CountCreated(s) PROVE TypeOK'
  BY <1>3, <1>t, <1>s DEF CountCreated, CreateSteps, disk, round, history
<1>4. ASSUME NEW s \in Sessions, Collect(s) PROVE TypeOK'
  BY <1>4, <1>t, <1>s, FileFacts DEF Collect, Put, handlers, history
<1>5. ASSUME NEW d \in Deletions, Delete(d) PROVE TypeOK'
  <2>0. PICK s \in Sessions, step \in DeleteSteps :
           /\ deleting' = [deleting EXCEPT ![d] = step]
           /\ Put(s, Absent) \/ UNCHANGED file
    BY <1>5, HandlerFacts DEF Delete
  <2>1. /\ file' \in [Sessions -> Files]
        /\ deleting' \in [Deletions -> {Idle} \cup DeleteSteps]
    BY <2>0, <1>t, FileFacts DEF Put
  <2> QED
    BY <1>5, <1>t, <2>1, <1>s DEF Delete, round, history
<1>6. ASSUME NEW d \in Deletions, Cleanup(d) PROVE TypeOK'
  <2>1. deleting[d] \in DeleteSteps
    BY <1>6, <1>t, HandlerFacts DEF Cleanup
  <2>2. deleting' = [deleting EXCEPT ![d] = [deleting[d] EXCEPT !.at = "count"]]
    BY <1>6 DEF Cleanup
  <2>3. deleting' \in [Deletions -> {Idle} \cup DeleteSteps]
    BY <1>t, <2>1, <2>2, HandlerFacts
  <2> QED
    BY <1>6, <1>t, <2>3, <1>s DEF Cleanup, round, history
<1>7. ASSUME NEW d \in Deletions, CountDeleted(d) PROVE TypeOK'
  <2>1. deleting[d] \in DeleteSteps
    BY <1>7, <1>t, HandlerFacts DEF CountDeleted
  <2>2. deleting' = [deleting EXCEPT ![d] = [deleting[d] EXCEPT !.at = "done"]]
    BY <1>7 DEF CountDeleted
  <2>3. deleting' \in [Deletions -> {Idle} \cup DeleteSteps]
    BY <1>t, <2>1, <2>2, HandlerFacts
  <2> QED
    BY <1>7, <1>t, <2>3, <1>s DEF CountDeleted, disk, round, history
<1>8. ASSUME NEW p \in Prompts, Load(p) PROVE TypeOK'
  <2>1. PICK s \in Sessions :
           /\ Decodable(s)
           /\ running' = [running EXCEPT ![p] =
                             [at |-> "running", on |-> s, copy |-> file[s]]]
    BY <1>8 DEF Load
  <2>2. file[s] \in Records
    BY <1>t, <2>1, FileFacts DEF Decodable
  <2>3. running' \in [Prompts -> {Idle} \cup Runs]
    BY <1>t, <2>1, <2>2, HandlerFacts
  <2> QED
    BY <1>8, <1>t, <2>3, <1>s DEF Load, disk, round, history
<1>9. ASSUME NEW p \in Prompts, Save(p) PROVE TypeOK'
  <2>1. running[p] \in Runs
    BY <1>9, <1>t DEF Save
  <2>2. /\ running[p].on \in Sessions
        /\ Session(running[p].copy.createdAt, now) \in Files
    BY <1>t, <2>1, HandlerFacts, FileFacts
  <2>3. file' \in [Sessions -> Files]
    BY <1>9, <1>t, <2>2, WriteFailsTyped DEF Save, Put
  <2>4. /\ running' \in [Prompts -> {Idle} \cup Runs]
        /\ used' \in [Sessions -> Times] /\ born' \in [Sessions -> Times]
    BY <1>9, <1>t, <2>2 DEF Save, history
  <2> QED
    BY <1>9, <1>t, <2>3, <2>4, <1>s DEF Save, round
<1>10. ASSUME NEW p \in Prompts, EndPrompt(p) PROVE TypeOK'
  BY <1>10, <1>t, <1>s DEF EndPrompt, disk, round, history
<1>11. CASE List
  BY <1>11, <1>t, <1>s DEF List, disk, handlers, history
<1>12. CASE Tick
  BY <1>12, <1>t, <1>s, LifecycleAssumption
     DEF Tick, Times, disk, handlers, round, history
<1>13. CASE Restart
  <2>1. file' \in [Sessions -> Files]
    BY <1>13, <1>t, FileFacts DEF Restart
  <2>2. creating' \in [Sessions -> CreateSteps]
    BY <1>13, <1>t DEF Restart, CreateSteps
  <2>3. deleting' \in [Deletions -> {Idle} \cup DeleteSteps]
    BY <1>13, <1>t, HandlerFacts DEF Restart
  <2>4. restarts' \in 0 .. MaxRestarts
    BY <1>13, <1>t, LifecycleAssumption DEF Restart
  <2> QED
    BY <1>13, <1>t, <2>1, <2>2, <2>3, <2>4, <1>s DEF Restart, history
<1>14. CASE UNCHANGED vars
  BY <1>14, <1>t, <1>s DEF vars, disk, handlers, round, history
<1> QED
  BY <1>1, <1>2, <1>3, <1>4, <1>5, <1>6, <1>7, <1>8, <1>9, <1>10, <1>11,
     <1>12, <1>13, <1>14 DEF Next

\* Every variable keeps its type: above all, what a prompt has loaded is
\* always a session.
THEOREM TypeCorrect == Spec => []TypeOK
<1>1. Init => TypeOK
  BY InitTyped
<1>2. TypeOK /\ [Next]_vars => TypeOK'
  BY NextTyped
<1> QED
  BY <1>1, <1>2, PTL DEF Spec
-----------------------------------------------------------------------------
(* What the collector deletes                                              *)

Unused(s) ==
    \/ TTL > 0 /\ listedAt - born[s] > TTL
    \/ IdleTimeout > 0 /\ listedAt - used[s] > IdleTimeout
    \/ used[s] >= listedAt

\* A session that is not created yet has left no trace; a file, and a copy of
\* one, carries the times of its session; and whatever the collector has
\* still to delete was unused when it read the clock, or used since.
CollectInv ==
    /\ listedAt <= now
    /\ \A s \in Sessions : creating[s] = "no" =>
          /\ file[s] = Absent
          /\ s \notin expired
          /\ \A p \in Prompts : running[p] # Idle => running[p].on # s
    /\ \A s \in Sessions : Decodable(s) =>
          file[s].createdAt = born[s] /\ file[s].updatedAt = used[s]
    /\ \A p \in Prompts : running[p] # Idle =>
          running[p].copy.createdAt = born[running[p].on]
    /\ \A s \in expired : Unused(s)

LEMMA InitCollect == Init => CollectInv
<1> SUFFICES ASSUME Init PROVE CollectInv
  OBVIOUS
<1> QED
  BY DEF Init, CollectInv, Decodable, Absent

\* Storing a session now keeps what is expired unused, or used since.
LEMMA UsedNow ==
    ASSUME TypeOK, CollectInv, NEW s \in Sessions, listedAt' = listedAt,
           used' = [used EXCEPT ![s] = now], UNCHANGED born,
           NEW t \in Sessions, Unused(t)
    PROVE  Unused(t)'
<1>1. used \in [Sessions -> Times] /\ listedAt <= now
  BY TypeOKForm DEF CollectInv
<1>2. CASE t = s
  BY <1>1, <1>2 DEF Unused
<1>3. CASE t # s
  BY <1>1, <1>3 DEF Unused
<1> QED
  BY <1>2, <1>3

\* A step that leaves times, prompts and creations alone, and removes files.
LEMMA RemoveKeeps ==
    ASSUME TypeOK, CollectInv, UNCHANGED <<now, running, listedAt, used, born>>,
           expired' \subseteq expired,
           \A s \in Sessions : file'[s] = file[s] \/ file'[s] = Absent
                                  \/ (file'[s] = Torn /\ creating'[s] # "no"),
           \A s \in Sessions : creating'[s] = "no" => creating[s] = "no"
    PROVE  CollectInv'
<1>1. \A s \in Sessions : Unused(s) => Unused(s)'
  BY DEF Unused
<1>2. \A s \in Sessions : Decodable(s)' => Decodable(s) /\ file'[s] = file[s]
  BY DEF Decodable, Absent, Torn
<1>3. expired \subseteq Sessions
  BY TypeOKForm
<1>4. Absent # Torn
  BY FileFacts
<1> QED
  BY <1>1, <1>2, <1>3, <1>4 DEF CollectInv

LEMMA NextCollect == TypeOK /\ CollectInv /\ [Next]_vars => CollectInv'
<1> SUFFICES ASSUME TypeOK, CollectInv, [Next]_vars PROVE CollectInv'
  OBVIOUS
<1>t. /\ now \in Times
      /\ file \in [Sessions -> Files]
      /\ creating \in [Sessions -> CreateSteps]
      /\ running \in [Prompts -> {Idle} \cup Runs]
      /\ expired \subseteq Sessions
      /\ listedAt \in Times
      /\ used \in [Sessions -> Times]
      /\ born \in [Sessions -> Times]
  BY TypeOKForm
<1>1. ASSUME NEW s \in Sessions, CreateSession(s) PROVE CollectInv'
  <2>1. /\ creating[s] = "no" /\ file[s] = Absent /\ s \notin expired
        /\ \A p \in Prompts : running[p] # Idle => running[p].on # s
        /\ UNCHANGED <<now, running, expired, listedAt>>
    BY <1>1 DEF CreateSession, CollectInv, round
  <2>2. CASE WriteFails(s) /\ UNCHANGED history
             /\ creating' = [creating EXCEPT ![s] = "failed"]
    BY <2>1, <2>2, <1>t, RemoveKeeps DEF WriteFails, Put, history
  <2>3. CASE /\ Put(s, Session(now, now))
             /\ creating' = [creating EXCEPT ![s] = "stored"]
             /\ used' = [used EXCEPT ![s] = now]
             /\ born' = [born EXCEPT ![s] = now]
    <3>1. /\ file'[s] = Session(now, now) /\ creating'[s] = "stored"
          /\ used'[s] = now /\ born'[s] = now
          /\ \A t \in Sessions \ {s} :
                /\ file'[t] = file[t] /\ creating'[t] = creating[t]
                /\ used'[t] = used[t] /\ born'[t] = born[t]
      BY <2>3, <1>t DEF Put
    <3>2. \A t \in expired : Unused(t)'
      BY <2>1, <3>1, <1>t DEF CollectInv, Unused
    <3>3. \A t \in Sessions : Decodable(t)' =>
             file'[t].createdAt = born'[t] /\ file'[t].updatedAt = used'[t]
      BY <3>1, FileFacts DEF CollectInv, Decodable
    <3>4. \A p \in Prompts : running'[p] # Idle =>
             running'[p].copy.createdAt = born'[running'[p].on]
      <4> SUFFICES ASSUME NEW p \in Prompts, running[p] # Idle
                   PROVE  running[p].copy.createdAt = born'[running[p].on]
        BY <2>1
      <4>1. running[p].on \in Sessions \ {s}
        BY <2>1, <1>t, HandlerFacts
      <4> QED
        BY <4>1, <3>1 DEF CollectInv
    <3>5. \A t \in Sessions : creating'[t] = "no" =>
             /\ file'[t] = Absent /\ t \notin expired'
             /\ \A p \in Prompts : running'[p] # Idle => running'[p].on # t
      BY <2>1, <3>1 DEF CollectInv
    <3>6. listedAt' <= now'
      BY <2>1 DEF CollectInv
    <3> QED
      BY <2>1, <3>2, <3>3, <3>4, <3>5, <3>6 DEF CollectInv
  <2> QED
    BY <1>1, <2>2, <2>3 DEF CreateSession
<1>2. ASSUME NEW s \in Sessions, Setup(s) PROVE CollectInv'
  <2>1. UNCHANGED <<now, file, running, expired, listedAt, used, born>>
    BY <1>2 DEF Setup, round, history
  <2>2. \A t \in Sessions : creating'[t] = "no" => creating[t] = "no"
    BY <1>2, <1>t DEF Setup
  <2> QED
    BY <2>1, <2>2, RemoveKeeps
<1>3. ASSUME NEW s \in Sessions, CountCreated(s) PROVE CollectInv'
  <2>1. UNCHANGED <<now, file, running, expired, listedAt, used, born>>
    BY <1>3 DEF CountCreated, disk, round, history
  <2>2. \A t \in Sessions : creating'[t] = "no" => creating[t] = "no"
    BY <1>3, <1>t DEF CountCreated
  <2> QED
    BY <2>1, <2>2, RemoveKeeps
<1>4. ASSUME NEW s \in Sessions, Collect(s) PROVE CollectInv'
  <2>1. /\ UNCHANGED <<now, creating, running, listedAt, used, born>>
        /\ expired' \subseteq expired
        /\ \A t \in Sessions : file'[t] = file[t] \/ file'[t] = Absent
    BY <1>4, <1>t DEF Collect, Put, handlers, history
  <2> QED
    BY <2>1, RemoveKeeps
<1>5. ASSUME NEW d \in Deletions, Delete(d) PROVE CollectInv'
  <2>1. /\ UNCHANGED <<now, creating, running, expired, listedAt, used, born>>
        /\ \A t \in Sessions : file'[t] = file[t] \/ file'[t] = Absent
    BY <1>5, <1>t DEF Delete, Put, round, history
  <2> QED
    BY <2>1, RemoveKeeps
<1>6. ASSUME NEW d \in Deletions, Cleanup(d) \/ CountDeleted(d)
      PROVE  CollectInv'
  <2>1. UNCHANGED <<now, file, creating, running, expired, listedAt, used, born>>
    BY <1>6 DEF Cleanup, CountDeleted, disk, round, history
  <2> QED
    BY <2>1, RemoveKeeps
<1>7. ASSUME NEW p \in Prompts, Load(p) PROVE CollectInv'
  <2>1. UNCHANGED <<now, file, creating, expired, listedAt, used, born>>
    BY <1>7 DEF Load, disk, round, history
  <2>2. PICK s \in Sessions :
           /\ Decodable(s)
           /\ running' = [running EXCEPT ![p] =
                             [at |-> "running", on |-> s, copy |-> file[s]]]
    BY <1>7 DEF Load
  <2>3. /\ running'[p] = [at |-> "running", on |-> s, copy |-> file[s]]
        /\ \A q \in Prompts \ {p} : running'[q] = running[q]
    BY <2>2, <1>t
  <2>4. creating[s] # "no" /\ file[s].createdAt = born[s]
    BY <2>2 DEF CollectInv, Decodable, Absent
  <2>5. \A t \in Sessions : Unused(t) => Unused(t)'
    BY <2>1 DEF Unused
  <2>6. /\ running'[p].on = s /\ running'[p].copy = file[s]
    BY <2>3
  <2>7. \A q \in Prompts : running'[q] # Idle =>
           running'[q].copy.createdAt = born'[running'[q].on]
    BY <2>1, <2>3, <2>4, <2>6 DEF CollectInv
  <2>8. \A t \in Sessions : creating'[t] = "no" =>
           /\ file'[t] = Absent /\ t \notin expired'
           /\ \A q \in Prompts : running'[q] # Idle => running'[q].on # t
    BY <2>1, <2>3, <2>4, <2>6 DEF CollectInv
  <2>9. \A t \in Sessions : Decodable(t)' =>
           file'[t].createdAt = born'[t] /\ file'[t].updatedAt = used'[t]
    BY <2>1 DEF CollectInv, Decodable
  <2> QED
    BY <2>1, <2>5, <2>7, <2>8, <2>9, <1>t DEF CollectInv
<1>8. ASSUME NEW p \in Prompts, Save(p) PROVE CollectInv'
  <2> DEFINE s == running[p].on
  <2>1. /\ running[p] # Idle /\ s \in Sessions
        /\ running[p].copy.createdAt = born[s]
        /\ creating[s] # "no"
        /\ UNCHANGED <<now, creating, expired, listedAt>>
    BY <1>8, <1>t, HandlerFacts DEF Save, CollectInv, round
  <2>2. CASE /\ WriteFails(s)
             /\ running' = [running EXCEPT ![p] = Idle]
             /\ UNCHANGED history
    <3>1. /\ UNCHANGED <<used, born>>
          /\ \A t \in Sessions : \/ file'[t] = file[t]
                                 \/ file'[t] = Torn /\ creating'[t] # "no"
      BY <2>1, <2>2, <1>t DEF WriteFails, Put, history
    <3>2. \A t \in Sessions : Unused(t) => Unused(t)'
      BY <2>1, <3>1 DEF Unused
    <3>3. \A q \in Prompts : running'[q] = running[q] \/ running'[q] = Idle
      BY <2>2, <1>t
    <3>4. \A t \in Sessions : Decodable(t)' => file'[t] = file[t]
      BY <3>1 DEF Decodable, Torn
    <3>5. \A t \in Sessions : Decodable(t)' =>
             file'[t].createdAt = born'[t] /\ file'[t].updatedAt = used'[t]
      BY <3>1, <3>4 DEF CollectInv, Decodable
    <3>6. \A q \in Prompts : running'[q] # Idle =>
             running'[q].copy.createdAt = born'[running'[q].on]
      BY <3>1, <3>3 DEF CollectInv
    <3>7. \A t \in Sessions : creating'[t] = "no" =>
             /\ file'[t] = Absent /\ t \notin expired'
             /\ \A q \in Prompts : running'[q] # Idle => running'[q].on # t
      BY <2>1, <3>1, <3>3 DEF CollectInv
    <3> QED
      BY <2>1, <3>2, <3>5, <3>6, <3>7, <1>t DEF CollectInv
  <2>3. CASE /\ Put(s, Session(running[p].copy.createdAt, now))
             /\ used' = [used EXCEPT ![s] = now]
             /\ UNCHANGED <<born, running>>
    <3>1. /\ file'[s] = Session(born[s], now) /\ used'[s] = now
          /\ \A t \in Sessions \ {s} :
                file'[t] = file[t] /\ used'[t] = used[t]
      BY <2>1, <2>3, <1>t DEF Put
    <3>2. \A t \in expired : Unused(t)'
      BY <2>1, <2>3, <1>t, UsedNow DEF CollectInv
    <3>3. \A t \in Sessions : Decodable(t)' =>
             file'[t].createdAt = born'[t] /\ file'[t].updatedAt = used'[t]
      BY <2>3, <3>1, FileFacts DEF CollectInv, Decodable
    <3>4. \A t \in Sessions : creating'[t] = "no" =>
             /\ file'[t] = Absent /\ t \notin expired'
             /\ \A q \in Prompts : running'[q] # Idle => running'[q].on # t
      BY <2>1, <2>3, <3>1 DEF CollectInv
    <3>5. \A q \in Prompts : running'[q] # Idle =>
             running'[q].copy.createdAt = born'[running'[q].on]
      BY <2>3 DEF CollectInv
    <3> QED
      BY <2>1, <3>2, <3>3, <3>4, <3>5 DEF CollectInv
  <2> QED
    BY <1>8, <2>2, <2>3 DEF Save
<1>9. ASSUME NEW p \in Prompts, EndPrompt(p) PROVE CollectInv'
  <2>1. /\ UNCHANGED <<now, file, creating, expired, listedAt, used, born>>
        /\ \A q \in Prompts : running'[q] = running[q] \/ running'[q] = Idle
    BY <1>9, <1>t DEF EndPrompt, disk, round, history
  <2>2. \A t \in Sessions : Unused(t) => Unused(t)'
    BY <2>1 DEF Unused
  <2> QED
    BY <2>1, <2>2, <1>t DEF CollectInv, Decodable
<1>10. CASE List
  <2>1. /\ UNCHANGED <<now, file, creating, running, used, born>>
        /\ expired' = {s \in Sessions : Decodable(s) /\ (TooOld(s) \/ TooIdle(s))}
        /\ listedAt' = now
    BY <1>10 DEF List, disk, handlers, history
  <2>2. \A s \in expired' : Unused(s)'
    BY <2>1 DEF CollectInv, Unused, TooOld, TooIdle
  <2>3. \A s \in Sessions : creating[s] = "no" => s \notin expired'
    BY <2>1 DEF CollectInv, Decodable, Absent
  <2> QED
    BY <2>1, <2>2, <2>3, <1>t DEF CollectInv, Decodable, Times
<1>11. CASE Tick
  <2>1. /\ UNCHANGED <<file, creating, running, expired, listedAt, used, born>>
        /\ now' = now + 1
    BY <1>11 DEF Tick, disk, handlers, round, history
  <2>2. \A t \in Sessions : Unused(t) => Unused(t)'
    BY <2>1 DEF Unused
  <2>3. listedAt' <= now'
    BY <2>1, <1>t DEF CollectInv, Times
  <2> QED
    BY <2>1, <2>2, <2>3, <1>t DEF CollectInv, Decodable
<1>12. CASE Restart
  <2>1. /\ UNCHANGED <<now, listedAt, used, born>>
        /\ expired' = {}
        /\ \A p \in Prompts : running'[p] = Idle
    BY <1>12 DEF Restart, history
  <2>2. PICK torn \in SUBSET Sessions :
           /\ file' = [s \in Sessions |-> IF s \in torn THEN Torn ELSE file[s]]
           /\ creating' = [s \in Sessions |->
                 IF creating[s] \in {"stored", "setup"}
                       \/ (creating[s] = "no" /\ s \in torn)
                 THEN "failed" ELSE creating[s]]
    BY <1>12 DEF Restart, BeingWritten
  <2>3. \A s \in Sessions : creating'[s] = "no" =>
           creating[s] = "no" /\ file'[s] = file[s]
    BY <2>2
  <2>4. \A s \in Sessions : Decodable(s)' => Decodable(s) /\ file'[s] = file[s]
    BY <2>2 DEF Decodable, Torn
  <2> QED
    BY <2>1, <2>3, <2>4, <1>t DEF CollectInv
<1>13. CASE UNCHANGED vars
  <2>1. UNCHANGED <<now, file, creating, running, expired, listedAt, used, born>>
    BY <1>13 DEF vars, disk, handlers, round, history
  <2> QED
    BY <2>1, RemoveKeeps
<1> QED
  BY <1>1, <1>2, <1>3, <1>4, <1>5, <1>6, <1>7, <1>8, <1>9, <1>10, <1>11,
     <1>12, <1>13 DEF Next

\* The collector deletes only what was too old or too long unused when its
\* round began, or what has been stored again since: for any limits, and
\* whatever prompts, deletions, failed writes and restarts come in between.
THEOREM CollectsUnusedHolds == Spec => CollectsUnused
<1> DEFINE Justified == \A s \in expired \ expired' :
       file[s] # Absent /\ file'[s] = Absent =>
           \/ TTL > 0 /\ listedAt - born[s] > TTL
           \/ IdleTimeout > 0 /\ listedAt - used[s] > IdleTimeout
           \/ used[s] >= listedAt
<1>1. Init => TypeOK /\ CollectInv
  BY InitTyped, InitCollect
<1>2. TypeOK /\ CollectInv /\ [Next]_vars => TypeOK' /\ CollectInv'
  BY NextTyped, NextCollect
<1>3. CollectInv => Justified
  BY DEF CollectInv, Unused
<1>4. TypeOK /\ CollectInv /\ [Next]_vars => [Justified]_vars
  BY <1>3
<1> QED
  BY <1>1, <1>2, <1>4, PTL DEF Spec, CollectsUnused
=============================================================================
