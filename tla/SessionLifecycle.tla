--------------------------- MODULE SessionLifecycle ----------------------------
(***************************************************************************)
(* The life of a server's sessions: created and deleted by HTTP handlers   *)
(* (internal/server/handlers.go), saved by the prompts that run on them,   *)
(* collected when they are old (internal/session/gc.go), kept as a file    *)
(* each (internal/session/file_store.go) with a working directory beside   *)
(* it (internal/workdir/manager.go) and counted in a metric.               *)
(*                                                                         *)
(* The store's calls exclude each other, but no operation that makes       *)
(* several of them, or touches a file, a directory and the metric, is      *)
(* atomic.  A restart forgets the metric and every handler, not the disk.  *)
(* What a session's messages are is PromptStream's matter; here a file is  *)
(* absent, a record of two times, or torn by a write that did not finish.  *)
(*                                                                         *)
(* An operator marked "Mutant" is the definition after it with a plausible *)
(* bug, and is used only to see that a property notices (PROJECT.json).    *)
(***************************************************************************)
EXTENDS Integers, FiniteSets

CONSTANTS
    Sessions,           \* session ids; each is given out once
    Prompts,            \* goroutines that run prompts, one after another
    Deletions,          \* DELETE requests, each sent at most once
    TTL,                \* age of a session that is collected; 0 is never
    IdleTimeout,        \* the same for the time since its last save
    Collected,          \* whether the server runs a garbage collector
    DiskFails,          \* whether writes and clean-ups may fail half way
    MaxTime,            \* bound: the clock
    MaxRestarts         \* bound: restarts of the server

ASSUME LifecycleAssumption ==
    /\ TTL \in Nat
    /\ IdleTimeout \in Nat
    /\ Collected \in BOOLEAN
    /\ DiskFails \in BOOLEAN
    /\ MaxTime \in Nat
    /\ MaxRestarts \in Nat

Times   == 0 .. MaxTime
Records == [kind: {"session"}, createdAt: Times, updatedAt: Times]
Absent  == [kind |-> "absent"]
Torn    == [kind |-> "torn"]
Files   == Records \cup {Absent, Torn}

VARIABLES
    now,
    file,               \* the file of each session
    worktrees,          \* the sessions with a working directory
    activeSessions,     \* the metric
    creating,           \* how far the handler that creates a session is
    running,            \* the session a prompt runs on, and the copy it loaded
    deleting,           \* how far a DELETE request is, and its session
    expired,            \* what the collector has still to delete in this round
    listedAt,           \* the time it has taken for this round
    used,               \* history: when a session was last stored
    born,               \* history: when it was created
    restarts

disk     == <<file, worktrees>>
handlers == <<creating, running, deleting>>
round    == <<expired, listedAt>>
history  == <<used, born>>
vars     == <<now, disk, activeSessions, handlers, round, history, restarts>>

Idle    == [at |-> "idle"]
Done(s) == [at |-> "done", of |-> s]

Init ==
    /\ now = 0
    /\ file = [s \in Sessions |-> Absent]
    /\ worktrees = {}
    /\ activeSessions = 0
    /\ creating = [s \in Sessions |-> "no"]
    /\ running = [p \in Prompts |-> Idle]
    /\ deleting = [d \in Deletions |-> Idle]
    /\ expired = {}
    /\ listedAt = 0
    /\ used = [s \in Sessions |-> 0]
    /\ born = [s \in Sessions |-> 0]
    /\ restarts = 0

-----------------------------------------------------------------------------
(* The store                                                               *)

Session(createdAt, updatedAt) ==
    [kind |-> "session", createdAt |-> createdAt, updatedAt |-> updatedAt]

Decodable(s) == file[s].kind = "session"

Put(s, contents) == file' = [file EXCEPT ![s] = contents]

\* os.WriteFile has failed: before, or after it truncated the file.
WriteFails(s) == \/ UNCHANGED file
                 \/ DiskFails /\ Put(s, Torn)

-----------------------------------------------------------------------------
(* handleCreateSession                                                     *)

CreateSession(s) ==
    /\ creating[s] = "no"
    /\ \/ /\ Put(s, Session(now, now))
          /\ creating' = [creating EXCEPT ![s] = "stored"]
          /\ used' = [used EXCEPT ![s] = now]
          /\ born' = [born EXCEPT ![s] = now]
       \/ /\ WriteFails(s)
          /\ creating' = [creating EXCEPT ![s] = "failed"]
          /\ UNCHANGED history
    /\ UNCHANGED <<now, worktrees, activeSessions, running, deleting, round,
                   restarts>>

\* A failure is only a warning.
Setup(s) ==
    /\ creating[s] = "stored"
    /\ \/ worktrees' = worktrees \cup {s}
       \/ UNCHANGED worktrees
    /\ creating' = [creating EXCEPT ![s] = "setup"]
    /\ UNCHANGED <<now, file, activeSessions, running, deleting, round,
                   history, restarts>>

CountCreated(s) ==
    /\ creating[s] = "setup"
    /\ activeSessions' = activeSessions + 1
    /\ creating' = [creating EXCEPT ![s] = "answered"]
    /\ UNCHANGED <<now, disk, running, deleting, round, history, restarts>>

-----------------------------------------------------------------------------
(* handleDeleteSession, of any session: whoever lists the sessions knows    *)
(* its id from the moment it is stored.                                    *)

\* Mutant: an error of Delete does not end the request.
DeleteUnchecked(d) ==
    /\ deleting[d].at = "idle"
    /\ \E s \in Sessions :
          /\ Put(s, Absent)
          /\ deleting' = [deleting EXCEPT ![d] = [at |-> "cleanup", of |-> s]]
    /\ UNCHANGED <<now, worktrees, activeSessions, creating, running, round,
                   history, restarts>>

\* A file that is there is removed, whatever is in it.
Delete(d) ==
    /\ deleting[d].at = "idle"
    /\ \E s \in Sessions :
          \/ /\ file[s] # Absent
             /\ Put(s, Absent)
             /\ deleting' = [deleting EXCEPT ![d] =
                                [at |-> "cleanup", of |-> s]]
          \/ /\ file[s] = Absent
             /\ deleting' = [deleting EXCEPT ![d] = Done(s)]
             /\ UNCHANGED file
    /\ UNCHANGED <<now, worktrees, activeSessions, creating, running, round,
                   history, restarts>>

\* A failure is only a warning here too.
Cleanup(d) ==
    /\ deleting[d].at = "cleanup"
    /\ \/ worktrees' = worktrees \ {deleting[d].of}
       \/ DiskFails /\ UNCHANGED worktrees
    /\ deleting' = [deleting EXCEPT ![d].at = "count"]
    /\ UNCHANGED <<now, file, activeSessions, creating, running, round, history,
                   restarts>>

CountDeleted(d) ==
    /\ deleting[d].at = "count"
    /\ activeSessions' = activeSessions - 1
    /\ deleting' = [deleting EXCEPT ![d].at = "done"]
    /\ UNCHANGED <<now, disk, creating, running, round, history, restarts>>

-----------------------------------------------------------------------------
(* A prompt, as its session's life sees it                                 *)

\* Mutant: the error of decoding the file is ignored.
LoadUndecoded(p) ==
    /\ running[p] = Idle
    /\ \E s \in Sessions :
          /\ file[s] # Absent
          /\ running' = [running EXCEPT ![p] =
                            [at |-> "running", on |-> s, copy |-> file[s]]]
    /\ UNCHANGED <<now, disk, activeSessions, creating, deleting, round,
                   history, restarts>>

Load(p) ==
    /\ running[p] = Idle
    /\ \E s \in Sessions :
          /\ Decodable(s)
          /\ running' = [running EXCEPT ![p] =
                            [at |-> "running", on |-> s, copy |-> file[s]]]
    /\ UNCHANGED <<now, disk, activeSessions, creating, deleting, round,
                   history, restarts>>

\* Mutant: UpdatedAt is left as it was loaded.
SaveUndated(p) ==
    /\ running[p] # Idle
    /\ Put(running[p].on, running[p].copy)
    /\ used' = [used EXCEPT ![running[p].on] = now]
    /\ UNCHANGED <<now, worktrees, activeSessions, handlers, round, born,
                   restarts>>

\* Save writes the copy, with its time, whether the session is still there
\* or not.  The prompt goes on, or ends with the next action.
Save(p) ==
    /\ running[p] # Idle
    /\ LET s == running[p].on
       IN  \/ /\ Put(s, Session(running[p].copy.createdAt, now))
              /\ used' = [used EXCEPT ![s] = now]
              /\ UNCHANGED <<born, running>>
           \/ /\ WriteFails(s)
              /\ running' = [running EXCEPT ![p] = Idle]
              /\ UNCHANGED history
    /\ UNCHANGED <<now, worktrees, activeSessions, creating, deleting, round,
                   restarts>>

EndPrompt(p) ==
    /\ running[p] # Idle
    /\ running' = [running EXCEPT ![p] = Idle]
    /\ UNCHANGED <<now, disk, activeSessions, creating, deleting, round,
                   history, restarts>>

-----------------------------------------------------------------------------
(* GarbageCollector.RunOnce                                                *)

TooOld(s) == TTL > 0 /\ now - file[s].createdAt > TTL
TooIdle(s) == IdleTimeout > 0 /\ now - file[s].updatedAt > IdleTimeout

\* Mutant: only the time of the last save counts.
ListIdle ==
    /\ Collected
    /\ expired = {}
    /\ expired' = {s \in Sessions : Decodable(s) /\ TooIdle(s)}
    /\ listedAt' = now
    /\ UNCHANGED <<now, disk, activeSessions, handlers, history, restarts>>

\* List leaves out what it cannot decode; the clock is read once, after it.
List ==
    /\ Collected
    /\ expired = {}
    /\ expired' = {s \in Sessions : Decodable(s) /\ (TooOld(s) \/ TooIdle(s))}
    /\ listedAt' = now
    /\ UNCHANGED <<now, disk, activeSessions, handlers, history, restarts>>

\* What was listed is deleted, whatever has become of it since; neither the
\* working directory nor the metric is touched.
Collect(s) ==
    /\ s \in expired
    /\ expired' = expired \ {s}
    /\ Put(s, Absent)
    /\ UNCHANGED <<now, worktrees, activeSessions, handlers, listedAt, history,
                   restarts>>

-----------------------------------------------------------------------------
(* Time, and the server's own life                                         *)

Tick ==
    /\ now < MaxTime
    /\ now' = now + 1
    /\ UNCHANGED <<disk, activeSessions, handlers, round, history, restarts>>

\* The files that somebody may be writing when the server dies.
BeingWritten == {s \in Sessions : \/ creating[s] = "no"
                                  \/ \E p \in Prompts : /\ running[p] # Idle
                                                        /\ running[p].on = s}

Restart ==
    /\ restarts < MaxRestarts
    /\ restarts' = restarts + 1
    /\ \E torn \in {{}} \cup {{s} : s \in BeingWritten} :
          /\ torn # {} => DiskFails
          /\ file' = [s \in Sessions |-> IF s \in torn THEN Torn ELSE file[s]]
          /\ creating' = [s \in Sessions |->
                IF creating[s] \in {"stored", "setup"}
                      \/ (creating[s] = "no" /\ s \in torn)
                THEN "failed" ELSE creating[s]]
    /\ activeSessions' = 0
    /\ running' = [p \in Prompts |-> Idle]
    /\ deleting' = [d \in Deletions |->
          IF deleting[d].at = "idle" THEN Idle ELSE Done(deleting[d].of)]
    /\ expired' = {}
    /\ UNCHANGED <<now, worktrees, listedAt, history>>

Next ==
    \/ \E s \in Sessions :
          CreateSession(s) \/ Setup(s) \/ CountCreated(s) \/ Collect(s)
    \/ \E d \in Deletions : Delete(d) \/ Cleanup(d) \/ CountDeleted(d)
    \/ \E p \in Prompts : Load(p) \/ Save(p) \/ EndPrompt(p)
    \/ List \/ Tick \/ Restart

Spec == Init /\ [][Next]_vars

\* The collector's ticker goes on as long as the server runs, and so does a
\* round it has begun.
LiveSpec == Spec /\ WF_vars(List) /\ \A s \in Sessions : WF_vars(Collect(s))

-----------------------------------------------------------------------------
(* Properties                                                              *)

TypeOK ==
    /\ now \in Times
    /\ file \in [Sessions -> Files]
    /\ worktrees \subseteq Sessions
    /\ activeSessions \in Int
    /\ creating \in [Sessions -> {"no", "stored", "setup", "answered", "failed"}]
    /\ running \in [Prompts -> {Idle} \cup
                       [at: {"running"}, on: Sessions, copy: Records]]
    /\ deleting \in [Deletions -> {Idle} \cup
                        [at: {"cleanup", "count", "done"}, of: Sessions]]
    /\ expired \subseteq Sessions
    /\ listedAt \in Times
    /\ used \in [Sessions -> Times]
    /\ born \in [Sessions -> Times]
    /\ restarts \in 0 .. MaxRestarts

Stored == {s \in Sessions : file[s] # Absent}

\* No handler is half way.
Quiet ==
    /\ \A s \in Sessions : creating[s] \notin {"stored", "setup"}
    /\ \A d \in Deletions : deleting[d].at \notin {"cleanup", "count"}

\* Whenever no handler is half way, the metric is the number of sessions.  It
\* holds for creations and deletions in any order, of a session that is still
\* being created too, and only for those.
GaugeExact == Quiet => activeSessions = Cardinality(Stored)

\* The collector deletes a session only when it is older than TTL, or was not
\* stored for IdleTimeout before the round began, or was stored again since:
\* a round may be stale, but its decisions were right when it began.
CollectsUnused ==
    [][\A s \in expired \ expired' :
          file[s] # Absent /\ file'[s] = Absent =>
              \/ TTL > 0 /\ listedAt - born[s] > TTL
              \/ IdleTimeout > 0 /\ listedAt - used[s] > IdleTimeout
              \/ used[s] >= listedAt]_vars

\* A session past its age that can still be read is collected in the end,
\* even if a prompt stores it again after that or the server is restarted;
\* only a write that fails half way puts it out of the collector's sight.
ExpiredIsCollected == \A s \in Sessions :
    (creating[s] = "answered" /\ Decodable(s) /\ TTL > 0
        /\ now - born[s] > TTL) ~> ~Decodable(s)
=============================================================================
