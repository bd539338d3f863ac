------------------------------- MODULE Workdirs --------------------------------
(***************************************************************************)
(* The working directories of a server's sessions: Manager.Setup and       *)
(* Manager.Cleanup (internal/workdir/manager.go), as the handlers that     *)
(* create and delete sessions call them (internal/server/handlers.go).     *)
(*                                                                         *)
(* A session may ask for a repository.  Its bare clone is made once, for   *)
(* all sessions, and each session gets a worktree of it.  Every step is a  *)
(* git command that may fail, and that is killed when the client that      *)
(* asked for the session goes away; a clone that is killed stays as it is, *)
(* and counts as made from then on.  One mutex is held by a whole Setup    *)
(* or Cleanup, its commands included.                                      *)
(*                                                                         *)
(* What is outside the mutex, the session's file and the metric, is that   *)
(* of SessionLifecycle, whose actions are taken as they are; to it a       *)
(* Setup and a Cleanup are one step each (ImplementsLifecycle).  Here the  *)
(* disk does not fail, and nothing but creations and deletions happens.    *)
(*                                                                         *)
(* An operator marked "Mutant" is the definition after it with a plausible *)
(* bug, and is used only to see that a property notices (PROJECT.json).    *)
(***************************************************************************)
EXTENDS Integers, FiniteSets

CONSTANTS
    Sessions,
    Deletions,          \* DELETE requests
    Repos,              \* the URLs that sessions ask for
    Nobody              \* the holder of a free mutex

ASSUME WorkdirsAssumption ==
    /\ Sessions \cap Deletions = {}
    /\ Nobody \notin Sessions \cup Deletions

NoRepo == "no repo"

VARIABLES
    file,               \* the store, the metric and the two kinds of handler,
    activeSessions,     \* as in SessionLifecycle
    creating,
    deleting,
    mu,                 \* who holds the manager's mutex
    step,               \* where its Setup or Cleanup is
    asked,              \* the repository each session asks for
    gone,               \* the sessions whose creator has gone away
    bare,               \* the directory of each bare clone
    dir,                \* the working directory of each session
    result,             \* how each Setup has ended
    cut,                \* history: the clones that were killed
    early               \* history: the sessions cleaned up before their Setup

lifecycle == <<file, activeSessions, creating, deleting>>
manager   == <<mu, step, asked, gone, bare, dir, result, cut, early>>
vars      == <<lifecycle, manager>>

\* The directories that SessionLifecycle knows of: a Setup's, when it is over,
\* and a Cleanup's, until it is over.
Worktrees ==
    {s \in Sessions : creating[s] # "stored" /\ dir[s] # "none"}
    \cup {deleting[d].of : d \in Deletions \cap {mu}}

Lifecycle == INSTANCE SessionLifecycle WITH
    Prompts <- {}, TTL <- 0, IdleTimeout <- 0, Collected <- FALSE,
    DiskFails <- FALSE, MaxTime <- 0, MaxRestarts <- 0,
    now <- 0, worktrees <- Worktrees, running <- [p \in {} |-> 0],
    expired <- {}, listedAt <- 0, restarts <- 0,
    used <- [s \in Sessions |-> 0], born <- [s \in Sessions |-> 0]

Init ==
    /\ file = [s \in Sessions |-> Lifecycle!Absent]
    /\ activeSessions = 0
    /\ creating = [s \in Sessions |-> "no"]
    /\ deleting = [d \in Deletions |-> Lifecycle!Idle]
    /\ mu = Nobody
    /\ step = "none"
    /\ asked \in [Sessions -> Repos \cup {NoRepo}]
    /\ gone = {}
    /\ bare = [r \in Repos |-> "none"]
    /\ dir = [s \in Sessions |-> "none"]
    /\ result = [s \in Sessions |-> "none"]
    /\ cut = {}
    /\ early = {}

-----------------------------------------------------------------------------
(* The handlers, outside the mutex                                         *)

Handlers ==
    /\ UNCHANGED manager
    /\ \/ /\ UNCHANGED deleting
          /\ \E s \in Sessions : \/ Lifecycle!CreateSession(s)
                                 \/ Lifecycle!CountCreated(s)
       \/ /\ UNCHANGED creating
          /\ \E d \in Deletions : \/ Lifecycle!Delete(d)
                                  \/ Lifecycle!CountDeleted(d)

\* The context of a request is cancelled; its handler does not look at it,
\* only the git commands do.
ClientGone(s) ==
    /\ creating[s] = "stored"
    /\ gone' = gone \cup {s}
    /\ UNCHANGED <<lifecycle, mu, step, asked, bare, dir, result, cut, early>>

-----------------------------------------------------------------------------
(* Setup                                                                   *)

Goto(label) == step' = label /\ UNCHANGED <<lifecycle, mu, result, early>>

\* Mutant: an error leaves the session's file deleted, and counted.
EndSetupUndone(s, how) ==
    /\ result' = [result EXCEPT ![s] = how]
    /\ creating' = [creating EXCEPT ![s] = "setup"]
    /\ mu' = Nobody
    /\ step' = "none"
    /\ file' = IF how = "failed" THEN [file EXCEPT ![s] = Lifecycle!Absent]
                                 ELSE file
    /\ UNCHANGED <<activeSessions, deleting, early>>

\* The deferred Unlock; a failure is only a warning for the handler.
EndSetup(s, how) ==
    /\ result' = [result EXCEPT ![s] = how]
    /\ creating' = [creating EXCEPT ![s] = "setup"]
    /\ mu' = Nobody
    /\ step' = "none"
    /\ UNCHANGED <<file, activeSessions, deleting, early>>

\* Mutant: the mutex is not taken.
EnterSetupAtOnce(s) ==
    /\ creating[s] = "stored"
    /\ mu # s
    /\ mu' = s
    /\ step' = "setup"
    /\ UNCHANGED <<lifecycle, asked, gone, bare, dir, result, cut, early>>

\* Waiting for the mutex does not end when the client goes away.
EnterSetup(s) ==
    /\ creating[s] = "stored"
    /\ mu = Nobody
    /\ mu' = s
    /\ step' = "setup"
    /\ UNCHANGED <<lifecycle, asked, gone, bare, dir, result, cut, early>>

MakeDir(s) ==
    /\ mu = s /\ step = "setup"
    /\ asked[s] = NoRepo
    /\ \/ dir' = [dir EXCEPT ![s] = "empty"] /\ EndSetup(s, "ready")
       \/ EndSetup(s, "failed") /\ UNCHANGED dir
    /\ UNCHANGED <<asked, gone, bare, cut>>

\* ensureBareRepo: whoever finds a HEAD takes the clone for made; where there
\* is something, but no HEAD, the clone fails, as the next command would.  A
\* command whose context is cancelled is not started.
FindBareRepo(s) ==
    /\ mu = s /\ step = "setup"
    /\ asked[s] # NoRepo
    /\ IF bare[asked[s]] # "none" THEN Goto("fetch") /\ UNCHANGED bare
       ELSE \/ /\ s \notin gone
               /\ bare' = [bare EXCEPT ![asked[s]] = "cloning"]
               /\ Goto("clone")
            \/ s \in gone /\ EndSetup(s, "killed") /\ UNCHANGED bare
    /\ UNCHANGED <<asked, gone, dir, cut>>

\* A clone that fails removes what it has made.
CloneEnds(s) ==
    /\ mu = s /\ step = "clone"
    /\ \/ bare' = [bare EXCEPT ![asked[s]] = "whole"] /\ Goto("fetch")
       \/ bare' = [bare EXCEPT ![asked[s]] = "none"] /\ EndSetup(s, "failed")
    /\ UNCHANGED <<asked, gone, dir, cut>>

\* A clone that is killed does not.
CloneKilled(s) ==
    /\ mu = s /\ step = "clone"
    /\ s \in gone
    /\ \E left \in {"none", "partial", "whole"} :
          bare' = [bare EXCEPT ![asked[s]] = left]
    /\ cut' = cut \cup {asked[s]}
    /\ EndSetup(s, "killed")
    /\ UNCHANGED <<asked, gone, dir>>

\* fetchLatest: in a bare clone it moves no branch.
Fetch(s) ==
    /\ mu = s /\ step = "fetch"
    /\ \/ s \notin gone /\ Goto("add")
       \/ EndSetup(s, IF s \in gone THEN "killed" ELSE "failed")
    /\ UNCHANGED <<asked, gone, bare, dir, cut>>

\* Mutant: an error of git is not looked at.
AddWorktreeUnchecked(s) ==
    /\ mu = s /\ step = "add"
    /\ \E left \in {"none", "partial", "worktree"} :
          dir' = [dir EXCEPT ![s] = left]
    /\ EndSetup(s, "ready")
    /\ UNCHANGED <<asked, gone, bare, cut>>

\* createWorktree: a clone that is not whole does not have the branch; one
\* that is may lack it too.
AddWorktree(s) ==
    /\ mu = s /\ step = "add"
    /\ \/ /\ bare[asked[s]] = "whole"
          /\ s \notin gone
          /\ \/ dir' = [dir EXCEPT ![s] = "worktree"] /\ EndSetup(s, "ready")
             \/ EndSetup(s, "failed") /\ UNCHANGED dir
       \/ /\ bare[asked[s]] # "whole"
          /\ EndSetup(s, "unsound")
          /\ UNCHANGED dir
       \/ /\ s \in gone
          /\ \E left \in {"none", "partial", "worktree"} :
                dir' = [dir EXCEPT ![s] = left]
          /\ EndSetup(s, "killed")
    /\ UNCHANGED <<asked, gone, bare, cut>>

Setup(s) == \/ MakeDir(s) \/ FindBareRepo(s) \/ CloneEnds(s) \/ CloneKilled(s)
            \/ Fetch(s) \/ AddWorktree(s)

-----------------------------------------------------------------------------
(* Cleanup                                                                 *)

\* The DELETE of a session that is stored, but whose Setup has not begun.
NoteEarly(d) ==
    early' = early \cup {s \in {deleting[d].of} : creating[s] = "stored"}

EndCleanup(d) ==
    /\ deleting' = [deleting EXCEPT ![d].at = "count"]
    /\ mu' = Nobody
    /\ step' = "none"
    /\ UNCHANGED <<file, activeSessions, creating>>

\* Mutant: the early return forgets the mutex.
EnterCleanupLocked(d) ==
    /\ deleting[d].at = "cleanup"
    /\ mu = Nobody
    /\ mu' = d
    /\ IF dir[deleting[d].of] = "none"
       THEN /\ deleting' = [deleting EXCEPT ![d].at = "count"]
            /\ UNCHANGED <<file, activeSessions, creating, step>>
       ELSE step' = "remove" /\ UNCHANGED lifecycle
    /\ NoteEarly(d)
    /\ UNCHANGED <<asked, gone, bare, dir, result, cut>>

\* Without a directory there is nothing to do.
EnterCleanup(d) ==
    /\ deleting[d].at = "cleanup"
    /\ mu = Nobody
    /\ IF dir[deleting[d].of] = "none" THEN EndCleanup(d)
       ELSE mu' = d /\ step' = "remove" /\ UNCHANGED lifecycle
    /\ NoteEarly(d)
    /\ UNCHANGED <<asked, gone, bare, dir, result, cut>>

\* "git worktree remove", where .git says there is a clone; its error does
\* not matter.
RemoveWorktree(d) ==
    /\ mu = d /\ step = "remove"
    /\ LET s == deleting[d].of
       IN  \E left \in {"none", "partial", dir[s]} :
              /\ dir[s] = "empty" => left = "empty"
              /\ dir' = [dir EXCEPT ![s] = left]
    /\ Goto("remove all")
    /\ UNCHANGED <<asked, gone, bare, cut>>

\* Mutant: what git has removed is taken for all there was.
RemoveNothing(d) ==
    /\ mu = d /\ step = "remove all"
    /\ EndCleanup(d)
    /\ UNCHANGED <<asked, gone, bare, dir, result, cut, early>>

\* os.RemoveAll.
RemoveAll(d) ==
    /\ mu = d /\ step = "remove all"
    /\ dir' = [dir EXCEPT ![deleting[d].of] = "none"]
    /\ EndCleanup(d)
    /\ UNCHANGED <<asked, gone, bare, result, cut, early>>

Cleanup(d) == RemoveWorktree(d) \/ RemoveAll(d)

Next ==
    \/ Handlers
    \/ \E s \in Sessions : ClientGone(s) \/ EnterSetup(s) \/ Setup(s)
    \/ \E d \in Deletions : EnterCleanup(d) \/ Cleanup(d)

Spec == Init /\ [][Next]_vars

\* A handler goes on when it can, and a mutex that is free is taken; a git
\* command ends, by itself or because its client goes away.
LiveSpec ==
    /\ Spec
    /\ WF_vars(Handlers)
    /\ \A s \in Sessions : WF_vars(EnterSetup(s)) /\ WF_vars(Setup(s))
    /\ \A d \in Deletions : WF_vars(EnterCleanup(d)) /\ WF_vars(Cleanup(d))

-----------------------------------------------------------------------------
(* Properties                                                              *)

TypeOK ==
    /\ file \in [Sessions -> Lifecycle!Files]
    /\ activeSessions \in Int
    /\ creating \in [Sessions -> {"no", "stored", "setup", "answered", "failed"}]
    /\ deleting \in [Deletions -> {Lifecycle!Idle} \cup
                        [at: {"cleanup", "count", "done"}, of: Sessions]]
    /\ \/ mu = Nobody /\ step = "none"
       \/ mu \in Sessions /\ step \in {"setup", "clone", "fetch", "add"}
       \/ mu \in Deletions /\ step \in {"remove", "remove all"}
    /\ asked \in [Sessions -> Repos \cup {NoRepo}]
    /\ gone \subseteq Sessions
    /\ bare \in [Repos -> {"none", "cloning", "partial", "whole"}]
    /\ dir \in [Sessions -> {"none", "empty", "partial", "worktree"}]
    /\ result \in [Sessions ->
                      {"none", "ready", "failed", "killed", "unsound"}]
    /\ cut \subseteq Repos
    /\ early \subseteq Sessions

\* To whoever looks from outside the mutex, a Setup and a Cleanup happen at
\* once, and no other handler sees a directory that is half made.
ImplementsLifecycle == Lifecycle!Spec

\* Whenever no handler is half way, the metric is the number of sessions.
GaugeExact == Lifecycle!GaugeExact

\* Whenever no handler is half way, a working directory has outlived its
\* session, however its Setup ended, only if the DELETE was over with its
\* Cleanup before the Setup began: handleCreateSession stores a session, which
\* can be listed and deleted from then on, and makes its directory later.  It
\* is of DELETEs only: the collector removes a session and no directory.
NoOrphanWorktree ==
    Lifecycle!Quiet => Worktrees \subseteq Lifecycle!Stored \cup early

\* A clone in use is never one that somebody is still making: a Setup finds it
\* incomplete only when an earlier one was killed, and then it always will.
OnlyCutClonesAreUnsound ==
    \A s \in Sessions : result[s] = "unsound" => asked[s] \in cut

\* The answer to a creation names a working directory only if it is complete,
\* and until the session is deleted it stays so, whatever others do.
ReadyIsWhole == \A s \in Sessions :
    result[s] = "ready" /\ file[s] # Lifecycle!Absent =>
        dir[s] = IF asked[s] = NoRepo THEN "empty" ELSE "worktree"

\* Every creation that was stored is answered, and every deletion too, if git
\* commands end: nobody keeps the mutex.
EveryHandlerEnds ==
    /\ \A s \in Sessions : creating[s] = "stored" ~> creating[s] = "answered"
    /\ \A d \in Deletions : deleting[d].at = "cleanup" ~> deleting[d].at = "done"
=============================================================================
