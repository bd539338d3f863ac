----------------------------- MODULE WorkdirsProofs ----------------------------
(***************************************************************************)
(* Proofs about Workdirs, for any sessions, deletions and repositories:    *)
(* the types, that a working directory handed out is complete and goes     *)
(* with its session, that only a clone that was killed is ever unsound,    *)
(* and that the handlers with their manager implement SessionLifecycle.    *)
(***************************************************************************)
EXTENDS Workdirs, FiniteSetTheorems, TLAPS

-----------------------------------------------------------------------------
(* The inductive invariant                                                 *)

Absent == Lifecycle!Absent
Idle   == Lifecycle!Idle

CreateSteps == {"no", "stored", "setup", "answered", "failed"}
DeleteSteps == [at: {"cleanup", "count", "done"}, of: Sessions]
Dirs        == {"none", "empty", "partial", "worktree"}
Bares       == {"none", "cloning", "partial", "whole"}
Results     == {"none", "ready", "failed", "killed", "unsound"}

\* Nothing is stored before a session's creation, and it has no working
\* directory before its Setup is over.
CreateInv == \A s \in Sessions :
    /\ creating[s] \in {"no", "failed"} => file[s] = Absent
    /\ creating[s] \in {"no", "failed", "stored"} =>
          dir[s] = "none" /\ result[s] = "none"

\* What a request has deleted was stored, and does not come back.
DeleteInv == \A d \in Deletions : deleting[d].at \in {"cleanup", "count"} =>
    /\ creating[deleting[d].of] \in {"stored", "setup", "answered"}
    /\ file[deleting[d].of] = Absent

\* The mutex is held by handlers that are where it is needed; a Cleanup keeps
\* it only where it has found a directory.
MutexInv ==
    /\ mu \in Sessions => creating[mu] = "stored"
    /\ mu \in Deletions => /\ deleting[mu].at = "cleanup"
                           /\ creating[deleting[mu].of] # "stored"

\* Only the holder clones, and only a killed clone is left incomplete.
CloneInv ==
    /\ \A r \in Repos :
          /\ bare[r] = "cloning" =>
                mu \in Sessions /\ step = "clone" /\ asked[mu] = r
          /\ bare[r] = "partial" => r \in cut
    /\ step \in {"clone", "fetch", "add"} => asked[mu] \in Repos \ {NoRepo}
    /\ step \in {"fetch", "add"} => bare[asked[mu]] \in {"partial", "whole"}

\* What is left of a deleted session, or is still to be made for it, is still
\* to be cleaned up, or has been looked for too early.
CleanupInv == \A s \in Sessions :
    file[s] = Absent /\ (dir[s] # "none" \/ creating[s] = "stored") =>
        \/ s \in early
        \/ \E d \in Deletions : deleting[d].at = "cleanup" /\ deleting[d].of = s

IInv == /\ TypeOK /\ CreateInv /\ DeleteInv /\ MutexInv /\ CloneInv
        /\ CleanupInv /\ OnlyCutClonesAreUnsound /\ ReadyIsWhole

-----------------------------------------------------------------------------
(* Facts about the records                                                 *)

LEMMA RecordFacts ==
    /\ Absent \in Lifecycle!Files
    /\ \A c, u \in Lifecycle!Times :
          /\ Lifecycle!Session(c, u) \in Lifecycle!Files
          /\ Lifecycle!Session(c, u) # Absent
    /\ Idle.at = "idle"
    /\ \A d \in DeleteSteps : d # Idle /\ d.at # "idle" /\ d.of \in Sessions
    /\ \A s \in Sessions : /\ Lifecycle!Done(s) \in DeleteSteps
                           /\ Lifecycle!Done(s).at = "done"
                           /\ Lifecycle!Done(s).of = s
    /\ \A s \in Sessions, a \in {"cleanup", "count", "done"} :
          /\ [at |-> a, of |-> s] \in DeleteSteps
          /\ [at |-> a, of |-> s].at = a /\ [at |-> a, of |-> s].of = s
    /\ \A d \in DeleteSteps, a \in {"count", "done"} :
          /\ [d EXCEPT !.at = a] \in DeleteSteps
          /\ [d EXCEPT !.at = a].at = a
          /\ [d EXCEPT !.at = a].of = d.of
    /\ 0 \in Lifecycle!Times
  BY DEF Absent, Idle, DeleteSteps, Lifecycle!Absent, Lifecycle!Idle,
         Lifecycle!Files, Lifecycle!Records, Lifecycle!Times,
         Lifecycle!Session, Lifecycle!Done, Lifecycle!Torn

LEMMA TypeOKForm ==
    TypeOK <=> /\ file \in [Sessions -> Lifecycle!Files]
               /\ activeSessions \in Int
               /\ creating \in [Sessions -> CreateSteps]
               /\ deleting \in [Deletions -> {Idle} \cup DeleteSteps]
               /\ \/ mu = Nobody /\ step = "none"
                  \/ mu \in Sessions /\ step \in {"setup", "clone", "fetch", "add"}
                  \/ mu \in Deletions /\ step \in {"remove", "remove all"}
               /\ asked \in [Sessions -> Repos \cup {NoRepo}]
               /\ gone \subseteq Sessions
               /\ bare \in [Repos -> Bares]
               /\ dir \in [Sessions -> Dirs]
               /\ result \in [Sessions -> Results]
               /\ cut \subseteq Repos
               /\ early \subseteq Sessions
  BY DEF TypeOK, CreateSteps, DeleteSteps, Dirs, Bares, Results, Idle

LEMMA InitInv == Init => IInv
<1> SUFFICES ASSUME Init PROVE IInv
  OBVIOUS
<1> USE DEF Init
<1>1. TypeOK
  BY RecordFacts, TypeOKForm DEF Absent, Idle, CreateSteps, Dirs, Bares, Results
<1>d. DeleteInv
  BY RecordFacts DEF DeleteInv, Idle
<1>m. MutexInv /\ CloneInv
  BY WorkdirsAssumption DEF MutexInv, CloneInv
<1>2. CreateInv /\ CleanupInv
  BY DEF CreateInv, CleanupInv, Absent
<1>3. OnlyCutClonesAreUnsound /\ ReadyIsWhole
  BY DEF OnlyCutClonesAreUnsound, ReadyIsWhole
<1> QED
  BY <1>1, <1>d, <1>m, <1>2, <1>3 DEF IInv

-----------------------------------------------------------------------------
(* The handlers, outside the mutex                                         *)

LEMMA CreateSessionInv ==
    ASSUME IInv, NEW s \in Sessions, UNCHANGED <<manager, deleting>>,
           Lifecycle!CreateSession(s)
    PROVE  IInv'
<1> USE DEF manager
<1>0. /\ creating[s] = "no" /\ UNCHANGED activeSessions
      /\ \/ /\ file' = [file EXCEPT ![s] = Lifecycle!Session(0, 0)]
            /\ creating' = [creating EXCEPT ![s] = "stored"]
         \/ /\ file' = file
            /\ creating' = [creating EXCEPT ![s] = "failed"]
  BY DEF Lifecycle!CreateSession, Lifecycle!Put, Lifecycle!WriteFails
<1>t. /\ file \in [Sessions -> Lifecycle!Files]
      /\ creating \in [Sessions -> CreateSteps]
      /\ deleting \in [Deletions -> {Idle} \cup DeleteSteps]
  BY TypeOKForm DEF IInv
<1>c. \A v \in Sessions : creating'[v] = creating[v] \/ (v = s)
  BY <1>0, <1>t
<1>1. TypeOK'
  <2>1. /\ file' \in [Sessions -> Lifecycle!Files]
        /\ creating' \in [Sessions -> CreateSteps]
    BY <1>0, <1>t, RecordFacts DEF CreateSteps
  <2> QED
    BY <2>1, <1>0, TypeOKForm DEF IInv, TypeOK, CreateSteps
<1>2. CreateInv'
  BY <1>0, <1>t, RecordFacts DEF IInv, CreateInv
<1>d. ASSUME NEW d \in Deletions, deleting[d].at \in {"cleanup", "count"}
      PROVE  deleting[d].of # s /\ deleting[d].of \in Sessions
  BY <1>d, <1>0, <1>t, RecordFacts DEF IInv, DeleteInv
<1>3. DeleteInv'
  BY <1>d, <1>0, <1>t DEF IInv, DeleteInv
<1>4. MutexInv'
  BY <1>d, <1>0, <1>t DEF IInv, MutexInv
<1>5. CloneInv' /\ OnlyCutClonesAreUnsound'
  BY DEF IInv, CloneInv, OnlyCutClonesAreUnsound
<1>n. /\ dir[s] = "none" /\ result[s] = "none"
      /\ creating'[s] = "stored" => file'[s] # Absent
  BY <1>0, <1>t, RecordFacts DEF IInv, CreateInv
<1>o. \A v \in Sessions \ {s} : file'[v] = file[v] /\ creating'[v] = creating[v]
  BY <1>0, <1>t
<1>6. CleanupInv'
  BY <1>n, <1>o DEF IInv, CleanupInv
<1>7. ReadyIsWhole'
  BY <1>n, <1>o DEF IInv, ReadyIsWhole
<1> QED
  BY <1>1, <1>2, <1>3, <1>4, <1>5, <1>6, <1>7 DEF IInv

LEMMA CountCreatedInv ==
    ASSUME IInv, NEW s \in Sessions, UNCHANGED <<manager, deleting>>,
           Lifecycle!CountCreated(s)
    PROVE  IInv'
<1> USE DEF manager
<1>0. /\ creating[s] = "setup" /\ UNCHANGED file
      /\ activeSessions' = activeSessions + 1
      /\ creating' = [creating EXCEPT ![s] = "answered"]
  BY DEF Lifecycle!CountCreated, Lifecycle!disk
<1>t. /\ activeSessions \in Int
      /\ creating \in [Sessions -> CreateSteps]
      /\ deleting \in [Deletions -> {Idle} \cup DeleteSteps]
  BY TypeOKForm DEF IInv
<1>1. TypeOK'
  <2>1. creating' \in [Sessions -> CreateSteps] /\ activeSessions' \in Int
    BY <1>0, <1>t DEF CreateSteps
  <2> QED
    BY <2>1, <1>0 DEF IInv, TypeOK, CreateSteps
<1>2. CreateInv'
  BY <1>0, <1>t DEF IInv, CreateInv
<1>c. \A v \in Sessions : creating'[v] = IF v = s THEN "answered" ELSE creating[v]
  BY <1>0, <1>t
<1>d. \A d \in Deletions : deleting[d].at \in {"cleanup", "count"} =>
         deleting[d].of \in Sessions
  BY <1>t, RecordFacts
<1>3. DeleteInv'
  BY <1>c, <1>d, <1>0 DEF IInv, DeleteInv
<1>4. MutexInv'
  BY <1>c, <1>d, <1>0 DEF IInv, MutexInv
<1>5. CloneInv' /\ OnlyCutClonesAreUnsound' /\ ReadyIsWhole'
  BY <1>0 DEF IInv, CloneInv, OnlyCutClonesAreUnsound, ReadyIsWhole
<1>6. CleanupInv'
  BY <1>c, <1>0 DEF IInv, CleanupInv
<1> QED
  BY <1>1, <1>2, <1>3, <1>4, <1>5, <1>6 DEF IInv

LEMMA DeleteKeeps ==
    ASSUME IInv, NEW d \in Deletions, UNCHANGED <<manager, creating>>,
           Lifecycle!Delete(d)
    PROVE  IInv'
<1> USE DEF manager
<1>0. PICK s \in Sessions :
         /\ deleting[d].at = "idle"
         /\ \/ /\ file[s] # Absent
               /\ file' = [file EXCEPT ![s] = Absent]
               /\ deleting' = [deleting EXCEPT ![d] = [at |-> "cleanup", of |-> s]]
            \/ /\ file[s] = Absent
               /\ deleting' = [deleting EXCEPT ![d] = Lifecycle!Done(s)]
               /\ UNCHANGED file
  BY DEF Lifecycle!Delete, Lifecycle!Put, Absent
<1>u. UNCHANGED activeSessions
  BY DEF Lifecycle!Delete
<1>t. /\ file \in [Sessions -> Lifecycle!Files]
      /\ creating \in [Sessions -> CreateSteps]
      /\ deleting \in [Deletions -> {Idle} \cup DeleteSteps]
  BY TypeOKForm DEF IInv
<1>i. deleting[d] = Idle
  BY <1>0, <1>t, RecordFacts
<1>d. /\ deleting' \in [Deletions -> {Idle} \cup DeleteSteps]
      /\ deleting'[d].of = s
      /\ file[s] # Absent => deleting'[d].at = "cleanup"
      /\ file[s] = Absent => deleting'[d].at = "done"
      /\ \A e \in Deletions \ {d} : deleting'[e] = deleting[e]
  <2>1. PICK step1 \in DeleteSteps :
           /\ deleting' = [deleting EXCEPT ![d] = step1]
           /\ step1.of = s
           /\ file[s] # Absent => step1.at = "cleanup"
           /\ file[s] = Absent => step1.at = "done"
    BY <1>0, RecordFacts
  <2> QED
    BY <2>1, <1>t, RecordFacts
<1>f. /\ file' \in [Sessions -> Lifecycle!Files]
      /\ file'[s] = Absent
      /\ \A v \in Sessions \ {s} : file'[v] = file[v]
  BY <1>0, <1>t, RecordFacts
<1>1. TypeOK'
  BY <1>d, <1>f, <1>u DEF IInv, TypeOK, Idle, DeleteSteps
<1>2. CreateInv'
  BY <1>0, <1>f DEF IInv, CreateInv
<1>3. DeleteInv'
  <2>1. file[s] # Absent => creating[s] \in {"stored", "setup", "answered"}
    BY <1>t DEF IInv, CreateInv, CreateSteps
  <2>2. ASSUME NEW e \in Deletions, deleting'[e].at \in {"cleanup", "count"}
        PROVE  /\ creating[deleting'[e].of] \in {"stored", "setup", "answered"}
               /\ file'[deleting'[e].of] = Absent
    <3>1. CASE e = d
      BY <2>1, <2>2, <3>1, <1>d, <1>f
    <3>2. CASE e # d
      <4>1. deleting[e].of \in Sessions
        BY <2>2, <3>2, <1>d, <1>t, RecordFacts
      <4> QED
        BY <2>2, <3>2, <4>1, <1>d, <1>f DEF IInv, DeleteInv
    <3> QED
      BY <3>1, <3>2
  <2> QED
    BY <2>2 DEF DeleteInv
<1>4. MutexInv'
  BY <1>0, <1>d, <1>t DEF IInv, MutexInv
<1>5. CloneInv' /\ OnlyCutClonesAreUnsound' /\ ReadyIsWhole'
  BY <1>f DEF IInv, CloneInv, OnlyCutClonesAreUnsound, ReadyIsWhole, Absent
<1>6. CleanupInv'
  <2>1. ASSUME NEW v \in Sessions, file'[v] = Absent,
               dir[v] # "none" \/ creating[v] = "stored", v \notin early
        PROVE  \E e \in Deletions : /\ deleting'[e].at = "cleanup"
                                    /\ deleting'[e].of = v
    <3>1. CASE v = s /\ file[s] # Absent
      BY <3>1, <1>d
    <3>2. CASE file[v] = Absent
      <4>1. PICK e \in Deletions : /\ deleting[e].at = "cleanup"
                                   /\ deleting[e].of = v
        BY <2>1, <3>2 DEF IInv, CleanupInv
      <4>2. e # d
        BY <4>1, <1>0
      <4> QED
        BY <4>1, <4>2, <1>d
    <3> QED
      BY <2>1, <3>1, <3>2, <1>f
  <2> QED
    BY <2>1 DEF CleanupInv
<1> QED
  BY <1>1, <1>2, <1>3, <1>4, <1>5, <1>6 DEF IInv

\* Another step of a deletion, after its clean-up.
LEMMA CountDeletedInv ==
    ASSUME IInv, NEW d \in Deletions, UNCHANGED <<manager, creating>>,
           Lifecycle!CountDeleted(d)
    PROVE  IInv'
<1> USE DEF manager
<1>0. /\ deleting[d].at = "count" /\ UNCHANGED file
      /\ activeSessions' = activeSessions - 1
      /\ deleting' = [deleting EXCEPT ![d] = [deleting[d] EXCEPT !.at = "done"]]
  BY DEF Lifecycle!CountDeleted, Lifecycle!disk
<1>t. /\ activeSessions \in Int
      /\ deleting \in [Deletions -> {Idle} \cup DeleteSteps]
  BY TypeOKForm DEF IInv
<1>i. deleting[d] \in DeleteSteps
  BY <1>0, <1>t, RecordFacts
<1>d. /\ deleting' \in [Deletions -> {Idle} \cup DeleteSteps]
      /\ deleting'[d].at = "done" /\ deleting'[d].of = deleting[d].of
      /\ \A e \in Deletions \ {d} : deleting'[e] = deleting[e]
  BY <1>0, <1>i, <1>t, RecordFacts
<1>1. TypeOK'
  <2>1. activeSessions' \in Int
    BY <1>0, <1>t
  <2> QED
    BY <2>1, <1>0, <1>d DEF IInv, TypeOK, Idle, DeleteSteps
<1>2. CreateInv' /\ CloneInv' /\ OnlyCutClonesAreUnsound' /\ ReadyIsWhole'
  BY <1>0 DEF IInv, CreateInv, CloneInv, OnlyCutClonesAreUnsound, ReadyIsWhole
<1>3. DeleteInv'
  BY <1>0, <1>d DEF IInv, DeleteInv
<1>4. MutexInv'
  BY <1>0, <1>d DEF IInv, MutexInv
<1>5. CleanupInv'
  BY <1>0, <1>d DEF IInv, CleanupInv
<1> QED
  BY <1>1, <1>2, <1>3, <1>4, <1>5 DEF IInv

LEMMA HandlersInv == IInv /\ Handlers => IInv'
  BY CreateSessionInv, CountCreatedInv, DeleteKeeps, CountDeletedInv DEF Handlers

-----------------------------------------------------------------------------
(* Setup                                                                   *)

\* A step that leaves the sessions and their directories alone.
LEMMA QuietKeeps ==
    ASSUME IInv, UNCHANGED <<lifecycle, asked, dir, result, early>>,
           cut \subseteq cut'
    PROVE  /\ CreateInv' /\ DeleteInv' /\ CleanupInv'
           /\ OnlyCutClonesAreUnsound' /\ ReadyIsWhole'
  BY DEF IInv, CreateInv, DeleteInv, CleanupInv, OnlyCutClonesAreUnsound,
         ReadyIsWhole, lifecycle

\* The end of a Setup.
LEMMA EndSetupKeeps ==
    ASSUME IInv, NEW s \in Sessions, mu = s, NEW how \in Results,
           EndSetup(s, how), UNCHANGED <<asked, gone>>,
           NEW left \in Dirs, dir' = [dir EXCEPT ![s] = left],
           bare' \in [Repos -> Bares], cut' \subseteq Repos, cut \subseteq cut',
           \A r \in Repos : /\ bare'[r] # "cloning"
                            /\ bare'[r] = "partial" => r \in cut',
           how = "unsound" => asked[s] \in cut',
           how = "ready" =>
               left = IF asked[s] = NoRepo THEN "empty" ELSE "worktree"
    PROVE  IInv'
<1>0. /\ result' = [result EXCEPT ![s] = how]
      /\ creating' = [creating EXCEPT ![s] = "setup"]
      /\ mu' = Nobody /\ step' = "none"
      /\ UNCHANGED <<file, activeSessions, deleting, early>>
  BY DEF EndSetup
<1>t. /\ creating \in [Sessions -> CreateSteps]
      /\ deleting \in [Deletions -> {Idle} \cup DeleteSteps]
      /\ dir \in [Sessions -> Dirs] /\ result \in [Sessions -> Results]
  BY TypeOKForm DEF IInv
<1>s. creating[s] = "stored"
  BY DEF IInv, MutexInv
<1>c. /\ creating' \in [Sessions -> CreateSteps] /\ creating'[s] = "setup"
      /\ dir' \in [Sessions -> Dirs] /\ dir'[s] = left
      /\ result' \in [Sessions -> Results] /\ result'[s] = how
      /\ \A v \in Sessions \ {s} : /\ creating'[v] = creating[v]
                                   /\ dir'[v] = dir[v]
                                   /\ result'[v] = result[v]
  BY <1>0, <1>t DEF CreateSteps
<1>1. TypeOK'
  BY <1>0, <1>c DEF IInv, TypeOK, CreateSteps, Dirs, Bares, Results
<1>2. CreateInv'
  BY <1>0, <1>c, <1>s DEF IInv, CreateInv
<1>3. DeleteInv'
  <2>1. \A d \in Deletions : deleting[d].at \in {"cleanup", "count"} =>
           deleting[d].of \in Sessions
    BY <1>t, RecordFacts
  <2> QED
    BY <2>1, <1>0, <1>c DEF IInv, DeleteInv
<1>4. MutexInv' /\ CloneInv'
  BY <1>0, WorkdirsAssumption DEF MutexInv, CloneInv
<1>5. CleanupInv'
  BY <1>0, <1>c, <1>s DEF IInv, CleanupInv
<1>6. OnlyCutClonesAreUnsound'
  BY <1>c DEF IInv, OnlyCutClonesAreUnsound
<1>7. ReadyIsWhole'
  BY <1>0, <1>c DEF IInv, ReadyIsWhole, Absent
<1> QED
  BY <1>1, <1>2, <1>3, <1>4, <1>5, <1>6, <1>7 DEF IInv

\* The mutex and the clones, as a step of a Setup finds them.
LEMMA SetupFinds ==
    ASSUME IInv, NEW s \in Sessions, mu = s
    PROVE  /\ creating[s] = "stored" /\ dir[s] = "none"
           /\ dir = [dir EXCEPT ![s] = dir[s]] /\ dir[s] \in Dirs
           /\ bare \in [Repos -> Bares] /\ cut \subseteq Repos
           /\ asked[s] \in Repos \cup {NoRepo}
           /\ step # "clone" => \A r \in Repos : bare[r] # "cloning"
           /\ \A r \in Repos : bare[r] = "cloning" => r = asked[s]
           /\ \A r \in Repos : bare[r] = "partial" => r \in cut
  BY TypeOKForm DEF IInv, MutexInv, CreateInv, CloneInv

LEMMA MakeDirInv ==
    ASSUME IInv, NEW s \in Sessions, MakeDir(s)
    PROVE  IInv'
<1>1. /\ mu = s /\ step = "setup" /\ asked[s] = NoRepo
      /\ UNCHANGED <<asked, gone, bare, cut>>
      /\ \/ dir' = [dir EXCEPT ![s] = "empty"] /\ EndSetup(s, "ready")
         \/ dir' = [dir EXCEPT ![s] = dir[s]] /\ EndSetup(s, "failed")
  BY SetupFinds DEF MakeDir
<1> QED
  BY <1>1, SetupFinds, EndSetupKeeps DEF Results, Dirs

LEMMA FindBareRepoInv ==
    ASSUME IInv, NEW s \in Sessions, FindBareRepo(s)
    PROVE  IInv'
<1>0. /\ mu = s /\ step = "setup" /\ asked[s] \in Repos \ {NoRepo}
      /\ UNCHANGED <<asked, gone, dir, cut>>
  BY SetupFinds DEF FindBareRepo
<1>f. /\ bare \in [Repos -> Bares] /\ dir = [dir EXCEPT ![s] = dir[s]]
      /\ dir[s] \in Dirs /\ cut \subseteq Repos
      /\ \A r \in Repos : bare[r] # "cloning"
      /\ \A r \in Repos : bare[r] = "partial" => r \in cut
  BY <1>0, SetupFinds
<1>1. CASE bare[asked[s]] # "none" /\ Goto("fetch") /\ UNCHANGED bare
  <2>1. step' = "fetch" /\ UNCHANGED <<lifecycle, mu, result, early>>
    BY <1>1 DEF Goto
  <2>2. TypeOK'
    BY <1>0, <1>1, <2>1 DEF IInv, TypeOK, lifecycle
  <2>3. bare[asked[s]] \in {"partial", "whole"}
    BY <1>0, <1>1, <1>f DEF Bares
  <2>4. MutexInv' /\ CloneInv'
    BY <1>0, <1>1, <1>f, <2>1, <2>3 DEF IInv, MutexInv, CloneInv, lifecycle
  <2> QED
    BY <1>0, <2>1, <2>2, <2>4, QuietKeeps DEF IInv
<1>2. CASE bare' = [bare EXCEPT ![asked[s]] = "cloning"] /\ Goto("clone")
  <2>1. step' = "clone" /\ UNCHANGED <<lifecycle, mu, result, early>>
    BY <1>2 DEF Goto
  <2>2. /\ bare' \in [Repos -> Bares]
        /\ \A r \in Repos : bare'[r] = IF r = asked[s] THEN "cloning" ELSE bare[r]
    BY <1>2, <1>f, <1>0 DEF Bares
  <2>3. TypeOK'
    BY <1>0, <2>1, <2>2 DEF IInv, TypeOK, lifecycle, Bares
  <2>4. MutexInv' /\ CloneInv'
    BY <1>0, <1>f, <2>1, <2>2 DEF IInv, MutexInv, CloneInv, lifecycle
  <2> QED
    BY <1>0, <2>1, <2>3, <2>4, QuietKeeps DEF IInv
<1>3. CASE EndSetup(s, "killed") /\ UNCHANGED bare
  BY <1>0, <1>3, <1>f, EndSetupKeeps DEF Results
<1> QED
  BY <1>1, <1>2, <1>3 DEF FindBareRepo

LEMMA CloneEndsInv ==
    ASSUME IInv, NEW s \in Sessions, CloneEnds(s)
    PROVE  IInv'
<1>0. /\ mu = s /\ step = "clone" /\ asked[s] \in Repos \ {NoRepo}
      /\ UNCHANGED <<asked, gone, dir, cut>>
  BY DEF CloneEnds, IInv, CloneInv
<1>f. /\ bare \in [Repos -> Bares] /\ dir = [dir EXCEPT ![s] = dir[s]]
      /\ dir[s] \in Dirs /\ cut \subseteq Repos
      /\ \A r \in Repos : bare[r] = "cloning" => r = asked[s]
      /\ \A r \in Repos : bare[r] = "partial" => r \in cut
  BY <1>0, SetupFinds
<1>1. ASSUME NEW x \in {"none", "whole"},
             bare' = [bare EXCEPT ![asked[s]] = x]
      PROVE  /\ bare' \in [Repos -> Bares] /\ bare'[asked[s]] = x
             /\ \A r \in Repos : /\ bare'[r] # "cloning"
                                 /\ bare'[r] = "partial" => r \in cut
  BY <1>0, <1>1, <1>f DEF Bares
<1>2. CASE bare' = [bare EXCEPT ![asked[s]] = "whole"] /\ Goto("fetch")
  <2>1. step' = "fetch" /\ UNCHANGED <<lifecycle, mu, result, early>>
    BY <1>2 DEF Goto
  <2>2. TypeOK'
    BY <1>0, <1>1, <1>2, <2>1 DEF IInv, TypeOK, lifecycle, Bares
  <2>3. MutexInv' /\ CloneInv'
    BY <1>0, <1>1, <1>2, <2>1 DEF IInv, MutexInv, CloneInv, lifecycle
  <2> QED
    BY <1>0, <2>1, <2>2, <2>3, QuietKeeps DEF IInv
<1>3. CASE bare' = [bare EXCEPT ![asked[s]] = "none"] /\ EndSetup(s, "failed")
  BY <1>0, <1>1, <1>3, <1>f, EndSetupKeeps DEF Results
<1> QED
  BY <1>2, <1>3 DEF CloneEnds

LEMMA CloneKilledInv ==
    ASSUME IInv, NEW s \in Sessions, CloneKilled(s)
    PROVE  IInv'
<1>0. /\ mu = s /\ step = "clone" /\ asked[s] \in Repos \ {NoRepo}
      /\ UNCHANGED <<asked, gone, dir>> /\ EndSetup(s, "killed")
      /\ cut' = cut \cup {asked[s]}
  BY DEF CloneKilled, IInv, CloneInv
<1>f. /\ bare \in [Repos -> Bares] /\ dir = [dir EXCEPT ![s] = dir[s]]
      /\ dir[s] \in Dirs /\ cut \subseteq Repos
      /\ \A r \in Repos : bare[r] = "cloning" => r = asked[s]
      /\ \A r \in Repos : bare[r] = "partial" => r \in cut
  BY <1>0, SetupFinds
<1>1. PICK left \in {"none", "partial", "whole"} :
         bare' = [bare EXCEPT ![asked[s]] = left]
  BY DEF CloneKilled
<1>2. /\ bare' \in [Repos -> Bares] /\ cut' \subseteq Repos
      /\ \A r \in Repos : /\ bare'[r] # "cloning"
                          /\ bare'[r] = "partial" => r \in cut'
  BY <1>0, <1>1, <1>f DEF Bares
<1> QED
  BY <1>0, <1>2, <1>f, EndSetupKeeps DEF Results

LEMMA FetchInv ==
    ASSUME IInv, NEW s \in Sessions, Fetch(s)
    PROVE  IInv'
<1>0. /\ mu = s /\ step = "fetch"
      /\ UNCHANGED <<asked, gone, bare, dir, cut>>
  BY DEF Fetch
<1>1. CASE Goto("add")
  <2>1. step' = "add" /\ UNCHANGED <<lifecycle, mu, result, early>>
    BY <1>1 DEF Goto
  <2>2. TypeOK'
    BY <1>0, <2>1 DEF IInv, TypeOK, lifecycle
  <2>3. MutexInv' /\ CloneInv'
    BY <1>0, <2>1 DEF IInv, MutexInv, CloneInv, lifecycle
  <2> QED
    BY <1>0, <2>1, <2>2, <2>3, QuietKeeps DEF IInv
<1>2. ASSUME NEW how \in {"killed", "failed"}, EndSetup(s, how) PROVE IInv'
  BY <1>0, <1>2, SetupFinds, EndSetupKeeps DEF Results
<1> QED
  BY <1>1, <1>2 DEF Fetch

LEMMA AddWorktreeInv ==
    ASSUME IInv, NEW s \in Sessions, AddWorktree(s)
    PROVE  IInv'
<1>0. /\ mu = s /\ step = "add"
      /\ UNCHANGED <<asked, gone, bare, cut>>
  BY DEF AddWorktree
<1>1. asked[s] \in Repos \ {NoRepo}
  BY <1>0 DEF IInv, CloneInv
<1>2. PICK how \in {"ready", "failed", "unsound", "killed"}, left \in Dirs :
         /\ EndSetup(s, how)
         /\ dir' = [dir EXCEPT ![s] = left]
         /\ how = "ready" => left = "worktree"
         /\ how = "unsound" => bare[asked[s]] # "whole"
  BY <1>0, SetupFinds DEF AddWorktree, Dirs
<1>3. how = "unsound" => asked[s] \in cut
  BY <1>0, <1>2 DEF IInv, CloneInv
<1> QED
  BY <1>0, <1>1, <1>2, <1>3, SetupFinds, EndSetupKeeps DEF Results

-----------------------------------------------------------------------------
(* A client that leaves, the mutex, and Cleanup                            *)

LEMMA ClientGoneInv ==
    ASSUME IInv, NEW s \in Sessions, ClientGone(s)
    PROVE  IInv'
<1>0. /\ gone' = gone \cup {s}
      /\ UNCHANGED <<lifecycle, mu, step, asked, bare, dir, result, cut, early>>
  BY DEF ClientGone
<1>1. TypeOK' /\ MutexInv' /\ CloneInv'
  BY <1>0 DEF IInv, TypeOK, MutexInv, CloneInv, lifecycle
<1> QED
  BY <1>0, <1>1, QuietKeeps DEF IInv

LEMMA EnterSetupInv ==
    ASSUME IInv, NEW s \in Sessions, EnterSetup(s)
    PROVE  IInv'
<1>0. /\ creating[s] = "stored" /\ mu = Nobody /\ mu' = s /\ step' = "setup"
      /\ UNCHANGED <<lifecycle, asked, gone, bare, dir, result, cut, early>>
  BY DEF EnterSetup
<1>1. TypeOK' /\ MutexInv' /\ CloneInv'
  BY <1>0, WorkdirsAssumption DEF IInv, TypeOK, MutexInv, CloneInv, lifecycle
<1> QED
  BY <1>0, <1>1, QuietKeeps DEF IInv

\* The end of a Cleanup, which leaves nothing.
LEMMA EndCleanupKeeps ==
    ASSUME IInv, NEW d \in Deletions, deleting[d].at = "cleanup",
           mu \in {Nobody, d}, EndCleanup(d),
           UNCHANGED <<asked, gone, bare, result, cut>>,
           dir' = [dir EXCEPT ![deleting[d].of] = "none"],
           early \subseteq early', early' \subseteq Sessions,
           creating[deleting[d].of] = "stored" => deleting[d].of \in early'
    PROVE  IInv'
<1> DEFINE s == deleting[d].of
<1>0. /\ deleting' = [deleting EXCEPT ![d] = [deleting[d] EXCEPT !.at = "count"]]
      /\ mu' = Nobody /\ step' = "none"
      /\ UNCHANGED <<file, activeSessions, creating>>
  BY DEF EndCleanup
<1>t. /\ deleting \in [Deletions -> {Idle} \cup DeleteSteps]
      /\ dir \in [Sessions -> Dirs]
  BY TypeOKForm DEF IInv
<1>i. deleting[d] \in DeleteSteps /\ s \in Sessions
  BY <1>t, RecordFacts
<1>d. /\ deleting' \in [Deletions -> {Idle} \cup DeleteSteps]
      /\ deleting'[d].at = "count" /\ deleting'[d].of = s
      /\ \A e \in Deletions \ {d} : deleting'[e] = deleting[e]
  BY <1>0, <1>i, <1>t, RecordFacts
<1>r. /\ dir' \in [Sessions -> Dirs] /\ dir'[s] = "none"
      /\ \A v \in Sessions \ {s} : dir'[v] = dir[v]
  BY <1>i, <1>t DEF Dirs
<1>e. /\ creating[s] \in {"stored", "setup", "answered"}
      /\ file[s] = Absent /\ (creating[s] = "stored" => s \in early')
  BY <1>i DEF IInv, DeleteInv
<1> HIDE DEF s
<1>1. TypeOK'
  BY <1>0, <1>d, <1>r DEF IInv, TypeOK, Idle, DeleteSteps, Dirs
<1>2. CreateInv'
  BY <1>0, <1>r, <1>e DEF IInv, CreateInv
<1>3. DeleteInv'
  BY <1>0, <1>d, <1>e DEF IInv, DeleteInv
<1>4. MutexInv'
  BY <1>0, WorkdirsAssumption DEF MutexInv
<1>5. CloneInv'
  <2>1. mu \notin Sessions
    BY WorkdirsAssumption
  <2> QED
    BY <1>0, <2>1 DEF IInv, CloneInv
<1>6. CleanupInv'
  BY <1>0, <1>d, <1>e, <1>r DEF IInv, CleanupInv, s
<1>7. OnlyCutClonesAreUnsound' /\ ReadyIsWhole'
  BY <1>0, <1>r, <1>e DEF IInv, OnlyCutClonesAreUnsound, ReadyIsWhole, Absent
<1> QED
  BY <1>1, <1>2, <1>3, <1>4, <1>5, <1>6, <1>7 DEF IInv

LEMMA EnterCleanupInv ==
    ASSUME IInv, NEW d \in Deletions, EnterCleanup(d)
    PROVE  IInv'
<1>0. /\ deleting[d].at = "cleanup" /\ mu = Nobody
      /\ UNCHANGED <<asked, gone, bare, dir, result, cut>>
      /\ early' = early \cup
            {s \in {deleting[d].of} : creating[s] = "stored"}
  BY DEF EnterCleanup, NoteEarly
<1>t. /\ deleting[d].of \in Sessions /\ dir \in [Sessions -> Dirs]
      /\ early \subseteq Sessions
  BY <1>0, TypeOKForm, RecordFacts DEF IInv
<1>1. CASE dir[deleting[d].of] = "none" /\ EndCleanup(d)
  <2>2. dir' = [dir EXCEPT ![deleting[d].of] = "none"]
    BY <1>0, <1>1, <1>t
  <2>3. /\ early \subseteq early' /\ early' \subseteq Sessions
        /\ creating[deleting[d].of] = "stored" => deleting[d].of \in early'
    BY <1>0, <1>t
  <2> QED
    BY <1>0, <1>1, <2>2, <2>3, EndCleanupKeeps
<1>2. CASE /\ dir[deleting[d].of] # "none"
           /\ mu' = d /\ step' = "remove" /\ UNCHANGED lifecycle
  <2>4. creating[deleting[d].of] # "stored"
    BY <1>2, <1>t DEF IInv, CreateInv
  <2>5. early' = early
    BY <1>0, <2>4
  <2>1. TypeOK'
    BY <1>0, <1>2, <2>5 DEF IInv, TypeOK, lifecycle
  <2>2. MutexInv'
    BY <1>0, <1>2, <2>4, WorkdirsAssumption DEF MutexInv, lifecycle
  <2>3. CloneInv'
    BY <1>0, <1>2, WorkdirsAssumption DEF IInv, CloneInv
  <2> QED
    BY <1>0, <1>2, <2>1, <2>2, <2>3, <2>5, QuietKeeps DEF IInv
<1> QED
  BY <1>1, <1>2 DEF EnterCleanup

LEMMA RemoveWorktreeInv ==
    ASSUME IInv, NEW d \in Deletions, RemoveWorktree(d)
    PROVE  IInv'
<1> DEFINE s == deleting[d].of
<1>0. /\ mu = d /\ step = "remove" /\ step' = "remove all"
      /\ UNCHANGED <<lifecycle, mu, result, asked, gone, bare, cut, early>>
  BY DEF RemoveWorktree, Goto
<1>t. /\ deleting \in [Deletions -> {Idle} \cup DeleteSteps]
      /\ dir \in [Sessions -> Dirs]
  BY TypeOKForm DEF IInv
<1>c. deleting[d].at = "cleanup"
  BY <1>0 DEF IInv, MutexInv
<1>i. deleting[d] \in DeleteSteps /\ s \in Sessions
  BY <1>t, <1>c, RecordFacts
<1>e. creating[s] \in {"setup", "answered"} /\ file[s] = Absent
  BY <1>0, <1>c DEF IInv, DeleteInv, MutexInv
<1>r. /\ dir' \in [Sessions -> Dirs]
      /\ \A v \in Sessions \ {s} : dir'[v] = dir[v]
  <2>1. PICK left \in {"none", "partial", dir[s]} : dir' = [dir EXCEPT ![s] = left]
    BY DEF RemoveWorktree
  <2> QED
    BY <2>1, <1>i, <1>t DEF Dirs
<1> HIDE DEF s
<1>1. TypeOK'
  BY <1>0, <1>r DEF IInv, TypeOK, lifecycle, Dirs
<1>2. CreateInv'
  BY <1>0, <1>r, <1>e DEF IInv, CreateInv, lifecycle
<1>3. DeleteInv' /\ MutexInv' /\ CloneInv' /\ OnlyCutClonesAreUnsound'
  BY <1>0, WorkdirsAssumption
  DEF IInv, DeleteInv, MutexInv, CloneInv, OnlyCutClonesAreUnsound, lifecycle
<1>4. CleanupInv'
  BY <1>0, <1>c, <1>r DEF IInv, CleanupInv, lifecycle, s
<1>5. ReadyIsWhole'
  BY <1>0, <1>r, <1>e DEF IInv, ReadyIsWhole, lifecycle, Absent
<1> QED
  BY <1>1, <1>2, <1>3, <1>4, <1>5 DEF IInv

LEMMA RemoveAllInv ==
    ASSUME IInv, NEW d \in Deletions, RemoveAll(d)
    PROVE  IInv'
<1>1. /\ mu = d /\ EndCleanup(d)
      /\ dir' = [dir EXCEPT ![deleting[d].of] = "none"]
      /\ UNCHANGED <<asked, gone, bare, result, cut, early>>
  BY DEF RemoveAll
<1>2. /\ deleting[d].at = "cleanup" /\ mu \in {Nobody, d}
      /\ creating[deleting[d].of] # "stored"
  BY <1>1 DEF IInv, MutexInv
<1>3. early \subseteq Sessions
  BY TypeOKForm DEF IInv
<1> QED
  BY <1>1, <1>2, <1>3, EndCleanupKeeps

LEMMA StutterInv == IInv /\ UNCHANGED vars => IInv'
<1> SUFFICES ASSUME IInv, UNCHANGED vars PROVE IInv'
  OBVIOUS
<1>1. UNCHANGED <<lifecycle, asked, dir, result, early>> /\ cut \subseteq cut'
  BY DEF vars, manager
<1>2. TypeOK' /\ MutexInv' /\ CloneInv'
  BY DEF IInv, TypeOK, MutexInv, CloneInv, vars, lifecycle, manager
<1> QED
  BY <1>1, <1>2, QuietKeeps DEF IInv

LEMMA NextInv == IInv /\ [Next]_vars => IInv'
<1> SUFFICES ASSUME IInv, [Next]_vars PROVE IInv'
  OBVIOUS
<1>1. CASE Handlers
  BY <1>1, HandlersInv
<1>2. ASSUME NEW s \in Sessions, ClientGone(s) \/ EnterSetup(s) \/ Setup(s)
      PROVE  IInv'
  BY <1>2, ClientGoneInv, EnterSetupInv, MakeDirInv, FindBareRepoInv,
     CloneEndsInv, CloneKilledInv, FetchInv, AddWorktreeInv DEF Setup
<1>3. ASSUME NEW d \in Deletions, EnterCleanup(d) \/ Cleanup(d) PROVE IInv'
  BY <1>3, EnterCleanupInv, RemoveWorktreeInv, RemoveAllInv DEF Cleanup
<1> QED
  BY <1>1, <1>2, <1>3, StutterInv DEF Next

LEMMA Invariance == Spec => []IInv
<1>1. Init => IInv
  BY InitInv
<1>2. IInv /\ [Next]_vars => IInv'
  BY NextInv
<1> QED
  BY <1>1, <1>2, PTL DEF Spec

-----------------------------------------------------------------------------
(* The metric                                                              *)

\* The sessions that are counted into the metric, and those counted out of it
\* again, which may come first: their DELETE was over before their creation.
Pending(s) == \E d \in Deletions : /\ deleting[d].at \in {"cleanup", "count"}
                                   /\ deleting[d].of = s
CountedIn  == {s \in Sessions : creating[s] = "answered"}
CountedOut == {s \in Sessions : /\ creating[s] \in {"stored", "setup", "answered"}
                                /\ file[s] = Absent
                                /\ ~Pending(s)}

\* A session is counted out by one request.
GaugeInv ==
    /\ IsFiniteSet(CountedIn) /\ IsFiniteSet(CountedOut)
    /\ activeSessions = Cardinality(CountedIn) - Cardinality(CountedOut)
    /\ \A d, e \in Deletions :
          /\ deleting[d].at \in {"cleanup", "count"}
          /\ deleting[e].at \in {"cleanup", "count"}
          /\ deleting[d].of = deleting[e].of
          => d = e

LEMMA InitGauge == Init => GaugeInv
<1> SUFFICES ASSUME Init PROVE GaugeInv
  OBVIOUS
<1>1. CountedIn = {} /\ CountedOut = {}
  BY DEF Init, CountedIn, CountedOut
<1>2. \A d \in Deletions : deleting[d].at = "idle"
  BY RecordFacts DEF Init, Idle
<1>3. activeSessions = 0 /\ Cardinality({}) = 0 /\ IsFiniteSet({})
  BY FS_EmptySet DEF Init
<1> QED
  BY <1>1, <1>2, <1>3 DEF GaugeInv

\* A step that counts nothing.
LEMMA SameGauge ==
    ASSUME GaugeInv, UNCHANGED activeSessions,
           CountedIn' = CountedIn, CountedOut' = CountedOut,
           \A d, e \in Deletions :
              /\ deleting'[d].at \in {"cleanup", "count"}
              /\ deleting'[e].at \in {"cleanup", "count"}
              /\ deleting'[d].of = deleting'[e].of
              => d = e
    PROVE  GaugeInv'
  BY DEF GaugeInv

LEMMA HandlersGauge ==
    ASSUME IInv, GaugeInv, Handlers
    PROVE  GaugeInv'
<1>t. /\ file \in [Sessions -> Lifecycle!Files]
      /\ creating \in [Sessions -> CreateSteps]
      /\ deleting \in [Deletions -> {Idle} \cup DeleteSteps]
      /\ activeSessions \in Int
  BY TypeOKForm DEF IInv
<1>n. Cardinality(CountedIn) \in Nat /\ Cardinality(CountedOut) \in Nat
  BY FS_CardinalityType DEF GaugeInv
<1>1. ASSUME NEW s \in Sessions, Lifecycle!CreateSession(s), UNCHANGED deleting
      PROVE  GaugeInv'
  <2>1. /\ creating[s] = "no" /\ UNCHANGED activeSessions
        /\ creating'[s] \in {"stored", "failed"}
        /\ creating'[s] = "stored" => file'[s] # Absent
        /\ \A v \in Sessions \ {s} : creating'[v] = creating[v] /\ file'[v] = file[v]
    BY <1>1, <1>t, RecordFacts DEF Lifecycle!CreateSession, Lifecycle!Put,
                      Lifecycle!WriteFails
  <2>2. CountedIn' = CountedIn
    BY <2>1 DEF CountedIn
  <2>3. CountedOut' = CountedOut
    BY <2>1, <1>1 DEF CountedOut, Pending
  <2>4. \A d, e \in Deletions :
              /\ deleting'[d].at \in {"cleanup", "count"}
              /\ deleting'[e].at \in {"cleanup", "count"}
              /\ deleting'[d].of = deleting'[e].of
              => d = e
    BY <1>1 DEF GaugeInv
  <2> QED
    BY <2>1, <2>2, <2>3, <2>4, SameGauge
<1>2. ASSUME NEW s \in Sessions, Lifecycle!CountCreated(s), UNCHANGED deleting
      PROVE  GaugeInv'
  <2>1. /\ creating[s] = "setup" /\ UNCHANGED file
        /\ activeSessions' = activeSessions + 1
        /\ creating'[s] = "answered"
        /\ \A v \in Sessions \ {s} : creating'[v] = creating[v]
    BY <1>2, <1>t DEF Lifecycle!CountCreated, Lifecycle!disk
  <2>2. CountedIn' = CountedIn \cup {s} /\ s \notin CountedIn
    BY <2>1 DEF CountedIn
  <2>3. CountedOut' = CountedOut
    BY <2>1, <1>2 DEF CountedOut, Pending
  <2>4. /\ IsFiniteSet(CountedIn')
        /\ Cardinality(CountedIn') = Cardinality(CountedIn) + 1
    BY <2>2, FS_AddElement DEF GaugeInv
  <2>5. activeSessions' = Cardinality(CountedIn') - Cardinality(CountedOut')
    BY <2>1, <2>3, <2>4, <1>n DEF GaugeInv
  <2> QED
    BY <2>3, <2>4, <2>5, <1>2 DEF GaugeInv
<1>3. ASSUME NEW d \in Deletions, Lifecycle!Delete(d), UNCHANGED creating
      PROVE  GaugeInv'
  <2>0. PICK s \in Sessions :
           /\ deleting[d].at = "idle"
           /\ \/ /\ file[s] # Absent
                 /\ file' = [file EXCEPT ![s] = Absent]
                 /\ deleting' = [deleting EXCEPT
                                    ![d] = [at |-> "cleanup", of |-> s]]
              \/ /\ file[s] = Absent
                 /\ deleting' = [deleting EXCEPT ![d] = Lifecycle!Done(s)]
                 /\ UNCHANGED file
    BY <1>3 DEF Lifecycle!Delete, Lifecycle!Put, Absent
  <2>1. UNCHANGED activeSessions
    BY <1>3 DEF Lifecycle!Delete
  <2>2. \A e \in Deletions \ {d} : deleting'[e] = deleting[e]
    BY <2>0, <1>t
  <2>5. CountedIn' = CountedIn
    BY <1>3 DEF CountedIn
  <2>3. CASE file[s] # Absent
    <3>1. /\ deleting'[d].at = "cleanup" /\ deleting'[d].of = s
          /\ file'[s] = Absent
          /\ \A v \in Sessions \ {s} : file'[v] = file[v]
      BY <2>0, <2>3, <1>t, RecordFacts
    <3>2. \A e \in Deletions : deleting[e].at \in {"cleanup", "count"} =>
             deleting[e].of # s
      BY <2>3 DEF IInv, DeleteInv
    <3>3. CountedOut' = CountedOut
      <4>1. ASSUME NEW v \in Sessions PROVE v \in CountedOut' <=> v \in CountedOut
        <5>1. CASE v = s
          <6>1. v \notin CountedOut
            BY <5>1, <2>3 DEF CountedOut
          <6>2. v \notin CountedOut'
            BY <5>1, <3>1 DEF CountedOut, Pending
          <6> QED
            BY <6>1, <6>2
        <5>2. CASE v # s
          <6>1. Pending(v)' <=> Pending(v)
            BY <5>2, <2>0, <2>2, <3>1 DEF Pending
          <6> QED
            BY <5>2, <6>1, <3>1, <1>3 DEF CountedOut
        <5> QED
          BY <5>1, <5>2
      <4> QED
        BY <4>1 DEF CountedOut
    <3>4. \A f, e \in Deletions :
              /\ deleting'[f].at \in {"cleanup", "count"}
              /\ deleting'[e].at \in {"cleanup", "count"}
              /\ deleting'[f].of = deleting'[e].of
              => f = e
      BY <2>2, <3>1, <3>2 DEF GaugeInv
    <3> QED
      BY <2>1, <2>5, <3>3, <3>4, SameGauge
  <2>4. CASE file[s] = Absent
    <3>1. deleting'[d].at = "done" /\ UNCHANGED file
      BY <2>0, <2>4, <1>t, RecordFacts
    <3>2. \A v : Pending(v)' <=> Pending(v)
      BY <2>0, <2>2, <3>1 DEF Pending
    <3>3. CountedOut' = CountedOut
      BY <3>1, <3>2, <1>3 DEF CountedOut
    <3>4. \A f, e \in Deletions :
              /\ deleting'[f].at \in {"cleanup", "count"}
              /\ deleting'[e].at \in {"cleanup", "count"}
              /\ deleting'[f].of = deleting'[e].of
              => f = e
      BY <2>2, <3>1 DEF GaugeInv
    <3> QED
      BY <2>1, <2>5, <3>3, <3>4, SameGauge
  <2> QED
    BY <2>3, <2>4
<1>4. ASSUME NEW d \in Deletions, Lifecycle!CountDeleted(d), UNCHANGED creating
      PROVE  GaugeInv'
  <2> DEFINE s == deleting[d].of
  <2>0. /\ deleting[d].at = "count" /\ UNCHANGED file
        /\ activeSessions' = activeSessions - 1
        /\ deleting' = [deleting EXCEPT ![d] = [deleting[d] EXCEPT !.at = "done"]]
    BY <1>4 DEF Lifecycle!CountDeleted, Lifecycle!disk
  <2>i. deleting[d] \in DeleteSteps
    BY <2>0, <1>t, RecordFacts
  <2>1. /\ deleting'[d].at = "done" /\ s \in Sessions
        /\ \A e \in Deletions \ {d} : deleting'[e] = deleting[e]
    BY <2>0, <2>i, <1>t, RecordFacts
  <2>2. /\ creating[s] \in {"stored", "setup", "answered"} /\ file[s] = Absent
        /\ Pending(s)
    BY <2>0 DEF IInv, DeleteInv, Pending
  <2>3. CountedOut' = CountedOut \cup {s} /\ s \notin CountedOut
    <3> HIDE DEF s
    <3>1. ASSUME NEW v \in Sessions \ {s}
          PROVE  v \in CountedOut' <=> v \in CountedOut
      <4>1. Pending(v)' <=> Pending(v)
        BY <2>0, <2>1 DEF Pending, s
      <4> QED
        BY <4>1, <2>0, <1>4 DEF CountedOut
    <3>2. s \notin CountedOut
      BY <2>2 DEF CountedOut
    <3>3. ~Pending(s)'
      BY <2>0, <2>1 DEF Pending, GaugeInv, s
    <3>4. s \in CountedOut'
      BY <2>0, <2>1, <2>2, <3>3, <1>4 DEF CountedOut, s
    <3> QED
      BY <3>1, <3>2, <3>4 DEF CountedOut
  <2>4. /\ IsFiniteSet(CountedOut')
        /\ Cardinality(CountedOut') = Cardinality(CountedOut) + 1
    BY <2>3, FS_AddElement DEF GaugeInv
  <2>5. CountedIn' = CountedIn
    BY <1>4 DEF CountedIn
  <2>6. activeSessions' = Cardinality(CountedIn') - Cardinality(CountedOut')
    BY <2>0, <2>4, <2>5, <1>n, <1>t DEF GaugeInv
  <2> QED
    BY <2>1, <2>4, <2>5, <2>6 DEF GaugeInv
<1> QED
  BY <1>1, <1>2, <1>3, <1>4 DEF Handlers

\* Inside the mutex nothing is counted.
LEMMA ManagerGauge ==
    ASSUME IInv, GaugeInv,
           \/ \E s \in Sessions : ClientGone(s) \/ EnterSetup(s) \/ Setup(s)
           \/ \E d \in Deletions : EnterCleanup(d) \/ Cleanup(d)
           \/ UNCHANGED vars
    PROVE  GaugeInv'
<1>t. /\ creating \in [Sessions -> CreateSteps]
      /\ deleting \in [Deletions -> {Idle} \cup DeleteSteps]
  BY TypeOKForm DEF IInv
<1>1. CASE UNCHANGED lifecycle
  BY <1>1 DEF lifecycle, GaugeInv, CountedIn, CountedOut, Pending
<1>2. ASSUME NEW s \in Sessions, NEW how, EndSetup(s, how), mu = s
      PROVE  GaugeInv'
  <2>1. creating[s] = "stored"
    BY <1>2 DEF IInv, MutexInv
  <2>2. /\ creating'[s] = "setup"
        /\ \A v \in Sessions \ {s} : creating'[v] = creating[v]
        /\ UNCHANGED <<file, activeSessions, deleting>>
    BY <1>2, <1>t DEF EndSetup
  <2>3. CountedIn' = CountedIn /\ CountedOut' = CountedOut
    BY <2>1, <2>2 DEF CountedIn, CountedOut, Pending
  <2> QED
    BY <2>2, <2>3 DEF GaugeInv
<1>3. ASSUME NEW d \in Deletions, EndCleanup(d), deleting[d].at = "cleanup"
      PROVE  GaugeInv'
  <2>1. /\ deleting' = [deleting EXCEPT ![d] = [deleting[d] EXCEPT !.at = "count"]]
        /\ UNCHANGED <<file, activeSessions, creating>>
    BY <1>3 DEF EndCleanup
  <2>2. deleting[d] \in DeleteSteps
    BY <1>3, <1>t, RecordFacts
  <2>3. /\ deleting'[d].at = "count" /\ deleting'[d].of = deleting[d].of
        /\ \A e \in Deletions \ {d} : deleting'[e] = deleting[e]
    BY <2>1, <2>2, <1>t, RecordFacts
  <2>4. /\ \A e \in Deletions : deleting'[e].of = deleting[e].of
        /\ \A e \in Deletions : deleting'[e].at \in {"cleanup", "count"}
                            <=> deleting[e].at \in {"cleanup", "count"}
    BY <2>3, <1>3
  <2>5. CountedIn' = CountedIn /\ CountedOut' = CountedOut
    BY <2>1, <2>4 DEF CountedIn, CountedOut, Pending
  <2> QED
    BY <2>1, <2>4, <2>5 DEF GaugeInv
<1>4. ASSUME NEW s \in Sessions, ClientGone(s) \/ EnterSetup(s) \/ Setup(s)
      PROVE  GaugeInv'
  BY <1>4, <1>1, <1>2
  DEF ClientGone, EnterSetup, Setup, MakeDir, FindBareRepo, CloneEnds,
      CloneKilled, Fetch, AddWorktree, Goto
<1>5. ASSUME NEW d \in Deletions, EnterCleanup(d) \/ Cleanup(d) PROVE GaugeInv'
  BY <1>5, <1>1, <1>3
  DEF EnterCleanup, Cleanup, RemoveWorktree, RemoveAll, Goto, IInv, MutexInv
<1> QED
  BY <1>1, <1>4, <1>5 DEF vars, lifecycle

LEMMA GaugeInvariance == Spec => [](IInv /\ GaugeInv)
<1>1. Init => IInv /\ GaugeInv
  BY InitInv, InitGauge
<1>2. IInv /\ GaugeInv /\ [Next]_vars => (IInv /\ GaugeInv)'
  <2>1. IInv /\ GaugeInv /\ [Next]_vars => GaugeInv'
    BY HandlersGauge, ManagerGauge DEF Next
  <2> QED
    BY <2>1, NextInv
<1> QED
  BY <1>1, <1>2, PTL DEF Spec

-----------------------------------------------------------------------------
(* What SessionLifecycle sees                                              *)

\* Where the mutex is free or held by a Setup, the directories are those of
\* the sessions whose Setup is over.
LEMMA SetupHides ==
    ASSUME mu \notin Deletions
    PROVE  Worktrees = {s \in Sessions : creating[s] # "stored" /\ dir[s] # "none"}
  BY DEF Worktrees

LEMMA CleanupShows ==
    ASSUME NEW d \in Deletions, mu = d
    PROVE  Worktrees =
             {s \in Sessions : creating[s] # "stored" /\ dir[s] # "none"}
                \cup {deleting[d].of}
  BY DEF Worktrees

\* A step that changes nothing outside the manager, nor the directories that
\* can be seen, is no step.
LEMMA Stutters ==
    ASSUME UNCHANGED lifecycle, Worktrees' = Worktrees
    PROVE  UNCHANGED Lifecycle!vars
  BY DEF lifecycle, Lifecycle!vars, Lifecycle!disk, Lifecycle!handlers,
         Lifecycle!round, Lifecycle!history

\* The end of a Setup is the whole of it.
LEMMA SetupAtOnce ==
    ASSUME IInv, NEW s \in Sessions, mu = s, NEW how, EndSetup(s, how),
           NEW left, dir' = [dir EXCEPT ![s] = left]
    PROVE  Lifecycle!Setup(s)
<1>t. creating \in [Sessions -> CreateSteps] /\ dir \in [Sessions -> Dirs]
  BY TypeOKForm DEF IInv
<1>1. creating[s] = "stored"
  BY DEF IInv, MutexInv
<1>2. /\ creating' = [creating EXCEPT ![s] = "setup"] /\ mu' = Nobody
      /\ UNCHANGED <<file, activeSessions, deleting>>
  BY DEF EndSetup
<1>3. mu \notin Deletions /\ mu' \notin Deletions
  BY <1>2, WorkdirsAssumption
<1>4. /\ Worktrees = {v \in Sessions : creating[v] # "stored" /\ dir[v] # "none"}
      /\ Worktrees' =
           {v \in Sessions : creating'[v] # "stored" /\ dir'[v] # "none"}
  BY <1>3 DEF Worktrees
<1>5. Worktrees' = Worktrees \cup {s} \/ Worktrees' = Worktrees
  <2>1. /\ creating'[s] = "setup" /\ dir'[s] = left
        /\ \A v \in Sessions \ {s} : creating'[v] = creating[v] /\ dir'[v] = dir[v]
    BY <1>2, <1>t
  <2>2. CASE left = "none"
    BY <1>1, <1>4, <2>1, <2>2
  <2>3. CASE left # "none"
    BY <1>1, <1>4, <2>1, <2>3
  <2> QED
    BY <2>2, <2>3
<1> QED
  BY <1>1, <1>2, <1>5
  DEF Lifecycle!Setup, Lifecycle!round, Lifecycle!history

\* And so is the end of a Cleanup.
LEMMA CleanupAtOnce ==
    ASSUME IInv, NEW d \in Deletions, deleting[d].at = "cleanup",
           mu \in {Nobody, d}, EndCleanup(d),
           dir' = [dir EXCEPT ![deleting[d].of] = "none"]
    PROVE  Lifecycle!Cleanup(d)
<1> DEFINE s == deleting[d].of
<1>t. /\ dir \in [Sessions -> Dirs]
      /\ deleting \in [Deletions -> {Idle} \cup DeleteSteps]
  BY TypeOKForm DEF IInv
<1>i. s \in Sessions
  BY <1>t, RecordFacts
<1>2. /\ deleting' = [deleting EXCEPT ![d].at = "count"] /\ mu' = Nobody
      /\ UNCHANGED <<file, activeSessions, creating>>
  BY DEF EndCleanup
<1>3. Worktrees' = Worktrees \ {s}
  <2>1. Worktrees' =
           {v \in Sessions : creating[v] # "stored" /\ dir'[v] # "none"}
    BY <1>2, WorkdirsAssumption DEF Worktrees
  <2>2. dir'[s] = "none" /\ \A v \in Sessions \ {s} : dir'[v] = dir[v]
    BY <1>i, <1>t
  <2>3. Worktrees \ {s} =
           {v \in Sessions : creating[v] # "stored" /\ dir[v] # "none"} \ {s}
    <3>1. CASE mu = Nobody
      BY <3>1, WorkdirsAssumption, SetupHides
    <3>2. CASE mu = d
      BY <3>2, CleanupShows
    <3> QED
      BY <3>1, <3>2
  <2> HIDE DEF s
  <2> QED
    BY <2>1, <2>2, <2>3
<1> QED
  BY <1>2, <1>3 DEF Lifecycle!Cleanup, Lifecycle!round, Lifecycle!history

LEMMA InitMaps == Init => Lifecycle!Init
<1> SUFFICES ASSUME Init PROVE Lifecycle!Init
  OBVIOUS
<1>1. Worktrees = {}
  BY WorkdirsAssumption DEF Init, Worktrees
<1> QED
  BY <1>1 DEF Init, Lifecycle!Init

LEMMA StepMaps == IInv /\ [Next]_vars => [Lifecycle!Next]_(Lifecycle!vars)
<1> SUFFICES ASSUME IInv, [Next]_vars
             PROVE  Lifecycle!Next \/ UNCHANGED Lifecycle!vars
  OBVIOUS
<1>1. CASE Handlers
  BY <1>1 DEF Handlers, Lifecycle!Next
<1>2. ASSUME NEW s \in Sessions, ClientGone(s) \/ EnterSetup(s)
      PROVE  UNCHANGED Lifecycle!vars
  <2>1. UNCHANGED <<lifecycle, dir>> /\ (mu' = mu \/ (mu = Nobody /\ mu' = s))
    BY <1>2 DEF ClientGone, EnterSetup
  <2>2. Worktrees' = Worktrees
    BY <2>1, WorkdirsAssumption DEF Worktrees, lifecycle
  <2> QED
    BY <2>1, <2>2, Stutters
<1>3. ASSUME NEW s \in Sessions, Setup(s)
      PROVE  Lifecycle!Next \/ UNCHANGED Lifecycle!vars
  <2>1. mu = s
    BY <1>3 DEF Setup, MakeDir, FindBareRepo, CloneEnds, CloneKilled, Fetch,
                AddWorktree
  <2>d. dir = [dir EXCEPT ![s] = dir[s]]
    BY <2>1, SetupFinds
  <2>2. CASE UNCHANGED <<lifecycle, mu, dir>>
    <3>1. Worktrees' = Worktrees
      BY <2>2 DEF Worktrees, lifecycle
    <3> QED
      BY <2>2, <3>1, Stutters
  <2>3. ASSUME NEW how, EndSetup(s, how), NEW left,
               dir' = [dir EXCEPT ![s] = left]
        PROVE  Lifecycle!Next
    BY <2>1, <2>3, SetupAtOnce DEF Lifecycle!Next
  <2>4. \/ UNCHANGED <<lifecycle, mu, dir>>
        \/ \E how, left : EndSetup(s, how) /\ dir' = [dir EXCEPT ![s] = left]
    <3>1. CASE MakeDir(s)
      BY <3>1, <2>d DEF MakeDir
    <3>2. CASE FindBareRepo(s)
      BY <3>2, <2>d DEF FindBareRepo, Goto
    <3>3. CASE CloneEnds(s)
      BY <3>3, <2>d DEF CloneEnds, Goto
    <3>4. CASE CloneKilled(s)
      BY <3>4, <2>d DEF CloneKilled
    <3>5. CASE Fetch(s)
      BY <3>5, <2>d DEF Fetch, Goto
    <3>6. CASE AddWorktree(s)
      BY <3>6, <2>d DEF AddWorktree
    <3> QED
      BY <1>3, <3>1, <3>2, <3>3, <3>4, <3>5, <3>6 DEF Setup
  <2> QED
    BY <2>2, <2>3, <2>4
<1>4. ASSUME NEW d \in Deletions, EnterCleanup(d)
      PROVE  Lifecycle!Next \/ UNCHANGED Lifecycle!vars
  <2> DEFINE s == deleting[d].of
  <2>0. deleting[d].at = "cleanup" /\ mu = Nobody /\ UNCHANGED dir
    BY <1>4 DEF EnterCleanup
  <2>i. /\ s \in Sessions /\ dir \in [Sessions -> Dirs]
        /\ dir[s] # "none" => creating[s] # "stored"
    BY <2>0, TypeOKForm, RecordFacts DEF IInv, CreateInv
  <2>1. CASE dir[s] = "none" /\ EndCleanup(d)
    <3>1. dir' = [dir EXCEPT ![s] = "none"]
      BY <2>0, <2>1, <2>i
    <3> QED
      BY <2>0, <2>1, <3>1, CleanupAtOnce DEF Lifecycle!Next
  <2>2. CASE dir[s] # "none" /\ mu' = d /\ UNCHANGED lifecycle
    <3>1. /\ Worktrees =
               {v \in Sessions : creating[v] # "stored" /\ dir[v] # "none"}
          /\ Worktrees' =
               {v \in Sessions : creating[v] # "stored" /\ dir[v] # "none"}
                  \cup {s}
      BY <2>0, <2>2, WorkdirsAssumption DEF Worktrees, lifecycle
    <3>2. Worktrees' = Worktrees
      BY <3>1, <2>2, <2>i
    <3> QED
      BY <2>2, <3>2, Stutters
  <2> QED
    BY <1>4, <2>1, <2>2 DEF EnterCleanup
<1>5. ASSUME NEW d \in Deletions, RemoveWorktree(d)
      PROVE  UNCHANGED Lifecycle!vars
  <2> DEFINE s == deleting[d].of
  <2>0. mu = d /\ UNCHANGED <<lifecycle, mu>>
    BY <1>5 DEF RemoveWorktree, Goto
  <2>i. s \in Sessions /\ dir \in [Sessions -> Dirs]
    BY <2>0, TypeOKForm, RecordFacts DEF IInv, MutexInv
  <2>1. \A v \in Sessions \ {s} : dir'[v] = dir[v]
    BY <1>5, <2>i DEF RemoveWorktree
  <2>2. /\ Worktrees =
             {v \in Sessions : creating[v] # "stored" /\ dir[v] # "none"}
                \cup {s}
        /\ Worktrees' =
             {v \in Sessions : creating[v] # "stored" /\ dir'[v] # "none"}
                \cup {s}
    BY <2>0 DEF Worktrees, lifecycle
  <2>3. Worktrees' = Worktrees
    <3> HIDE DEF s
    <3> QED
      BY <2>1, <2>2, <2>i
  <2> QED
    BY <2>0, <2>3, Stutters
<1>6. ASSUME NEW d \in Deletions, RemoveAll(d) PROVE Lifecycle!Next
  <2>1. /\ mu = d /\ EndCleanup(d)
        /\ dir' = [dir EXCEPT ![deleting[d].of] = "none"]
    BY <1>6 DEF RemoveAll
  <2>2. deleting[d].at = "cleanup"
    BY <2>1 DEF IInv, MutexInv
  <2> QED
    BY <2>1, <2>2, CleanupAtOnce DEF Lifecycle!Next
<1>7. CASE UNCHANGED vars
  <2>1. UNCHANGED lifecycle /\ Worktrees' = Worktrees
    BY <1>7 DEF vars, lifecycle, manager, Worktrees
  <2> QED
    BY <2>1, Stutters
<1> QED
  BY <1>1, <1>2, <1>3, <1>4, <1>5, <1>6, <1>7 DEF Next, Cleanup

-----------------------------------------------------------------------------
(* The theorems                                                            *)

\* The types.
THEOREM TypeCorrect == Spec => []TypeOK
<1>1. IInv => TypeOK
  BY DEF IInv
<1> QED
  BY <1>1, Invariance, PTL

\* The handlers, with git, the mutex and clients that leave, do what
\* SessionLifecycle says of them: a Setup and a Cleanup are one step each.
THEOREM Refinement == Spec => ImplementsLifecycle
<1>1. IInv /\ [Next]_vars => [Lifecycle!Next]_(Lifecycle!vars)
  BY StepMaps
<1>2. Init => Lifecycle!Init
  BY InitMaps
<1> QED
  BY <1>1, <1>2, Invariance, PTL DEF Spec, Lifecycle!Spec, ImplementsLifecycle

\* Once no handler is half way, the metric is the number of sessions.
THEOREM GaugeIsExact == Spec => []GaugeExact
<1>1. IInv /\ GaugeInv => GaugeExact
  <2>0. \A S : Lifecycle!Cardinality(S) = Cardinality(S)
    BY DEF Lifecycle!Cardinality, Cardinality
  <2> SUFFICES ASSUME IInv, GaugeInv, Lifecycle!Quiet
               PROVE  activeSessions = Cardinality(Lifecycle!Stored)
    BY <2>0 DEF GaugeExact, Lifecycle!GaugeExact
  <2>1. creating \in [Sessions -> CreateSteps]
    BY TypeOKForm DEF IInv
  <2>2. \A s \in Sessions :
           /\ ~Pending(s) /\ creating[s] \notin {"stored", "setup"}
           /\ file[s] # Absent => creating[s] = "answered"
    BY <2>1 DEF Pending, Lifecycle!Quiet, IInv, CreateInv, CreateSteps
  <2>3. /\ CountedOut = CountedIn \ Lifecycle!Stored
        /\ Lifecycle!Stored = CountedIn \ CountedOut
        /\ CountedIn \cap CountedOut = CountedOut
    BY <2>2 DEF CountedIn, CountedOut, Lifecycle!Stored, Absent
  <2>4. Cardinality(CountedIn \ CountedOut)
           = Cardinality(CountedIn) - Cardinality(CountedIn \cap CountedOut)
    BY FS_Difference DEF GaugeInv
  <2> QED
    BY <2>3, <2>4 DEF GaugeInv
<1> QED
  BY <1>1, GaugeInvariance, PTL

\* And no working directory is left of a session that is gone, unless its
\* DELETE has looked for it before the Setup made it.
THEOREM NoOrphans == Spec => []NoOrphanWorktree
<1>1. IInv => NoOrphanWorktree
  <2> SUFFICES ASSUME IInv, Lifecycle!Quiet, NEW s \in Worktrees, s \notin early
               PROVE  s \in Lifecycle!Stored
    BY DEF NoOrphanWorktree
  <2>1. mu \notin Deletions
    BY DEF IInv, MutexInv, Lifecycle!Quiet
  <2>2. s \in Sessions /\ dir[s] # "none"
    BY <2>1 DEF Worktrees
  <2>3. file[s] # Absent
    BY <2>2 DEF IInv, CleanupInv, Lifecycle!Quiet
  <2> QED
    BY <2>2, <2>3 DEF Lifecycle!Stored, Absent
<1> QED
  BY <1>1, Invariance, PTL

\* A Setup finds a clone incomplete only where one was killed.
THEOREM OnlyCutClones == Spec => []OnlyCutClonesAreUnsound
<1>1. IInv => OnlyCutClonesAreUnsound
  BY DEF IInv
<1> QED
  BY <1>1, Invariance, PTL

\* A working directory that was handed out is complete while its session
\* lasts.
THEOREM ReadyStaysWhole == Spec => []ReadyIsWhole
<1>1. IInv => ReadyIsWhole
  BY DEF IInv
<1> QED
  BY <1>1, Invariance, PTL
=============================================================================
