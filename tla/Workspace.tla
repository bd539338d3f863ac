------------------------------- MODULE Workspace -------------------------------
(***************************************************************************)
(* Tool calls on the one working directory of a process: toolExecutor      *)
(* (internal/tools/executor.go) and the built-in tools (tool_*.go).        *)
(*                                                                         *)
(* The engine gives every prompt, of every session, the same directory, so *)
(* calls of several workers meet on its files; nothing in the tools orders *)
(* them, and a file is replaced by truncating and writing it.  Here there  *)
(* is one file, that all calls are about.  What it holds is the set of the *)
(* calls whose change it shows; none, when it was truncated or is damaged. *)
(* A path outside the directory, a missing or binary file and an old text  *)
(* that does not occur are failures that may always happen.                *)
(*                                                                         *)
(* An operator marked "Mutant" is the definition after it with a plausible *)
(* bug, and is used only to see that a property notices (PROJECT.json).    *)
(***************************************************************************)
EXTENDS Naturals, FiniteSets

CONSTANTS
    Workers,            \* goroutines that execute calls, one after another
    CallIds,            \* the calls of all of them
    Original,           \* the text that was there before
    Mode                \* the permission mode of the configuration

ReadOnly == "read-only"
WorkspaceWrite == "workspace-write"
DangerFull == "danger-full-access"
Modes == {ReadOnly, WorkspaceWrite, DangerFull}

ASSUME WorkspaceAssumption == Mode \in Modes /\ Original \notin CallIds

VARIABLES
    contents,           \* the calls whose changes the file shows
    call,               \* what each worker is doing
    landed              \* history: changes since the worker's tool began

toolVars == <<contents, call, landed>>

\* glob_search and grep_search are to the file what read_file is.
Tools == {"read_file", "write_file", "edit_file", "bash", "unregistered"}
Changes == CallIds \cup {Original}

Idle == [at |-> "idle"]
Steps == {"asked", "allowed", "edit", "write", "killed", "answered"}
CallStates ==
    {Idle} \cup [at: Steps, id: CallIds, tool: Tools, verdict: {"none", "allow",
                 "deny", "prompt", "error"}, seen: SUBSET Changes]

ToolInit ==
    /\ contents = {Original}
    /\ call = [w \in Workers |-> Idle]
    /\ landed = [w \in Workers |-> {}]

-----------------------------------------------------------------------------
(* Helpers                                                                 *)

At(w, label, tool) == /\ call[w] # Idle
                      /\ call[w].at = label
                      /\ call[w].tool = tool

Goto(w, label) == call' = [call EXCEPT ![w].at = label]
Answer(w)      == Goto(w, "answered")

\* What the others change while an edit is executed.
NoteLanded(w) ==
    landed' = [v \in Workers |->
        IF call'[v] = Idle \/ call'[v].at \notin {"allowed", "edit"} THEN {}
        ELSE IF v = w THEN landed[v]
        ELSE landed[v] \cup (contents' \ contents)]

-----------------------------------------------------------------------------
(* toolExecutor.Execute                                                    *)

Execute(w, id, tool) ==
    /\ call[w] = Idle
    /\ call' = [call EXCEPT ![w] = [at |-> "asked", id |-> id, tool |-> tool,
                                    verdict |-> "none", seen |-> {}]]
    /\ UNCHANGED <<contents, landed>>

RequiredMode(tool) == CASE tool = "read_file" -> ReadOnly
                        [] tool = "bash"      -> DangerFull
                        [] OTHER              -> WorkspaceWrite

rank(mode) == CASE mode = ReadOnly -> 1
                [] mode = WorkspaceWrite -> 2
                [] mode = DangerFull -> 3

\* StaticEngine.Decide.  What it says of a call above the mode is the matter
\* of PermissionRules.
Verdicts(tool) == IF rank(Mode) >= rank(RequiredMode(tool)) THEN {"allow"}
                  ELSE {"allow", "deny", "prompt", "error"}

\* Mutant: only a refusal stops the call, and not that nobody could be asked.
DecideUnlessDenied(w) ==
    /\ call[w] # Idle /\ call[w].at = "asked"
    /\ \E verdict \in Verdicts(call[w].tool) :
          call' = [call EXCEPT ![w].verdict = verdict,
                     ![w].at = IF /\ verdict \notin {"deny", "error"}
                                  /\ call[w].tool # "unregistered"
                               THEN "allowed" ELSE "answered"]
    /\ UNCHANGED contents

\* Mutant: an edit is prepared before the user is asked.
DecideAfterRead(w) ==
    /\ call[w] # Idle /\ call[w].at = "asked"
    /\ LET edit == call[w].tool = "edit_file"
       IN  \/ /\ edit /\ call[w].seen = {}
              /\ call' = [call EXCEPT ![w].seen = contents]
           \/ /\ edit => call[w].seen # {}
              /\ \E verdict \in Verdicts(call[w].tool) :
                    call' = [call EXCEPT ![w].verdict = verdict,
                               ![w].at = IF verdict # "allow" THEN "answered"
                                         ELSE IF edit THEN "edit" ELSE "allowed"]
    /\ UNCHANGED contents

\* A tool that is not registered, an error and every verdict but "allow" end
\* the call with an answer that says so.
Decide(w) ==
    /\ call[w] # Idle /\ call[w].at = "asked"
    /\ \/ /\ call[w].tool = "unregistered"
          /\ Answer(w)
       \/ /\ call[w].tool # "unregistered"
          /\ \E verdict \in Verdicts(call[w].tool) :
                call' = [call EXCEPT ![w].verdict = verdict,
                           ![w].at = IF verdict = "allow" THEN "allowed"
                                                          ELSE "answered"]
    /\ UNCHANGED contents

-----------------------------------------------------------------------------
(* The tools                                                               *)

\* Input that does not decode or lacks a field, and a path outside.
Reject(w) ==
    /\ call[w] # Idle /\ call[w].at = "allowed"
    /\ Answer(w)
    /\ UNCHANGED contents

\* executeReadFile, executeGlobSearch, executeGrepSearch.
Read(w) ==
    /\ At(w, "allowed", "read_file")
    /\ Answer(w)
    /\ UNCHANGED contents

\* executeEditFile reads the whole file; without the old text it ends (Reject).
ReadForEdit(w) ==
    /\ At(w, "allowed", "edit_file")
    /\ call' = [call EXCEPT ![w].seen = contents, ![w].at = "edit"]
    /\ UNCHANGED contents

\* os.WriteFile opens the file, and truncates it, for write_file and edit_file.
Truncate(w) ==
    /\ At(w, "allowed", "write_file") \/ At(w, "edit", "edit_file")
    /\ \/ contents' = {} /\ Goto(w, "write")
       \/ Answer(w) /\ UNCHANGED contents

\* An edit keeps what it has read.  Of two that write at once the later text
\* may end with a rest of the earlier.  A failure leaves a part of the text.
Write(w) ==
    /\ At(w, "write", "write_file") \/ At(w, "write", "edit_file")
    /\ \/ contents' = call[w].seen \cup {call[w].id}
       \/ contents' \in {contents, {}}
    /\ Answer(w)

\* A command, or a child of it, changes the file.
BashWrites(w) ==
    /\ At(w, "allowed", "bash") \/ At(w, "killed", "bash")
    /\ contents' \in {contents \cup {call[w].id}, {call[w].id}, {}}
    /\ UNCHANGED call

\* At the timeout, or when the caller's context ends, the shell alone is
\* killed; Run goes on waiting for whoever holds its pipes.
BashKilled(w) ==
    /\ At(w, "allowed", "bash")
    /\ Goto(w, "killed")
    /\ UNCHANGED contents

BashEnds(w) ==
    /\ At(w, "allowed", "bash") \/ At(w, "killed", "bash")
    /\ Answer(w)
    /\ UNCHANGED contents

Tool(w) == \/ Reject(w) \/ Read(w) \/ ReadForEdit(w) \/ Truncate(w) \/ Write(w)
           \/ BashWrites(w) \/ BashKilled(w) \/ BashEnds(w)

ToolStep(w) == (Decide(w) \/ Tool(w)) /\ NoteLanded(w)

-----------------------------------------------------------------------------
(* Properties                                                              *)

ToolTypeOK ==
    /\ contents \subseteq Changes
    /\ call \in [Workers -> CallStates]
    /\ landed \in [Workers -> SUBSET Changes]

\* The file changes by a call that was allowed: a call that was refused, or
\* that nobody could be asked about, or that ended in an error, changes
\* nothing, whoever else is at work.
OnlyAllowedCallsChange ==
    [][contents' # contents =>
          \E w \in Workers :
             /\ call[w] # Idle
             /\ call[w].verdict = "allow"
             /\ call[w].at \in {"allowed", "edit", "write", "killed"}
             /\ contents' \ contents \subseteq
                   {call[w].id} \cup call[w].seen]_toolVars

\* An edit overwrites no change but its own and those it has read, or that
\* landed after its tool had begun: however long the decision about it took,
\* it is made on the file as it was after that.
EditsSeeWhatWasThere == \A w \in Workers :
    At(w, "edit", "edit_file") => contents \subseteq call[w].seen \cup landed[w]
=============================================================================
