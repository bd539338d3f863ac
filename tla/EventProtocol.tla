---------------------------- MODULE EventProtocol ----------------------------
(***************************************************************************)
(* What a prompt promises the reader of its event channel: the grammar of  *)
(* the StreamEvents (internal/runtime/stream.go), whatever the provider,   *)
(* the tools, the store and the client's connection do.                    *)
(*                                                                         *)
(* For every prompt the log is summed up by the kind of its last event and *)
(* by how many announced tool calls it still owes an answer.  A tool call  *)
(* is announced (tool_use), later started, and answered before anything    *)
(* else is said; a new model turn starts only when nothing is owed; the    *)
(* log ends in message_end and done, or in one error, and then is silent.  *)
(***************************************************************************)
EXTENDS Naturals

CONSTANT Requests       \* the prompts sent to the engine

VARIABLES
    last,               \* the kind of the last event of each prompt
    owed                \* how many announced tool calls lack an answer

vars == <<last, owed>>

Silent   == "none"
Chatter  == {"text_delta", "usage"}
Answers  == {"tool_result", "tool_error"}
Terminal == {"done", "error"}
Kinds    == Chatter \cup Answers \cup Terminal
                \cup {"tool_use", "tool_start", "message_end"}

Init ==
    /\ last = [r \in Requests |-> Silent]
    /\ owed = [r \in Requests |-> 0]

\* The model may speak: no tool is running, nothing is owed from before.
ModelSpeaks(r) ==
    \/ last[r] \in Chatter \cup {Silent, "tool_use"}
    \/ last[r] \in Answers /\ owed[r] = 0

Say(r, kind) == last' = [last EXCEPT ![r] = kind]

Talk(r) ==
    /\ ModelSpeaks(r)
    /\ \E kind \in Chatter : Say(r, kind)
    /\ UNCHANGED owed

Announce(r) ==
    /\ ModelSpeaks(r)
    /\ Say(r, "tool_use")
    /\ owed' = [owed EXCEPT ![r] = @ + 1]

StartTool(r) ==
    /\ owed[r] > 0
    /\ last[r] \in Chatter \cup Answers \cup {"tool_use"}
    /\ Say(r, "tool_start")
    /\ UNCHANGED owed

Answer(r) ==
    /\ last[r] = "tool_start"
    /\ \E kind \in Answers : Say(r, kind)
    /\ owed' = [owed EXCEPT ![r] = @ - 1]

EndMessage(r) ==
    /\ ModelSpeaks(r)
    /\ owed[r] = 0
    /\ Say(r, "message_end")
    /\ UNCHANGED owed

Finish(r) ==
    /\ last[r] = "message_end"
    /\ Say(r, "done")
    /\ UNCHANGED owed

\* A stream that fails while announcing calls still owes their answers.
Fail(r) ==
    /\ ModelSpeaks(r)
    /\ Say(r, "error")
    /\ UNCHANGED owed

Step(r) ==
    \/ Talk(r) \/ Announce(r) \/ StartTool(r) \/ Answer(r)
    \/ EndMessage(r) \/ Finish(r) \/ Fail(r)

Next == \E r \in Requests : Step(r)

Spec == Init /\ [][Next]_vars
=============================================================================
