------------------------------ MODULE BlockingRun ------------------------------
(***************************************************************************)
(* engine.Run (internal/runtime/engine.go), the loop of the command line:  *)
(* ask the provider for a turn, keep the message, execute its calls one    *)
(* after another, save the session, and ask again, until a message has no  *)
(* call.  A turn is that of ProviderTurn and a call that of Workspace.     *)
(*                                                                         *)
(* The working directory is that of the process, or of a user: Others are  *)
(* whoever else has it changed meanwhile.  What they do while a turn is    *)
(* read makes no difference to the turn, so they are let loose only while  *)
(* Run is at its calls.                                                    *)
(*                                                                         *)
(* An operator marked "Mutant" is the definition after it with a plausible *)
(* bug, and is used only to see that a property notices (PROJECT.json).    *)
(***************************************************************************)
EXTENDS ProviderTurn, Workspace

CONSTANTS
    Run,                \* the worker that executes the calls of this run
    OtherId,            \* the call of the others
    LaterReplies,       \* what the model may say after the first turn
    MaxTurns            \* bound: turns (math.MaxInt in the code)

ASSUME RunAssumption ==
    /\ Run \in Workers
    /\ CallIds \subseteq Nat \X Nat
    /\ OtherId \in CallIds
    /\ LaterReplies \subseteq Seq(Blocks)
    /\ \A r \in Replies \cup LaterReplies : \A t \in 1 .. MaxTurns :
          \A i \in Calls(r) : <<t, i>> \in CallIds
    /\ MaxTurns \in Nat \ {0}

VARIABLES
    at,                 \* where Run is
    turn,
    messages,           \* sess.Messages, which is requestMessages too
    calls,              \* the calls of the turn
    executed,           \* how many of them have been answered
    stored              \* what the store has

loopVars == <<at, turn, messages, calls, executed, stored>>
runVars  == <<vars, toolVars, loopVars>>

(* Messages, without their texts.                                          *)
User == [role |-> "user"]
Assistant(ids) == [role |-> "assistant", calls |-> ids]
ToolMessage(id) == [role |-> "tool", of |-> id]

RunInit ==
    /\ Init
    /\ ToolInit
    /\ at = "create"
    /\ turn = 1
    /\ messages = <<User>>
    /\ calls = <<>>
    /\ executed = 0
    /\ stored = <<>>

-----------------------------------------------------------------------------
(* The store, which may fail                                               *)

Save(then) ==
    \/ stored' = messages' /\ at' = then
    \/ at' = "store failed" /\ UNCHANGED stored

CreateSession ==
    /\ at = "create"
    /\ UNCHANGED messages
    /\ Save("turn")
    /\ UNCHANGED <<vars, toolVars, turn, calls, executed>>

-----------------------------------------------------------------------------
(* The request: buildAPIRequest of both providers                          *)

Block(type, id) == [type |-> type, id |-> id]

Converted(m, toolRole) ==
    CASE m.role = "tool" ->
            [role |-> toolRole, blocks |-> <<Block("tool_result", m.of)>>]
      [] m.role = "assistant" ->
            [role |-> "assistant",
             blocks |-> [n \in DOMAIN m.calls |-> Block("tool_use", m.calls[n])]]
      [] OTHER -> [role |-> m.role, blocks |-> <<>>]

\* Anthropic takes from the user what a tool says.
toAPIMessage(m) == Converted(m, "user")

toChatMessage(m) == Converted(m, "tool")

\* For Anthropic the system prompt is not one of the messages.
System == [role |-> "system", blocks |-> <<>>]

buildAPIRequest ==
    IF provider = "anthropic"
    THEN [i \in DOMAIN messages |-> toAPIMessage(messages[i])]
    ELSE <<System>> \o [i \in DOMAIN messages |-> toChatMessage(messages[i])]

-----------------------------------------------------------------------------
(* A turn                                                                  *)

ReadTurn ==
    /\ at = "turn"
    /\ Next
    /\ UNCHANGED <<toolVars, loopVars>>

TurnFails ==
    /\ at = "turn" /\ phase = "failed"
    /\ at' = "turn failed"
    /\ UNCHANGED <<vars, toolVars, turn, messages, calls, executed, stored>>

Ids == [j \in DOMAIN toolCalls |-> <<turn, toolCalls[j].id>>]

\* Mutant: a message without text is not kept.
shouldPersistText == content # <<>>

\* The metadata holds the stop reason, the usage and the number of calls.
shouldPersistAssistant ==
    content # <<>> \/ stopReason # "" \/ usage \/ toolCalls # <<>>

\* runTurn's own variables end with it.
ForgetTurn ==
    /\ meant' = <<>> /\ reply' = <<>> /\ layout' = "whole" /\ ending' = "stop"
    /\ place' = <<1, 0>>
    /\ pending' = <<>> /\ lastUsage' = FALSE /\ events' = <<>>
    /\ index' = 0 /\ content' = <<>> /\ toolCalls' = <<>>
    /\ usage' = FALSE /\ stopReason' = ""
    /\ UNCHANGED <<provider, phase>>

KeepMessage ==
    /\ at = "turn" /\ phase = "ok"
    /\ messages' = IF shouldPersistAssistant
                   THEN Append(messages, Assistant(Ids)) ELSE messages
    /\ executed' = 0
    /\ IF toolCalls = <<>> THEN Save("done") ELSE at' = "tools" /\ UNCHANGED stored
    /\ calls' = Ids
    /\ ForgetTurn
    /\ UNCHANGED <<toolVars, turn>>

-----------------------------------------------------------------------------
(* The calls                                                               *)

StartCall ==
    /\ at = "tools"
    /\ executed < Len(calls)
    /\ \E tool \in Tools : Execute(Run, calls[executed + 1], tool)
    /\ UNCHANGED <<vars, loopVars>>

\* A result or an error, there is always a message.
KeepAnswer ==
    /\ at = "tools"
    /\ call[Run] # Idle /\ call[Run].at = "answered"
    /\ call' = [call EXCEPT ![Run] = Idle]
    /\ messages' = Append(messages, ToolMessage(calls[executed + 1]))
    /\ executed' = executed + 1
    /\ UNCHANGED <<vars, contents, landed, at, turn, calls, stored>>

\* Mutant: the session is saved when the run is over.
SaveTurnLater ==
    /\ at = "tools"
    /\ executed = Len(calls)
    /\ at' = IF turn = MaxTurns THEN "exceeded" ELSE "next"
    /\ UNCHANGED <<vars, toolVars, turn, messages, calls, executed, stored>>

SaveTurn ==
    /\ at = "tools"
    /\ executed = Len(calls)
    /\ UNCHANGED messages
    /\ Save(IF turn = MaxTurns THEN "exceeded" ELSE "next")
    /\ UNCHANGED <<vars, toolVars, turn, calls, executed>>

NextTurn ==
    /\ at = "next"
    /\ at' = "turn"
    /\ turn' = turn + 1
    /\ \E a \in Answers(LaterReplies) :
          /\ a.provider = provider
          /\ meant' = a.meant
          /\ reply' \in Sent(a)
          /\ layout' = a.layout
          /\ ending' = a.ending
    /\ phase' = "parsing"
    /\ events' = <<MessageStart>>
    /\ calls' = <<>> /\ executed' = 0
    /\ UNCHANGED <<provider, place, pending, lastUsage, index, content,
                   toolCalls, usage, stopReason, toolVars, messages, stored>>

WorkOnCall ==
    /\ at = "tools"
    /\ ToolStep(Run)
    /\ UNCHANGED <<vars, loopVars>>

\* The others' call, once.
OthersWork ==
    /\ at = "tools"
    /\ \E w \in Workers \ {Run} :
          \/ \E tool \in Tools \ {"unregistered"} : Execute(w, OtherId, tool)
          \/ ToolStep(w)
    /\ UNCHANGED <<vars, loopVars>>

RunNext ==
    \/ CreateSession \/ ReadTurn \/ TurnFails \/ KeepMessage
    \/ StartCall \/ WorkOnCall \/ KeepAnswer \/ SaveTurn \/ NextTurn
    \/ OthersWork

RunSpec == RunInit /\ [][RunNext]_runVars
-----------------------------------------------------------------------------
(* Properties                                                              *)

Messages == {User} \cup [role: {"assistant"}, calls: Seq(CallIds)]
                   \cup [role: {"tool"}, of: CallIds]

RunTypeOK ==
    /\ TypeOK
    /\ ToolTypeOK
    /\ at \in {"create", "turn", "tools", "next", "done", "exceeded",
               "turn failed", "store failed"}
    /\ turn \in 1 .. MaxTurns
    /\ messages \in Seq(Messages)
    /\ calls \in Seq(CallIds)
    /\ executed \in 0 .. Len(calls)
    /\ stored \in Seq(Messages)

\* Whatever a reply was made of and however its calls ended, the provider is
\* never asked with a call whose result does not follow, in its place, nor
\* with the result of a call that is not in the request.  Texts are left out,
\* so the calls of a message are its blocks.
RequestsPaired == at = "turn" =>
    LET request == buildAPIRequest
    IN  \A i \in DOMAIN request : \A n \in DOMAIN request[i].blocks :
            LET block == request[i].blocks[n]
            IN  /\ block.type = "tool_use" =>
                      /\ i + n \in DOMAIN request
                      /\ request[i + n].blocks =
                            <<Block("tool_result", block.id)>>
                /\ block.type = "tool_result" =>
                      \E m \in 1 .. i - 1 :
                          /\ m \in DOMAIN request[i - m].blocks
                          /\ request[i - m].blocks[m] =
                                Block("tool_use", block.id)

\* However a run ends, by itself, at the limit of turns or because a later
\* turn fails, the store has the whole transcript, unless the store failed.
NothingUnsaved ==
    at \in {"done", "exceeded", "turn failed"} => stored = messages
=============================================================================
