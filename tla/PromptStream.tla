----------------------------- MODULE PromptStream -----------------------------
(***************************************************************************)
(* Prompts running on stored sessions: engine.RunPromptStream and its      *)
(* goroutine (internal/runtime/stream.go), the session store it reads and  *)
(* writes (internal/session/model.go), and the readers of its channel: the *)
(* SSE handler and the collector of RunPrompt (internal/server/handlers.go,*)
(* internal/runtime/engine.go).                                            *)
(*                                                                         *)
(* Every prompt has a goroutine that works on its OWN copy of the session, *)
(* loaded before the user message was added and saved as a whole; nothing  *)
(* in the code orders the prompts of one session.  A message is reduced to *)
(* who wrote it, in which turn, and how many calls it makes (assistant) or *)
(* which call it answers (tool); an event to its kind.                     *)
(*                                                                         *)
(* An operator marked "Mutant" is the definition after it with a plausible *)
(* bug, and is used only to see that a property notices (PROJECT.json).    *)
(***************************************************************************)
EXTENDS Naturals, Sequences, SequencesExt

CONSTANTS
    Requests,           \* prompts, one goroutine each
    Sessions,           \* session ids
    SessionOf,          \* the session each prompt is sent to
    Collectors,         \* prompts read by RunPrompt, the others by SSE
    Deletable,          \* sessions somebody may delete
    Serialized,         \* clients wait for a stream to end before the next
    Capacity,           \* make(chan StreamEvent, 128)
    MaxTurns,           \* maxTurns
    MaxEvents           \* bound: reader events of one provider response

ASSUME ConstantsAssumption ==
    /\ SessionOf \in [Requests -> Sessions]
    /\ Collectors \subseteq Requests
    /\ Deletable \subseteq Sessions
    /\ Serialized \in BOOLEAN
    /\ Capacity \in Nat \ {0}
    /\ MaxTurns \in Nat
    /\ MaxEvents \in Nat

VARIABLES
    live,               \* the sessions the store has
    stored,             \* the messages it has for each of them
    pc,                 \* where the goroutine of each prompt is
    sess,               \* its own copy of the session's messages
    turn,               \* its turn counter
    left,               \* reader events the provider still has for it
    calls,              \* tool calls received this turn
    answered,           \* tool calls of this turn already answered
    substance,          \* what makes the reply so far worth persisting
    channel,            \* the events sent and not yet received
    last,               \* the kind of the last event sent
    cancelled,          \* the request's context is done
    consumer,           \* what the reader of the channel is doing
    outcome,            \* the terminal event the reader received, if any
    lateTurns           \* provider calls begun after the cancellation

storeVars    == <<live, stored>>
replyVars    == <<left, calls, answered, substance>>
channelVars  == <<channel, last>>
consumerVars == <<consumer, outcome>>
vars == <<storeVars, pc, sess, turn, replyVars, channelVars, cancelled,
          consumerVars, lateTurns>>

Protocol == INSTANCE EventProtocol
              WITH owed <- [r \in Requests |-> calls[r] - answered[r]]

Kinds == Protocol!Kinds

Message == [role: {"user", "assistant", "tool"}, req: Requests,
            turn: Nat, n: Nat]

UserMessage(r) == [role |-> "user", req |-> r, turn |-> 0, n |-> 0]
AssistantMessage(r) ==
    [role |-> "assistant", req |-> r, turn |-> turn[r], n |-> calls[r]]
ToolMessage(r, i) == [role |-> "tool", req |-> r, turn |-> turn[r], n |-> i]

\* Message i of t is the answer to a call of assistant message k.
IsAnswerTo(t, i, k) ==
    /\ t[k].role = "assistant"
    /\ t[i] = [role |-> "tool", req |-> t[k].req, turn |-> t[k].turn,
               n |-> i - k]

\* t consists of whole turns: every call answered in place, no stray answer.
Paired(t) ==
    /\ \A k \in DOMAIN t : t[k].role = "assistant" =>
          \A j \in 1 .. t[k].n : k + j \in DOMAIN t /\ IsAnswerTo(t, k + j, k)
    /\ \A i \in DOMAIN t : t[i].role = "tool" =>
          \E k \in 1 .. i - 1 : i - k <= t[k].n /\ IsAnswerTo(t, i, k)

PcValues == {"idle", "loaded", "rejected", "turn", "request", "reading",
             "tools", "executing", "failing", "ending",
             "finalSave", "finishing", "returning", "closed"}

Init ==
    /\ live = Sessions
    /\ stored = [s \in Sessions |-> <<>>]
    /\ pc = [r \in Requests |-> "idle"]
    /\ sess = [r \in Requests |-> <<>>]
    /\ turn = [r \in Requests |-> 0]
    /\ left = [r \in Requests |-> 0]
    /\ calls = [r \in Requests |-> 0]
    /\ answered = [r \in Requests |-> 0]
    /\ substance = [r \in Requests |-> {}]
    /\ channel = [r \in Requests |-> <<>>]
    /\ last = [r \in Requests |-> Protocol!Silent]
    /\ cancelled = [r \in Requests |-> FALSE]
    /\ consumer = [r \in Requests |-> "waiting"]
    /\ outcome = [r \in Requests |-> "none"]
    /\ lateTurns = [r \in Requests |-> 0]

-----------------------------------------------------------------------------
(* Helpers                                                                 *)

Goto(r, label) == pc' = [pc EXCEPT ![r] = label]

\* out <- event: blocks while the channel is full, whoever still reads it.
Emit(r, kind) ==
    /\ Len(channel[r]) < Capacity
    /\ channel' = [channel EXCEPT ![r] = Append(@, kind)]
    /\ last' = [last EXCEPT ![r] = kind]

AppendMessage(r, m) == sess' = [sess EXCEPT ![r] = Append(@, m)]

\* Store.Save of a whole session: an upsert, whatever the store has now.
Save(s, messages) ==
    /\ live' = live \cup {s}
    /\ stored' = [stored EXCEPT ![s] = messages]

Running(r) == pc[r] \notin {"idle", "rejected", "closed"}

\* The discipline of a client that waits for one stream before the next, which
\* no code enforces.
MayBegin(r) ==
    Serialized => \A q \in Requests \ {r} :
                      SessionOf[q] = SessionOf[r] => ~Running(q)

-----------------------------------------------------------------------------
(* RunPromptStream, called by the handler                                  *)

LoadSession(r) ==
    /\ pc[r] = "idle"
    /\ SessionOf[r] \in live
    /\ MayBegin(r)
    /\ sess' = [sess EXCEPT ![r] = stored[SessionOf[r]]]
    /\ Goto(r, "loaded")
    /\ UNCHANGED <<storeVars, turn, replyVars, channelVars, cancelled,
                   consumerVars, lateTurns>>

\* No such session, no provider, or the first Save failed: no stream.
Reject(r) ==
    /\ pc[r] \in {"idle", "loaded"}
    /\ Goto(r, "rejected")
    /\ UNCHANGED <<storeVars, sess, turn, replyVars, channelVars, cancelled,
                   consumerVars, lateTurns>>

\* Mutant: only the new message is stored.
SavePromptAlone(r) ==
    /\ pc[r] = "loaded"
    /\ AppendMessage(r, UserMessage(r))
    /\ Save(SessionOf[r], <<UserMessage(r)>>)
    /\ consumer' = [consumer EXCEPT ![r] = "reading"]
    /\ Goto(r, "turn")
    /\ UNCHANGED <<turn, replyVars, channelVars, cancelled, outcome,
                   lateTurns>>

\* The user message is appended to the copy loaded before and saved with it.
SavePrompt(r) ==
    /\ pc[r] = "loaded"
    /\ AppendMessage(r, UserMessage(r))
    /\ Save(SessionOf[r], sess'[r])
    /\ consumer' = [consumer EXCEPT ![r] = "reading"]
    /\ Goto(r, "turn")
    /\ UNCHANGED <<turn, replyVars, channelVars, cancelled, outcome,
                   lateTurns>>

-----------------------------------------------------------------------------
(* streamLoop, the goroutine                                               *)

\* Mutant: the goroutine gives up without an error event.
BeginTurnSilent(r) ==
    /\ pc[r] = "turn"
    /\ Goto(r, IF turn[r] < MaxTurns /\ ~cancelled[r] THEN "request"
                                                      ELSE "returning")
    /\ UNCHANGED <<storeVars, sess, turn, replyVars, channelVars, cancelled,
                   consumerVars, lateTurns>>

\* Mutant: ctx.Err() is not looked at.
BeginTurnUnchecked(r) ==
    /\ pc[r] = "turn"
    /\ Goto(r, IF turn[r] < MaxTurns THEN "request" ELSE "failing")
    /\ UNCHANGED <<storeVars, sess, turn, replyVars, channelVars, cancelled,
                   consumerVars, lateTurns>>

\* The loop's head: turn < maxTurns, then ctx.Err().
BeginTurn(r) ==
    /\ pc[r] = "turn"
    /\ Goto(r, IF turn[r] < MaxTurns /\ ~cancelled[r] THEN "request"
                                                      ELSE "failing")
    /\ UNCHANGED <<storeVars, sess, turn, replyVars, channelVars, cancelled,
                   consumerVars, lateTurns>>

\* Mutant: a failed call is retried for ever.
CallProviderRetried(r) ==
    /\ pc[r] = "request"
    /\ lateTurns' = [lateTurns EXCEPT ![r] = IF cancelled[r] THEN @ + 1 ELSE @]
    /\ \/ /\ Goto(r, "turn")
          /\ UNCHANGED replyVars
       \/ /\ Goto(r, "reading")
          /\ \E n \in 0 .. MaxEvents : left' = [left EXCEPT ![r] = n]
          /\ calls' = [calls EXCEPT ![r] = 0]
          /\ answered' = [answered EXCEPT ![r] = 0]
          /\ substance' = [substance EXCEPT ![r] = {}]
    /\ UNCHANGED <<storeVars, sess, turn, channelVars, cancelled,
                   consumerVars>>

\* provider.Stream fetches the whole response before it returns a reader.
CallProvider(r) ==
    /\ pc[r] = "request"
    /\ lateTurns' = [lateTurns EXCEPT ![r] = IF cancelled[r] THEN @ + 1 ELSE @]
    /\ \/ /\ Goto(r, "failing")
          /\ UNCHANGED replyVars
       \/ /\ Goto(r, "reading")
          /\ \E n \in 0 .. MaxEvents : left' = [left EXCEPT ![r] = n]
          /\ calls' = [calls EXCEPT ![r] = 0]
          /\ answered' = [answered EXCEPT ![r] = 0]
          /\ substance' = [substance EXCEPT ![r] = {}]
    /\ UNCHANGED <<storeVars, sess, turn, channelVars, cancelled,
                   consumerVars>>

\* Mutant: the reader goes on past the end of the response.
NextEventPastEnd(r) ==
    /\ pc[r] = "reading"
    /\ left' = [left EXCEPT ![r] = @ - 1]
    /\ UNCHANGED <<storeVars, sess, turn, answered, cancelled, consumerVars,
                   lateTurns>>

\* reader.Next() returned an event, which is one less to come.
NextEvent(r) ==
    /\ pc[r] = "reading"
    /\ left[r] > 0
    /\ left' = [left EXCEPT ![r] = @ - 1]
    /\ UNCHANGED <<storeVars, sess, turn, answered, cancelled, consumerVars,
                   lateTurns>>

\* Text that is not blank makes the reply worth persisting, and so does a
\* usage that is not zero, unless a later one replaces it.
ReadDelta(r) ==
    /\ NextEvent(r)
    /\ \/ /\ Emit(r, "text_delta")
          /\ \E text \in {{}, {"said"}} :
                substance' = [substance EXCEPT ![r] = @ \cup text]
       \/ /\ Emit(r, "usage")
          /\ \E usage \in {{}, {"usage"}} :
                substance' = [substance EXCEPT ![r] = (@ \ {"usage"}) \cup usage]
    /\ UNCHANGED <<pc, calls>>

ReadToolCall(r) ==
    /\ NextEvent(r)
    /\ Emit(r, "tool_use")
    /\ calls' = [calls EXCEPT ![r] = @ + 1]
    /\ substance' = [substance EXCEPT ![r] = @ \cup {"said"}]
    /\ UNCHANGED pc

\* A stop reason is recorded and nothing is sent.
ReadStop(r) ==
    /\ NextEvent(r)
    /\ substance' = [substance EXCEPT ![r] = @ \cup {"said"}]
    /\ UNCHANGED <<pc, calls, channelVars>>

\* An error event or an invalid one: the partial reply is thrown away.
ReadError(r) ==
    /\ NextEvent(r)
    /\ Goto(r, "failing")
    /\ UNCHANGED <<calls, substance, channelVars>>

\* Mutant: the reply is saved before its calls are answered.
EndOfReplySaved(r) ==
    /\ pc[r] = "reading"
    /\ left[r] = 0
    /\ IF substance[r] # {} THEN AppendMessage(r, AssistantMessage(r))
                            ELSE UNCHANGED sess
    /\ Save(SessionOf[r], sess'[r])
    /\ Goto(r, IF calls[r] = 0 THEN "ending" ELSE "tools")
    /\ UNCHANGED <<turn, replyVars, channelVars, cancelled, consumerVars,
                   lateTurns>>

\* io.EOF: the reply joins the copy, and its calls decide what comes next.
EndOfReply(r) ==
    /\ pc[r] = "reading"
    /\ left[r] = 0
    /\ IF substance[r] # {} THEN AppendMessage(r, AssistantMessage(r))
                            ELSE UNCHANGED sess
    /\ Goto(r, IF calls[r] = 0 THEN "ending" ELSE "tools")
    /\ UNCHANGED <<storeVars, turn, replyVars, channelVars, cancelled,
                   consumerVars, lateTurns>>

SendMessageEnd(r) ==
    /\ pc[r] = "ending"
    /\ Emit(r, "message_end")
    /\ Goto(r, "finalSave")
    /\ UNCHANGED <<storeVars, sess, turn, replyVars, cancelled, consumerVars,
                   lateTurns>>

\* _ = Save(...): whether it failed is not looked at.
SaveReply(r) ==
    /\ pc[r] = "finalSave"
    /\ Save(SessionOf[r], sess[r]) \/ UNCHANGED storeVars
    /\ Goto(r, "finishing")
    /\ UNCHANGED <<sess, turn, replyVars, channelVars, cancelled,
                   consumerVars, lateTurns>>

SendDone(r) ==
    /\ pc[r] = "finishing"
    /\ Emit(r, "done")
    /\ Goto(r, "returning")
    /\ UNCHANGED <<storeVars, sess, turn, replyVars, cancelled, consumerVars,
                   lateTurns>>

StartTool(r) ==
    /\ pc[r] = "tools"
    /\ answered[r] < calls[r]
    /\ Emit(r, "tool_start")
    /\ Goto(r, "executing")
    /\ UNCHANGED <<storeVars, sess, turn, replyVars, cancelled, consumerVars,
                   lateTurns>>

\* Mutant: a tool that failed is answered in the session but not reported.
AnswerToolSilent(r) ==
    /\ pc[r] = "executing"
    /\ answered' = [answered EXCEPT ![r] = @ + 1]
    /\ AppendMessage(r, ToolMessage(r, answered[r] + 1))
    /\ Emit(r, "tool_result") \/ UNCHANGED channelVars
    /\ Goto(r, "tools")
    /\ UNCHANGED <<storeVars, turn, left, calls, substance, cancelled,
                   consumerVars, lateTurns>>

\* executor.Execute, with or without an error: its message is appended to
\* the copy, its event sent.  The context is not looked at in between.
AnswerTool(r) ==
    /\ pc[r] = "executing"
    /\ answered' = [answered EXCEPT ![r] = @ + 1]
    /\ AppendMessage(r, ToolMessage(r, answered[r] + 1))
    /\ \E kind \in Protocol!Answers : Emit(r, kind)
    /\ Goto(r, "tools")
    /\ UNCHANGED <<storeVars, turn, left, calls, substance, cancelled,
                   consumerVars, lateTurns>>

\* The end of the loop body: Save, and the next turn unless it failed.
SaveTurn(r) ==
    /\ pc[r] = "tools"
    /\ answered[r] = calls[r]
    /\ \/ /\ Save(SessionOf[r], sess[r])
          /\ turn' = [turn EXCEPT ![r] = @ + 1]
          /\ Goto(r, "turn")
       \/ /\ Goto(r, "failing")
          /\ UNCHANGED <<storeVars, turn>>
    /\ UNCHANGED <<sess, replyVars, channelVars, cancelled, consumerVars,
                   lateTurns>>

SendError(r) ==
    /\ pc[r] = "failing"
    /\ Emit(r, "error")
    /\ Goto(r, "returning")
    /\ UNCHANGED <<storeVars, sess, turn, replyVars, cancelled, consumerVars,
                   lateTurns>>

\* defer close(out)
CloseChannel(r) ==
    /\ pc[r] = "returning"
    /\ Goto(r, "closed")
    /\ UNCHANGED <<storeVars, sess, turn, replyVars, channelVars, cancelled,
                   consumerVars, lateTurns>>

-----------------------------------------------------------------------------
(* The reader of the channel, and the client behind it                     *)

ReaderVarsOnly ==
    UNCHANGED <<storeVars, pc, sess, turn, replyVars, last, lateTurns>>

\* One event received, and written to the client if that is an SSE one.
Receive(r) ==
    /\ consumer[r] = "reading"
    /\ channel[r] # <<>>
    /\ channel' = [channel EXCEPT ![r] = Tail(@)]
    /\ outcome' = [outcome EXCEPT
                     ![r] = IF Head(channel[r]) \in Protocol!Terminal
                            THEN Head(channel[r]) ELSE @]
    /\ UNCHANGED <<consumer, cancelled>>
    /\ ReaderVarsOnly

\* Mutant: the collector goes on waiting for a "done".
FinishReadingOnDone(r) ==
    /\ consumer[r] = "reading"
    /\ pc[r] = "closed"
    /\ channel[r] = <<>>
    /\ outcome[r] = "done"
    /\ consumer' = [consumer EXCEPT ![r] = "answered"]
    /\ cancelled' = [cancelled EXCEPT ![r] = TRUE]
    /\ UNCHANGED <<channel, outcome>>
    /\ ReaderVarsOnly

\* The channel is closed and empty: the handler returns.  The collector
\* answers with the error it saw, or with the session as it is stored now.
FinishReading(r) ==
    /\ consumer[r] = "reading"
    /\ pc[r] = "closed"
    /\ channel[r] = <<>>
    /\ \E answer \in {"answered", "failed"} :
          /\ answer = "answered" /\ r \in Collectors =>
                outcome[r] # "error" /\ SessionOf[r] \in live
          /\ answer = "failed" => r \in Collectors
          /\ consumer' = [consumer EXCEPT ![r] = answer]
    /\ cancelled' = [cancelled EXCEPT ![r] = TRUE]
    /\ UNCHANGED <<channel, outcome>>
    /\ ReaderVarsOnly

\* The client hangs up: its request's context is cancelled.
Disconnect(r) ==
    /\ ~cancelled[r]
    /\ pc[r] \notin {"idle", "rejected"}
    /\ cancelled' = [cancelled EXCEPT ![r] = TRUE]
    /\ UNCHANGED <<consumerVars, channel>>
    /\ ReaderVarsOnly

\* The SSE handler picks clientGone in its select and returns.
Leave(r) ==
    /\ r \notin Collectors
    /\ consumer[r] = "reading"
    /\ cancelled[r]
    /\ consumer' = [consumer EXCEPT ![r] = "gone"]
    /\ UNCHANGED <<cancelled, outcome, channel>>
    /\ ReaderVarsOnly

\* WriteEvent failed: the handler returns, and its context ends with it.
WriteFails(r) ==
    /\ r \notin Collectors
    /\ consumer[r] = "reading"
    /\ channel[r] # <<>>
    /\ channel' = [channel EXCEPT ![r] = Tail(@)]
    /\ consumer' = [consumer EXCEPT ![r] = "gone"]
    /\ cancelled' = [cancelled EXCEPT ![r] = TRUE]
    /\ UNCHANGED outcome
    /\ ReaderVarsOnly

\* Store.Delete, from the DELETE handler or from the collector of old ones.
DeleteSession(s) ==
    /\ s \in live \cap Deletable
    /\ live' = live \ {s}
    /\ stored' = [stored EXCEPT ![s] = <<>>]
    /\ UNCHANGED <<pc, sess, turn, replyVars, channelVars, cancelled,
                   consumerVars, lateTurns>>

-----------------------------------------------------------------------------

Call(r) == LoadSession(r) \/ Reject(r) \/ SavePrompt(r)

Goroutine(r) ==
    \/ BeginTurn(r) \/ CallProvider(r)
    \/ ReadDelta(r) \/ ReadToolCall(r) \/ ReadStop(r) \/ ReadError(r)
    \/ EndOfReply(r) \/ SendMessageEnd(r) \/ SaveReply(r) \/ SendDone(r)
    \/ StartTool(r) \/ AnswerTool(r) \/ SaveTurn(r)
    \/ SendError(r) \/ CloseChannel(r)

Reader(r) == Receive(r) \/ FinishReading(r)

Client(r) == Disconnect(r) \/ Leave(r) \/ WriteFails(r)

Next ==
    \/ \E r \in Requests : Call(r) \/ Goroutine(r) \/ Reader(r) \/ Client(r)
    \/ \E s \in Sessions : DeleteSession(s)

Spec == Init /\ [][Next]_vars

\* The Go scheduler runs every goroutine that can run.  Assumed of what they
\* wait for: the provider answers or fails (its HTTP client has no timeout),
\* a tool returns, a write to the client returns or fails.
Fairness == \A r \in Requests : WF_vars(Goroutine(r)) /\ WF_vars(Reader(r))

FairSpec == Spec /\ Fairness

-----------------------------------------------------------------------------
(* Properties                                                              *)

TypeOK ==
    /\ live \subseteq Sessions
    /\ stored \in [Sessions -> Seq(Message)]
    /\ pc \in [Requests -> PcValues]
    /\ sess \in [Requests -> Seq(Message)]
    /\ turn \in [Requests -> Nat]
    /\ left \in [Requests -> Nat]
    /\ calls \in [Requests -> Nat]
    /\ answered \in [Requests -> Nat]
    /\ substance \in [Requests -> SUBSET {"said", "usage"}]
    /\ channel \in [Requests -> Seq(Kinds)]
    /\ last \in [Requests -> Kinds \cup {Protocol!Silent}]
    /\ cancelled \in [Requests -> BOOLEAN]
    /\ consumer \in [Requests -> {"waiting", "reading", "gone",
                                  "answered", "failed"}]
    /\ outcome \in [Requests -> {"none"} \cup Protocol!Terminal]
    /\ lateTurns \in [Requests -> Nat]

\* Every stored transcript is one a provider accepts: an assistant message
\* with calls is followed at once by the answers to them, in order, and no
\* answer stands anywhere else (streamLoop saves only between turns).
PairedToolCalls == \A s \in Sessions : Paired(stored[s])

\* Without deletions, one writer at a time: a Save only ever adds messages
\* to what the store has.  Two prompts on a session break it: each saves the
\* copy it loaded.
AppendOnly ==
    [][\A s \in Sessions : IsPrefix(stored[s], stored'[s])]_vars

\* The events of a prompt follow the protocol, on every path of the code.
FollowsProtocol == Protocol!Spec

\* Whoever read the channel until it was closed has received the terminal
\* event, and RunPrompt reports an answer only for a stream that was done.
CompleteAnswer == \A r \in Requests :
    /\ consumer[r] \in {"answered", "failed"} =>
            outcome[r] \in Protocol!Terminal
    /\ consumer[r] = "answered" /\ r \in Collectors => outcome[r] = "done"

\* Once the client is gone the provider is asked at most once more: the call
\* whose check of the context came before.
CancelEndsTurns == \A r \in Requests : lateTurns[r] <= 1

\* Every stream ends, or hangs for good: its reader is gone and has left the
\* channel full.  That is the only way a goroutine is left behind.  It rests on
\* MaxTurns: without a limit, which is the default (math.MaxInt, engine.go), a
\* model that goes on calling tools keeps its stream for ever.
StreamEndsOrIsAbandoned == \A r \in Requests :
    [](pc[r] = "turn" =>
        <>(\/ pc[r] = "closed"
           \/ [](consumer[r] = "gone" /\ Len(channel[r]) = Capacity)))

\* RunPrompt always returns, its reader never leaves: it rests on MaxTurns too.
CollectorReturns == \A r \in Collectors :
    pc[r] = "turn" ~> consumer[r] \in {"answered", "failed"}
=============================================================================
