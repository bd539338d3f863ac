----------------------------- MODULE ClientStream ------------------------------
(***************************************************************************)
(* One message sent with the Go SDK (pkg/sdk/client.go), by ChatStream or  *)
(* by Chat: the server's handler (handleSendMessage, handleStreamMessage   *)
(* and SSEWriter of internal/server), the connection between the two, and  *)
(* the client's scanner and the callback it hands events to.               *)
(*                                                                         *)
(* The engine is the abstract EventProtocol, which PromptStream is shown   *)
(* to implement.  An event goes by its number in the engine's log.  The    *)
(* connection may break at any time, by itself or at the server's write    *)
(* deadline, and what was on its way may then be lost, without the server  *)
(* or the client noticing at once; a line cut in two is no event to the    *)
(* scanner, and is lost with the rest.                                     *)
(*                                                                         *)
(* An operator marked "Mutant" is the definition after it with a plausible *)
(* bug, and is used only to see that a property notices (PROJECT.json).    *)
(***************************************************************************)
EXTENDS Naturals, Sequences

CONSTANTS
    Prompt,             \* the message
    Capacity,           \* make(chan StreamEvent, 128), the engine's
    MaxEvents           \* bound: text deltas, usages and calls of the prompt

ASSUME ClientAssumption ==
    /\ Capacity \in Nat \ {0}
    /\ MaxEvents \in Nat

VARIABLES
    call,               \* "ChatStream" or "Chat"
    last, owed,         \* the engine, see EventProtocol
    log,                \* history: the kinds of its events
    channel,            \* the events not yet received
    handler,            \* the server's handler
    response,           \* what it has answered, apart from events
    net,                \* the connection, as it is
    wire,               \* the events written and not yet read
    client,             \* the call of the SDK, then what it returned
    delivered,          \* the events the callback was given
    unsent              \* history: an event could not be encoded

engineVars == <<last, owed, log>>
serverVars == <<channel, handler, response, unsent>>
clientVars == <<client, delivered>>
vars == <<call, engineVars, serverVars, net, wire, clientVars>>

Engine == INSTANCE EventProtocol WITH Requests <- {Prompt}

Init ==
    /\ call \in {"ChatStream", "Chat"}
    /\ Engine!Init
    /\ log = <<>>
    /\ channel = <<>>
    /\ handler = "loading"
    /\ response = "none"
    /\ net = "up"
    /\ wire = <<>>
    /\ client = "waiting"
    /\ delivered = <<>>
    /\ unsent = FALSE

-----------------------------------------------------------------------------
(* The engine's goroutine, which outlives the handler                      *)

Counted == Engine!Chatter \cup {"tool_use"}

\* Mutant: the goroutine never waits for its reader.
EngineStepUnbounded ==
    /\ handler # "loading" /\ response # "refused"
    /\ Engine!Step(Prompt)
    /\ last'[Prompt] \in Counted => Len(SelectSeq(log,
                                     LAMBDA k : k \in Counted)) < MaxEvents
    /\ log' = Append(log, last'[Prompt])
    /\ channel' = Append(channel, Len(log'))
    /\ UNCHANGED <<call, handler, response, unsent, net, wire, clientVars>>

EngineStep ==
    /\ handler # "loading" /\ response # "refused"
    /\ Len(channel) < Capacity
    /\ Engine!Step(Prompt)
    /\ last'[Prompt] \in Counted => Len(SelectSeq(log,
                                     LAMBDA k : k \in Counted)) < MaxEvents
    /\ log' = Append(log, last'[Prompt])
    /\ channel' = Append(channel, Len(log'))
    /\ UNCHANGED <<call, handler, response, unsent, net, wire, clientVars>>

ChannelClosed == channel = <<>> /\ last[Prompt] \in Engine!Terminal

-----------------------------------------------------------------------------
(* The handler                                                             *)

\* Middleware, the session that is not there, RunPromptStream's own errors.
Refuse ==
    /\ handler = "loading"
    /\ handler' = "returned"
    /\ response' = "refused"
    /\ UNCHANGED <<call, engineVars, channel, unsent, net, wire, clientVars>>

Accept ==
    /\ handler = "loading"
    /\ handler' = IF call = "Chat" THEN "collecting" ELSE "forwarding"
    /\ UNCHANGED <<call, engineVars, channel, response, unsent, net, wire,
                   clientVars>>

\* The server ends the body of a handler that returns as if it were complete.
Return ==
    /\ handler' = "returned"
    /\ response' = "ended"

Receive == channel # <<>> /\ channel' = Tail(channel)

Event == Head(channel)

\* Mutant: an event that cannot be encoded is left out.
WriteEventOrSkip ==
    /\ handler = "forwarding"
    /\ Receive
    /\ \/ wire' = IF net = "up" THEN Append(wire, Event) ELSE wire
       \/ log[Event] \in {"tool_use", "tool_start"} /\ UNCHANGED wire
    /\ UNCHANGED <<call, engineVars, handler, response, unsent, net, clientVars>>

\* A write on a broken connection may seem to succeed: it is buffered, and
\* the error of Flush is not seen.
WriteEvent ==
    /\ handler = "forwarding"
    /\ Receive
    /\ wire' = IF net = "up" THEN Append(wire, Event) ELSE wire
    /\ UNCHANGED <<call, engineVars, handler, response, unsent, net, clientVars>>

WriteFails ==
    /\ handler = "forwarding"
    /\ net = "down"
    /\ Receive
    /\ Return
    /\ UNCHANGED <<call, engineVars, unsent, net, wire, clientVars>>

\* The input of a call is the model's text, which need not be JSON; then the
\* payload has no encoding, and the handler returns.
EncodeFails ==
    /\ handler = "forwarding"
    /\ channel # <<>> /\ log[Event] \in {"tool_use", "tool_start"}
    /\ Receive
    /\ Return
    /\ unsent' = TRUE
    /\ UNCHANGED <<call, engineVars, net, wire, clientVars>>

SeeChannelClosed ==
    /\ handler = "forwarding"
    /\ ChannelClosed
    /\ Return
    /\ UNCHANGED <<call, engineVars, channel, unsent, net, wire, clientVars>>

Ended == {"nil", "stopped", "error"}

\* Mutant: the handler looks for its client only between two events.
SeeGoneBetweenEvents ==
    /\ handler = "forwarding"
    /\ client \in Ended /\ net = "up"
    /\ channel # <<>>
    /\ Return
    /\ UNCHANGED <<call, engineVars, channel, unsent, net, wire, clientVars>>

\* The request's context ends with the connection.
SeeGone ==
    /\ handler = "forwarding"
    /\ client \in Ended /\ net = "up"
    /\ Return
    /\ UNCHANGED <<call, engineVars, channel, unsent, net, wire, clientVars>>

\* Or after a failed write.
SeeBroken ==
    /\ handler = "forwarding"
    /\ net = "down"
    /\ Return
    /\ UNCHANGED <<call, engineVars, channel, unsent, net, wire, clientVars>>

\* RunPrompt: its reader takes every event, whoever is still there.
Collect ==
    /\ handler = "collecting"
    /\ Receive
    /\ UNCHANGED <<call, engineVars, handler, response, unsent, net, wire,
                   clientVars>>

\* The session may be gone when it is loaded again.
AnswerChat ==
    /\ handler = "collecting"
    /\ ChannelClosed
    /\ handler' = "returned"
    /\ \/ response' = "refused"
       \/ last[Prompt] = "done" /\ response' = "result"
    /\ UNCHANGED <<call, engineVars, channel, unsent, net, wire, clientVars>>

Handler == \/ Refuse \/ Accept \/ WriteEvent \/ WriteFails \/ EncodeFails
           \/ SeeChannelClosed \/ SeeBroken \/ Collect \/ AnswerChat

-----------------------------------------------------------------------------
(* The connection                                                          *)

Break ==
    /\ net = "up"
    /\ net' = "down"
    /\ \E n \in 0 .. Len(wire) : wire' = SubSeq(wire, 1, n)
    /\ UNCHANGED <<call, engineVars, serverVars, clientVars>>

-----------------------------------------------------------------------------
(* The client                                                              *)

ReturnWith(outcome) ==
    /\ client = "waiting"
    /\ client' = outcome
    /\ UNCHANGED <<call, engineVars, serverVars, net, delivered>>

\* The callback may say that it has heard enough.
Deliver ==
    /\ client = "waiting"
    /\ wire # <<>>
    /\ delivered' = Append(delivered, Head(wire))
    /\ wire' = Tail(wire)
    /\ client' \in {"waiting", "stopped"}
    /\ UNCHANGED <<call, engineVars, serverVars, net>>

\* A line of more than 64 KB.
ScanFails ==
    /\ wire # <<>>
    /\ ReturnWith("error")
    /\ wire' = Tail(wire)

\* Mutant: ChatStream returns nil whenever the scanner stops.
SeeBreakNil ==
    /\ wire = <<>> /\ net = "down"
    /\ ReturnWith("nil")
    /\ UNCHANGED wire

SeeBreak ==
    /\ wire = <<>> /\ net = "down"
    /\ ReturnWith("error")
    /\ UNCHANGED wire

SeeEnd ==
    /\ wire = <<>> /\ net = "up" /\ response = "ended"
    /\ ReturnWith("nil")
    /\ UNCHANGED wire

SeeResponse ==
    /\ net = "up" /\ response \in {"result", "refused"}
    /\ ReturnWith(IF response = "result" THEN "nil" ELSE "error")
    /\ UNCHANGED wire

\* Mutant: the time limit is one for the headers.
TimeOutEarly ==
    /\ delivered = <<>>
    /\ ReturnWith("error")
    /\ UNCHANGED wire

\* http.Client.Timeout covers the body; the caller's context may end earlier.
TimeOut ==
    /\ ReturnWith("error")
    /\ UNCHANGED wire

Client == Deliver \/ ScanFails \/ SeeBreak \/ SeeEnd \/ SeeResponse

Next == EngineStep \/ Handler \/ SeeGone \/ Break \/ Client \/ TimeOut

\* Time passes, and the select of a handler whose client has left sees it; the
\* provider need never go on, nor the network, nor a scanner.
Spec == Init /\ [][Next]_vars /\ WF_vars(TimeOut) /\ WF_vars(SeeGone)

-----------------------------------------------------------------------------
(* Properties                                                              *)

TypeOK ==
    /\ call \in {"ChatStream", "Chat"}
    /\ last \in [{Prompt} -> Engine!Kinds \cup {Engine!Silent}]
    /\ owed \in [{Prompt} -> Nat]
    /\ log \in Seq(Engine!Kinds)
    /\ channel \in Seq(DOMAIN log)
    /\ Len(channel) <= Capacity
    /\ handler \in {"loading", "forwarding", "collecting", "returned"}
    /\ response \in {"none", "refused", "ended", "result"}
    /\ net \in {"up", "down"}
    /\ wire \in Seq(DOMAIN log)
    /\ client \in {"waiting"} \cup Ended
    /\ delivered \in Seq(DOMAIN log)
    /\ unsent \in BOOLEAN

\* The callback is given the engine's events in their order and without a gap,
\* wherever the connection, an encoding or the scanner fails.
DeliveredInOrder == \A i \in DOMAIN delivered : delivered[i] = i

\* Without an error the answer was complete: ChatStream has handed on the
\* event that ends every stream, and Chat returns what ended with "done".
\* The exception is the code's: a call whose input cannot be encoded ends the
\* body early, and ChatStream takes that for the end.
NilMeansComplete == client = "nil" =>
    /\ call = "ChatStream" /\ ~unsent =>
          /\ delivered # <<>>
          /\ log[delivered[Len(delivered)]] \in Engine!Terminal
    /\ call = "Chat" => last[Prompt] = "done"

\* The SDK's calls return, whatever the provider, the server or the network
\* does.
CallReturns == client = "waiting" ~> client # "waiting"

\* A handler does not outlive the call it streams to, however long the
\* provider is silent, if the network tells it of the end.
HandlerFollows ==
    (client \in Ended /\ handler = "forwarding" /\ net = "up")
        ~> (handler = "returned" \/ net = "down")
=============================================================================
