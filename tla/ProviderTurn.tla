----------------------------- MODULE ProviderTurn -----------------------------
(***************************************************************************)
(* One turn with a provider: the server streams a reply, parseSSEStream of *)
(* internal/provider/anthropic or .../openai turns its lines into events,  *)
(* the provider hands these on as a SliceStreamReader, and runTurn of      *)
(* internal/runtime/engine.go reads them into a message.                   *)
(*                                                                         *)
(* What the server sends is external, as the parsers take it to be: a      *)
(* reply is a sequence of blocks, of text or of one tool call, cut into    *)
(* pieces; OpenAI's calls come after its text, either complete in one chunk *)
(* or piece by piece in chunks of their own.  The token limit (max_tokens,  *)
(* which every request to Anthropic has) may end a reply anywhere, in the   *)
(* middle of a block too: the lines that close it come all the same.        *)
(* Lines the parsers skip (other prefixes, JSON that does not parse, other  *)
(* types) are left out.                                                     *)
(*                                                                         *)
(* An operator marked "Mutant" is the definition after it with a plausible *)
(* bug, and is used only to see that a property notices (PROJECT.json).    *)
(***************************************************************************)
EXTENDS Naturals, Sequences, SequencesExt, FiniteSets

CONSTANT Replies        \* what the model may say, sequences of Blocks

Blocks == [kind: {"text", "call"}, n: Nat]      \* n pieces

ASSUME RepliesAssumption == Replies \subseteq Seq(Blocks)

VARIABLES
    provider,           \* "anthropic" or "openai"
    meant,              \* what the model would say
    reply,              \* what the server sends of that
    layout,             \* how it sends calls: "whole" or "apart"
    ending,             \* how it ends: by itself or by the token limit
    place,              \* the block and the line of it that it sends next
    phase,              \* "parsing", "reading", then the turn's outcome
    pending,            \* the calls being put together, by index
    lastUsage,          \* a usage has been seen (anthropic)
    events,             \* the events of the reader
    index,              \* how many of them have been read
    content,            \* the message so far: its text,
    toolCalls,          \* its calls,
    usage,              \* whether it has a usage
    stopReason          \* and a stop reason

serverVars == <<provider, meant, reply, layout, ending>>
parserVars == <<place, pending, lastUsage, events>>
turnVars   == <<index, content, toolCalls, usage, stopReason>>
vars == <<serverVars, phase, parserVars, turnVars>>

-----------------------------------------------------------------------------
(* The server                                                              *)

Pieces(r, i) == [k \in 1 .. r[i].n |-> <<i, k>>]
IsCall(r, i) == r[i].kind = "call"
Calls(r)     == {i \in DOMAIN r : IsCall(r, i)}
Texts(r)     == DOMAIN r \ Calls(r)

\* What the server may do with a request.
Answers(replies) ==
    {a \in [provider: {"anthropic", "openai"}, meant: replies,
            layout: {"whole", "apart"}, ending: {"tool_calls", "stop", "length"}] :
        /\ a.provider = "anthropic" => a.layout = "whole" /\ a.ending # "tool_calls"
        /\ a.provider = "openai" =>
              \A i \in Texts(a.meant), j \in Calls(a.meant) : i < j}

\* A reply up to some piece of some block, or of nothing.
Cuts(r) ==
    {<<>>} \cup UNION {{Append(SubSeq(r, 1, i - 1), [r[i] EXCEPT !.n = k]) :
                           k \in 0 .. r[i].n} : i \in DOMAIN r}

\* The token limit may end the reply anywhere.
Sent(a) == IF a.ending = "length" THEN Cuts(a.meant) ELSE {a.meant}

\* Anthropic sends of a block a start, its deltas and a stop; a text of no
\* pieces is one delta without text.
Deltas(i) == IF IsCall(reply, i) \/ reply[i].n > 0 THEN reply[i].n ELSE 1

\* OpenAI sends of a text a chunk without any of it, and of a call one with its
\* name, and then the pieces.
LastLine(i) == IF provider = "anthropic" THEN Deltas(i) + 1 ELSE reply[i].n

\* Where the lines that close the stream are.
End == Len(reply) + 1

After(i, k) == IF k < LastLine(i) THEN <<i, k + 1>> ELSE <<i + 1, 0>>

(* The events of provider/events.go                                       *)

MessageStart   == [type |-> "message_start"]
Delta(text)    == [type |-> "message_delta", text |-> text]
ToolCall(call) == [type |-> "tool_call", call |-> call]
Usage == [type |-> "usage"]
Stop  == [type |-> "stop"]

Init ==
    /\ \E a \in Answers(Replies) :
          /\ provider = a.provider
          /\ meant = a.meant
          /\ reply \in Sent(a)
          /\ layout = a.layout
          /\ ending = a.ending
    /\ place = <<1, 0>>
    /\ phase = "parsing"
    /\ pending = <<>> /\ lastUsage = FALSE
    /\ events = <<MessageStart>>       \* Stream puts this one first
    /\ index = 0
    /\ content = <<>> /\ toolCalls = <<>> /\ usage = FALSE /\ stopReason = ""

-----------------------------------------------------------------------------
(* The parsers                                                             *)

\* The line at one place is sent, and the scanner reads it.
Line(at, next) == phase = "parsing" /\ place = at /\ place' = next

Put(i, call) ==
    pending' = [j \in DOMAIN pending \cup {i} |->
                   IF j = i THEN call ELSE pending[j]]

BlockStart == \E i \in DOMAIN reply :
    /\ provider = "anthropic"
    /\ Line(<<i, 0>>, After(i, 0))
    /\ IF IsCall(reply, i) THEN Put(i, [id |-> i, args |-> <<>>])
                           ELSE UNCHANGED pending
    /\ UNCHANGED <<serverVars, phase, lastUsage, events, turnVars>>

BlockDelta == \E i \in DOMAIN reply : \E k \in 1 .. Deltas(i) :
    /\ provider = "anthropic"
    /\ Line(<<i, k>>, After(i, k))
    /\ LET pieces == IF k \in DOMAIN Pieces(reply, i) THEN <<<<i, k>>>> ELSE <<>>
       IN  \/ /\ ~IsCall(reply, i)
              /\ events' = Append(events, Delta(pieces))
              /\ UNCHANGED pending
           \/ /\ IsCall(reply, i)
              /\ Put(i, [pending[i] EXCEPT !.args = @ \o pieces])
              /\ UNCHANGED events
    /\ UNCHANGED <<serverVars, phase, lastUsage, turnVars>>

Without(i) == [j \in DOMAIN pending \ {i} |-> pending[j]]

BlockStop == \E i \in DOMAIN reply :
    /\ provider = "anthropic"
    /\ Line(<<i, Deltas(i) + 1>>, <<i + 1, 0>>)
    /\ IF i \in DOMAIN pending
       THEN /\ events' = Append(events, ToolCall(pending[i]))
            /\ pending' = Without(i)
       ELSE UNCHANGED <<events, pending>>
    /\ UNCHANGED <<serverVars, phase, lastUsage, turnVars>>

MessageDelta ==
    /\ provider = "anthropic"
    /\ Line(<<End, 0>>, <<End, 1>>)
    /\ lastUsage' = TRUE
    /\ UNCHANGED <<serverVars, phase, pending, events, turnVars>>

\* expandEvent splits a message_stop with a usage in two.
MessageStop ==
    /\ provider = "anthropic"
    /\ Line(<<End, 1>>, <<End, 2>>)
    /\ events' = events \o (IF lastUsage THEN <<Usage, Stop>> ELSE <<Stop>>)
    /\ UNCHANGED <<serverVars, phase, pending, lastUsage, turnVars>>

Chunk(text, calls, finish) ==
    [text |-> text, calls |-> calls, finish |-> finish, usage |-> FALSE]

\* A part of a call in a chunk; only the first part has a name and an id.
Part(id, args) == [id |-> id, args |-> args]
NoId == 0

\* The first part with a name makes the call, later ones add to it: by their
\* place in the chunk, whatever call they belong to.
Accumulate(calls) ==
    [j \in DOMAIN pending \cup {j \in DOMAIN calls : calls[j].id # NoId} |->
        IF j \notin DOMAIN calls THEN pending[j]
        ELSE IF calls[j].id # NoId THEN [id |-> calls[j].id, args |-> calls[j].args]
        ELSE [pending[j] EXCEPT !.args = @ \o calls[j].args]]

\* Mutant: and at the token limit.
FlushingAlways == {"tool_calls", "stop", "length"}

\* The finish reasons at which the pending calls are handed on, in the order
\* of a map, which is none.
Flushing == {"tool_calls", "stop"}

\* The sequences of all elements of a finite set.
Orders(S) == Bijection(1 .. Cardinality(S), S)

ReadChunk(l) ==
    LET calls == Accumulate(l.calls)
        said  == (IF l.usage THEN <<Usage>> ELSE <<>>)
                    \o (IF l.text = <<>> THEN <<>> ELSE <<Delta(l.text)>>)
    IN  /\ IF l.finish \in Flushing
           THEN /\ \E order \in Orders(DOMAIN calls) :
                      events' = events \o said
                         \o [j \in DOMAIN order |-> ToolCall(calls[order[j]])]
                /\ pending' = <<>>
           ELSE events' = events \o said /\ pending' = calls
        /\ UNCHANGED <<serverVars, phase, lastUsage, turnVars>>

TextChunk == \E i \in Texts(reply) : \E k \in 0 .. reply[i].n :
    /\ provider = "openai"
    /\ Line(<<i, k>>, After(i, k))
    /\ ReadChunk(Chunk(IF k = 0 THEN <<>> ELSE <<<<i, k>>>>, <<>>, ""))

PartChunk == \E i \in Calls(reply) : \E k \in 0 .. reply[i].n :
    /\ provider = "openai" /\ layout = "apart"
    /\ Line(<<i, k>>, After(i, k))
    /\ ReadChunk(Chunk(<<>>, <<IF k = 0 THEN Part(i, <<>>)
                               ELSE Part(NoId, <<<<i, k>>>>)>>, ""))

CallsChunk == \E i \in Calls(reply), order \in Orders(Calls(reply)) :
    /\ provider = "openai" /\ layout = "whole"
    /\ \A j, k \in DOMAIN order : j < k => order[j] < order[k]
    /\ Line(<<i, 0>>, <<End, 0>>)
    /\ ReadChunk(Chunk(<<>>, [j \in DOMAIN order |->
                               Part(order[j], Pieces(reply, order[j]))], ""))

FinishChunk ==
    /\ provider = "openai"
    /\ Line(<<End, 0>>, <<End, 1>>)
    /\ ReadChunk(Chunk(<<>>, <<>>, ending))

UsageChunk ==
    /\ provider = "openai"
    /\ Line(<<End, 1>>, <<End, 2>>)
    /\ ReadChunk([Chunk(<<>>, <<>>, "") EXCEPT !.usage = TRUE])

\* [DONE]: the rest of the body is not read.
Done ==
    /\ provider = "openai"
    /\ Line(<<End, 2>>, <<End, 3>>)
    /\ events' = Append(events, Stop)
    /\ phase' = "reading"
    /\ UNCHANGED <<serverVars, pending, lastUsage, turnVars>>

\* Mutant: as after [DONE].
EndOfBodyDone ==
    /\ phase = "parsing"
    /\ events' = Append(events, Stop)
    /\ phase' = "reading"
    /\ UNCHANGED <<serverVars, place, pending, lastUsage, turnVars>>

\* The body ends without an error: at the end of the lines or earlier.
EndOfBody ==
    /\ phase = "parsing"
    /\ phase' = "reading"
    /\ UNCHANGED <<serverVars, parserVars, turnVars>>

\* The request fails or its status is not 200; or the scanner fails, at a
\* broken connection or a line of more than 1 MB.
StreamFails ==
    /\ phase = "parsing"
    /\ phase' = "failed"
    /\ UNCHANGED <<serverVars, parserVars, turnVars>>

Parser ==
    \/ BlockStart \/ BlockDelta \/ BlockStop \/ MessageDelta \/ MessageStop
    \/ TextChunk \/ PartChunk \/ CallsChunk \/ FinishChunk \/ UsageChunk
    \/ Done \/ EndOfBody \/ StreamFails

-----------------------------------------------------------------------------
(* The reader: runTurn over SliceStreamReader                              *)

Event == events[index + 1]

NextEvent(type) ==
    /\ phase = "reading" /\ index < Len(events)
    /\ Event.type = type
    /\ index' = index + 1
    /\ UNCHANGED <<serverVars, parserVars>>

ReadStart ==
    /\ NextEvent("message_start")
    /\ UNCHANGED <<phase, content, toolCalls, usage, stopReason>>

\* Validate wants a text.
ReadDelta ==
    /\ NextEvent("message_delta")
    /\ IF Event.text = <<>>
       THEN phase' = "failed" /\ UNCHANGED content
       ELSE content' = content \o Event.text /\ UNCHANGED phase
    /\ UNCHANGED <<toolCalls, usage, stopReason>>

ReadToolCall ==
    /\ NextEvent("tool_call")
    /\ toolCalls' = Append(toolCalls, Event.call)
    /\ UNCHANGED <<phase, content, usage, stopReason>>

ReadUsage ==
    /\ NextEvent("usage")
    /\ usage' = TRUE
    /\ UNCHANGED <<phase, content, toolCalls, stopReason>>

ReadStop ==
    /\ NextEvent("stop")
    /\ stopReason' = "stop"
    /\ UNCHANGED <<phase, content, toolCalls, usage>>

\* Mutant: Next counts before it looks.
ReadEOFCounted ==
    /\ phase = "reading" /\ index >= Len(events)
    /\ phase' = "ok"
    /\ index' = index + 1
    /\ UNCHANGED <<serverVars, parserVars, content, toolCalls, usage, stopReason>>

\* The turn is a success, with a stop or without.
ReadEOF ==
    /\ phase = "reading" /\ index >= Len(events)
    /\ phase' = "ok"
    /\ UNCHANGED <<serverVars, parserVars, turnVars>>

Reader ==
    \/ ReadStart \/ ReadDelta \/ ReadToolCall \/ ReadUsage \/ ReadStop
    \/ ReadEOF

Next == Parser \/ Reader

Spec == Init /\ [][Next]_vars

-----------------------------------------------------------------------------
(* Properties                                                              *)

PieceSeqs == Seq(Nat \X Nat)
CallRecords == [id: Nat, args: PieceSeqs]
Events == {MessageStart, Usage, Stop} \cup [type: {"message_delta"}, text: PieceSeqs]
             \cup [type: {"tool_call"}, call: CallRecords]

(* Every variable has its type. *)
TypeOK ==
    /\ provider \in {"anthropic", "openai"}
    /\ meant \in Seq(Blocks)
    /\ reply \in Seq(Blocks)
    /\ layout \in {"whole", "apart"}
    /\ ending \in {"tool_calls", "stop", "length"}
    /\ place \in (1 .. End) \X Nat
    /\ phase \in {"parsing", "reading", "ok", "failed"}
    /\ DOMAIN pending \subseteq Nat
    /\ \A i \in DOMAIN pending : pending[i] \in CallRecords
    /\ lastUsage \in BOOLEAN
    /\ events \in Seq(Events)
    /\ index \in 0 .. Len(events)
    /\ content \in PieceSeqs
    /\ toolCalls \in Seq(CallRecords)
    /\ usage \in BOOLEAN
    /\ stopReason \in {"", "stop"}

(* Wherever the body breaks off or the token limit cuts the reply, a call   *)
(* that runTurn hands to executeTool is one the model made, with all of its *)
(* arguments, and is handed on once: the parsers keep a call in pending     *)
(* until they have seen its end, and drop what is left there.  But for one: *)
(* Anthropic's service closes also the block the token limit cut, its       *)
(* parser looks at no stop reason, and so the last call of such a reply     *)
(* may have only the first of its arguments, or none.                       *)
OnlyWholeCalls ==
    /\ \A j \in DOMAIN toolCalls :
          LET call == toolCalls[j]
          IN  /\ call.id \in Calls(meant)
              /\ \/ call.args = Pieces(meant, call.id)
                 \/ /\ provider = "anthropic" /\ ending = "length"
                    /\ j = Len(toolCalls)
                    /\ IsPrefix(call.args, Pieces(meant, call.id))
    /\ \A j, k \in DOMAIN toolCalls :
          toolCalls[j].id = toolCalls[k].id => j = k

\* What becomes of OpenAI's calls: they are dropped at the token limit, and of
\* several that come in chunks of their own only the last is kept.
CallsKept ==
    \/ provider = "anthropic"
    \/ ending # "length" /\ (layout = "whole" \/ \A i, j \in Calls(reply) : i = j)

TextPieces(r) == UNION {{<<i, k>> : k \in 1 .. r[i].n} : i \in Texts(r)}

\* The order of the pieces, and of the lines, of a reply.
Before(p, q) == p[1] < q[1] \/ (p[1] = q[1] /\ p[2] < q[2])

(* A message with the stop reason "stop" has all the text that the service  *)
(* sent, in its order, with the usage, and all calls but those OpenAI's     *)
(* parser does not keep; Anthropic's come in order.  So a caller can tell   *)
(* it from one whose body broke off.  He cannot tell it from one that the   *)
(* token limit cut: either parser gives "stop" for that as well.            *)
StopMeansWhole ==
    (phase = "ok" /\ stopReason = "stop") =>
        /\ ToSet(content) = TextPieces(reply)
        /\ \A j, k \in DOMAIN content : j < k => Before(content[j], content[k])
        /\ usage
        /\ CallsKept => {toolCalls[j].id : j \in DOMAIN toolCalls} = Calls(reply)
        /\ provider = "anthropic" => \A j, k \in DOMAIN toolCalls :
              j < k => toolCalls[j].id < toolCalls[k].id
=============================================================================
