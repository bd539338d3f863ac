------------------------------ MODULE WebSocket ------------------------------
(***************************************************************************)
(* One WebSocket connection (internal/server/websocket.go): the read pump, *)
(* which runs the prompts itself, the write pump with its ping ticker, the *)
(* bounded queue between them, and a client that may be slow, leave, or    *)
(* vanish without a word.                                                  *)
(*                                                                         *)
(* The engine is the abstract EventProtocol, which PromptStream is shown   *)
(* to implement: the connection may count on no more than that of it.      *)
(* Time is kept by countdowns, so runs are not bounded in length.  The     *)
(* server's messages are only counted; every client frame that is answered *)
(* by one message and changes nothing else the model keeps (ping,          *)
(* interrupt, skills, malformed or unknown ones) is a "control".           *)
(*                                                                         *)
(* An operator marked "Mutant" is the definition after it with a plausible *)
(* bug, and is used only to see that a property notices (PROJECT.json).    *)
(***************************************************************************)
EXTENDS Naturals, Sequences

CONSTANTS
    Prompts,            \* send_message frames the client may send, once each
    SendCapacity,       \* make(chan []byte, 256)
    Capacity,           \* make(chan StreamEvent, 128), the engine's
    PongWait,           \* ticks of pongWait, 60 s
    PingPeriod,         \* ticks of pingPeriod, 9/10 of it
    MaxEvents,          \* bound: text deltas, usages and calls of a prompt
    MaxInbox            \* bound: client frames sent and not yet read

ASSUME ConstantsAssumption ==
    /\ Prompts \cap {"pong", "control", "huge", "bye"} = {}
    /\ SendCapacity \in Nat \ {0}
    /\ Capacity \in Nat \ {0}
    /\ PongWait \in Nat \ {0}
    /\ PingPeriod \in 1 .. PongWait - 1
    /\ MaxEvents \in Nat
    /\ MaxInbox \in Nat \ {0}

VARIABLES
    conn,               \* the TCP connection, as the server will find it
    inbox,              \* client frames not yet handled, in order
    buffered,           \* how many of them are in the reader's own buffer
    toSend,             \* the prompts the client has not sent
    owesPong,           \* the client got a ping and has not answered
    reader,             \* readPump
    serving,            \* the prompts inside handleSendMessage
    remaining,          \* ticks left to the read deadline
    send,               \* how many messages ws.send holds for the writer
    writer,             \* writePump
    pingIn,             \* ticks left to the ticker's next tick
    pingDue,            \* a tick is waiting in the ticker's channel
    last, owed,         \* the engine, see EventProtocol
    said,               \* events counted against MaxEvents
    channel,            \* the engine's events not yet received
    busy,               \* ticks since the reader last had nothing to do,
                        \* counted to PongWait
    punctual            \* so far nothing but prompts has taken time

clientVars == <<toSend, owesPong>>
readVars   == <<inbox, buffered>>
timerVars  == <<remaining, pingIn, pingDue>>
engineVars == <<last, owed, said, channel>>
clockVars  == <<busy, punctual>>
vars == <<conn, readVars, clientVars, reader, serving, timerVars, send,
          writer, engineVars, clockVars>>

Engine == INSTANCE EventProtocol WITH Requests <- Prompts

Frames == Prompts \cup {"pong", "control", "huge", "bye"}

Init ==
    /\ conn = "open"
    /\ inbox = <<>> /\ buffered = 0
    /\ toSend = Prompts
    /\ owesPong = FALSE
    /\ reader = "waiting"
    /\ serving = {}
    /\ remaining = PongWait
    /\ send = 1            \* "connected"
    /\ writer = "running"
    /\ pingIn = PingPeriod /\ pingDue = FALSE
    /\ Engine!Init
    /\ said = [p \in Prompts |-> 0]
    /\ channel = [p \in Prompts |-> <<>>]
    /\ busy = 0 /\ punctual = TRUE

-----------------------------------------------------------------------------
(* The client and its network                                              *)

Idle == reader = "waiting" /\ serving = {} /\ inbox = <<>>

\* A frame that finds the reader idle starts a new stretch of work.
Arrive(f) ==
    /\ conn = "open"
    /\ inbox' = Append(inbox, f)
    /\ busy' = IF Idle THEN 0 ELSE busy
    /\ UNCHANGED <<buffered, reader, serving, timerVars, send, writer,
                   engineVars, punctual>>

SendPrompt(p) ==
    /\ p \in toSend /\ Len(inbox) < MaxInbox
    /\ Arrive(p)
    /\ toSend' = toSend \ {p}
    /\ UNCHANGED <<conn, owesPong>>

SendOther(f) ==
    /\ Len(inbox) < MaxInbox
    /\ Arrive(f)
    /\ UNCHANGED <<conn, clientVars>>

SendPong ==
    /\ owesPong /\ Len(inbox) < MaxInbox
    /\ Arrive("pong")
    /\ owesPong' = FALSE
    /\ UNCHANGED <<conn, toSend>>

\* The client closes the connection; what it sent before is still read.
Leave ==
    /\ Arrive("bye")
    /\ conn' = "left"
    /\ UNCHANGED clientVars

\* The client is gone and nothing tells the server.
Vanish ==
    /\ conn = "open"
    /\ conn' = "lost"
    /\ UNCHANGED <<readVars, clientVars, reader, serving, timerVars, send,
                   writer, engineVars, clockVars>>

Client ==
    \/ \E p \in Prompts : SendPrompt(p)
    \/ \E f \in {"control", "huge"} : SendOther(f)
    \/ SendPong \/ Leave \/ Vanish

-----------------------------------------------------------------------------
(* The read pump                                                           *)

\* Mutant: prompts run in goroutines of their own
ListeningMeanwhile == reader = "waiting"

\* The pump reads again only when handleMessage has returned.
Listening == reader = "waiting" /\ serving = {}

\* Mutant: a full queue makes the reader wait
SendJSONBlocking ==
    /\ send < SendCapacity
    /\ send' = send + 1

\* Mutant: the queue is taken for unbounded
SendJSONAlways == send' = send + 1

\* A message that finds the queue full is dropped.  (So is one that has no
\* encoding, a call whose input is not JSON; that is left out.)
SendJSON == send' = IF send < SendCapacity THEN send + 1 ELSE send

\* A read takes the next frame from the reader's buffer or, before the
\* deadline, fetches some of what has arrived.
Read(f) ==
    /\ Listening
    /\ inbox # <<>> /\ Head(inbox) = f
    /\ \/ buffered > 0 /\ buffered' = buffered - 1
       \/ /\ buffered = 0 /\ conn # "closed" /\ remaining > 0
          /\ \E n \in 1 .. Len(inbox) : buffered' = n - 1
    /\ inbox' = Tail(inbox)

\* Mutant: the pong handler forgets the deadline
RenewNever == UNCHANGED remaining

\* SetReadDeadline
Renew == remaining' = PongWait

\* Pongs are handled inside ReadMessage, so only while it is being called.
ReadPong ==
    /\ Read("pong")
    /\ Renew
    /\ UNCHANGED <<conn, clientVars, reader, serving, send, writer, pingIn,
                   pingDue, engineVars, clockVars>>

ReadControl ==
    /\ Read("control")
    /\ SendJSON
    /\ UNCHANGED <<conn, clientVars, reader, serving, timerVars, writer,
                   engineVars, clockVars>>

\* RunPromptStream refuses when the session is not in the store.
ReadPrompt(p) ==
    /\ Read(p)
    /\ SendJSON          \* "error" or "message_start"
    /\ serving' \in {serving, serving \cup {p}}
    /\ UNCHANGED <<conn, clientVars, reader, timerVars, writer, engineVars,
                   clockVars>>

\* handleSendMessage forwards every event but the start of a tool.
Forward(p) ==
    /\ p \in serving /\ channel[p] # <<>>
    /\ channel' = [channel EXCEPT ![p] = Tail(@)]
    /\ IF Head(channel[p]) = "tool_start" THEN UNCHANGED send
                                          ELSE SendJSON
    /\ UNCHANGED <<conn, readVars, clientVars, reader, serving, timerVars,
                   writer, last, owed, said, clockVars>>

\* The engine closes its channel after the terminal event.
PromptOver(p) ==
    /\ p \in serving /\ channel[p] = <<>> /\ last[p] \in Engine!Terminal
    /\ serving' = serving \ {p}
    /\ UNCHANGED <<conn, readVars, clientVars, reader, timerVars, send,
                   writer, engineVars, clockVars>>

\* readPump's deferred calls: cancel, Remove, Close, close(send).
CloseReader ==
    /\ reader' = "closed" /\ conn' = "closed"
    /\ inbox' = <<>> /\ buffered' = 0
    /\ UNCHANGED <<clientVars, serving, timerVars, send, writer, engineVars,
                   clockVars>>

\* A close frame, a frame over maxMessageSize, or a connection the writer closed.
ReadFails ==
    /\ Listening
    /\ \/ conn = "closed" /\ buffered = 0
       \/ /\ inbox # <<>> /\ Head(inbox) \in {"bye", "huge"}
          /\ buffered > 0 \/ remaining > 0
    /\ CloseReader

\* The deadline has passed and no frame is left in the reader's own buffer.
TimeOut ==
    /\ Listening
    /\ remaining = 0 /\ buffered = 0
    /\ CloseReader

Reader ==
    \/ ReadPong \/ ReadControl \/ ReadFails \/ TimeOut
    \/ \E p \in Prompts : ReadPrompt(p) \/ Forward(p) \/ PromptOver(p)

-----------------------------------------------------------------------------
(* The engine's goroutine                                                  *)

EngineStep(p) ==
    /\ p \in serving /\ Len(channel[p]) < Capacity
    /\ Engine!Step(p)
    /\ IF last'[p] \in Engine!Chatter \cup {"tool_use"}
       THEN said[p] < MaxEvents /\ said' = [said EXCEPT ![p] = @ + 1]
       ELSE UNCHANGED said
    /\ channel' = [channel EXCEPT ![p] = Append(@, last'[p])]
    /\ UNCHANGED <<conn, readVars, clientVars, reader, serving, timerVars,
                   send, writer, clockVars>>

-----------------------------------------------------------------------------
(* The write pump                                                          *)

\* A ping reaches the client unless it is gone.
WritePing ==
    /\ writer = "running" /\ conn # "closed" /\ pingDue
    /\ pingDue' = FALSE
    /\ owesPong' = (owesPong \/ conn = "open")
    /\ UNCHANGED <<conn, readVars, toSend, reader, serving, remaining, send,
                   writer, pingIn, engineVars, clockVars>>

WriteMessage ==
    /\ writer = "running" /\ conn # "closed" /\ send > 0
    /\ send' = send - 1
    /\ UNCHANGED <<conn, readVars, clientVars, reader, serving, timerVars,
                   writer, engineVars, clockVars>>

StopWriter ==
    /\ writer' = "stopped" /\ conn' = "closed"
    /\ inbox' = SubSeq(inbox, 1, buffered)
    /\ UNCHANGED <<buffered, clientVars, reader, serving, remaining, pingIn,
                   engineVars, clockVars>>

\* A write fails when the client is gone or, after writeWait, too slow.
WriteFails ==
    /\ writer = "running"
    /\ conn # "open" \/ ~punctual
    /\ \/ send > 0 /\ send' = send - 1 /\ UNCHANGED pingDue
       \/ pingDue /\ pingDue' = FALSE /\ UNCHANGED send
    /\ StopWriter

\* The queue has been closed by the reader and is empty.
SeeClosed ==
    /\ writer = "running" /\ reader = "closed" /\ send = 0
    /\ StopWriter
    /\ UNCHANGED <<send, pingDue>>

Writer == WritePing \/ WriteMessage \/ WriteFails \/ SeeClosed

-----------------------------------------------------------------------------
(* Time                                                                    *)

\* Something other than a prompt that could be done at once.
Pending ==
    \/ writer = "running" /\ (send > 0 \/ pingDue)
    \/ owesPong
    \/ Listening /\ (inbox # <<>> \/ remaining = 0)

CountDown(n) == IF n = 0 THEN 0 ELSE n - 1

Tick ==
    /\ remaining' = CountDown(remaining)
    /\ IF writer = "stopped" THEN UNCHANGED <<pingIn, pingDue>>
       ELSE /\ pingIn' = IF pingIn = 1 THEN PingPeriod ELSE pingIn - 1
            /\ pingDue' = (pingDue \/ pingIn = 1)
    /\ busy' = IF Idle THEN 0 ELSE IF busy < PongWait THEN busy + 1 ELSE busy
    /\ punctual' = (punctual /\ ~Pending)
    /\ UNCHANGED <<conn, readVars, clientVars, reader, serving, send, writer,
                   engineVars>>

Next ==
    \/ Client \/ Reader \/ Writer \/ Tick
    \/ \E p \in Prompts : EngineStep(p)

\* Goroutines run, time passes and a provider's response ends; a client need
\* do nothing.
Spec ==
    /\ Init /\ [][Next]_vars
    /\ WF_vars(Reader) /\ WF_vars(Writer) /\ WF_vars(Tick)
    /\ WF_vars(\E p \in Prompts : EngineStep(p))

-----------------------------------------------------------------------------
(* Properties                                                              *)

\* Types, with the queue and the engine's channel inside their capacities.
TypeOK ==
    /\ conn \in {"open", "left", "lost", "closed"}
    /\ inbox \in Seq(Frames)
    /\ buffered \in 0 .. Len(inbox)
    /\ toSend \subseteq Prompts /\ owesPong \in BOOLEAN
    /\ reader \in {"waiting", "closed"} /\ serving \subseteq Prompts
    /\ remaining \in 0 .. PongWait
    /\ send \in 0 .. SendCapacity
    /\ writer \in {"running", "stopped"}
    /\ pingIn \in 1 .. PingPeriod /\ pingDue \in BOOLEAN
    /\ last \in [Prompts -> Engine!Kinds \cup {Engine!Silent}]
    /\ owed \in [Prompts -> 0 .. MaxEvents]
    /\ said \in [Prompts -> 0 .. MaxEvents]
    /\ channel \in [Prompts -> Seq(Engine!Kinds)]
    /\ \A p \in Prompts : Len(channel[p]) <= Capacity
    /\ busy \in 0 .. PongWait /\ punctual \in BOOLEAN

\* Nothing is sent after readPump has closed ws.send, which would panic, and
\* no engine is left with nobody reading its channel: a reader that closes
\* has finished every prompt it started.
ClosedAfterPrompts ==
    reader = "closed" =>
        /\ serving = {}
        /\ \A p \in Prompts :
              last[p] \in {Engine!Silent} \cup Engine!Terminal /\ channel[p] = <<>>

\* The read deadline cuts off a client that answers every ping at once only
\* if the reader had been kept from reading, by prompts, for at least the
\* margin between pingPeriod and pongWait.
OnlyLongWorkTimesOut ==
    [][TimeOut /\ conn = "open" /\ punctual
          => ~Idle /\ busy >= PongWait - PingPeriod]_vars

\* A client that is gone, even without a word, is noticed: both pumps end,
\* whatever prompt was running and however full the queue was.
PumpsEnd ==
    conn # "open" ~> reader = "closed" /\ writer = "stopped"

\* A client that answers every ping at once is not disconnected: in the flow
\* of SPEC.md (15.15.5) a Ping after Done is answered with a Pong, and it is
\* the client that closes the connection.
StaysConnected == [][TimeOut => ~(conn = "open" /\ punctual)]_vars
=============================================================================
