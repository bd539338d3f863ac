--------------------------- MODULE WebSocketProofs ---------------------------
(***************************************************************************)
(* WebSocket for every queue capacity, deadline and ping period: types,    *)
(* what holds when the reader has closed, and what a timeout tells.        *)
(***************************************************************************)
EXTENDS WebSocket, TLAPS, SequenceTheorems

USE DEF Engine!Silent, Engine!Chatter, Engine!Answers, Engine!Terminal,
        Engine!Kinds

-----------------------------------------------------------------------------
(* The invariants, beside TypeOK                                           *)

\* A tool that runs was announced, and calls count against the bound.
EngineInv == \A p \in Prompts :
    /\ owed[p] <= said[p]
    /\ last[p] = "tool_start" => owed[p] > 0

\* A prompt that is not being served has said nothing, or everything.
ServeInv ==
    /\ reader = "closed" => serving = {}
    /\ \A p \in Prompts \ serving :
          /\ last[p] \in {Engine!Silent} \cup Engine!Terminal
          /\ channel[p] = <<>>

\* A pump that has ended has closed the connection.
EndedInv == reader = "closed" \/ writer = "stopped" => conn = "closed"

PongIn == \E i \in 1 .. Len(inbox) : inbox[i] = "pong"

\* While everybody is on time, the deadline keeps the margin ahead of the
\* next pong, or a pong is waiting and the reader has been busy since.
MarginInv ==
    conn = "open" /\ punctual =>
        IF PongIn THEN remaining + busy >= PongWait - PingPeriod
        ELSE IF pingDue \/ owesPong THEN remaining >= PongWait - PingPeriod
        ELSE remaining >= pingIn + (PongWait - PingPeriod)
-----------------------------------------------------------------------------
(* The type invariant                                                      *)

LEMMA InitTyped == Init => TypeOK /\ EngineInv
<1> SUFFICES ASSUME Init
             PROVE  TypeOK /\ EngineInv
  OBVIOUS
<1>1. /\ inbox \in Seq(Frames) /\ buffered \in 0 .. Len(inbox)
      /\ remaining \in 0 .. PongWait /\ send \in 0 .. SendCapacity
      /\ pingIn \in 1 .. PingPeriod /\ busy \in 0 .. PongWait
  BY ConstantsAssumption DEF Init
<1>2. /\ last \in [Prompts -> Engine!Kinds \cup {Engine!Silent}]
      /\ owed \in [Prompts -> 0 .. MaxEvents]
      /\ said \in [Prompts -> 0 .. MaxEvents]
      /\ channel \in [Prompts -> Seq(Engine!Kinds)]
      /\ \A p \in Prompts : Len(channel[p]) <= Capacity
  BY ConstantsAssumption DEF Init, Engine!Init
<1>3. ASSUME NEW p \in Prompts
      PROVE  owed[p] <= said[p] /\ last[p] # "tool_start"
  <2>1. owed[p] = 0 /\ said[p] = 0 /\ last[p] = "none"
    BY DEF Init, Engine!Init
  <2> QED
    BY <2>1
<1>4. EngineInv
  BY <1>3 DEF EngineInv
<1> QED
  BY <1>1, <1>2, <1>4 DEF Init, TypeOK

\* What a client does touches only its own variables and the inbox.
LEMMA ClientTyped == TypeOK /\ EngineInv /\ Client => TypeOK' /\ EngineInv'
<1> SUFFICES ASSUME TypeOK, EngineInv, Client
             PROVE  TypeOK' /\ EngineInv'
  OBVIOUS
<1> USE DEF TypeOK
<1>1. ASSUME NEW f \in Frames, Arrive(f), conn' \in {"open", "left"},
             toSend' \subseteq Prompts, owesPong' \in BOOLEAN
      PROVE  TypeOK'
  <2>1. /\ inbox' \in Seq(Frames) /\ buffered' = buffered
        /\ Len(inbox') = Len(inbox) + 1 /\ Len(inbox) \in Nat
    BY <1>1 DEF Arrive
  <2>2. buffered' \in 0 .. Len(inbox')
    BY <2>1
  <2>3. busy' \in 0 .. PongWait
    BY <1>1, ConstantsAssumption DEF Arrive
  <2> QED
    BY <1>1, <2>1, <2>2, <2>3 DEF Arrive, timerVars, engineVars
<1>2. EngineInv'
  BY DEF EngineInv, Client, SendPrompt, SendOther, SendPong, Leave, Vanish,
         Arrive, engineVars
<1>3. CASE \E p \in Prompts : SendPrompt(p)
  BY <1>1, <1>2, <1>3 DEF SendPrompt, Frames, Arrive
<1>4. CASE \E f \in {"control", "huge"} : SendOther(f)
  BY <1>1, <1>2, <1>4 DEF SendOther, Frames, Arrive, clientVars
<1>5. CASE SendPong
  BY <1>1, <1>2, <1>5 DEF SendPong, Frames, Arrive
<1>6. CASE Leave
  BY <1>1, <1>2, <1>6 DEF Leave, Frames, clientVars
<1>7. CASE Vanish
  BY <1>2, <1>7 DEF Vanish, readVars, clientVars, timerVars, engineVars,
                    clockVars
<1> QED
  BY <1>3, <1>4, <1>5, <1>6, <1>7 DEF Client

\* A queue that drops when it is full stays within its capacity.
LEMMA SendTyped ==
    ASSUME send \in 0 .. SendCapacity, SendJSON
    PROVE  send' \in 0 .. SendCapacity
  BY ConstantsAssumption DEF SendJSON

LEMMA ReadTyped ==
    ASSUME inbox \in Seq(Frames), buffered \in 0 .. Len(inbox),
           NEW f, Read(f)
    PROVE  inbox' \in Seq(Frames) /\ buffered' \in 0 .. Len(inbox')
<1>1. /\ inbox' \in Seq(Frames) /\ Len(inbox') = Len(inbox) - 1
      /\ Len(inbox) \in Nat \ {0}
  BY DEF Read
<1>2. \/ buffered > 0 /\ buffered' = buffered - 1
      \/ \E n \in 1 .. Len(inbox) : buffered' = n - 1
  BY DEF Read
<1> QED
  BY <1>1, <1>2

LEMMA ReaderTyped == TypeOK /\ EngineInv /\ Reader => TypeOK' /\ EngineInv'
<1> SUFFICES ASSUME TypeOK, EngineInv, Reader
             PROVE  TypeOK' /\ EngineInv'
  OBVIOUS
<1>1. inbox \in Seq(Frames) /\ buffered \in 0 .. Len(inbox)
  BY DEF TypeOK
<1>2. send \in 0 .. SendCapacity
  BY DEF TypeOK
<1>3. EngineInv'
  BY DEF EngineInv, Reader, ReadPong, ReadControl, ReadPrompt, Forward,
         PromptOver, ReadFails, TimeOut, CloseReader, engineVars
<1>4. CASE ReadPong
  <2>1. inbox' \in Seq(Frames) /\ buffered' \in 0 .. Len(inbox')
    BY <1>1, <1>4, ReadTyped DEF ReadPong
  <2>2. remaining' \in 0 .. PongWait
    BY <1>4, ConstantsAssumption DEF ReadPong, Renew
  <2> QED
    BY <1>3, <1>4, <2>1, <2>2 DEF ReadPong, TypeOK, clientVars, engineVars,
                                  clockVars
<1>5. CASE ReadControl
  <2>1. inbox' \in Seq(Frames) /\ buffered' \in 0 .. Len(inbox')
    BY <1>1, <1>5, ReadTyped DEF ReadControl
  <2>2. send' \in 0 .. SendCapacity
    BY <1>2, <1>5, SendTyped DEF ReadControl
  <2> QED
    BY <1>3, <1>5, <2>1, <2>2 DEF ReadControl, TypeOK, clientVars,
                                  timerVars, engineVars, clockVars
<1>6. ASSUME NEW p \in Prompts, ReadPrompt(p)
      PROVE  TypeOK'
  <2>1. inbox' \in Seq(Frames) /\ buffered' \in 0 .. Len(inbox')
    BY <1>1, <1>6, ReadTyped DEF ReadPrompt
  <2>2. send' \in 0 .. SendCapacity
    BY <1>2, <1>6, SendTyped DEF ReadPrompt
  <2>3. serving' \subseteq Prompts
    BY <1>6 DEF ReadPrompt, TypeOK
  <2> QED
    BY <1>6, <2>1, <2>2, <2>3 DEF ReadPrompt, TypeOK, clientVars, timerVars,
                                  engineVars, clockVars
<1>7. ASSUME NEW p \in Prompts, Forward(p)
      PROVE  TypeOK'
  <2>1. send' \in 0 .. SendCapacity
    BY <1>2, <1>7, SendTyped DEF Forward
  <2>2. /\ channel' \in [Prompts -> Seq(Engine!Kinds)]
        /\ \A q \in Prompts : Len(channel'[q]) <= Capacity
    <3>1. /\ channel[p] \in Seq(Engine!Kinds) /\ channel[p] # <<>>
          /\ Len(channel[p]) <= Capacity
      BY <1>7 DEF Forward, TypeOK
    <3>2. /\ Tail(channel[p]) \in Seq(Engine!Kinds)
          /\ Len(Tail(channel[p])) <= Capacity
      BY <3>1, ConstantsAssumption
    <3> QED
      BY <1>7, <3>2 DEF Forward, TypeOK
  <2> QED
    BY <1>7, <2>1, <2>2 DEF Forward, TypeOK, readVars, clientVars, timerVars,
                            clockVars
<1>8. ASSUME NEW p \in Prompts, PromptOver(p)
      PROVE  TypeOK'
  BY <1>8 DEF PromptOver, TypeOK, readVars, clientVars, timerVars,
              engineVars, clockVars
<1>9. CASE ReadFails \/ TimeOut
  <2>1. CloseReader
    BY <1>9 DEF ReadFails, TimeOut
  <2>2. inbox' \in Seq(Frames) /\ buffered' \in 0 .. Len(inbox')
    BY <2>1 DEF CloseReader
  <2> QED
    BY <1>3, <2>1, <2>2 DEF CloseReader, TypeOK, clientVars, timerVars,
                            engineVars, clockVars
<1> QED
  BY <1>3, <1>4, <1>5, <1>6, <1>7, <1>8, <1>9 DEF Reader

LEMMA WriterTyped == TypeOK /\ EngineInv /\ Writer => TypeOK' /\ EngineInv'
<1> SUFFICES ASSUME TypeOK, EngineInv, Writer
             PROVE  TypeOK' /\ EngineInv'
  OBVIOUS
<1>1. EngineInv'
  BY DEF EngineInv, Writer, WritePing, WriteMessage, WriteFails, SeeClosed,
         StopWriter, engineVars
<1>2. CASE WritePing
  BY <1>1, <1>2 DEF WritePing, TypeOK, readVars, engineVars, clockVars
<1>3. CASE WriteMessage
  <2>1. send' \in 0 .. SendCapacity
    BY <1>3, ConstantsAssumption DEF WriteMessage, TypeOK
  <2> QED
    BY <1>1, <1>3, <2>1 DEF WriteMessage, TypeOK, readVars, clientVars,
                            timerVars, engineVars, clockVars
<1>4. CASE WriteFails \/ SeeClosed
  <2>1. StopWriter
    BY <1>4 DEF WriteFails, SeeClosed
  <2>2. inbox' \in Seq(Frames) /\ buffered' \in 0 .. Len(inbox')
    <3>1. inbox \in Seq(Frames) /\ buffered \in 0 .. Len(inbox)
      BY DEF TypeOK
    <3>2. /\ SubSeq(inbox, 1, buffered) \in Seq(Frames)
          /\ Len(SubSeq(inbox, 1, buffered)) = buffered
      BY <3>1
    <3> QED
      BY <2>1, <3>1, <3>2 DEF StopWriter
  <2>3. send' \in 0 .. SendCapacity
    BY <1>4, ConstantsAssumption DEF WriteFails, SeeClosed, TypeOK
  <2>4. pingDue' \in BOOLEAN
    BY <1>4 DEF WriteFails, SeeClosed, TypeOK
  <2> QED
    BY <1>1, <2>1, <2>2, <2>3, <2>4 DEF StopWriter, TypeOK, clientVars, engineVars,
                                  clockVars
<1> QED
  BY <1>2, <1>3, <1>4 DEF Writer

\* Each step of the engine adds one event, and counts it if it may go on.
LEMMA EngineTyped ==
    ASSUME TypeOK, EngineInv, NEW p \in Prompts, EngineStep(p)
    PROVE  TypeOK' /\ EngineInv'
<1>1. /\ last \in [Prompts -> Engine!Kinds \cup {Engine!Silent}]
      /\ owed \in [Prompts -> 0 .. MaxEvents]
      /\ said \in [Prompts -> 0 .. MaxEvents]
      /\ channel \in [Prompts -> Seq(Engine!Kinds)]
      /\ Len(channel[p]) < Capacity /\ MaxEvents \in Nat
      /\ Capacity \in Nat
      /\ \A q \in Prompts : Len(channel[q]) <= Capacity
  BY ConstantsAssumption DEF TypeOK, EngineStep
<1>2. /\ owed[p] <= said[p] /\ (last[p] = "tool_start" => owed[p] > 0)
      /\ owed[p] \in 0 .. MaxEvents /\ said[p] \in 0 .. MaxEvents
  BY <1>1 DEF EngineInv
<1>3. PICK kind \in Engine!Kinds : last' = [last EXCEPT ![p] = kind]
  BY DEF EngineStep, Engine!Step, Engine!Talk, Engine!Announce, Engine!Say,
         Engine!StartTool, Engine!Answer, Engine!EndMessage, Engine!Finish,
         Engine!Fail
<1>4. last'[p] = kind /\ \A q \in Prompts \ {p} : last'[q] = last[q]
  BY <1>1, <1>3
<1>5. channel' = [channel EXCEPT ![p] = Append(@, kind)]
  BY <1>4 DEF EngineStep
<1>6. /\ channel' \in [Prompts -> Seq(Engine!Kinds)]
      /\ \A q \in Prompts : Len(channel'[q]) <= Capacity
  <2>1. /\ Append(channel[p], kind) \in Seq(Engine!Kinds)
        /\ Len(Append(channel[p], kind)) <= Capacity
    BY <1>1
  <2> QED
    BY <1>1, <1>5, <2>1
<1>7. \/ /\ kind \in Engine!Chatter \cup {"tool_use"} /\ said[p] < MaxEvents
         /\ said' = [said EXCEPT ![p] = @ + 1]
      \/ kind \notin Engine!Chatter \cup {"tool_use"} /\ said' = said
  BY <1>4 DEF EngineStep
<1>8. \/ kind = "tool_use" /\ owed' = [owed EXCEPT ![p] = @ + 1]
      \/ /\ last[p] = "tool_start" /\ kind \in Engine!Answers
         /\ owed' = [owed EXCEPT ![p] = @ - 1]
      \/ kind # "tool_use" /\ owed' = owed /\ (kind = "tool_start" => owed[p] > 0)
  <2>1. CASE Engine!Announce(p)
    BY <1>1, <1>4, <2>1 DEF Engine!Announce, Engine!Say
  <2>2. CASE Engine!Answer(p)
    BY <1>1, <1>4, <2>2 DEF Engine!Answer, Engine!Say
  <2>3. CASE Engine!StartTool(p)
    BY <1>1, <1>4, <2>3 DEF Engine!StartTool, Engine!Say
  <2>4. CASE Engine!Talk(p)
    BY <1>1, <1>4, <2>4 DEF Engine!Talk, Engine!Say
  <2>5. CASE Engine!EndMessage(p) \/ Engine!Finish(p) \/ Engine!Fail(p)
    BY <1>1, <1>4, <2>5 DEF Engine!EndMessage, Engine!Finish, Engine!Fail,
                            Engine!Say
  <2> QED
    BY <2>1, <2>2, <2>3, <2>4, <2>5 DEF EngineStep, Engine!Step
<1>9. /\ said' \in [Prompts -> 0 .. MaxEvents]
      /\ said'[p] \in {said[p], said[p] + 1}
  <2>1. CASE said' = said
    BY <1>1, <2>1
  <2>2. CASE said[p] < MaxEvents /\ said' = [said EXCEPT ![p] = @ + 1]
    <3>1. said[p] + 1 \in 0 .. MaxEvents
      BY <1>1, <1>2, <2>2
    <3> QED
      BY <1>1, <2>2, <3>1
  <2> QED
    BY <1>7, <2>1, <2>2
<1>10. /\ owed' \in [Prompts -> 0 .. MaxEvents] /\ owed'[p] <= said'[p]
       /\ kind = "tool_start" => owed'[p] > 0
  <2>1. CASE kind = "tool_use"
    BY <1>1, <1>2, <1>7, <1>8, <2>1
  <2>2. CASE kind # "tool_use"
    BY <1>1, <1>2, <1>8, <1>9, <2>2
  <2> QED
    BY <2>1, <2>2
<1>11. EngineInv'
  <2>1. ASSUME NEW q \in Prompts \ {p}
        PROVE  owed'[q] = owed[q] /\ said'[q] = said[q]
    BY <1>1, <1>7, <1>8
  <2> QED
    BY <1>4, <1>10, <2>1 DEF EngineInv
<1> QED
  BY <1>1, <1>3, <1>6, <1>9, <1>10, <1>11
     DEF EngineStep, TypeOK, readVars, clientVars, timerVars, clockVars

LEMMA TickTyped == TypeOK /\ EngineInv /\ Tick => TypeOK' /\ EngineInv'
<1> SUFFICES ASSUME TypeOK, EngineInv, Tick
             PROVE  TypeOK' /\ EngineInv'
  OBVIOUS
<1>1. remaining' \in 0 .. PongWait /\ busy' \in 0 .. PongWait
  BY ConstantsAssumption DEF TypeOK, Tick, CountDown
<1>2. pingIn' \in 1 .. PingPeriod
  BY ConstantsAssumption DEF TypeOK, Tick
<1>3. pingDue' \in BOOLEAN /\ punctual' \in BOOLEAN
  BY DEF TypeOK, Tick
<1>4. EngineInv'
  BY DEF EngineInv, Tick, engineVars
<1> QED
  BY <1>1, <1>2, <1>3, <1>4 DEF TypeOK, Tick, readVars, clientVars, engineVars

LEMMA StutterTyped ==
    TypeOK /\ EngineInv /\ UNCHANGED vars => TypeOK' /\ EngineInv'
  BY DEF TypeOK, EngineInv, vars, readVars, clientVars, timerVars, engineVars,
         clockVars

\* Every variable keeps its type: in particular ws.send and the engine's
\* channel never hold more than their capacity, and no count of owed tool
\* answers goes below zero or above the calls made.
THEOREM TypeCorrect == Spec => []TypeOK
<1>1. TypeOK /\ EngineInv /\ [Next]_vars => TypeOK' /\ EngineInv'
  BY ClientTyped, ReaderTyped, WriterTyped, EngineTyped, TickTyped,
     StutterTyped DEF Next
<1> QED
  BY InitTyped, <1>1, PTL DEF Spec

-----------------------------------------------------------------------------
(* The reader closes after its prompts                                     *)

LEMMA ServeStep == TypeOK /\ ServeInv /\ [Next]_vars => ServeInv'
<1> SUFFICES ASSUME TypeOK, ServeInv, [Next]_vars
             PROVE  ServeInv'
  OBVIOUS
<1> USE DEF ServeInv
<1>1. CASE Client \/ Writer \/ Tick \/ UNCHANGED vars
  <2>1. UNCHANGED <<reader, serving, last, channel>>
    BY <1>1 DEF Client, SendPrompt, SendOther, SendPong, Leave, Vanish,
                Arrive, Writer, WritePing, WriteMessage, WriteFails,
                SeeClosed, StopWriter, Tick, vars, engineVars
  <2> QED
    BY <2>1
<1>2. CASE ReadPong \/ ReadControl
  <2>1. UNCHANGED <<reader, serving, last, channel>>
    BY <1>2 DEF ReadPong, ReadControl, engineVars
  <2> QED
    BY <2>1
<1>3. CASE ReadFails \/ TimeOut
  <2>1. serving = {} /\ UNCHANGED <<serving, last, channel>>
    BY <1>3 DEF ReadFails, TimeOut, Listening, CloseReader, engineVars
  <2> QED
    BY <2>1
<1>4. ASSUME NEW p \in Prompts, ReadPrompt(p)
      PROVE  ServeInv'
  <2>1. /\ reader' = "waiting" /\ UNCHANGED <<last, channel>>
        /\ serving' \in {serving, serving \cup {p}}
    BY <1>4 DEF ReadPrompt, Read, Listening, engineVars
  <2> QED
    BY <2>1
<1>5. ASSUME NEW p \in Prompts, Forward(p)
      PROVE  ServeInv'
  <2>1. /\ p \in serving /\ UNCHANGED <<reader, serving, last>>
        /\ \A q \in Prompts \ {p} : channel'[q] = channel[q]
    BY <1>5 DEF Forward, TypeOK
  <2> QED
    BY <2>1
<1>6. ASSUME NEW p \in Prompts, PromptOver(p)
      PROVE  ServeInv'
  <2>1. /\ last[p] \in Engine!Terminal /\ channel[p] = <<>>
        /\ serving' = serving \ {p} /\ UNCHANGED <<reader, last, channel>>
    BY <1>6 DEF PromptOver, engineVars
  <2> QED
    BY <2>1
<1>7. ASSUME NEW p \in Prompts, EngineStep(p)
      PROVE  ServeInv'
  <2>1. p \in serving /\ UNCHANGED <<reader, serving>>
    BY <1>7 DEF EngineStep
  <2>2. \A q \in Prompts \ {p} : channel'[q] = channel[q]
    BY <1>7 DEF EngineStep, TypeOK
  <2>3. \A q \in Prompts \ {p} : last'[q] = last[q]
    BY <1>7 DEF EngineStep, TypeOK, Engine!Step, Engine!Talk,
                Engine!Announce, Engine!Say, Engine!StartTool, Engine!Answer,
                Engine!EndMessage, Engine!Finish, Engine!Fail
  <2> QED
    BY <2>1, <2>2, <2>3
<1> QED
  BY <1>1, <1>2, <1>3, <1>4, <1>5, <1>6, <1>7 DEF Next, Reader

\* readPump closes ws.send only when no handleSendMessage can still send on
\* it, and leaves no engine blocked on a channel that nobody reads.
THEOREM ReaderClosesLast == Spec => []ClosedAfterPrompts
<1>1. Init => ServeInv
  BY DEF Init, Engine!Init, ServeInv
<1>2. ServeInv => ClosedAfterPrompts
  BY DEF ServeInv, ClosedAfterPrompts
<1> QED
  BY TypeCorrect, ServeStep, <1>1, <1>2, PTL DEF Spec

-----------------------------------------------------------------------------
(* What a timeout tells                                                    *)

LEMMA EndedStep == EndedInv /\ [Next]_vars => EndedInv'
<1> SUFFICES ASSUME EndedInv, [Next]_vars
             PROVE  EndedInv'
  OBVIOUS
<1> USE DEF EndedInv
<1>1. CASE Client
  BY <1>1 DEF Client, SendPrompt, SendOther, SendPong, Leave, Vanish, Arrive
<1>2. CASE Reader
  BY <1>2 DEF Reader, ReadPong, ReadControl, ReadPrompt, Forward, PromptOver,
              ReadFails, TimeOut, CloseReader
<1>3. CASE Writer
  BY <1>3 DEF Writer, WritePing, WriteMessage, WriteFails, SeeClosed,
              StopWriter
<1>4. CASE Tick \/ UNCHANGED vars \/ \E p \in Prompts : EngineStep(p)
  BY <1>4 DEF Tick, EngineStep, vars
<1> QED
  BY <1>1, <1>2, <1>3, <1>4 DEF Next

\* A pong is in the inbox after a frame came in if it was one or one was there.
LEMMA PongArrives ==
    ASSUME inbox \in Seq(Frames), NEW f \in Frames, inbox' = Append(inbox, f)
    PROVE  PongIn' <=> PongIn \/ f = "pong"
<1>1. /\ Len(inbox') = Len(inbox) + 1 /\ inbox'[Len(inbox) + 1] = f
      /\ \A i \in 1 .. Len(inbox) : inbox'[i] = inbox[i]
      /\ Len(inbox) \in Nat
  OBVIOUS
<1>2. ASSUME f = "pong"
      PROVE  PongIn'
  BY <1>1, <1>2 DEF PongIn
<1>3. ASSUME PongIn
      PROVE  PongIn'
  BY <1>1, <1>3 DEF PongIn
<1>4. ASSUME PongIn', f # "pong"
      PROVE  PongIn
  <2>1. PICK i \in 1 .. Len(inbox') : inbox'[i] = "pong"
    BY <1>4 DEF PongIn
  <2>2. i \in 1 .. Len(inbox)
    BY <1>1, <1>4, <2>1
  <2> QED
    BY <1>1, <2>1, <2>2 DEF PongIn
<1> QED
  BY <1>2, <1>3, <1>4

\* Taking another frame leaves the pongs where they are.
LEMMA PongStays ==
    ASSUME inbox \in Seq(Frames), inbox # <<>>, Head(inbox) # "pong",
           inbox' = Tail(inbox)
    PROVE  PongIn' <=> PongIn
<1>1. /\ Len(inbox') = Len(inbox) - 1 /\ Len(inbox) \in Nat \ {0}
      /\ \A i \in 1 .. Len(inbox') : inbox'[i] = inbox[i + 1]
      /\ inbox[1] # "pong"
  OBVIOUS
<1>2. ASSUME PongIn
      PROVE  PongIn'
  <2>1. PICK i \in 1 .. Len(inbox) : inbox[i] = "pong"
    BY <1>2 DEF PongIn
  <2>2. i - 1 \in 1 .. Len(inbox') /\ inbox'[i - 1] = inbox[(i - 1) + 1]
    BY <1>1, <2>1
  <2> QED
    BY <2>1, <2>2 DEF PongIn
<1>3. ASSUME PongIn'
      PROVE  PongIn
  <2>1. PICK i \in 1 .. Len(inbox') : inbox'[i] = "pong"
    BY <1>3 DEF PongIn
  <2>2. i + 1 \in 1 .. Len(inbox) /\ inbox'[i] = inbox[i + 1]
    BY <1>1, <2>1
  <2> QED
    BY <2>1, <2>2 DEF PongIn
<1> QED
  BY <1>2, <1>3

\* A frame that is no pong goes by.
LEMMA OtherFrame ==
    ASSUME inbox \in Seq(Frames), NEW f, f # "pong", Read(f)
    PROVE  PongIn' <=> PongIn
  BY PongStays DEF Read

\* The margin is kept by whatever keeps the pongs, the timers and the rest.
LEMMA MarginFrame ==
    ASSUME MarginInv, conn' = conn, punctual' = punctual, PongIn' <=> PongIn,
           UNCHANGED <<remaining, busy, pingDue, owesPong, pingIn>>
    PROVE  MarginInv'
  BY DEF MarginInv

LEMMA MarginClient == TypeOK /\ MarginInv /\ Client => MarginInv'
<1> SUFFICES ASSUME TypeOK, MarginInv, Client
             PROVE  MarginInv'
  OBVIOUS
<1>1. /\ remaining \in Nat /\ busy \in Nat /\ inbox \in Seq(Frames)
      /\ PongWait \in Nat /\ PingPeriod \in Nat
  BY ConstantsAssumption DEF TypeOK
<1>2. Idle => ~PongIn
  <2>1. Len(inbox) = 0 => ~PongIn
    BY DEF PongIn
  <2> QED
    BY <1>1, <2>1 DEF Idle
<1>3. ASSUME NEW f \in Frames, f # "pong", Arrive(f), conn' = conn,
             owesPong' = owesPong
      PROVE  MarginInv'
  <2>1. PongIn' <=> PongIn
    BY <1>1, <1>3, PongArrives DEF Arrive
  <2>2. UNCHANGED <<remaining, pingDue, pingIn, punctual>>
    BY <1>3 DEF Arrive, timerVars
  <2>3. PongIn => busy' = busy
    BY <1>2, <1>3 DEF Arrive
  <2> QED
    BY <1>3, <2>1, <2>2, <2>3 DEF MarginInv
<1>4. CASE \E p \in Prompts : SendPrompt(p)
  <2>1. PICK p \in Prompts : SendPrompt(p)
    BY <1>4
  <2>2. p \in Frames /\ p # "pong"
    BY ConstantsAssumption DEF Frames
  <2> QED
    BY <1>3, <2>1, <2>2 DEF SendPrompt
<1>5. CASE \E f \in {"control", "huge"} : SendOther(f)
  BY <1>3, <1>5 DEF SendOther, Frames, clientVars
<1>6. CASE SendPong
  <2>1. PongIn'
    BY <1>1, <1>6, PongArrives DEF SendPong, Arrive, Frames
  <2>2. /\ UNCHANGED <<remaining, pingDue, pingIn, punctual, conn>>
        /\ owesPong /\ busy' \in {0, busy} /\ (PongIn => busy' = busy)
    BY <1>2, <1>6 DEF SendPong, Arrive, timerVars
  <2>3. CASE PongIn
    BY <2>1, <2>2, <2>3 DEF MarginInv
  <2>4. CASE ~PongIn
    <3>1. conn = "open" /\ punctual => remaining >= PongWait - PingPeriod
      BY <2>2, <2>4 DEF MarginInv
    <3>2. busy' \in Nat
      BY <1>1, <2>2
    <3>3. \A b \in Nat : remaining >= PongWait - PingPeriod
                           => remaining + b >= PongWait - PingPeriod
      BY <1>1
    <3> QED
      BY <2>1, <2>2, <3>1, <3>2, <3>3 DEF MarginInv
  <2> QED
    BY <2>3, <2>4
<1>7. CASE Leave \/ Vanish
  BY <1>7 DEF Leave, Vanish, MarginInv
<1> QED
  BY <1>4, <1>5, <1>6, <1>7 DEF Client

LEMMA MarginReader == TypeOK /\ MarginInv /\ Reader => MarginInv'
<1> SUFFICES ASSUME TypeOK, MarginInv, Reader
             PROVE  MarginInv'
  OBVIOUS
<1>1. inbox \in Seq(Frames)
  BY DEF TypeOK
<1>2. CASE ReadPong
  <2>1. remaining' = PongWait /\ busy' = busy /\ pingIn' = pingIn
    BY <1>2 DEF ReadPong, Renew, clockVars
  <2>2. /\ PongWait \in Nat /\ PingPeriod \in 1 .. PongWait - 1
        /\ busy \in Nat /\ pingIn \in 1 .. PingPeriod
    BY ConstantsAssumption DEF TypeOK
  <2>3. /\ remaining' + busy' >= PongWait - PingPeriod
        /\ remaining' >= PongWait - PingPeriod
        /\ remaining' >= pingIn' + (PongWait - PingPeriod)
    BY <2>1, <2>2
  <2> QED
    BY <2>3 DEF MarginInv
<1>3. CASE ReadControl
  BY <1>1, <1>3, OtherFrame, MarginFrame
     DEF ReadControl, clientVars, timerVars, clockVars
<1>4. ASSUME NEW p \in Prompts, ReadPrompt(p)
      PROVE  MarginInv'
  <2>1. p # "pong"
    BY ConstantsAssumption
  <2>2. PongIn' <=> PongIn
    BY <1>1, <1>4, <2>1, OtherFrame DEF ReadPrompt
  <2> QED
    BY <1>4, <2>2, MarginFrame DEF ReadPrompt, clientVars, timerVars, clockVars
<1>5. ASSUME NEW p \in Prompts, Forward(p) \/ PromptOver(p)
      PROVE  MarginInv'
  <2>1. PongIn' <=> PongIn
    BY <1>5 DEF Forward, PromptOver, readVars, PongIn
  <2> QED
    BY <1>5, <2>1, MarginFrame
       DEF Forward, PromptOver, clientVars, timerVars, clockVars
<1>6. CASE ReadFails \/ TimeOut
  BY <1>6 DEF ReadFails, TimeOut, CloseReader, MarginInv
<1> QED
  BY <1>2, <1>3, <1>4, <1>5, <1>6 DEF Reader

LEMMA MarginWriter == TypeOK /\ MarginInv /\ Writer => MarginInv'
<1> SUFFICES ASSUME TypeOK, MarginInv, Writer
             PROVE  MarginInv'
  OBVIOUS
<1>1. CASE WritePing
  <2>1. /\ PongIn' <=> PongIn
        /\ UNCHANGED <<remaining, busy, pingIn, punctual, conn>>
    BY <1>1 DEF WritePing, readVars, clockVars, PongIn
  <2>2. pingDue /\ (conn = "open" => owesPong')
    BY <1>1 DEF WritePing
  <2> QED
    BY <2>1, <2>2 DEF MarginInv
<1>2. CASE WriteMessage
  <2>1. PongIn' <=> PongIn
    BY <1>2 DEF WriteMessage, readVars, PongIn
  <2> QED
    BY <1>2, <2>1, MarginFrame
       DEF WriteMessage, clientVars, timerVars, clockVars
<1>3. CASE WriteFails \/ SeeClosed
  BY <1>3 DEF WriteFails, SeeClosed, StopWriter, MarginInv
<1> QED
  BY <1>1, <1>2, <1>3 DEF Writer

\* Time passes: nobody on time lets a ping or an owed pong lie over a tick.
LEMMA MarginTick == TypeOK /\ EndedInv /\ MarginInv /\ Tick => MarginInv'
<1> SUFFICES ASSUME TypeOK, EndedInv, MarginInv, Tick,
                    conn' = "open", punctual'
             PROVE  IF PongIn' THEN remaining' + busy' >= PongWait - PingPeriod
                    ELSE IF pingDue' \/ owesPong'
                         THEN remaining' >= PongWait - PingPeriod
                         ELSE remaining' >= pingIn' + (PongWait - PingPeriod)
  BY DEF MarginInv
<1>1. /\ conn = "open" /\ punctual /\ writer = "running"
      /\ ~pingDue /\ ~owesPong
  BY DEF Tick, Pending, EndedInv, TypeOK
<1>2. /\ PongIn' <=> PongIn
      /\ owesPong' = owesPong
      /\ remaining' = IF remaining = 0 THEN 0 ELSE remaining - 1
      /\ pingIn' = IF pingIn = 1 THEN PingPeriod ELSE pingIn - 1
      /\ pingDue' = (pingDue \/ pingIn = 1)
      /\ ~Idle => busy' = IF busy < PongWait THEN busy + 1 ELSE busy
  BY <1>1 DEF Tick, CountDown, readVars, clientVars, PongIn
<1>3. /\ PongWait \in Nat /\ PingPeriod \in 1 .. PongWait - 1
      /\ remaining \in 0 .. PongWait /\ busy \in 0 .. PongWait
      /\ pingIn \in 1 .. PingPeriod
  BY ConstantsAssumption DEF TypeOK
<1>4. CASE PongIn
  <2>1. remaining + busy >= PongWait - PingPeriod
    BY <1>1, <1>4 DEF MarginInv
  <2>2. ~Idle
    <3>1. Len(inbox) # 0
      BY <1>4 DEF PongIn
    <3> QED
      BY <3>1 DEF Idle
  <2>3. /\ remaining' = IF remaining = 0 THEN 0 ELSE remaining - 1
        /\ busy' = IF busy < PongWait THEN busy + 1 ELSE busy
    BY <1>2, <2>2
  <2>4. remaining' + busy' >= PongWait - PingPeriod
    BY <1>3, <2>1, <2>3
  <2> QED
    BY <1>2, <1>4, <2>4
<1>5. CASE ~PongIn
  <2>1. remaining >= pingIn + (PongWait - PingPeriod)
    BY <1>1, <1>5 DEF MarginInv
  <2>2. CASE pingIn = 1
    <3>1. remaining' >= PongWait - PingPeriod
      BY <1>2, <1>3, <2>1, <2>2
    <3> QED
      BY <1>2, <1>5, <2>2, <3>1
  <2>3. CASE pingIn # 1
    <3>1. remaining' >= pingIn' + (PongWait - PingPeriod)
      BY <1>2, <1>3, <2>1, <2>3
    <3>2. ~pingDue' /\ ~owesPong'
      BY <1>1, <1>2, <2>3
    <3> QED
      BY <1>2, <1>5, <3>1, <3>2
  <2> QED
    BY <2>2, <2>3
<1> QED
  BY <1>4, <1>5

\* Whatever pongWait and pingPeriod are, a client that answers its pings at
\* once is timed out only with its pong unread behind work that kept the
\* reader for at least their difference.
THEOREM TimeoutMeansLongWork == Spec => OnlyLongWorkTimesOut
<1>1. Init => MarginInv /\ EndedInv
  <2> SUFFICES ASSUME Init
               PROVE  MarginInv /\ EndedInv
    OBVIOUS
  <2>1. /\ remaining = PongWait /\ pingIn = PingPeriod /\ Len(inbox) = 0
        /\ ~pingDue /\ ~owesPong
    BY DEF Init
  <2>2. ~PongIn
    BY <2>1 DEF PongIn
  <2>3. remaining >= pingIn + (PongWait - PingPeriod)
    BY <2>1, ConstantsAssumption
  <2> QED
    BY <2>1, <2>2, <2>3 DEF Init, MarginInv, EndedInv
<1>2. TypeOK /\ EndedInv /\ MarginInv /\ [Next]_vars => MarginInv'
  <2> SUFFICES ASSUME TypeOK, EndedInv, MarginInv, [Next]_vars
               PROVE  MarginInv'
    OBVIOUS
  <2>1. CASE UNCHANGED vars \/ \E p \in Prompts : EngineStep(p)
    <3>1. PongIn' <=> PongIn
      BY <2>1 DEF EngineStep, vars, readVars, PongIn
    <3> QED
      BY <2>1, <3>1, MarginFrame
         DEF EngineStep, vars, clientVars, timerVars, clockVars
  <2> QED
    BY <2>1, MarginClient, MarginReader, MarginWriter, MarginTick DEF Next
<1>3. ASSUME TypeOK, MarginInv, TimeOut, conn = "open", punctual
      PROVE  ~Idle /\ busy >= PongWait - PingPeriod
  <2>1. /\ remaining = 0 /\ busy \in Nat /\ pingIn \in 1 .. PingPeriod
        /\ PongWait \in Nat /\ PingPeriod \in 1 .. PongWait - 1
    BY <1>3, ConstantsAssumption DEF TimeOut, TypeOK
  <2>2. /\ ~(remaining >= PongWait - PingPeriod)
        /\ ~(remaining >= pingIn + (PongWait - PingPeriod))
    BY <2>1
  <2>3. PongIn /\ remaining + busy >= PongWait - PingPeriod
    BY <1>3, <2>2 DEF MarginInv
  <2>4. Len(inbox) # 0
    BY <2>3 DEF PongIn
  <2> QED
    BY <2>1, <2>3, <2>4 DEF Idle
<1>4. TypeOK /\ MarginInv
         => [TimeOut /\ conn = "open" /\ punctual
                => ~Idle /\ busy >= PongWait - PingPeriod]_vars
  BY <1>3
<1> QED
  BY TypeCorrect, EndedStep, <1>1, <1>2, <1>4, PTL
     DEF Spec, OnlyLongWorkTimesOut
=============================================================================
