-------------------------- MODULE ClientStreamProofs ---------------------------
(***************************************************************************)
(* Proofs about ClientStream, for every capacity of the engine's channel   *)
(* and every number of events: the types, that the callback is given the   *)
(* engine's events in order and without a gap, and that a call of the SDK  *)
(* that returns no error has given a complete answer.                      *)
(***************************************************************************)
EXTENDS ClientStream, TLAPS, SequenceTheorems

USE DEF Engine!Silent, Engine!Chatter, Engine!Answers, Engine!Terminal,
        Engine!Kinds, Ended

-----------------------------------------------------------------------------
(* The inductive invariant, beside TypeOK and NilMeansComplete             *)

\* The log ends with the kind that sums it up, and begins after the handler
\* has accepted the prompt.
LogInv ==
    /\ last[Prompt] = "tool_start" => owed[Prompt] > 0
    /\ log = <<>> => last[Prompt] = Engine!Silent
    /\ log # <<>> => log[Len(log)] = last[Prompt]
    /\ handler = "loading" => log = <<>>

\* What the handler answers with, it answers when it returns, and to the call
\* it was made for.
AnswerInv ==
    /\ handler # "returned" => response = "none"
    /\ handler = "forwarding" => call = "ChatStream"
    /\ handler = "collecting" => call = "Chat"
    /\ response = "ended" => call = "ChatStream"
    /\ response = "result" => call = "Chat" /\ last[Prompt] = "done"

\* The channel holds the end of the log.
ChannelInv ==
    /\ Len(channel) <= Len(log)
    /\ \A i \in 1 .. Len(channel) : channel[i] = Len(log) - Len(channel) + i

\* While the client waits, the wire goes on where the callback is; while the
\* connection is up too, nothing is missing between the wire and the channel,
\* and the body ends when there is nothing more to say.
WireInv == client = "waiting" =>
    /\ \A i \in 1 .. Len(wire) : wire[i] = Len(delivered) + i
    /\ net = "up" /\ handler \in {"loading", "forwarding"} =>
          Len(delivered) + Len(wire) + Len(channel) = Len(log)
    /\ net = "up" /\ response = "ended" /\ ~unsent =>
          /\ last[Prompt] \in Engine!Terminal
          /\ Len(delivered) + Len(wire) = Len(log)

IInv == /\ TypeOK /\ LogInv /\ AnswerInv /\ ChannelInv /\ WireInv
        /\ DeliveredInOrder /\ NilMeansComplete

-----------------------------------------------------------------------------
(* Lemmas                                                                  *)

LEMMA InitInv == Init => IInv
<1> SUFFICES ASSUME Init PROVE IInv
  OBVIOUS
<1>1. last[Prompt] = "none" /\ owed[Prompt] = 0
  BY DEF Init, Engine!Init
<1>2. TypeOK
  <2>1. <<>> \in Seq(DOMAIN log) /\ <<>> \in Seq(Engine!Kinds) /\ Len(<<>>) = 0
    BY EmptySeq
  <2>2. Len(channel) <= Capacity
    BY <2>1, ClientAssumption DEF Init
  <2> QED
    BY <2>1, <2>2 DEF Init, Engine!Init, TypeOK
<1>3. LogInv /\ AnswerInv /\ DeliveredInOrder /\ NilMeansComplete
  BY <1>1 DEF Init, LogInv, AnswerInv, DeliveredInOrder, NilMeansComplete
<1>4. ChannelInv /\ WireInv
  BY <1>1 DEF Init, ChannelInv, WireInv
<1> QED
  BY <1>2, <1>3, <1>4 DEF IInv

\* A step of the engine says one thing, and after the end it says nothing.
LEMMA EngineMoves ==
    ASSUME TypeOK, LogInv, Engine!Step(Prompt)
    PROVE  /\ last' \in [{Prompt} -> Engine!Kinds \cup {Engine!Silent}]
           /\ owed' \in [{Prompt} -> Nat]
           /\ last'[Prompt] \in Engine!Kinds
           /\ last'[Prompt] = "tool_start" => owed'[Prompt] > 0
           /\ last[Prompt] \notin Engine!Terminal
<1>t. /\ last \in [{Prompt} -> Engine!Kinds \cup {Engine!Silent}]
      /\ owed \in [{Prompt} -> Nat]
      /\ last[Prompt] = "tool_start" => owed[Prompt] > 0
  BY DEF TypeOK, LogInv
<1>1. PICK kind \in Engine!Kinds : last' = [last EXCEPT ![Prompt] = kind]
  BY DEF Engine!Step, Engine!Talk, Engine!Announce, Engine!StartTool,
         Engine!Answer, Engine!EndMessage, Engine!Finish, Engine!Fail,
         Engine!Say
<1>2. last' \in [{Prompt} -> Engine!Kinds \cup {Engine!Silent}]
      /\ last'[Prompt] \in Engine!Kinds
  BY <1>1, <1>t
<1>3. /\ owed' \in [{Prompt} -> Nat]
      /\ last'[Prompt] = "tool_start" => owed'[Prompt] > 0
  <2>1. CASE Engine!StartTool(Prompt)
    BY <2>1, <1>t DEF Engine!StartTool, Engine!Say
  <2>2. CASE Engine!Announce(Prompt)
    BY <2>2, <1>t DEF Engine!Announce, Engine!Say
  <2>3. CASE Engine!Answer(Prompt)
    BY <2>3, <1>t DEF Engine!Answer, Engine!Say
  <2>4. CASE \/ Engine!Talk(Prompt) \/ Engine!EndMessage(Prompt)
             \/ Engine!Finish(Prompt) \/ Engine!Fail(Prompt)
    BY <2>4, <1>t DEF Engine!Talk, Engine!EndMessage, Engine!Finish,
                      Engine!Fail, Engine!Say
  <2> QED
    BY <2>1, <2>2, <2>3, <2>4 DEF Engine!Step
<1>4. last[Prompt] \notin Engine!Terminal
  BY DEF Engine!Step, Engine!Talk, Engine!Announce, Engine!StartTool,
         Engine!Answer, Engine!EndMessage, Engine!Finish, Engine!Fail,
         Engine!ModelSpeaks
<1> QED
  BY <1>2, <1>3, <1>4

-----------------------------------------------------------------------------
(* The engine says something                                               *)

LEMMA EngineStepInv == IInv /\ EngineStep => IInv'
<1> SUFFICES ASSUME IInv, EngineStep PROVE IInv'
  OBVIOUS
<1> USE DEF IInv
<1>t. /\ log \in Seq(Engine!Kinds) /\ channel \in Seq(1 .. Len(log))
      /\ wire \in Seq(1 .. Len(log)) /\ delivered \in Seq(1 .. Len(log))
      /\ DOMAIN log = 1 .. Len(log) /\ Len(log) \in Nat
      /\ Len(channel) \in Nat /\ Len(wire) \in Nat /\ Len(delivered) \in Nat
  BY DEF TypeOK
<1>1. /\ last' \in [{Prompt} -> Engine!Kinds \cup {Engine!Silent}]
      /\ owed' \in [{Prompt} -> Nat]
      /\ last'[Prompt] \in Engine!Kinds
      /\ last'[Prompt] = "tool_start" => owed'[Prompt] > 0
      /\ last[Prompt] \notin Engine!Terminal
  BY EngineMoves DEF EngineStep
<1>2. /\ log' \in Seq(Engine!Kinds) /\ log' # <<>>
      /\ Len(log') = Len(log) + 1
      /\ log'[Len(log')] = last'[Prompt]
      /\ \A i \in 1 .. Len(log) : log'[i] = log[i]
      /\ DOMAIN log' = 1 .. Len(log) + 1
  <2>1. log' = Append(log, last'[Prompt])
    BY DEF EngineStep
  <2>2. /\ log' \in Seq(Engine!Kinds) /\ log' # <<>>
        /\ Len(log') = Len(log) + 1
        /\ log'[Len(log) + 1] = last'[Prompt]
        /\ \A i \in 1 .. Len(log) : log'[i] = log[i]
    <3> HIDE DEF Engine!Kinds
    <3>1. log \in Seq(Engine!Kinds) /\ last'[Prompt] \in Engine!Kinds
      BY <1>1, <1>t
    <3> QED
      BY <2>1, <3>1, AppendProperties
  <2>3. DOMAIN log' = 1 .. Len(log')
    BY <2>2, LenProperties
  <2> QED
    BY <2>2, <2>3
<1>3. /\ channel' \in Seq(1 .. Len(log'))
      /\ Len(channel') = Len(channel) + 1
      /\ channel'[Len(channel')] = Len(log')
      /\ \A i \in 1 .. Len(channel) : channel'[i] = channel[i]
  <2>1. channel' = Append(channel, Len(log')) /\ Len(log') \in 1 .. Len(log')
    BY <1>2, <1>t DEF EngineStep
  <2>2. channel \in Seq(1 .. Len(log'))
    BY <1>2, <1>t, SeqMonotonic
  <2> QED
    BY <2>1, <2>2, AppendProperties
<1>4. wire \in Seq(1 .. Len(log')) /\ delivered \in Seq(1 .. Len(log'))
  BY <1>2, <1>t, SeqMonotonic
<1>u. UNCHANGED <<call, handler, response, unsent, net, wire, client, delivered>>
  BY DEF EngineStep, clientVars
<1>5. TypeOK'
  <2>1. DOMAIN log' = 1 .. Len(log')
    BY <1>2
  <2>2. Len(channel') <= Capacity
    BY <1>3, <1>t, ClientAssumption DEF EngineStep
  <2> QED
    BY <1>1, <1>2, <1>3, <1>4, <1>u, <2>1, <2>2 DEF TypeOK
<1>6. LogInv'
  BY <1>1, <1>2, <1>u DEF LogInv, EngineStep
<1>7. AnswerInv'
  BY <1>1, <1>u DEF AnswerInv
<1>8. ChannelInv'
  <2>1. Len(channel') <= Len(log')
    BY <1>2, <1>3, <1>t DEF ChannelInv
  <2>2. ASSUME NEW i \in 1 .. Len(channel')
        PROVE  channel'[i] = Len(log') - Len(channel') + i
    <3>1. CASE i = Len(channel')
      BY <3>1, <1>2, <1>3, <1>t
    <3>2. CASE i \in 1 .. Len(channel)
      BY <3>2, <1>2, <1>3, <1>t DEF ChannelInv
    <3> QED
      BY <3>1, <3>2, <1>3, <1>t
  <2> QED
    BY <2>1, <2>2 DEF ChannelInv
<1>9. WireInv'
  <2> SUFFICES ASSUME client = "waiting" PROVE WireInv'
    BY <1>u DEF WireInv
  <2>1. \A i \in 1 .. Len(wire') : wire'[i] = Len(delivered') + i
    BY <1>u DEF WireInv
  <2>2. net = "up" /\ handler \in {"loading", "forwarding"} =>
           Len(delivered') + Len(wire') + Len(channel') = Len(log')
    <3>1. Len(log') = Len(log) + 1 /\ Len(channel') = Len(channel) + 1
      BY <1>2, <1>3
    <3>2. Len(wire') = Len(wire) /\ Len(delivered') = Len(delivered)
      BY <1>u
    <3>3. net = "up" /\ handler \in {"loading", "forwarding"} =>
             Len(delivered) + Len(wire) + Len(channel) = Len(log)
      BY DEF WireInv
    <3>4. /\ Len(log) \in Nat /\ Len(channel) \in Nat
          /\ Len(wire) \in Nat /\ Len(delivered) \in Nat
      BY <1>t
    <3> QED
      BY <3>1, <3>2, <3>3, <3>4
  <2>3. ~(net = "up" /\ response = "ended" /\ ~unsent)
    BY <1>1 DEF WireInv
  <2> QED
    BY <2>1, <2>2, <2>3, <1>u DEF WireInv
<1>10. DeliveredInOrder'
  BY <1>u DEF DeliveredInOrder
<1>11. NilMeansComplete'
  <2>1. delivered # <<>> => Len(delivered) \in 1 .. Len(delivered)
    BY <1>t, EmptySeq
  <2>2. delivered # <<>> => delivered[Len(delivered)] \in 1 .. Len(log)
    BY <2>1, <1>t, ElementOfSeq
  <2> QED
    BY <1>1, <1>2, <1>u, <2>2 DEF NilMeansComplete
<1> QED
  BY <1>5, <1>6, <1>7, <1>8, <1>9, <1>10, <1>11

-----------------------------------------------------------------------------
(* The handler takes an event, or answers                                  *)

LEMMA TailFacts ==
    ASSUME NEW S, NEW q \in Seq(S), q # <<>>
    PROVE  /\ Tail(q) \in Seq(S) /\ Len(q) \in Nat \ {0}
           /\ Len(Tail(q)) = Len(q) - 1
           /\ \A i \in 1 .. Len(q) - 1 : Tail(q)[i] = q[i + 1]
           /\ Head(q) = q[1] /\ q[1] \in S
<1>1. Len(q) \in Nat \ {0}
  BY EmptySeq
<1>2. Head(q) = q[1] /\ q[1] \in S
  BY <1>1, ElementOfSeq
<1> QED
  BY <1>1, <1>2, HeadTailProperties

\* The channel stays the end of the log when its head is taken.
LEMMA ReceiveKeeps ==
    ASSUME TypeOK, ChannelInv, Receive, UNCHANGED log
    PROVE  /\ channel' \in Seq(DOMAIN log') /\ ChannelInv'
           /\ Len(channel') <= Capacity
           /\ Len(channel) = Len(channel') + 1 /\ Len(channel') \in Nat
           /\ Event = Len(log) - Len(channel) + 1
           /\ Event \in DOMAIN log
<1>1. /\ channel' \in Seq(DOMAIN log)
      /\ Len(channel) \in Nat \ {0} /\ Len(channel') = Len(channel) - 1
      /\ \A i \in 1 .. Len(channel) - 1 : channel'[i] = channel[i + 1]
      /\ Event = channel[1] /\ channel[1] \in DOMAIN log
  BY TailFacts DEF TypeOK, Receive, Event
<1>2. Len(log) \in Nat
  BY DEF TypeOK
<1>3. Len(channel') <= Capacity
  BY <1>1, ClientAssumption DEF TypeOK
<1>4. ChannelInv'
  <2>1. Len(channel') <= Len(log')
    BY <1>1, <1>2 DEF ChannelInv
  <2>2. ASSUME NEW i \in 1 .. Len(channel')
        PROVE  channel'[i] = Len(log') - Len(channel') + i
    <3>1. i \in 1 .. Len(channel) - 1 /\ i + 1 \in 1 .. Len(channel)
      BY <1>1
    <3>2. channel[i + 1] = Len(log) - Len(channel) + (i + 1)
      BY <3>1 DEF ChannelInv
    <3> QED
      BY <3>1, <3>2, <1>1, <1>2
  <2> QED
    BY <2>1, <2>2 DEF ChannelInv
<1>5. Event = Len(log) - Len(channel) + 1
  BY <1>1 DEF ChannelInv
<1> QED
  BY <1>1, <1>3, <1>4, <1>5

\* A handler that answers as it should keeps the rest.
LEMMA AnswerKeeps ==
    ASSUME IInv, UNCHANGED <<call, last, owed, log, net, wire, client, delivered>>,
           UNCHANGED channel \/ Receive,
           handler' \in {"loading", "forwarding", "collecting", "returned"},
           response' \in {"none", "refused", "ended", "result"},
           unsent' \in BOOLEAN, unsent => unsent', AnswerInv',
           handler' = "loading" => handler = "loading",
           handler' \in {"loading", "forwarding"} =>
               handler = "loading" /\ UNCHANGED channel,
           response' = "ended" /\ net = "up" /\ ~unsent' /\ client = "waiting" =>
               /\ last[Prompt] \in Engine!Terminal
               /\ Len(channel) = 0 /\ handler = "forwarding"
    PROVE  IInv'
<1>1. channel' \in Seq(DOMAIN log') /\ Len(channel') <= Capacity /\ ChannelInv'
  <2>1. CASE UNCHANGED channel
    BY <2>1 DEF IInv, TypeOK, ChannelInv
  <2>2. CASE Receive
    BY <2>2, ReceiveKeeps DEF IInv
  <2> QED
    BY <2>1, <2>2
<1>2. TypeOK'
  BY <1>1 DEF IInv, TypeOK
<1>3. LogInv' /\ DeliveredInOrder' /\ NilMeansComplete'
  BY DEF IInv, LogInv, DeliveredInOrder, NilMeansComplete
<1>4. WireInv'
  <2>1. /\ Len(delivered) \in Nat /\ Len(wire) \in Nat
    BY DEF IInv, TypeOK
  <2>2. CASE client = "waiting"
    <3>1. \A i \in 1 .. Len(wire) : wire[i] = Len(delivered) + i
      BY <2>2 DEF IInv, WireInv
    <3>2. net = "up" /\ handler' \in {"loading", "forwarding"} =>
             Len(delivered) + Len(wire) + Len(channel') = Len(log)
      BY <2>2 DEF IInv, WireInv
    <3>3. net = "up" /\ response' = "ended" /\ ~unsent' =>
             Len(delivered) + Len(wire) + Len(channel) = Len(log)
      BY <2>2 DEF IInv, WireInv
    <3>4. net = "up" /\ response' = "ended" /\ ~unsent' =>
             Len(delivered) + Len(wire) = Len(log)
      BY <2>1, <2>2, <3>3
    <3> QED
      BY <2>2, <3>1, <3>2, <3>4 DEF WireInv
  <2> QED
    BY <2>2 DEF WireInv
<1> QED
  BY <1>1, <1>2, <1>3, <1>4 DEF IInv

LEMMA WriteEventInv == IInv /\ WriteEvent => IInv'
<1> SUFFICES ASSUME IInv, WriteEvent PROVE IInv'
  OBVIOUS
<1>u. /\ UNCHANGED <<call, last, owed, log, handler, response, unsent, net,
                     client, delivered>>
      /\ handler = "forwarding" /\ Receive
      /\ wire' = IF net = "up" THEN Append(wire, Event) ELSE wire
  BY DEF WriteEvent, engineVars, clientVars
<1>t. /\ Len(log) \in Nat /\ Len(wire) \in Nat /\ Len(delivered) \in Nat
      /\ wire \in Seq(DOMAIN log) /\ Len(channel) \in Nat
  BY DEF IInv, TypeOK
<1>1. /\ channel' \in Seq(DOMAIN log') /\ ChannelInv'
      /\ Len(channel') <= Capacity
      /\ Len(channel) = Len(channel') + 1 /\ Len(channel') \in Nat
      /\ Event = Len(log) - Len(channel) + 1
      /\ Event \in DOMAIN log
  BY <1>u, ReceiveKeeps DEF IInv
<1>2. net = "up" => /\ wire' \in Seq(DOMAIN log)
                    /\ Len(wire') = Len(wire) + 1
                    /\ wire'[Len(wire) + 1] = Event
                    /\ \A i \in 1 .. Len(wire) : wire'[i] = wire[i]
  BY <1>1, <1>t, <1>u, AppendProperties
<1>3. wire' \in Seq(DOMAIN log')
  BY <1>2, <1>t, <1>u
<1>4. TypeOK'
  BY <1>1, <1>3, <1>u DEF IInv, TypeOK
<1>5. LogInv' /\ AnswerInv' /\ DeliveredInOrder' /\ NilMeansComplete'
  BY <1>u DEF IInv, LogInv, AnswerInv, DeliveredInOrder, NilMeansComplete
<1>6. WireInv'
  <2>1. CASE net = "up" /\ client = "waiting"
    <3>1. Len(delivered) + Len(wire) + Len(channel) = Len(log)
      BY <2>1, <1>u DEF IInv, WireInv
    <3>2. Len(delivered) + Len(wire') + Len(channel') = Len(log)
      <4>1. Len(wire') = Len(wire) + 1 /\ Len(channel) = Len(channel') + 1
        BY <2>1, <1>1, <1>2
      <4>2. /\ Len(log) \in Nat /\ Len(wire) \in Nat
            /\ Len(delivered) \in Nat /\ Len(channel') \in Nat
        BY <1>1, <1>t
      <4> QED
        BY <3>1, <4>1, <4>2
    <3>3. ASSUME NEW i \in 1 .. Len(wire')
          PROVE  wire'[i] = Len(delivered) + i
      <4>1. CASE i = Len(wire) + 1
        BY <4>1, <2>1, <3>1, <1>1, <1>2, <1>t
      <4>2. CASE i \in 1 .. Len(wire)
        BY <4>2, <2>1, <1>2 DEF IInv, WireInv
      <4> QED
        BY <4>1, <4>2, <2>1, <1>2, <1>t
    <3>4. response # "ended"
      BY <1>u DEF IInv, AnswerInv
    <3> QED
      BY <3>2, <3>3, <3>4, <1>u DEF WireInv
  <2>2. CASE net # "up" /\ client = "waiting"
    <3>1. \A i \in 1 .. Len(wire) : wire[i] = Len(delivered) + i
      BY <2>2 DEF IInv, WireInv
    <3> QED
      BY <3>1, <2>2, <1>u DEF WireInv
  <2>3. CASE client # "waiting"
    BY <2>3, <1>u DEF WireInv
  <2> QED
    BY <2>1, <2>2, <2>3
<1> QED
  BY <1>1, <1>4, <1>5, <1>6 DEF IInv

LEMMA HandlerInv == IInv /\ (Handler \/ SeeGone) => IInv'
<1> SUFFICES ASSUME IInv, Handler \/ SeeGone PROVE IInv'
  OBVIOUS
<1> USE DEF engineVars, clientVars, Return
<1>a. AnswerInv /\ handler # "returned" => response = "none"
  BY DEF AnswerInv
<1>b. AnswerInv /\ unsent \in BOOLEAN /\ response \in {"none", "refused", "ended", "result"}
  BY DEF IInv, TypeOK
<1>1. CASE Refuse
  <2>1. AnswerInv'
    BY <1>1, <1>b DEF Refuse, AnswerInv
  <2> QED
    BY <1>1, <1>b, <2>1, AnswerKeeps DEF Refuse
<1>2. CASE Accept
  <2>1. call \in {"ChatStream", "Chat"}
    BY DEF IInv, TypeOK
  <2>2. AnswerInv'
    BY <1>2, <1>b, <2>1 DEF Accept, AnswerInv
  <2>3. response' = "none"
    BY <1>2, <1>a, <1>b DEF Accept
  <2> QED
    BY <1>2, <1>b, <2>2, <2>3, AnswerKeeps DEF Accept
<1>3. CASE WriteEvent
  BY <1>3, WriteEventInv
<1>4. CASE WriteFails
  <2>1. AnswerInv'
    BY <1>4, <1>b DEF WriteFails, AnswerInv
  <2> QED
    BY <1>4, <1>b, <2>1, AnswerKeeps DEF WriteFails
<1>5. CASE EncodeFails
  <2>1. AnswerInv'
    BY <1>5, <1>b DEF EncodeFails, AnswerInv
  <2> QED
    BY <1>5, <1>b, <2>1, AnswerKeeps DEF EncodeFails
<1>6. CASE SeeChannelClosed
  <2>1. AnswerInv'
    BY <1>6, <1>b DEF SeeChannelClosed, AnswerInv
  <2>2. last[Prompt] \in Engine!Terminal /\ Len(channel) = 0
    BY <1>6, EmptySeq DEF SeeChannelClosed, ChannelClosed
  <2> QED
    BY <1>6, <1>b, <2>1, <2>2, AnswerKeeps DEF SeeChannelClosed
<1>7. CASE SeeBroken
  <2>1. AnswerInv'
    BY <1>7, <1>b DEF SeeBroken, AnswerInv
  <2> QED
    BY <1>7, <1>b, <2>1, AnswerKeeps DEF SeeBroken
<1>8. CASE SeeGone
  <2>1. AnswerInv'
    BY <1>8, <1>b DEF SeeGone, AnswerInv
  <2> QED
    BY <1>8, <1>b, <2>1, AnswerKeeps DEF SeeGone
<1>9. CASE Collect
  <2>1. AnswerInv'
    BY <1>9, <1>b DEF Collect, AnswerInv
  <2>2. response' = "none"
    BY <1>9, <1>a, <1>b DEF Collect
  <2> QED
    BY <1>9, <1>b, <2>1, <2>2, AnswerKeeps DEF Collect
<1>10. CASE AnswerChat
  <2>1. AnswerInv'
    BY <1>10, <1>b DEF AnswerChat, AnswerInv
  <2> QED
    BY <1>10, <1>b, <2>1, AnswerKeeps DEF AnswerChat
<1> QED
  BY <1>1, <1>2, <1>3, <1>4, <1>5, <1>6, <1>7, <1>8, <1>9, <1>10 DEF Handler

-----------------------------------------------------------------------------
(* The connection and the client                                           *)

LEMMA BreakInv == IInv /\ Break => IInv'
<1> SUFFICES ASSUME IInv, Break PROVE IInv'
  OBVIOUS
<1>u. /\ UNCHANGED <<call, last, owed, log, channel, handler, response, unsent,
                     client, delivered>>
      /\ net' = "down"
  BY DEF Break, engineVars, serverVars, clientVars
<1>1. PICK n \in 0 .. Len(wire) : wire' = SubSeq(wire, 1, n)
  BY DEF Break
<1>2. /\ Len(wire) \in Nat /\ wire \in Seq(DOMAIN log)
      /\ \A i \in 1 .. n : wire[i] \in DOMAIN log
  <2>1. Len(wire) \in Nat /\ wire \in Seq(DOMAIN log)
    BY DEF IInv, TypeOK
  <2> QED
    BY <2>1, <1>1, ElementOfSeq
<1>3. /\ wire' \in Seq(DOMAIN log) /\ Len(wire') = n
      /\ \A i \in 1 .. n : wire'[i] = wire[i]
  BY <1>1, <1>2, SubSeqProperties
<1>4. TypeOK'
  BY <1>3, <1>u DEF IInv, TypeOK
<1>5. /\ LogInv' /\ AnswerInv' /\ ChannelInv' /\ DeliveredInOrder'
      /\ NilMeansComplete'
  BY <1>u DEF IInv, LogInv, AnswerInv, ChannelInv, DeliveredInOrder,
              NilMeansComplete
<1>6. WireInv'
  BY <1>1, <1>2, <1>3, <1>u DEF IInv, WireInv
<1> QED
  BY <1>4, <1>5, <1>6 DEF IInv

LEMMA DeliverInv == IInv /\ Deliver => IInv'
<1> SUFFICES ASSUME IInv, Deliver PROVE IInv'
  OBVIOUS
<1>u. /\ UNCHANGED <<call, last, owed, log, channel, handler, response, unsent,
                     net>>
      /\ client = "waiting" /\ client' \in {"waiting", "stopped"}
      /\ delivered' = Append(delivered, Head(wire))
      /\ wire' = Tail(wire) /\ wire # <<>>
  BY DEF Deliver, engineVars, serverVars
<1>t. /\ wire \in Seq(DOMAIN log) /\ delivered \in Seq(DOMAIN log)
      /\ Len(delivered) \in Nat /\ Len(log) \in Nat /\ Len(channel) \in Nat
      /\ DOMAIN delivered = 1 .. Len(delivered)
  BY DEF IInv, TypeOK
<1>1. /\ wire' \in Seq(DOMAIN log)
      /\ Len(wire) \in Nat \ {0} /\ Len(wire') = Len(wire) - 1
      /\ \A i \in 1 .. Len(wire) - 1 : wire'[i] = wire[i + 1]
      /\ Head(wire) = wire[1] /\ wire[1] \in DOMAIN log
  BY <1>t, <1>u, TailFacts
<1>2. wire[1] = Len(delivered) + 1
  BY <1>1, <1>u DEF IInv, WireInv
<1>3. /\ delivered' \in Seq(DOMAIN log)
      /\ Len(delivered') = Len(delivered) + 1
      /\ delivered'[Len(delivered) + 1] = Len(delivered) + 1
      /\ \A i \in 1 .. Len(delivered) : delivered'[i] = delivered[i]
  BY <1>t, <1>1, <1>2, <1>u, AppendProperties
<1>4. TypeOK'
  BY <1>1, <1>3, <1>u DEF IInv, TypeOK
<1>5. LogInv' /\ AnswerInv' /\ ChannelInv' /\ NilMeansComplete'
  BY <1>u DEF IInv, LogInv, AnswerInv, ChannelInv, NilMeansComplete
<1>6. DeliveredInOrder'
  <2>1. DOMAIN delivered' = 1 .. Len(delivered) + 1
    BY <1>3, LenProperties
  <2>2. \A i \in 1 .. Len(delivered) : delivered[i] = i
    BY <1>t DEF IInv, DeliveredInOrder
  <2> QED
    BY <2>1, <2>2, <1>3, <1>t DEF DeliveredInOrder
<1>7. WireInv'
  <2>1. ASSUME NEW i \in 1 .. Len(wire')
        PROVE  wire'[i] = Len(delivered') + i
    <3>1. i \in 1 .. Len(wire) - 1 /\ i + 1 \in 1 .. Len(wire)
      BY <1>1
    <3>2. wire[i + 1] = Len(delivered) + (i + 1)
      BY <3>1, <1>u DEF IInv, WireInv
    <3> QED
      BY <3>1, <3>2, <1>1, <1>3, <1>t
  <2>2. Len(delivered') + Len(wire') = Len(delivered) + Len(wire)
    BY <1>1, <1>3, <1>t
  <2>3. net = "up" /\ handler \in {"loading", "forwarding"} =>
           Len(delivered) + Len(wire) + Len(channel) = Len(log)
    BY <1>u DEF IInv, WireInv
  <2>4. net = "up" /\ response = "ended" /\ ~unsent =>
           /\ last[Prompt] \in Engine!Terminal
           /\ Len(delivered) + Len(wire) = Len(log)
    BY <1>u DEF IInv, WireInv
  <2> QED
    BY <2>1, <2>2, <2>3, <2>4, <1>u DEF WireInv
<1> QED
  BY <1>4, <1>5, <1>6, <1>7 DEF IInv

LEMMA ReturnInv ==
    ASSUME IInv, NEW outcome \in Ended, ReturnWith(outcome),
           UNCHANGED wire \/ (wire # <<>> /\ wire' = Tail(wire)),
           outcome = "nil" =>
               /\ call = "ChatStream" /\ ~unsent =>
                     /\ delivered # <<>>
                     /\ log[delivered[Len(delivered)]] \in Engine!Terminal
               /\ call = "Chat" => last[Prompt] = "done"
    PROVE  IInv'
<1>u. /\ UNCHANGED <<call, last, owed, log, channel, handler, response, unsent,
                     net, delivered>>
      /\ client = "waiting" /\ client' = outcome
  BY DEF ReturnWith, engineVars, serverVars
<1>1. wire' \in Seq(DOMAIN log)
  <2>1. wire \in Seq(DOMAIN log)
    BY DEF IInv, TypeOK
  <2> QED
    BY <2>1, TailFacts
<1>2. TypeOK'
  BY <1>1, <1>u DEF IInv, TypeOK
<1>3. LogInv' /\ AnswerInv' /\ ChannelInv' /\ DeliveredInOrder'
  BY <1>u DEF IInv, LogInv, AnswerInv, ChannelInv, DeliveredInOrder
<1>4. WireInv' /\ NilMeansComplete'
  BY <1>u DEF WireInv, NilMeansComplete
<1> QED
  BY <1>2, <1>3, <1>4 DEF IInv

\* The body ends when everything has been said: the callback has the end.
LEMMA EndIsComplete ==
    ASSUME IInv, client = "waiting", wire = <<>>, net = "up",
           response = "ended", ~unsent
    PROVE  /\ delivered # <<>>
           /\ log[delivered[Len(delivered)]] \in Engine!Terminal
<1>1. /\ last[Prompt] \in Engine!Terminal
      /\ Len(delivered) + Len(wire) = Len(log)
  BY DEF IInv, WireInv
<1>2. Len(wire) = 0 /\ Len(delivered) \in Nat /\ Len(log) \in Nat
  BY EmptySeq DEF IInv, TypeOK
<1>3. log # <<>> /\ log[Len(log)] = last[Prompt]
  BY <1>1 DEF IInv, LogInv
<1>4. Len(log) # 0
  BY <1>3 DEF IInv, TypeOK
<1>5. Len(delivered) = Len(log)
  BY <1>1, <1>2
<1>6. delivered # <<>>
  BY <1>4, <1>5, EmptySeq
<1>7. delivered[Len(delivered)] = Len(delivered)
  BY <1>2, <1>4, <1>5 DEF IInv, TypeOK, DeliveredInOrder
<1> QED
  BY <1>1, <1>3, <1>5, <1>6, <1>7

LEMMA ClientInv == IInv /\ (Client \/ TimeOut) => IInv'
<1> SUFFICES ASSUME IInv, Client \/ TimeOut PROVE IInv'
  OBVIOUS
<1>1. CASE Deliver
  BY <1>1, DeliverInv
<1>2. CASE ScanFails
  BY <1>2, ReturnInv DEF ScanFails
<1>3. CASE SeeBreak
  BY <1>3, ReturnInv DEF SeeBreak
<1>4. CASE SeeEnd
  <2>1. client = "waiting" /\ call = "ChatStream"
    BY <1>4 DEF SeeEnd, ReturnWith, IInv, AnswerInv
  <2>2. ~unsent => /\ delivered # <<>>
                   /\ log[delivered[Len(delivered)]] \in Engine!Terminal
    BY <1>4, <2>1, EndIsComplete DEF SeeEnd
  <2> QED
    BY <1>4, <2>1, <2>2, ReturnInv DEF SeeEnd
<1>5. CASE SeeResponse
  <2>1. CASE response = "result"
    <3>1. call = "Chat" /\ last[Prompt] = "done"
      BY <2>1 DEF IInv, AnswerInv
    <3> QED
      BY <1>5, <2>1, <3>1, ReturnInv DEF SeeResponse
  <2>2. CASE response = "refused"
    BY <1>5, <2>2, ReturnInv DEF SeeResponse
  <2> QED
    BY <1>5, <2>1, <2>2 DEF SeeResponse
<1>6. CASE TimeOut
  BY <1>6, ReturnInv DEF TimeOut
<1> QED
  BY <1>1, <1>2, <1>3, <1>4, <1>5, <1>6 DEF Client

-----------------------------------------------------------------------------
(* The theorems                                                            *)

LEMMA StutterInv == IInv /\ UNCHANGED vars => IInv'
  BY DEF IInv, TypeOK, LogInv, AnswerInv, ChannelInv, WireInv,
         DeliveredInOrder, NilMeansComplete, vars, engineVars, serverVars,
         clientVars

LEMMA NextInv == IInv /\ [Next]_vars => IInv'
  BY EngineStepInv, HandlerInv, BreakInv, ClientInv, StutterInv DEF Next

LEMMA Invariance == Spec => []IInv
<1>1. Init => IInv
  BY InitInv
<1>2. IInv /\ [Next]_vars => IInv'
  BY NextInv
<1> QED
  BY <1>1, <1>2, PTL DEF Spec

\* The types, and the bound of the engine's channel.
THEOREM TypeCorrect == Spec => []TypeOK
<1>1. IInv => TypeOK
  BY DEF IInv
<1> QED
  BY <1>1, Invariance, PTL

\* The callback is given a prefix of what the engine said, wherever the
\* connection, an encoding or the scanner fails.
THEOREM DeliveryInOrder == Spec => []DeliveredInOrder
<1>1. IInv => DeliveredInOrder
  BY DEF IInv
<1> QED
  BY <1>1, Invariance, PTL

\* ChatStream and Chat return no error only for a complete answer, or where
\* an event could not be encoded.
THEOREM NilIsComplete == Spec => []NilMeansComplete
<1>1. IInv => NilMeansComplete
  BY DEF IInv
<1> QED
  BY <1>1, Invariance, PTL
=============================================================================
