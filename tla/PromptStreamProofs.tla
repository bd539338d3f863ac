-------------------------- MODULE PromptStreamProofs --------------------------
(***************************************************************************)
(* Proofs about PromptStream, for every set of prompts and sessions, every *)
(* capacity and every bound: the type invariant, that stored transcripts   *)
(* are whole turns, that the events follow the protocol, that the terminal *)
(* event is received last, that a cancelled stream asks the provider at    *)
(* most once more, and that prompts sent one after the other lose nothing. *)
(***************************************************************************)
EXTENDS PromptStream, TLAPS

USE DEF Protocol!Silent, Protocol!Chatter, Protocol!Answers,
        Protocol!Terminal, Protocol!Kinds, Kinds

-----------------------------------------------------------------------------
(* Type correctness                                                        *)

\* The initial state is typed.
LEMMA InitTyped == Init => TypeOK
  BY DEF Init, TypeOK, PcValues

\* What ReadDelta does to the substance of a reply keeps its type, and never
\* unsays anything.
LEMMA SubstanceUpdate ==
    ASSUME substance \in [Requests -> SUBSET {"said", "usage"}],
           NEW r \in Requests, ReadDelta(r)
    PROVE  /\ substance' \in [Requests -> SUBSET {"said", "usage"}]
           /\ \A q \in Requests :
                 "said" \in substance[q] => "said" \in substance'[q]
<1>1. CASE \E text \in {{}, {"said"}} :
              substance' = [substance EXCEPT ![r] = @ \cup text]
  BY <1>1
<1>2. CASE \E usage \in {{}, {"usage"}} :
              substance' = [substance EXCEPT
                              ![r] = (@ \ {"usage"}) \cup usage]
  BY <1>2
<1> QED
  BY <1>1, <1>2 DEF ReadDelta

\* Every step keeps the types.
LEMMA NextTyped == TypeOK /\ [Next]_vars => TypeOK'
<1> SUFFICES ASSUME TypeOK, [Next]_vars PROVE TypeOK'
  OBVIOUS
<1> USE ConstantsAssumption DEF TypeOK, PcValues, Goto, Emit, Save,
        AppendMessage, storeVars, replyVars, channelVars, consumerVars
<1>1. ASSUME NEW r \in Requests, LoadSession(r) PROVE TypeOK'
  BY <1>1 DEF LoadSession
<1>2. ASSUME NEW r \in Requests, Reject(r) PROVE TypeOK'
  BY <1>2 DEF Reject
<1>3. ASSUME NEW r \in Requests, SavePrompt(r) PROVE TypeOK'
  BY <1>3 DEF SavePrompt, UserMessage, Message
<1>4. ASSUME NEW r \in Requests, BeginTurn(r) PROVE TypeOK'
  BY <1>4 DEF BeginTurn
<1>5. ASSUME NEW r \in Requests, CallProvider(r) PROVE TypeOK'
  <2> USE <1>5 DEF CallProvider
  <2>1. lateTurns' \in [Requests -> Nat]
    OBVIOUS
  <2>2. CASE Goto(r, "failing") /\ UNCHANGED replyVars
    BY <2>1, <2>2
  <2>3. ASSUME NEW n \in 0 .. MaxEvents,
               Goto(r, "reading"),
               left' = [left EXCEPT ![r] = n],
               calls' = [calls EXCEPT ![r] = 0],
               answered' = [answered EXCEPT ![r] = 0],
               substance' = [substance EXCEPT ![r] = {}]
        PROVE  TypeOK'
    BY <2>1, <2>3
  <2> QED
    BY <2>2, <2>3
<1>6. ASSUME NEW r \in Requests, ReadDelta(r) PROVE TypeOK'
  <2> USE <1>6 DEF ReadDelta, NextEvent
  <2>1. left' \in [Requests -> Nat]
    OBVIOUS
  <2>2. PICK kind \in {"text_delta", "usage"} : Emit(r, kind)
    OBVIOUS
  <2>3. kind \in Kinds
    BY <2>2 DEF Kinds, Protocol!Kinds, Protocol!Chatter
  <2>4. channel' \in [Requests -> Seq(Kinds)]
    BY <2>2, <2>3
  <2>5. last' \in [Requests -> Kinds \cup {Protocol!Silent}]
    BY <2>2, <2>3
  <2>6. substance' \in [Requests -> SUBSET {"said", "usage"}]
    BY SubstanceUpdate
  <2> QED
    BY <2>1, <2>4, <2>5, <2>6
<1>7. ASSUME NEW r \in Requests, ReadToolCall(r) PROVE TypeOK'
  <2> USE <1>7 DEF ReadToolCall, NextEvent
  <2>1. left' \in [Requests -> Nat] /\ calls' \in [Requests -> Nat]
    OBVIOUS
  <2>2. channel' \in [Requests -> Seq(Kinds)]
    OBVIOUS
  <2>3. last' \in [Requests -> Kinds \cup {Protocol!Silent}]
    OBVIOUS
  <2>4. substance' \in [Requests -> SUBSET {"said", "usage"}]
    OBVIOUS
  <2> QED
    BY <2>1, <2>2, <2>3, <2>4
<1>8. ASSUME NEW r \in Requests, ReadStop(r) PROVE TypeOK'
  BY <1>8 DEF ReadStop, NextEvent
<1>9. ASSUME NEW r \in Requests, ReadError(r) PROVE TypeOK'
  BY <1>9 DEF ReadError, NextEvent
<1>10. ASSUME NEW r \in Requests, EndOfReply(r) PROVE TypeOK'
  <2> USE <1>10 DEF EndOfReply
  <2>1. AssistantMessage(r) \in Message
    BY DEF AssistantMessage, Message
  <2>2. CASE substance[r] # {}
    <3>1. sess' = [sess EXCEPT ![r] = Append(@, AssistantMessage(r))]
      BY <2>2
    <3>2. sess' \in [Requests -> Seq(Message)]
      BY <2>1, <3>1
    <3>3. pc' \in [Requests -> PcValues]
      OBVIOUS
    <3> QED
      BY <3>2, <3>3
  <2>3. CASE substance[r] = {}
    BY <2>3
  <2> QED
    BY <2>2, <2>3
<1>11. ASSUME NEW r \in Requests, SendMessageEnd(r) PROVE TypeOK'
  BY <1>11 DEF SendMessageEnd
<1>12. ASSUME NEW r \in Requests, SaveReply(r) PROVE TypeOK'
  <2>1. CASE Save(SessionOf[r], sess[r])
    BY <1>12, <2>1, SMTT(60) DEF SaveReply
  <2>2. CASE UNCHANGED storeVars
    BY <1>12, <2>2, SMTT(60) DEF SaveReply
  <2> QED
    BY <1>12, <2>1, <2>2 DEF SaveReply
<1>13. ASSUME NEW r \in Requests, SendDone(r) PROVE TypeOK'
  BY <1>13 DEF SendDone
<1>14. ASSUME NEW r \in Requests, StartTool(r) PROVE TypeOK'
  BY <1>14 DEF StartTool
<1>15. ASSUME NEW r \in Requests, AnswerTool(r) PROVE TypeOK'
  BY <1>15, SMTT(60) DEF AnswerTool, ToolMessage, Message
<1>16. ASSUME NEW r \in Requests, SaveTurn(r) PROVE TypeOK'
  <2> USE <1>16 DEF SaveTurn
  <2>1. CASE pc'[r] = "turn"
    <3>1. /\ Save(SessionOf[r], sess[r])
          /\ turn' = [turn EXCEPT ![r] = @ + 1]
          /\ Goto(r, "turn")
      BY <2>1
    <3> QED
      BY <3>1
  <2>2. CASE Goto(r, "failing") /\ UNCHANGED <<storeVars, turn>>
    BY <2>2
  <2> QED
    BY <2>1, <2>2
<1>17. ASSUME NEW r \in Requests, SendError(r) PROVE TypeOK'
  BY <1>17 DEF SendError
<1>18. ASSUME NEW r \in Requests, CloseChannel(r) PROVE TypeOK'
  BY <1>18 DEF CloseChannel
<1>19. ASSUME NEW r \in Requests, Receive(r) PROVE TypeOK'
  BY <1>19 DEF Receive, ReaderVarsOnly
<1>20. ASSUME NEW r \in Requests, FinishReading(r) PROVE TypeOK'
  BY <1>20 DEF FinishReading, ReaderVarsOnly
<1>21. ASSUME NEW r \in Requests, Disconnect(r) PROVE TypeOK'
  BY <1>21 DEF Disconnect, ReaderVarsOnly
<1>22. ASSUME NEW r \in Requests, Leave(r) PROVE TypeOK'
  BY <1>22 DEF Leave, ReaderVarsOnly
<1>23. ASSUME NEW r \in Requests, WriteFails(r) PROVE TypeOK'
  BY <1>23 DEF WriteFails, ReaderVarsOnly
<1>24. ASSUME NEW s \in Sessions, DeleteSession(s) PROVE TypeOK'
  BY <1>24 DEF DeleteSession
<1>25. CASE UNCHANGED vars
  BY <1>25 DEF vars
<1> QED
  BY <1>1, <1>2, <1>3, <1>4, <1>5, <1>6, <1>7, <1>8, <1>9, <1>10, <1>11,
     <1>12, <1>13, <1>14, <1>15, <1>16, <1>17, <1>18, <1>19, <1>20, <1>21,
     <1>22, <1>23, <1>24, <1>25 DEF Next, Call, Goroutine, Reader, Client

\* Every variable of the model keeps its type.
THEOREM TypeCorrect == Spec => []TypeOK
<1>1. Init => TypeOK
  BY InitTyped
<1>2. TypeOK /\ [Next]_vars => TypeOK'
  BY NextTyped
<1> QED
  BY <1>1, <1>2, PTL DEF Spec

-----------------------------------------------------------------------------
(* Stored transcripts consist of whole turns.  PairedToolCalls is not      *)
(* inductive: a Save stores the goroutine's copy, so the copy has to be    *)
(* whole wherever a Save can follow, and inside a turn it has to be whole  *)
(* up to an assistant message that lacks exactly the answers to come.      *)

\* The first m messages of t are whole turns.
PairedUpTo(t, m) ==
    /\ \A k \in 1 .. m : t[k].role = "assistant" =>
          \A j \in 1 .. t[k].n : k + j <= m /\ IsAnswerTo(t, k + j, k)
    /\ \A i \in 1 .. m : t[i].role = "tool" =>
          \E k \in 1 .. i - 1 : i - k <= t[k].n /\ IsAnswerTo(t, i, k)

\* Paired, by the length of the sequence instead of its domain.
LEMMA PairedIsUpToLength ==
    ASSUME NEW t \in Seq(Message)
    PROVE  Paired(t) <=> PairedUpTo(t, Len(t))
<1>1. ASSUME NEW k \in 1 .. Len(t), NEW j \in 1 .. t[k].n
      PROVE  (k + j \in DOMAIN t) <=> (k + j <= Len(t))
  BY DEF Message
<1> QED
  BY <1>1 DEF Paired, PairedUpTo

\* What follows a whole prefix does not disturb it.
LEMMA PairedUpToAppend ==
    ASSUME NEW t \in Seq(Message), NEW m \in Message,
           NEW p \in 0 .. Len(t), PairedUpTo(t, p)
    PROVE  PairedUpTo(Append(t, m), p)
<1> DEFINE u == Append(t, m)
<1>1. \A i \in 1 .. p : u[i] = t[i]
  OBVIOUS
<1>2. \A i \in 1..p : t[i] \in Message
  OBVIOUS
<1> HIDE DEF u
<1>3. ASSUME NEW k \in 1 .. p, u[k].role = "assistant", NEW j \in 1 .. u[k].n
      PROVE  k + j <= p /\ IsAnswerTo(u, k + j, k)
  <2>1. k + j <= p /\ IsAnswerTo(t, k+j, k)
    BY <1>1, <1>3 DEF PairedUpTo
  <2>2. k + j \in 1..p
    BY <1>1, <1>2, <2>1 DEF Message
  <2> QED
    BY <1>1, <2>1, <2>2 DEF IsAnswerTo
<1>4. ASSUME NEW i \in 1 .. p, u[i].role = "tool"
      PROVE  \E k \in 1 .. i - 1 : i - k <= u[k].n /\ IsAnswerTo(u, i, k)
  <2>1. PICK k \in 1 .. i - 1 : i - k <= t[k].n /\ IsAnswerTo(t, i, k)
    BY <1>1, <1>4 DEF PairedUpTo
  <2> QED
    BY <1>1, <2>1 DEF IsAnswerTo
<1> QED
  BY <1>3, <1>4 DEF PairedUpTo, u

\* A message without calls ends a transcript of whole turns.
LEMMA PairedAppendPlain ==
    ASSUME NEW t \in Seq(Message), NEW m \in Message, Paired(t),
           m.role # "tool", m.role = "assistant" => m.n = 0
    PROVE  Paired(Append(t, m))
<1> DEFINE u == Append(t, m)
<1>1. PairedUpTo(u, Len(t))
  BY PairedIsUpToLength, PairedUpToAppend
<1>2. u \in Seq(Message) /\ Len(u) = Len(t) + 1 /\ u[Len(t) + 1] = m
  OBVIOUS
<1> HIDE DEF u
<1>3. PairedUpTo(u, Len(u))
  BY <1>1, <1>2 DEF PairedUpTo
<1> QED
  BY <1>2, <1>3, PairedIsUpToLength DEF u

\* A turn is closed when the answers reach the end of the transcript.
LEMMA CloseTurn ==
    ASSUME NEW t \in Seq(Message), NEW k \in 1 .. Len(t),
           PairedUpTo(t, k - 1),
           t[k].role = "assistant", t[k].n = Len(t) - k,
           \A j \in 1 .. Len(t) - k : IsAnswerTo(t, k + j, k)
    PROVE  Paired(t)
<1>1. ASSUME NEW i \in k + 1 .. Len(t)
      PROVE  t[i].role = "tool" /\ i - k <= t[k].n /\ IsAnswerTo(t, i, k)
  <2>1. i - k \in 1 .. Len(t) - k /\ k + (i - k) = i
    OBVIOUS
  <2>2. IsAnswerTo(t, i, k)
    BY <2>1
  <2> QED
    BY <2>1, <2>2 DEF IsAnswerTo
<1>2. ASSUME NEW i \in 1 .. Len(t), t[i].role = "assistant",
             NEW j \in 1 .. t[i].n
      PROVE  i + j <= Len(t) /\ IsAnswerTo(t, i + j, i)
  <2>1. CASE i < k
    BY <1>2, <2>1 DEF PairedUpTo, Message
  <2>2. CASE i = k
    BY <1>2, <2>2
  <2>3. CASE i > k
    BY <1>1, <1>2, <2>3
  <2> QED
    BY <2>1, <2>2, <2>3
<1>3. ASSUME NEW i \in 1 .. Len(t), t[i].role = "tool"
      PROVE  \E q \in 1 .. i - 1 : i - q <= t[q].n /\ IsAnswerTo(t, i, q)
  <2>1. CASE i < k
    BY <1>3, <2>1 DEF PairedUpTo
  <2>2. CASE i > k
    BY <1>1, <2>2
  <2> QED
    BY <1>3, <2>1, <2>2
<1> QED
  BY <1>2, <1>3, PairedIsUpToLength DEF PairedUpTo

WholePcs == {"idle", "loaded", "turn", "request", "reading", "ending",
             "finalSave", "finishing"}

\* Inside a turn: the assistant message, and the answers given so far.
InTurn(r) ==
    LET k == Len(sess[r]) - answered[r] IN
    /\ k > 0
    /\ calls[r] > 0
    /\ sess[r][k] = AssistantMessage(r)
    /\ PairedUpTo(sess[r], k - 1)
    /\ \A j \in 1 .. answered[r] : sess[r][k + j] = ToolMessage(r, j)

TurnState(r) ==
    /\ answered[r] <= calls[r]
    /\ pc[r] = "reading" => /\ answered[r] = 0
                            /\ calls[r] > 0 => "said" \in substance[r]
    /\ pc[r] \in WholePcs => Paired(sess[r])
    /\ pc[r] \in {"tools", "executing"} => InTurn(r)
    /\ pc[r] = "executing" => answered[r] < calls[r]

TurnInv == (\A r \in Requests : TurnState(r)) /\ PairedToolCalls

\* TurnState speaks only of the goroutine's own variables.
LEMMA TurnStateFrame ==
    ASSUME NEW q \in Requests, TurnState(q), pc'[q] = pc[q],
           sess'[q] = sess[q], turn'[q] = turn[q], calls'[q] = calls[q],
           answered'[q] = answered[q], substance'[q] = substance[q]
    PROVE  TurnState(q)'
  BY DEF TurnState, InTurn, AssistantMessage, ToolMessage, IsAnswerTo,
     PairedUpTo, Paired

\* Every step keeps the copies whole, or whole up to the open turn.
LEMMA TurnInvStep == TypeOK /\ TurnInv /\ [Next]_vars => TurnInv'
<1> SUFFICES ASSUME TypeOK, TurnInv, [Next]_vars PROVE TurnInv'
  OBVIOUS
<1>0. TypeOK'
  BY NextTyped
<1> USE ConstantsAssumption DEF TypeOK, Goto, Emit, Save,
        AppendMessage, storeVars, replyVars, channelVars, consumerVars
<1>a. ASSUME NEW r \in Requests,
             pc' = [pc EXCEPT ![r] = pc'[r]],
             sess' = [sess EXCEPT ![r] = sess'[r]],
             turn' = [turn EXCEPT ![r] = turn'[r]],
             calls' = [calls EXCEPT ![r] = calls'[r]],
             answered' = [answered EXCEPT ![r] = answered'[r]],
             substance' = [substance EXCEPT ![r] = substance'[r]],
             TurnState(r)', PairedToolCalls'
      PROVE  TurnInv'
  <2>1. ASSUME NEW q \in Requests \ {r} PROVE TurnState(q)'
    BY <1>a, TurnStateFrame DEF TurnInv
  <2> QED
    BY <1>a, <2>1 DEF TurnInv
<1>s. ASSUME NEW r \in Requests, Save(SessionOf[r], sess'[r]), Paired(sess'[r])
      PROVE  PairedToolCalls'
  BY <1>s DEF TurnInv, PairedToolCalls
<1>u. ASSUME UNCHANGED storeVars PROVE PairedToolCalls'
  BY <1>u DEF TurnInv, PairedToolCalls
<1>1. ASSUME NEW r \in Requests, Reject(r) PROVE TurnInv'
  <2> USE <1>1 DEF Reject
  <2>1. TurnState(r)'
    BY DEF TurnInv, TurnState, WholePcs, InTurn, AssistantMessage, ToolMessage
  <2> QED
    BY <1>a, <1>u, <2>1
<1>2. ASSUME NEW r \in Requests, BeginTurn(r) PROVE TurnInv'
  <2> USE <1>2 DEF BeginTurn
  <2>1. TurnState(r)'
    <3>1. /\ pc'[r] \in {"request", "failing"}
          /\ Paired(sess[r]) /\ answered[r] <= calls[r]
      BY DEF TurnInv, TurnState, WholePcs
    <3> QED
      BY <3>1 DEF TurnState, WholePcs, Paired, IsAnswerTo
  <2> QED
    BY <1>a, <1>u, <2>1
<1>3. ASSUME NEW r \in Requests, CallProvider(r) PROVE TurnInv'
  <2> USE <1>3 DEF CallProvider
  <2>0. answered[r] <= calls[r] /\ Paired(sess[r])
    BY DEF TurnInv, TurnState, WholePcs
  <2>1. TurnState(r)'
    <3>1. CASE Goto(r, "failing") /\ UNCHANGED replyVars
      BY <2>0, <3>1 DEF TurnState, WholePcs
    <3>2. CASE pc'[r] = "reading"
      <4>1. calls'[r] = 0 /\ answered'[r] = 0
        BY <3>2
      <4> QED
        BY <2>0, <3>2, <4>1 DEF TurnState
    <3> QED
      BY <3>1, <3>2
  <2> QED
    BY <1>a, <1>u, <2>1
<1>4. ASSUME NEW r \in Requests, ReadDelta(r) PROVE TurnInv'
  <2> USE <1>4 DEF ReadDelta, NextEvent
  <2>1. TurnState(r)'
    <3>1. "said" \in substance[r] => "said" \in substance'[r]
      BY SubstanceUpdate
    <3>2. /\ pc[r] = "reading" /\ pc'[r] = "reading"
          /\ UNCHANGED <<sess, turn, calls, answered>>
      OBVIOUS
    <3> HIDE <1>4
    <3> QED
      BY <3>1, <3>2 DEF TurnInv, TurnState, WholePcs
  <2> QED
    BY <1>a, <1>u, <2>1
<1>5. ASSUME NEW r \in Requests, ReadToolCall(r) PROVE TurnInv'
  <2> USE <1>5 DEF ReadToolCall, NextEvent
  <2>1. TurnState(r)'
    <3>1. Paired(sess[r]) /\ answered[r] = 0
      BY DEF TurnInv, TurnState, WholePcs
    <3>2. answered'[r] = 0 /\ calls'[r] = calls[r] + 1 /\ "said" \in substance'[r]
      BY <3>1
    <3> QED
      BY <3>1, <3>2 DEF TurnState
  <2> QED
    BY <1>a, <1>u, <2>1
<1>6. ASSUME NEW r \in Requests, ReadStop(r) PROVE TurnInv'
  <2> USE <1>6 DEF ReadStop, NextEvent
  <2>1. TurnState(r)'
    BY DEF TurnInv, TurnState, WholePcs, InTurn, AssistantMessage, ToolMessage
  <2> QED
    BY <1>a, <1>u, <2>1
<1>7. ASSUME NEW r \in Requests, ReadError(r) PROVE TurnInv'
  <2> USE <1>7 DEF ReadError, NextEvent
  <2>1. TurnState(r)'
    BY DEF TurnInv, TurnState, WholePcs, InTurn, AssistantMessage, ToolMessage
  <2> QED
    BY <1>a, <1>u, <2>1
<1>8. ASSUME NEW r \in Requests, SendMessageEnd(r) PROVE TurnInv'
  <2> USE <1>8 DEF SendMessageEnd
  <2>1. TurnState(r)'
    BY DEF TurnInv, TurnState, WholePcs, InTurn, AssistantMessage, ToolMessage
  <2> QED
    BY <1>a, <1>u, <2>1
<1>9. ASSUME NEW r \in Requests, SendDone(r) PROVE TurnInv'
  <2> USE <1>9 DEF SendDone
  <2>1. TurnState(r)'
    BY DEF TurnInv, TurnState, WholePcs, InTurn, AssistantMessage, ToolMessage
  <2> QED
    BY <1>a, <1>u, <2>1
<1>10. ASSUME NEW r \in Requests, StartTool(r) PROVE TurnInv'
  <2> USE <1>10 DEF StartTool
  <2>1. TurnState(r)'
    BY DEF TurnInv, TurnState, WholePcs, InTurn, AssistantMessage, ToolMessage
  <2> QED
    BY <1>a, <1>u, <2>1
<1>11. ASSUME NEW r \in Requests, SendError(r) PROVE TurnInv'
  <2> USE <1>11 DEF SendError
  <2>1. TurnState(r)'
    BY DEF TurnInv, TurnState, WholePcs, InTurn, AssistantMessage, ToolMessage
  <2> QED
    BY <1>a, <1>u, <2>1
<1>12. ASSUME NEW r \in Requests, CloseChannel(r) PROVE TurnInv'
  <2> USE <1>12 DEF CloseChannel
  <2>1. TurnState(r)'
    BY DEF TurnInv, TurnState, WholePcs, InTurn, AssistantMessage, ToolMessage
  <2> QED
    BY <1>a, <1>u, <2>1
<1>13. ASSUME NEW r \in Requests, LoadSession(r) PROVE TurnInv'
  <2> USE <1>13 DEF LoadSession
  <2>1. sess'[r] = stored[SessionOf[r]] /\ Paired(sess'[r])
    BY DEF TurnInv, PairedToolCalls
  <2>2. TurnState(r)'
    BY <2>1 DEF TurnInv, TurnState
  <2> QED
    BY <1>a, <1>u, <2>2
<1>14. ASSUME NEW r \in Requests, SavePrompt(r) PROVE TurnInv'
  <2> USE <1>14 DEF SavePrompt
  <2>1. UserMessage(r) \in Message
    BY DEF UserMessage, Message
  <2>2. sess'[r] = Append(sess[r], UserMessage(r))
    OBVIOUS
  <2>3. Paired(sess'[r])
    BY <2>1, <2>2, PairedAppendPlain DEF TurnInv, TurnState, WholePcs,
       UserMessage
  <2>4. TurnState(r)'
    BY <2>3 DEF TurnInv, TurnState
  <2>5. PairedToolCalls'
    BY <1>s, <2>3
  <2> QED
    BY <1>a, <2>4, <2>5
<1>15. ASSUME NEW r \in Requests, EndOfReply(r) PROVE TurnInv'
  <2> USE <1>15 DEF EndOfReply
  <2>0. Paired(sess[r]) /\ answered[r] = 0 /\ (calls[r] > 0 => "said" \in substance[r])
    BY DEF TurnInv, TurnState, WholePcs
  <2> DEFINE m == AssistantMessage(r)
  <2>m. m \in Message /\ m.role = "assistant" /\ m.n = calls[r]
    BY DEF AssistantMessage, Message
  <2>n. m' = m
    BY DEF AssistantMessage
  <2> HIDE DEF m
  <2>1. CASE calls[r] > 0
    <3>1. sess'[r] = Append(sess[r], m) /\ pc'[r] = "tools"
      BY <2>0, <2>1 DEF m
    <3>2. Len(sess'[r]) = Len(sess[r]) + 1 /\ sess'[r][Len(sess[r]) + 1] = m
      BY <2>m, <3>1
    <3>3. PairedUpTo(sess'[r], Len(sess[r]))
      BY <2>0, <2>m, <3>1, PairedIsUpToLength, PairedUpToAppend
    <3>4. InTurn(r)'
      BY <2>0, <2>1, <2>n, <3>2, <3>3 DEF InTurn, m
    <3>5. TurnState(r)'
      BY <2>0, <2>1, <3>1, <3>4 DEF TurnState, WholePcs
    <3> QED
      BY <1>a, <1>u, <3>5
  <2>2. CASE calls[r] = 0
    <3>1. Paired(sess'[r])
      <4>1. CASE substance[r] # {}
        <5>1. sess'[r] = Append(sess[r], m) /\ sess[r] \in Seq(Message)
          BY <4>1 DEF m
        <5> QED
          BY <2>0, <2>2, <2>m, <5>1, PairedAppendPlain
      <4>2. CASE substance[r] = {}
        BY <2>0, <4>2
      <4> QED
        BY <4>1, <4>2
    <3>2. pc'[r] = "ending"
      BY <2>2
    <3>3. TurnState(r)'
      BY <2>0, <2>2, <3>1, <3>2 DEF TurnState
    <3> QED
      BY <1>a, <1>u, <3>3
  <2> QED
    BY <2>1, <2>2
<1>16. ASSUME NEW r \in Requests, SaveReply(r) PROVE TurnInv'
  <2> USE <1>16 DEF SaveReply
  <2>1. Paired(sess[r]) /\ sess'[r] = sess[r]
    BY DEF TurnInv, TurnState, WholePcs
  <2>2. TurnState(r)'
    BY <2>1 DEF TurnInv, TurnState
  <2>3. PairedToolCalls'
    BY <1>s, <1>u, <2>1
  <2> QED
    BY <1>a, <2>2, <2>3
<1>17. ASSUME NEW r \in Requests, AnswerTool(r) PROVE TurnInv'
  <2> USE <1>17 DEF AnswerTool
  <2> DEFINE m == ToolMessage(r, answered[r] + 1)
             k == Len(sess[r]) - answered[r]
  <2>0. InTurn(r) /\ answered[r] < calls[r]
    BY DEF TurnInv, TurnState
  <2>1. m \in Message
    BY DEF ToolMessage, Message
  <2>2. /\ sess'[r] = Append(sess[r], m)
        /\ answered'[r] = answered[r] + 1
        /\ calls'[r] = calls[r]
        /\ turn' = turn
        /\ pc'[r] = "tools"
    OBVIOUS
  <2>t. /\ sess[r] \in Seq(Message)
        /\ answered[r] \in Nat /\ calls[r] \in Nat /\ turn[r] \in Nat
    OBVIOUS
  <2>k. k \in 1 .. Len(sess[r])
    BY <2>0 DEF InTurn
  <2>i. /\ sess[r][k] = AssistantMessage(r)
        /\ PairedUpTo(sess[r], k - 1)
        /\ \A j \in 1 .. answered[r] : sess[r][k + j] = ToolMessage(r, j)
    BY <2>0 DEF InTurn
  <2> HIDE <1>17 DEF TypeOK, AnswerTool
  <2>n. k \in Nat /\ Len(sess[r]) \in Nat /\ k + answered[r] = Len(sess[r])
    BY <2>k, <2>t
  <2>3. Len(sess'[r]) - answered'[r] = k
    <3> HIDE DEF k, m
    <3>1. Len(sess'[r]) = Len(sess[r]) + 1
      BY <2>1, <2>2, <2>t
    <3>2. answered'[r] = answered[r] + 1 /\ answered[r] \in Nat
      BY <2>2, <2>t
    <3>3. \A l, a, n \in Nat : n + a = l => (l + 1) - (a + 1) = n
      OBVIOUS
    <3> QED
      BY <2>n, <3>1, <3>2, <3>3
  <2>4. sess'[r][k] = AssistantMessage(r)'
    <3>1. AssistantMessage(r)' = AssistantMessage(r)
      BY <2>2 DEF AssistantMessage
    <3> HIDE DEF k, m
    <3> QED
      BY <2>1, <2>2, <2>t, <2>k, <2>i, <3>1
  <2>5. PairedUpTo(sess'[r], k - 1)
    <3> HIDE DEF k, m
    <3>1. k - 1 \in 0 .. Len(sess[r])
      BY <2>k, <2>n
    <3> QED
      BY <2>1, <2>2, <2>t, <2>i, <3>1, PairedUpToAppend
  <2>6. ASSUME NEW j \in 1 .. answered'[r]
        PROVE  sess'[r][k + j] = ToolMessage(r, j)'
    <3>0. ToolMessage(r, j)' = ToolMessage(r, j)
      BY <2>2 DEF ToolMessage
    <3>3. answered[r] \in Nat /\ j \in 1 .. answered[r] + 1
      BY <2>2, <2>t
    <3>1. CASE j <= answered[r]
      <4> HIDE DEF k, m
      <4>1. sess[r][k + j] = ToolMessage(r, j)
        BY <2>i, <3>1, <3>3
      <4>2. k + j \in 1 .. Len(sess[r])
        BY <2>n, <3>1, <3>3
      <4> QED
        BY <2>1, <2>2, <2>t, <4>1, <4>2, <3>0
    <3>2. CASE j = answered[r] + 1
      <4>1. m = ToolMessage(r, j)
        BY <3>2
      <4> HIDE DEF k, m
      <4>2. k + j = Len(sess[r]) + 1
        BY <2>n, <2>t, <3>2
      <4> QED
        BY <2>1, <2>2, <2>t, <4>1, <4>2, <3>0
    <3>4. j <= answered[r] \/ j = answered[r] + 1
      BY <3>3
    <3> QED
      BY <3>1, <3>2, <3>4
  <2>7. InTurn(r)'
    <3>1. (Len(sess[r]) - answered[r])' = k
      BY <2>3
    <3>2. k > 0 /\ calls'[r] > 0
      BY <2>0, <2>2, <2>k, <2>n, <2>t
    <3> HIDE DEF k, m
    <3> QED
      BY <2>4, <2>5, <2>6, <3>1, <3>2 DEF InTurn
  <2>8. TurnState(r)'
    <3>1. answered'[r] <= calls'[r]
      BY <2>0, <2>2, <2>t
    <3> QED
      BY <2>2, <2>7, <3>1 DEF TurnState, WholePcs
  <2> QED
    <3> USE <1>17 DEF TypeOK, AnswerTool
    <3> QED
      BY <1>a, <1>u, <2>8
<1>18. ASSUME NEW r \in Requests, SaveTurn(r) PROVE TurnInv'
  <2> USE <1>18 DEF SaveTurn
  <2>0. InTurn(r) /\ answered[r] = calls[r]
    BY DEF TurnInv, TurnState
  <2>1. Paired(sess[r])
    <3> DEFINE k == Len(sess[r]) - answered[r]
    <3>0. k > 0 /\ PairedUpTo(sess[r], k - 1)
      BY <2>0 DEF InTurn
    <3>1. /\ k \in 1 .. Len(sess[r])
          /\ Len(sess[r]) - k = answered[r]
          /\ PairedUpTo(sess[r], k - 1)
      <4>1. Len(sess[r]) \in Nat /\ answered[r] \in Nat
        OBVIOUS
      <4> QED
        BY <3>0, <4>1
    <3>2. /\ sess[r][k].role = "assistant"
          /\ sess[r][k].req = r
          /\ sess[r][k].turn = turn[r]
          /\ sess[r][k].n = Len(sess[r]) - k
      BY <2>0 DEF InTurn, AssistantMessage
    <3>3. ASSUME NEW j \in 1 .. Len(sess[r]) - k
          PROVE  IsAnswerTo(sess[r], k + j, k)
      <4>1. sess[r][k + j] = ToolMessage(r, j)
        BY <2>0, <3>1, <3>3 DEF InTurn
      <4>2. (k + j) - k = j
        BY <3>1, <3>3
      <4> QED
        BY <3>2, <4>1, <4>2 DEF IsAnswerTo, ToolMessage
    <3> HIDE DEF k
    <3> QED
      BY <3>1, <3>2, <3>3, CloseTurn
  <2>2. CASE pc'[r] = "turn"
    <3>1. Save(SessionOf[r], sess[r]) /\ sess'[r] = sess[r]
      BY <2>2
    <3>2. TurnState(r)'
      BY <2>0, <2>1, <2>2, <3>1 DEF TurnState
    <3>3. PairedToolCalls'
      BY <1>s, <2>1, <3>1
    <3> QED
      BY <1>a, <3>2, <3>3
  <2>3. CASE Goto(r, "failing") /\ UNCHANGED <<storeVars, turn>>
    <3>1. TurnState(r)'
      BY <2>0, <2>3 DEF TurnState, WholePcs
    <3> QED
      BY <1>a, <1>u, <2>3, <3>1
  <2> QED
    BY <2>2, <2>3
<1>b. ASSUME UNCHANGED <<pc, sess, turn, replyVars>>, PairedToolCalls'
      PROVE  TurnInv'
  BY <1>b, TurnStateFrame DEF TurnInv
<1>19. ASSUME NEW r \in Requests, Reader(r) \/ Client(r) PROVE TurnInv'
  BY <1>19, <1>b, <1>u DEF Reader, Client, Receive, FinishReading,
       Disconnect, Leave, WriteFails, ReaderVarsOnly
<1>20. ASSUME NEW s \in Sessions, DeleteSession(s) PROVE TurnInv'
  <2>1. Paired(<<>>)
    BY DEF Paired
  <2>2. PairedToolCalls'
    BY <1>20, <2>1 DEF DeleteSession, TurnInv, PairedToolCalls
  <2> QED
    BY <1>20, <1>b, <2>2 DEF DeleteSession
<1>21. CASE UNCHANGED vars
  BY <1>21, <1>b, <1>u DEF vars
<1> QED
  BY <1>1, <1>2, <1>3, <1>4, <1>5, <1>6, <1>7, <1>8, <1>9, <1>10, <1>11, <1>12,
     <1>13, <1>14, <1>15, <1>16, <1>17, <1>18, <1>19, <1>20, <1>21
     DEF Next, Call, Goroutine

\* Empty transcripts are whole.
LEMMA InitTurn == Init => TurnInv
<1>1. Paired(<<>>)
  BY DEF Paired
<1> QED
  BY <1>1 DEF Init, TurnInv, TurnState, PairedToolCalls, WholePcs

\* No interleaving of prompts, deletions and failing Saves stores a
\* transcript with an unanswered tool call or a stray answer (streamLoop).
THEOREM PairedToolCallsHolds == Spec => []PairedToolCalls
<1>1. Init => TypeOK /\ TurnInv
  BY InitTyped, InitTurn
<1>2. TypeOK /\ TurnInv /\ [Next]_vars => TypeOK' /\ TurnInv'
  BY NextTyped, TurnInvStep
<1>3. TurnInv => PairedToolCalls
  BY DEF TurnInv
<1> QED
  BY <1>1, <1>2, <1>3, PTL DEF Spec

-----------------------------------------------------------------------------
(* What was sent last, for every place the goroutine can be in             *)

Owed(r) == calls[r] - answered[r]

LastState(r) ==
    /\ pc[r] \in {"idle", "loaded", "turn", "request", "reading", "ending",
                  "failing"} =>
            \/ last[r] \in Protocol!Chatter \cup {Protocol!Silent, "tool_use"}
            \/ last[r] \in Protocol!Answers /\ Owed(r) = 0
    /\ pc[r] \in {"idle", "loaded", "turn", "request", "ending"} =>
            Owed(r) = 0
    /\ pc[r] = "reading" => answered[r] = 0
    /\ pc[r] = "reading" /\ calls[r] > 0 =>
            last[r] \in Protocol!Chatter \cup {"tool_use"}
    /\ pc[r] = "tools" =>
            last[r] \in Protocol!Chatter \cup Protocol!Answers \cup {"tool_use"}
    /\ pc[r] = "executing" => last[r] = "tool_start"
    /\ pc[r] \in {"finalSave", "finishing"} => last[r] = "message_end"

LastInv == \A r \in Requests : LastState(r)

\* Before the first event nothing was sent and nothing is owed.
LEMMA InitLast == Init => LastInv
  BY DEF Init, LastInv, LastState, Owed

\* Every step keeps the place in the code and the last event in line.
LEMMA LastInvStep == TypeOK /\ LastInv /\ [Next]_vars => LastInv'
<1> SUFFICES ASSUME TypeOK, LastInv, [Next]_vars PROVE LastInv'
  OBVIOUS
<1> USE DEF TypeOK, Goto, Emit, storeVars, replyVars, channelVars,
        consumerVars
<1>a. ASSUME NEW r \in Requests,
             pc' = [pc EXCEPT ![r] = pc'[r]],
             last' = [last EXCEPT ![r] = last'[r]],
             calls' = [calls EXCEPT ![r] = calls'[r]],
             answered' = [answered EXCEPT ![r] = answered'[r]],
             LastState(r)'
      PROVE  LastInv'
  <2>1. ASSUME NEW q \in Requests \ {r} PROVE LastState(q)'
    <3>1. /\ pc'[q] = pc[q] /\ last'[q] = last[q]
          /\ calls'[q] = calls[q] /\ answered'[q] = answered[q]
      BY <1>a
    <3> QED
      BY <3>1 DEF LastInv, LastState, Owed
  <2> QED
    BY <1>a, <2>1 DEF LastInv
<1>1. ASSUME NEW r \in Requests, LoadSession(r) PROVE LastInv'
  <2> USE <1>1 DEF LoadSession
  <2>1. LastState(r)'
    BY DEF LastInv, LastState, Owed
  <2> QED
    BY <1>a, <2>1
<1>2. ASSUME NEW r \in Requests, Reject(r) PROVE LastInv'
  <2> USE <1>2 DEF Reject
  <2>1. LastState(r)'
    BY DEF LastInv, LastState, Owed
  <2> QED
    BY <1>a, <2>1
<1>3. ASSUME NEW r \in Requests, SavePrompt(r) PROVE LastInv'
  <2> USE <1>3 DEF SavePrompt
  <2>1. LastState(r)'
    BY DEF LastInv, LastState, Owed
  <2> QED
    BY <1>a, <2>1
<1>4. ASSUME NEW r \in Requests, BeginTurn(r) PROVE LastInv'
  <2> USE <1>4 DEF BeginTurn
  <2>1. LastState(r)'
    BY DEF LastInv, LastState, Owed
  <2> QED
    BY <1>a, <2>1
<1>5. ASSUME NEW r \in Requests, ReadDelta(r) PROVE LastInv'
  <2> USE <1>5 DEF ReadDelta, NextEvent
  <2>1. LastState(r)'
    BY DEF LastInv, LastState, Owed
  <2> QED
    BY <1>a, <2>1
<1>6. ASSUME NEW r \in Requests, ReadToolCall(r) PROVE LastInv'
  <2> USE <1>6 DEF ReadToolCall, NextEvent
  <2>1. LastState(r)'
    BY DEF LastInv, LastState, Owed
  <2> QED
    BY <1>a, <2>1
<1>7. ASSUME NEW r \in Requests, ReadStop(r) PROVE LastInv'
  <2> USE <1>7 DEF ReadStop, NextEvent
  <2>1. LastState(r)'
    BY DEF LastInv, LastState, Owed
  <2> QED
    BY <1>a, <2>1
<1>8. ASSUME NEW r \in Requests, ReadError(r) PROVE LastInv'
  <2> USE <1>8 DEF ReadError, NextEvent
  <2>1. LastState(r)'
    BY DEF LastInv, LastState, Owed
  <2> QED
    BY <1>a, <2>1
<1>9. ASSUME NEW r \in Requests, EndOfReply(r) PROVE LastInv'
  <2> USE <1>9 DEF EndOfReply
  <2>1. LastState(r)'
    BY DEF LastInv, LastState, Owed
  <2> QED
    BY <1>a, <2>1
<1>10. ASSUME NEW r \in Requests, SendMessageEnd(r) PROVE LastInv'
  <2> USE <1>10 DEF SendMessageEnd
  <2>1. LastState(r)'
    BY DEF LastInv, LastState, Owed
  <2> QED
    BY <1>a, <2>1
<1>11. ASSUME NEW r \in Requests, SaveReply(r) PROVE LastInv'
  <2> USE <1>11 DEF SaveReply
  <2>1. LastState(r)'
    BY DEF LastInv, LastState, Owed
  <2> QED
    BY <1>a, <2>1
<1>12. ASSUME NEW r \in Requests, SendDone(r) PROVE LastInv'
  <2> USE <1>12 DEF SendDone
  <2>1. LastState(r)'
    BY DEF LastInv, LastState, Owed
  <2> QED
    BY <1>a, <2>1
<1>13. ASSUME NEW r \in Requests, StartTool(r) PROVE LastInv'
  <2> USE <1>13 DEF StartTool
  <2>1. LastState(r)'
    BY DEF LastInv, LastState, Owed
  <2> QED
    BY <1>a, <2>1
<1>14. ASSUME NEW r \in Requests, AnswerTool(r) PROVE LastInv'
  <2> USE <1>14 DEF AnswerTool
  <2>1. LastState(r)'
    BY DEF LastInv, LastState, Owed
  <2> QED
    BY <1>a, <2>1
<1>15. ASSUME NEW r \in Requests, SaveTurn(r) PROVE LastInv'
  <2> USE <1>15 DEF SaveTurn
  <2>1. LastState(r)'
    BY DEF LastInv, LastState, Owed
  <2> QED
    BY <1>a, <2>1
<1>16. ASSUME NEW r \in Requests, SendError(r) PROVE LastInv'
  <2> USE <1>16 DEF SendError
  <2>1. LastState(r)'
    BY DEF LastInv, LastState, Owed
  <2> QED
    BY <1>a, <2>1
<1>17. ASSUME NEW r \in Requests, CloseChannel(r) PROVE LastInv'
  <2> USE <1>17 DEF CloseChannel
  <2>1. LastState(r)'
    BY DEF LastInv, LastState, Owed
  <2> QED
    BY <1>a, <2>1
<1>18. ASSUME NEW r \in Requests, CallProvider(r) PROVE LastInv'
  <2> USE <1>18 DEF CallProvider
  <2>1. CASE Goto(r, "failing") /\ UNCHANGED replyVars
    <3>1. LastState(r)'
      BY <2>1 DEF LastInv, LastState, Owed
    <3> QED
      BY <1>a, <2>1, <3>1
  <2>2. CASE pc'[r] = "reading"
    <3>1. calls'[r] = 0 /\ answered'[r] = 0
      BY <2>2
    <3>2. LastState(r)'
      BY <2>2, <3>1 DEF LastInv, LastState, Owed
    <3> QED
      BY <1>a, <2>2, <3>2
  <2> QED
    BY <2>1, <2>2
<1>19. ASSUME UNCHANGED <<pc, last, calls, answered>> PROVE LastInv'
  BY <1>19 DEF LastInv, LastState, Owed
<1>20. ASSUME NEW r \in Requests, Reader(r) \/ Client(r) PROVE LastInv'
  BY <1>19, <1>20 DEF Reader, Client, Receive, FinishReading, Disconnect,
       Leave, WriteFails, ReaderVarsOnly
<1>21. ASSUME NEW s \in Sessions, DeleteSession(s) PROVE LastInv'
  BY <1>19, <1>21 DEF DeleteSession
<1>22. CASE UNCHANGED vars
  BY <1>19, <1>22 DEF vars
<1> QED
  BY <1>1, <1>2, <1>3, <1>4, <1>5, <1>6, <1>7, <1>8, <1>9, <1>10, <1>11, <1>12,
     <1>13, <1>14, <1>15, <1>16, <1>17, <1>18, <1>20, <1>21, <1>22
     DEF Next, Call, Goroutine

\* The initial states map to initial states of the protocol.
LEMMA InitRefines == Init => Protocol!Init
  BY DEF Init, Protocol!Init

\* Every step maps to a protocol step or to a stutter.
LEMMA StepRefines ==
    TypeOK /\ LastInv /\ [Next]_vars => [Protocol!Next]_(Protocol!vars)
<1> SUFFICES ASSUME TypeOK, LastInv, [Next]_vars
             PROVE  Protocol!Next \/ UNCHANGED Protocol!vars
  OBVIOUS
<1> USE DEF TypeOK, Goto, Emit, storeVars, replyVars, channelVars,
        consumerVars
<1> DEFINE owed == [r \in Requests |-> calls[r] - answered[r]]
<1>a. ASSUME UNCHANGED <<last, calls, answered>>
      PROVE  UNCHANGED Protocol!vars
  BY <1>a DEF Protocol!vars
<1>b. ASSUME NEW r \in Requests, 
             answered' = answered,
             calls' = [calls EXCEPT ![r] = @ + 1]
      PROVE  owed' = [owed EXCEPT ![r] = @ + 1]
  <2>1. \A q \in Requests : calls'[q] - answered'[q] =
            IF q = r THEN calls[q] - answered[q] + 1
                     ELSE calls[q] - answered[q]
    BY <1>b
  <2> QED
    BY <2>1
<1>c. ASSUME NEW r \in Requests, 
             answered' = [answered EXCEPT ![r] = @ + 1],
             calls' = calls
      PROVE  owed' = [owed EXCEPT ![r] = @ - 1]
  <2>1. \A q \in Requests : calls'[q] - answered'[q] =
            IF q = r THEN calls[q] - answered[q] - 1
                     ELSE calls[q] - answered[q]
    BY <1>c
  <2> QED
    BY <2>1
<1>d. ASSUME calls' = calls, answered' = answered PROVE owed' = owed
  BY <1>d
<1>1. ASSUME NEW r \in Requests, CallProvider(r)
      PROVE  UNCHANGED Protocol!vars
  <2> USE <1>1 DEF CallProvider
  <2>1. calls[r] - answered[r] = 0
    BY DEF LastInv, LastState, Owed
  <2>2. calls'[r] - answered'[r] = 0
    BY <2>1
  <2>3. \A q \in Requests : calls'[q] - answered'[q] = calls[q] - answered[q]
    BY <2>1, <2>2
  <2> QED
    BY <2>3 DEF Protocol!vars
<1>2. ASSUME NEW r \in Requests, ReadDelta(r)
      PROVE  Protocol!Talk(r)
  BY <1>2, <1>d DEF ReadDelta, NextEvent, LastInv, LastState, Owed,
       Protocol!Talk, Protocol!Say, Protocol!ModelSpeaks
<1>3. ASSUME NEW r \in Requests, ReadToolCall(r)
      PROVE  Protocol!Announce(r)
  BY <1>3, <1>b DEF ReadToolCall, NextEvent, LastInv, LastState, Owed,
       Protocol!Announce, Protocol!Say, Protocol!ModelSpeaks
<1>4. ASSUME NEW r \in Requests, SendMessageEnd(r)
      PROVE  Protocol!EndMessage(r)
  BY <1>4, <1>d DEF SendMessageEnd, LastInv, LastState, Owed,
       Protocol!EndMessage, Protocol!Say, Protocol!ModelSpeaks
<1>5. ASSUME NEW r \in Requests, SendDone(r)
      PROVE  Protocol!Finish(r)
  BY <1>5, <1>d DEF SendDone, LastInv, LastState, Owed,
       Protocol!Finish, Protocol!Say
<1>6. ASSUME NEW r \in Requests, StartTool(r)
      PROVE  Protocol!StartTool(r)
  BY <1>6, <1>d DEF StartTool, LastInv, LastState, Owed,
       Protocol!StartTool, Protocol!Say
<1>7. ASSUME NEW r \in Requests, AnswerTool(r)
      PROVE  Protocol!Answer(r)
  BY <1>7, <1>c DEF AnswerTool, LastInv, LastState, Owed,
       Protocol!Answer, Protocol!Say
<1>8. ASSUME NEW r \in Requests, SendError(r)
      PROVE  Protocol!Fail(r)
  BY <1>8, <1>d DEF SendError, LastInv, LastState, Owed,
       Protocol!Fail, Protocol!Say, Protocol!ModelSpeaks
<1>9. ASSUME NEW r \in Requests,
            \/ Call(r) \/ Reader(r) \/ Client(r) \/ BeginTurn(r)
            \/ ReadStop(r) \/ ReadError(r) \/ EndOfReply(r) \/ SaveReply(r)
            \/ SaveTurn(r) \/ CloseChannel(r)
      PROVE  UNCHANGED Protocol!vars
  BY <1>9, <1>a DEF Call, LoadSession, Reject, SavePrompt, BeginTurn,
       ReadStop, ReadError, NextEvent, EndOfReply, SaveReply, SaveTurn,
       CloseChannel, Reader, Client, Receive, FinishReading, Disconnect,
       Leave, WriteFails, ReaderVarsOnly
<1>10. ASSUME NEW s \in Sessions, DeleteSession(s)
       PROVE  UNCHANGED Protocol!vars
  BY <1>10, <1>a DEF DeleteSession
<1>11. CASE UNCHANGED vars
  BY <1>11, <1>a DEF vars
<1> QED
  BY <1>1, <1>2, <1>3, <1>4, <1>5, <1>6, <1>7, <1>8, <1>9, <1>10, <1>11
     DEF Next, Goroutine, Protocol!Next, Protocol!Step

\* Every step of the code is a step of the event protocol or silent.
THEOREM StreamFollowsProtocol == Spec => FollowsProtocol
<1>1. Init => TypeOK /\ LastInv /\ Protocol!Init
  BY InitTyped, InitLast, InitRefines
<1>2. TypeOK /\ LastInv /\ [Next]_vars => TypeOK' /\ LastInv'
  BY NextTyped, LastInvStep
<1>3. TypeOK /\ LastInv /\ [Next]_vars => [Protocol!Next]_(Protocol!vars)
  BY StepRefines
<1> QED
  BY <1>1, <1>2, <1>3, PTL DEF Spec, FollowsProtocol, Protocol!Spec

-----------------------------------------------------------------------------
(* Provider calls after a cancellation                                     *)

LateState(r) ==
    /\ lateTurns[r] <= 1
    /\ lateTurns[r] > 0 => cancelled[r] /\ pc[r] # "request"
LateInv == \A r \in Requests : LateState(r)

\* Every step keeps the bound on late provider calls.
LEMMA LateInvStep == TypeOK /\ LateInv /\ [Next]_vars => LateInv'
<1> SUFFICES ASSUME TypeOK, LateInv, [Next]_vars PROVE LateInv'
  OBVIOUS
<1> USE DEF TypeOK, Goto, LateInv, LateState
<1>1. ASSUME NEW r \in Requests, CallProvider(r) PROVE LateInv'
  BY <1>1 DEF CallProvider
<1>2. ASSUME NEW r \in Requests,
             pc' = [pc EXCEPT ![r] = pc'[r]],
             pc'[r] = "request" => ~cancelled[r],
             UNCHANGED <<lateTurns, cancelled>>
      PROVE  LateInv'
  BY <1>2
<1>3. ASSUME NEW r \in Requests, Call(r) \/ (Goroutine(r) /\ ~CallProvider(r))
      PROVE  LateInv'
  <2>1. UNCHANGED <<lateTurns, cancelled>>
    BY <1>3 DEF Call, LoadSession, Reject, SavePrompt, Goroutine, BeginTurn,
         ReadDelta, ReadToolCall, ReadStop, ReadError, NextEvent, EndOfReply,
         SendMessageEnd, SaveReply, SendDone, StartTool, AnswerTool, SaveTurn,
         SendError, CloseChannel
  <2>2. /\ pc' = [pc EXCEPT ![r] = pc'[r]]
        /\ pc'[r] = "request" => ~cancelled[r]
    BY <1>3 DEF Call, LoadSession, Reject, SavePrompt, Goroutine, BeginTurn,
         ReadDelta, ReadToolCall, ReadStop, ReadError, NextEvent, EndOfReply,
         SendMessageEnd, SaveReply, SendDone, StartTool, AnswerTool, SaveTurn,
         SendError, CloseChannel
  <2> QED
    BY <1>2, <2>1, <2>2
<1>4. ASSUME NEW r \in Requests, Reader(r) \/ Client(r) PROVE LateInv'
  BY <1>4 DEF Reader, Client, Receive, FinishReading, Disconnect, Leave,
       WriteFails, ReaderVarsOnly
<1>5. ASSUME NEW s \in Sessions, DeleteSession(s) PROVE LateInv'
  BY <1>5 DEF DeleteSession
<1>6. CASE UNCHANGED vars
  BY <1>6 DEF vars
<1> QED
  BY <1>1, <1>3, <1>4, <1>5, <1>6 DEF Next

\* A cancelled stream asks the provider at most once more (stream.go:89).
THEOREM CancelEndsTurnsHolds == Spec => []CancelEndsTurns
<1>1. Init => TypeOK /\ LateInv
  BY InitTyped DEF Init, LateInv, LateState
<1>2. TypeOK /\ LateInv /\ [Next]_vars => TypeOK' /\ LateInv'
  BY NextTyped, LateInvStep
<1>3. LateInv => CancelEndsTurns
  BY DEF LateInv, LateState, CancelEndsTurns
<1> QED
  BY <1>1, <1>2, <1>3, PTL DEF Spec

-----------------------------------------------------------------------------
(* The terminal event is the last one in the channel, and is received last *)

HasTerminal(q) == \E i \in 1 .. Len(q) : q[i] \in Protocol!Terminal

ReadState(r) ==
    /\ pc[r] \notin {"returning", "closed"} =>
          /\ ~HasTerminal(channel[r])
          /\ outcome[r] = "none"
    /\ pc[r] \in {"returning", "closed"} => last[r] \in Protocol!Terminal
    /\ pc[r] \in {"returning", "closed"} /\ channel[r] # <<>> =>
          /\ channel[r][Len(channel[r])] = last[r]
          /\ \A i \in 1 .. Len(channel[r]) - 1 :
                 channel[r][i] \notin Protocol!Terminal
    /\ pc[r] \in {"returning", "closed"} /\ channel[r] = <<>>
          /\ consumer[r] # "gone" => outcome[r] = last[r]
    /\ consumer[r] \in {"answered", "failed"} =>
          pc[r] = "closed" /\ channel[r] = <<>>
    /\ consumer[r] = "answered" /\ r \in Collectors => outcome[r] # "error"

ReadInv == \A r \in Requests : ReadState(r)

\* What appending an element and dropping the first one do to a sequence.
LEMMA AppendFacts ==
    ASSUME NEW q \in Seq(Kinds), NEW x \in Kinds
    PROVE  /\ Append(q, x) # <<>>
           /\ Len(Append(q, x)) = Len(q) + 1
           /\ Append(q, x)[Len(q) + 1] = x
           /\ \A i \in 1 .. Len(q) : Append(q, x)[i] = q[i]
  OBVIOUS

LEMMA TailFacts ==
    ASSUME NEW S, NEW q \in Seq(S), q # <<>>
    PROVE  /\ Len(q) \in Nat \ {0}
           /\ Len(Tail(q)) = Len(q) - 1
           /\ \A i \in 1 .. Len(q) - 1 : Tail(q)[i] = q[i + 1]
           /\ Head(q) = q[1]
           /\ (Tail(q) = <<>>) <=> (Len(q) = 1)
<1>1. Len(q) \in Nat \ {0}
  OBVIOUS
<1>2. Tail(q) \in Seq(S) /\ Len(Tail(q)) = Len(q) - 1
  OBVIOUS
<1>3. /\ \A i \in 1 .. Len(q) - 1 : Tail(q)[i] = q[i + 1]
      /\ Head(q) = q[1]
  OBVIOUS
<1>4. ASSUME NEW s \in Seq(S) PROVE (s = <<>>) <=> (Len(s) = 0)
  OBVIOUS
<1>5. (Tail(q) = <<>>) <=> (Len(Tail(q)) = 0)
  BY <1>2, <1>4
<1> QED
  BY <1>1, <1>2, <1>3, <1>5

\* The channels start empty.
LEMMA InitRead == Init => ReadInv
  BY DEF Init, ReadInv, ReadState, HasTerminal

\* ReadState speaks only of one prompt's variables.
LEMMA ReadStateFrame ==
    ASSUME NEW q \in Requests, ReadState(q), pc'[q] = pc[q],
           channel'[q] = channel[q], last'[q] = last[q],
           consumer'[q] = consumer[q], outcome'[q] = outcome[q]
    PROVE  ReadState(q)'
  BY DEF ReadState, HasTerminal

\* Every step keeps the terminal event last, sent and received.
LEMMA ReadInvStep == TypeOK /\ ReadInv /\ [Next]_vars => ReadInv'
<1> SUFFICES ASSUME TypeOK, ReadInv, [Next]_vars PROVE ReadInv'
  OBVIOUS
<1> USE DEF TypeOK, Goto, storeVars, replyVars, channelVars, consumerVars
<1>a. ASSUME NEW r \in Requests,
             pc' = [pc EXCEPT ![r] = pc'[r]],
             channel' = [channel EXCEPT ![r] = channel'[r]],
             last' = [last EXCEPT ![r] = last'[r]],
             consumer' = [consumer EXCEPT ![r] = consumer'[r]],
             outcome' = [outcome EXCEPT ![r] = outcome'[r]],
             ReadState(r)'
      PROVE  ReadInv'
  <2>1. ASSUME NEW q \in Requests \ {r} PROVE ReadState(q)'
    BY <1>a, ReadStateFrame DEF ReadInv
  <2> QED
    BY <1>a, <2>1 DEF ReadInv
\* A step that leaves the channel alone and does not touch its ends.
<1>b. ASSUME NEW r \in Requests,
             pc' = [pc EXCEPT ![r] = pc'[r]],
             pc[r] \notin {"returning", "closed"},
             pc'[r] \notin {"returning", "closed"},
             UNCHANGED <<channel, last, outcome>>,
             \/ consumer' = consumer
             \/ consumer' = [consumer EXCEPT ![r] = "reading"]
      PROVE  ReadInv'
  <2>1. ReadState(r)'
    BY <1>b DEF ReadInv, ReadState, HasTerminal
  <2> QED
    BY <1>a, <1>b, <2>1
<1>c. ASSUME NEW r \in Requests, NEW kind \in Kinds,
             Emit(r, kind), UNCHANGED <<consumer, outcome>>,
             pc' = [pc EXCEPT ![r] = pc'[r]],
             pc[r] \notin {"returning", "closed"},
             IF kind \in Protocol!Terminal
             THEN pc'[r] = "returning"
             ELSE pc'[r] \notin {"returning", "closed"}
      PROVE  ReadInv'
  <2> DEFINE old == channel[r]
             new == channel'[r]
  <2>1. old \in Seq(Kinds) /\ new = Append(old, kind) /\ last'[r] = kind
    BY <1>c DEF Emit
  <2>2. /\ new # <<>> /\ Len(new) = Len(old) + 1 /\ new[Len(new)] = kind
        /\ \A i \in 1 .. Len(old) : new[i] = old[i]
    <3> HIDE DEF old, new
    <3>1. /\ Append(old, kind) # <<>>
          /\ Len(Append(old, kind)) = Len(old) + 1
          /\ Append(old, kind)[Len(old) + 1] = kind
          /\ \A i \in 1 .. Len(old) : Append(old, kind)[i] = old[i]
      BY <2>1, AppendFacts
    <3> QED
      BY <2>1, <3>1, Zenon
  <2>3. ~HasTerminal(old) /\ consumer[r] \notin {"answered", "failed"}
    BY <1>c DEF ReadInv, ReadState
  <2>4. Len(old) \in Nat
    BY <2>1
  <2>5. ReadState(r)'
    <3>1. CASE kind \in Protocol!Terminal
      <4>1. \A i \in 1 .. Len(new) - 1 : new[i] \notin Protocol!Terminal
        <5>1. Len(new) - 1 = Len(old)
          BY <2>2, <2>4
        <5> HIDE DEF new, old
        <5> QED
          BY <2>2, <2>3, <5>1 DEF HasTerminal
      <4> HIDE DEF new, old
      <4> QED
        BY <1>c, <2>1, <2>2, <2>3, <3>1, <4>1 DEF ReadState, new
    <3>2. CASE kind \notin Protocol!Terminal
      <4>1. ~HasTerminal(new)
        <5>1. ASSUME NEW i \in 1 .. Len(new)
              PROVE  new[i] \notin Protocol!Terminal
          <6>1. i \in 1 .. Len(old) \/ i = Len(new)
            BY <2>2, <2>4
          <6> QED
            BY <2>2, <2>3, <3>2, <6>1 DEF HasTerminal
        <5> QED
          BY <5>1 DEF HasTerminal
      <4>2. outcome'[r] = "none"
        BY <1>c DEF ReadInv, ReadState
      <4> HIDE DEF new, old
      <4> QED
        BY <1>c, <2>3, <3>2, <4>1, <4>2 DEF ReadState, new
    <3> QED
      BY <3>1, <3>2
  <2>6. channel' = [channel EXCEPT ![r] = channel'[r]]
    BY <1>c, <2>1 DEF Emit
  <2>7. last' = [last EXCEPT ![r] = last'[r]]
    BY <1>c, <2>1 DEF Emit
  <2>8. /\ consumer' = [consumer EXCEPT ![r] = consumer'[r]]
        /\ outcome' = [outcome EXCEPT ![r] = outcome'[r]]
    BY <1>c
  <2> HIDE DEF old, new, TypeOK
  <2> QED
    BY <1>a, <1>c, <2>5, <2>6, <2>7, <2>8
<1>1. ASSUME NEW r \in Requests, LoadSession(r) PROVE ReadInv'
  BY <1>1, <1>b DEF LoadSession
<1>2. ASSUME NEW r \in Requests, Reject(r) PROVE ReadInv'
  BY <1>2, <1>b DEF Reject
<1>3. ASSUME NEW r \in Requests, SavePrompt(r) PROVE ReadInv'
  BY <1>3, <1>b DEF SavePrompt
<1>4. ASSUME NEW r \in Requests, BeginTurn(r) PROVE ReadInv'
  BY <1>4, <1>b DEF BeginTurn
<1>5. ASSUME NEW r \in Requests, CallProvider(r) PROVE ReadInv'
  BY <1>5, <1>b DEF CallProvider
<1>6. ASSUME NEW r \in Requests, ReadStop(r) PROVE ReadInv'
  BY <1>6, <1>b DEF ReadStop, NextEvent
<1>7. ASSUME NEW r \in Requests, ReadError(r) PROVE ReadInv'
  BY <1>7, <1>b DEF ReadError, NextEvent
<1>8. ASSUME NEW r \in Requests, EndOfReply(r) PROVE ReadInv'
  BY <1>8, <1>b DEF EndOfReply
<1>9. ASSUME NEW r \in Requests, SaveReply(r) PROVE ReadInv'
  BY <1>9, <1>b DEF SaveReply
<1>10. ASSUME NEW r \in Requests, SaveTurn(r) PROVE ReadInv'
  BY <1>10, <1>b DEF SaveTurn
<1>11. ASSUME NEW r \in Requests, ReadDelta(r) PROVE ReadInv'
  BY <1>11, <1>c DEF ReadDelta, NextEvent
<1>12. ASSUME NEW r \in Requests, ReadToolCall(r) PROVE ReadInv'
  BY <1>12, <1>c DEF ReadToolCall, NextEvent
<1>13. ASSUME NEW r \in Requests, SendMessageEnd(r) PROVE ReadInv'
  BY <1>13, <1>c DEF SendMessageEnd
<1>14. ASSUME NEW r \in Requests, SendDone(r) PROVE ReadInv'
  BY <1>14, <1>c DEF SendDone
<1>15. ASSUME NEW r \in Requests, StartTool(r) PROVE ReadInv'
  BY <1>15, <1>c DEF StartTool
<1>16. ASSUME NEW r \in Requests, AnswerTool(r) PROVE ReadInv'
  BY <1>16, <1>c DEF AnswerTool
<1>17. ASSUME NEW r \in Requests, SendError(r) PROVE ReadInv'
  BY <1>17, <1>c DEF SendError
<1>18. ASSUME NEW r \in Requests, CloseChannel(r) PROVE ReadInv'
  <2>1. ReadState(r)'
    BY <1>18 DEF CloseChannel, ReadInv, ReadState
  <2> QED
    BY <1>a, <1>18, <2>1 DEF CloseChannel
<1>19. ASSUME NEW r \in Requests, Receive(r) PROVE ReadInv'
  <2> USE <1>19 DEF Receive, ReaderVarsOnly
  <2> DEFINE old == channel[r]
             new == channel'[r]
  <2>1. old \in Seq(Kinds) /\ old # <<>> /\ new = Tail(old)
    OBVIOUS
  <2>2. /\ Len(new) = Len(old) - 1 /\ Len(old) \in Nat \ {0}
        /\ \A i \in 1 .. Len(new) : new[i] = old[i + 1]
        /\ Head(old) = old[1]
    BY <2>1, TailFacts
  <2>e. (new = <<>>) <=> (Len(old) = 1)
    BY <2>1, TailFacts
  <2>3. outcome'[r] = IF old[1] \in Protocol!Terminal THEN old[1]
                                                    ELSE outcome[r]
    BY <2>2
  <2>4. /\ pc'[r] = pc[r] /\ last'[r] = last[r]
        /\ consumer'[r] = "reading"
    OBVIOUS
  <2>5. CASE pc[r] \notin {"returning", "closed"}
    <3>1. ~HasTerminal(old) /\ outcome[r] = "none"
      BY <2>5 DEF ReadInv, ReadState
    <3>2. old[1] \notin Protocol!Terminal /\ ~HasTerminal(new)
      BY <2>2, <3>1 DEF HasTerminal
    <3>3. ReadState(r)'
      BY <2>3, <2>4, <2>5, <3>1, <3>2 DEF ReadState
    <3> QED
      BY <1>a, <3>3
  <2>6. CASE pc[r] \in {"returning", "closed"}
    <3>1. /\ last[r] \in Protocol!Terminal
          /\ old[Len(old)] = last[r]
          /\ \A i \in 1 .. Len(old) - 1 : old[i] \notin Protocol!Terminal
      BY <2>1, <2>6 DEF ReadInv, ReadState
    <3>2. CASE Len(old) = 1
      <4>1. new = <<>> /\ outcome'[r] = last[r]
        BY <2>e, <2>3, <3>1, <3>2
      <4>2. ReadState(r)'
        BY <2>4, <2>6, <3>1, <4>1 DEF ReadState
      <4> QED
        BY <1>a, <4>2
    <3>3. CASE Len(old) # 1
      <4>1. new # <<>>
        BY <2>e, <3>3, Zenon
      <4>2. new[Len(new)] = last[r]
        BY <2>2, <3>1, <3>3
      <4>3. \A i \in 1 .. Len(new) - 1 : new[i] \notin Protocol!Terminal
        BY <2>2, <3>1
      <4>4. ReadState(r)'
        BY <2>4, <2>6, <3>1, <4>1, <4>2, <4>3 DEF ReadState
      <4> QED
        BY <1>a, <4>4
    <3> QED
      BY <2>2, <3>2, <3>3
  <2> QED
    BY <2>5, <2>6
<1>20. ASSUME NEW r \in Requests, FinishReading(r) PROVE ReadInv'
  <2> USE <1>20 DEF FinishReading, ReaderVarsOnly
  <2>1. ReadState(r)'
    BY DEF ReadInv, ReadState, HasTerminal
  <2> QED
    BY <1>a, <2>1
<1>21. ASSUME NEW r \in Requests, Disconnect(r) PROVE ReadInv'
  BY <1>21, ReadStateFrame DEF Disconnect, ReaderVarsOnly, ReadInv
<1>22. ASSUME NEW r \in Requests, Leave(r) PROVE ReadInv'
  <2> USE <1>22 DEF Leave, ReaderVarsOnly
  <2>1. ReadState(r)'
    BY DEF ReadInv, ReadState, HasTerminal
  <2> QED
    BY <1>a, <2>1
<1>23. ASSUME NEW r \in Requests, WriteFails(r) PROVE ReadInv'
  <2> USE <1>23 DEF WriteFails, ReaderVarsOnly
  <2> DEFINE old == channel[r]
             new == channel'[r]
  <2>1. old \in Seq(Kinds) /\ old # <<>> /\ new = Tail(old)
    OBVIOUS
  <2>2. /\ Len(new) = Len(old) - 1 /\ Len(old) \in Nat \ {0}
        /\ \A i \in 1 .. Len(new) : new[i] = old[i + 1]
    BY <2>1
  <2>3. /\ pc'[r] = pc[r] /\ last'[r] = last[r] /\ outcome'[r] = outcome[r]
        /\ consumer'[r] = "gone"
    OBVIOUS
  <2>4. ~HasTerminal(old) => ~HasTerminal(new)
    BY <2>2 DEF HasTerminal
  <2>5. /\ new # <<>> => new[Len(new)] = old[Len(old)]
        /\ \A i \in 1 .. Len(new) - 1 : i + 1 \in 1 .. Len(old) - 1
    BY <2>1, <2>2
  <2>6. ReadState(r)'
    <3> HIDE DEF old, new
    <3>1. ReadState(r)
      BY DEF ReadInv
    <3> QED
      BY <2>1, <2>2, <2>3, <2>4, <2>5, <3>1 DEF ReadState, old, new
  <2> QED
    BY <1>a, <2>6
<1>24. ASSUME NEW s \in Sessions, DeleteSession(s) PROVE ReadInv'
  BY <1>24, ReadStateFrame DEF DeleteSession, ReadInv
<1>25. CASE UNCHANGED vars
  BY <1>25, ReadStateFrame DEF vars, ReadInv
<1> QED
  BY <1>1, <1>2, <1>3, <1>4, <1>5, <1>6, <1>7, <1>8, <1>9, <1>10, <1>11,
     <1>12, <1>13, <1>14, <1>15, <1>16, <1>17, <1>18, <1>19, <1>20, <1>21,
     <1>22, <1>23, <1>24, <1>25
     DEF Next, Call, Goroutine, Reader, Client

\* Who reads the channel to its end has got the terminal event, and RunPrompt
\* answers only for a stream that was done (collectStreamResult).
THEOREM CompleteAnswerHolds == Spec => []CompleteAnswer
<1>1. Init => TypeOK /\ ReadInv
  BY InitTyped, InitRead
<1>2. TypeOK /\ ReadInv /\ [Next]_vars => TypeOK' /\ ReadInv'
  BY NextTyped, ReadInvStep
<1>3. TypeOK /\ ReadInv => CompleteAnswer
  BY DEF ReadInv, ReadState, CompleteAnswer
<1> QED
  BY <1>1, <1>2, <1>3, PTL DEF Spec
-----------------------------------------------------------------------------
(* Nothing stored is lost by prompts that are sent one after the other.    *)
(* AppendOnly is not about states: what makes a Save add to the store is   *)
(* that the copy it saves begins with what the store has, and that holds   *)
(* of a prompt's copy only while no other prompt of the session may save.  *)

\* At most one prompt of a session is on its way.
Alone == \A q, r \in Requests :
    SessionOf[q] = SessionOf[r] /\ Running(q) /\ Running(r) => q = r

\* Its copy begins with what the store has.
Ahead(r) == Running(r) => IsPrefix(stored[SessionOf[r]], sess[r])

AheadInv == Alone /\ \A r \in Requests : Ahead(r)

\* What this step does to the transcripts of the store.
Appends == \A s \in Sessions : IsPrefix(stored[s], stored'[s])

\* A sequence begins with itself.
LEMMA PrefixOfItself ==
    ASSUME NEW t \in Seq(Message)
    PROVE  IsPrefix(t, t)
<1>1. Len(t) \in Nat
  OBVIOUS
<1> QED
  BY <1>1 DEF IsPrefix

\* What a transcript begins with, it begins with when it has grown.
LEMMA PrefixOfLonger ==
    ASSUME NEW s \in Seq(Message), NEW t \in Seq(Message), NEW m \in Message,
           IsPrefix(s, t)
    PROVE  IsPrefix(s, Append(t, m))
<1> DEFINE u == Append(t, m)
<1>1. Len(s) \in Nat /\ Len(t) \in Nat /\ Len(s) <= Len(t)
  BY DEF IsPrefix
<1>2. Len(u) = Len(t) + 1 /\ \A i \in 1 .. Len(t) : u[i] = t[i]
  OBVIOUS
<1>3. SubSeq(u, 1, Len(s)) = SubSeq(t, 1, Len(s))
  <2>1. \A i \in 1 .. Len(s) : u[i] = t[i]
    BY <1>1, <1>2
  <2>2. u \in Seq(Message)
    OBVIOUS
  <2> HIDE DEF u
  <2> QED
    BY <1>1, <1>2, <2>1, <2>2
<1>4. Len(s) <= Len(u)
  BY <1>1, <1>2
<1> QED
  BY <1>3, <1>4 DEF IsPrefix

\* A step of a prompt on its way, whose copy still begins with what the store
\* has, and which stores nothing or that copy.
LEMMA StepAppends ==
    ASSUME TypeOK, TypeOK', AheadInv, NEW r \in Requests, Running(r),
           pc' = [pc EXCEPT ![r] = pc'[r]],
           sess' = [sess EXCEPT ![r] = sess'[r]],
           IsPrefix(stored[SessionOf[r]], sess'[r]),
           \/ stored' = stored
           \/ stored' = [stored EXCEPT ![SessionOf[r]] = sess'[r]]
    PROVE  AheadInv' /\ Appends
<1> USE ConstantsAssumption
<1>0. /\ pc \in [Requests -> PcValues] /\ sess \in [Requests -> Seq(Message)]
      /\ stored \in [Sessions -> Seq(Message)]
  BY DEF TypeOK
<1>1. Alone'
  <2>1. \A q \in Requests : Running(q)' => Running(q)
    BY <1>0 DEF Running
  <2> QED
    BY <2>1 DEF AheadInv, Alone
<1>2. \A s \in Sessions : stored[s] \in Seq(Message)
  BY <1>0
<1>3. sess'[r] \in Seq(Message)
  BY DEF TypeOK
<1>4. ASSUME NEW q \in Requests, Running(q)'
      PROVE  IsPrefix(stored'[SessionOf[q]], sess'[q])
  <2>1. CASE q = r
    BY <1>3, <2>1, PrefixOfItself DEF TypeOK
  <2>2. CASE q # r
    <3>1. Running(q) /\ sess'[q] = sess[q]
      BY <1>0, <1>4, <2>2 DEF Running
    <3>2. SessionOf[q] # SessionOf[r]
      BY <2>2, <3>1 DEF AheadInv, Alone
    <3>3. stored'[SessionOf[q]] = stored[SessionOf[q]]
      BY <1>0, <3>2
    <3> QED
      BY <3>1, <3>3 DEF AheadInv, Ahead
  <2> QED
    BY <2>1, <2>2
<1>5. ASSUME NEW s \in Sessions
      PROVE  IsPrefix(stored[s], stored'[s])
  <2>1. CASE stored'[s] = stored[s]
    BY <1>2, <2>1, PrefixOfItself
  <2>2. CASE s = SessionOf[r] /\ stored'[s] = sess'[r]
    BY <2>2
  <2>3. stored'[s] = stored[s] \/ (s = SessionOf[r] /\ stored'[s] = sess'[r])
    BY DEF TypeOK
  <2> QED
    BY <2>1, <2>2, <2>3
<1> QED
  BY <1>1, <1>4, <1>5 DEF AheadInv, Ahead, Appends

\* A step that leaves the store and every copy alone, and sets nobody going.
LEMMA QuietStepAppends ==
    ASSUME TypeOK, AheadInv, UNCHANGED <<stored, sess>>,
           \A q \in Requests : Running(q)' => Running(q)
    PROVE  AheadInv' /\ Appends
<1>1. Appends
  BY PrefixOfItself DEF TypeOK, Appends
<1>2. AheadInv'
  BY DEF AheadInv, Alone, Ahead
<1> QED
  BY <1>1, <1>2

\* Where prompts wait for each other, every step keeps the copies ahead of
\* the store, and adds to it.
LEMMA AheadStep ==
    ASSUME Serialized, Deletable = {}, TypeOK, AheadInv, [Next]_vars
    PROVE  AheadInv' /\ Appends
<1>0. TypeOK'
  BY NextTyped
<1> USE ConstantsAssumption DEF Goto, Emit, Save, AppendMessage, storeVars,
        replyVars, channelVars, consumerVars
<1>a. \A r \in Requests : Running(r) =>
          IsPrefix(stored[SessionOf[r]], sess[r])
  BY DEF AheadInv, Ahead
\* An action of a prompt on its way that leaves the store and its copy alone.
<1>b. ASSUME NEW r \in Requests, Running(r), UNCHANGED <<stored, sess>>,
             pc' = [pc EXCEPT ![r] = pc'[r]]
      PROVE  AheadInv' /\ Appends
  BY <1>b, QuietStepAppends DEF Running, TypeOK
\* One that adds a message to the copy, and may store it.
<1>c. ASSUME NEW r \in Requests, NEW m \in Message, Running(r),
             AppendMessage(r, m), pc' = [pc EXCEPT ![r] = pc'[r]],
             \/ stored' = stored
             \/ stored' = [stored EXCEPT ![SessionOf[r]] = sess'[r]]
      PROVE  AheadInv' /\ Appends
  <2>1. sess[r] \in Seq(Message) /\ stored[SessionOf[r]] \in Seq(Message)
    BY DEF TypeOK
  <2>2. sess' = [sess EXCEPT ![r] = Append(sess[r], m)]
    BY <1>c
  <2>3. sess'[r] = Append(sess[r], m)
    BY <2>2 DEF TypeOK
  <2>4. IsPrefix(stored[SessionOf[r]], sess'[r])
    BY <1>a, <1>c, <2>1, <2>3, PrefixOfLonger
  <2>5. sess' = [sess EXCEPT ![r] = sess'[r]]
    BY <2>2, <2>3
  <2> QED
    BY <1>0, <1>c, <2>4, <2>5, StepAppends
\* One that stores the copy as it is.
<1>d. ASSUME NEW r \in Requests, Running(r), UNCHANGED sess,
             Save(SessionOf[r], sess[r]), pc' = [pc EXCEPT ![r] = pc'[r]]
      PROVE  AheadInv' /\ Appends
  <2>1. sess' = [sess EXCEPT ![r] = sess'[r]] /\ sess'[r] = sess[r]
    BY <1>d DEF TypeOK
  <2>2. IsPrefix(stored[SessionOf[r]], sess'[r])
    BY <1>a, <1>d, <2>1
  <2> QED
    BY <1>0, <1>d, <2>1, <2>2, StepAppends
<1>1. ASSUME NEW r \in Requests, LoadSession(r) PROVE AheadInv' /\ Appends
  <2> USE <1>1 DEF LoadSession
  <2>1. Appends
    BY PrefixOfItself DEF TypeOK, Appends
  <2>2. Alone'
    <3>1. ASSUME NEW q \in Requests, q # r, SessionOf[q] = SessionOf[r]
          PROVE  ~Running(q)'
      BY <3>1 DEF MayBegin, Running, TypeOK
    <3>2. \A q \in Requests : q # r => (Running(q)' <=> Running(q))
      BY DEF Running, TypeOK
    <3> HIDE <1>1
    <3> QED
      BY <3>1, <3>2 DEF AheadInv, Alone
  <2>3. ASSUME NEW q \in Requests PROVE Ahead(q)'
    <3>1. CASE q = r
      <4>1. sess'[q] = stored[SessionOf[r]] /\ UNCHANGED stored
        BY <3>1 DEF TypeOK
      <4> QED
        BY <3>1, <4>1, PrefixOfItself DEF TypeOK, Ahead
    <3>2. CASE q # r
      BY <1>a, <3>2 DEF TypeOK, Ahead, Running
    <3> QED
      BY <3>1, <3>2
  <2> QED
    BY <2>1, <2>2, <2>3 DEF AheadInv
<1>2. ASSUME NEW r \in Requests, Reject(r) PROVE AheadInv' /\ Appends
  <2>1. \A q \in Requests : Running(q)' => Running(q)
    BY <1>2 DEF Reject, Running, TypeOK
  <2> QED
    BY <1>2, <2>1, QuietStepAppends DEF Reject
<1>3. ASSUME NEW r \in Requests, SavePrompt(r) PROVE AheadInv' /\ Appends
  <2>1. UserMessage(r) \in Message
    BY DEF UserMessage, Message
  <2> QED
    BY <1>3, <1>c, <2>1 DEF SavePrompt, Running
<1>4. ASSUME NEW r \in Requests, BeginTurn(r) PROVE AheadInv' /\ Appends
  BY <1>4, <1>b DEF BeginTurn, Running
<1>5. ASSUME NEW r \in Requests, CallProvider(r) PROVE AheadInv' /\ Appends
  BY <1>5, <1>b DEF CallProvider, Running
<1>6. ASSUME NEW r \in Requests, ReadDelta(r) PROVE AheadInv' /\ Appends
  BY <1>6, <1>b DEF ReadDelta, NextEvent, Running, TypeOK
<1>7. ASSUME NEW r \in Requests, ReadToolCall(r) PROVE AheadInv' /\ Appends
  BY <1>7, <1>b DEF ReadToolCall, NextEvent, Running, TypeOK
<1>8. ASSUME NEW r \in Requests, ReadStop(r) PROVE AheadInv' /\ Appends
  BY <1>8, <1>b DEF ReadStop, NextEvent, Running, TypeOK
<1>9. ASSUME NEW r \in Requests, ReadError(r) PROVE AheadInv' /\ Appends
  BY <1>9, <1>b DEF ReadError, NextEvent, Running
<1>10. ASSUME NEW r \in Requests, EndOfReply(r) PROVE AheadInv' /\ Appends
  <2> USE <1>10 DEF EndOfReply
  <2>1. AssistantMessage(r) \in Message
    BY DEF AssistantMessage, Message, TypeOK
  <2>2. CASE substance[r] # {}
    BY <1>c, <2>1, <2>2 DEF Running
  <2>3. CASE substance[r] = {}
    BY <1>b, <2>3 DEF Running
  <2> QED
    BY <2>2, <2>3
<1>11. ASSUME NEW r \in Requests, SendMessageEnd(r) PROVE AheadInv' /\ Appends
  BY <1>11, <1>b DEF SendMessageEnd, Running
<1>12. ASSUME NEW r \in Requests, SaveReply(r) PROVE AheadInv' /\ Appends
  <2>1. CASE Save(SessionOf[r], sess[r])
    BY <1>12, <1>d, <2>1 DEF SaveReply, Running
  <2>2. CASE UNCHANGED storeVars
    BY <1>12, <1>b, <2>2 DEF SaveReply, Running
  <2> QED
    BY <1>12, <2>1, <2>2 DEF SaveReply
<1>13. ASSUME NEW r \in Requests, SendDone(r) PROVE AheadInv' /\ Appends
  BY <1>13, <1>b DEF SendDone, Running
<1>14. ASSUME NEW r \in Requests, StartTool(r) PROVE AheadInv' /\ Appends
  BY <1>14, <1>b DEF StartTool, Running
<1>15. ASSUME NEW r \in Requests, AnswerTool(r) PROVE AheadInv' /\ Appends
  <2>1. ToolMessage(r, answered[r] + 1) \in Message
    BY DEF ToolMessage, Message, TypeOK
  <2>2. /\ Running(r) /\ AppendMessage(r, ToolMessage(r, answered[r] + 1))
        /\ pc' = [pc EXCEPT ![r] = "tools"] /\ UNCHANGED stored
    BY <1>15 DEF AnswerTool, Running
  <2>3. pc' = [pc EXCEPT ![r] = pc'[r]]
    BY <2>2 DEF TypeOK
  <2> HIDE DEF AppendMessage
  <2> QED
    BY <1>c, <2>1, <2>2, <2>3
<1>16. ASSUME NEW r \in Requests, SaveTurn(r) PROVE AheadInv' /\ Appends
  <2>1. CASE Save(SessionOf[r], sess[r]) /\ Goto(r, "turn")
    BY <1>16, <1>d, <2>1 DEF SaveTurn, Running
  <2>2. CASE Goto(r, "failing") /\ UNCHANGED <<storeVars, turn>>
    BY <1>16, <1>b, <2>2 DEF SaveTurn, Running
  <2> QED
    BY <1>16, <2>1, <2>2 DEF SaveTurn
<1>17. ASSUME NEW r \in Requests, SendError(r) PROVE AheadInv' /\ Appends
  BY <1>17, <1>b DEF SendError, Running
<1>18. ASSUME NEW r \in Requests, CloseChannel(r) PROVE AheadInv' /\ Appends
  BY <1>18, <1>b DEF CloseChannel, Running
<1>19. ASSUME NEW r \in Requests, Reader(r) \/ Client(r)
       PROVE  AheadInv' /\ Appends
  <2>1. UNCHANGED <<stored, sess, pc>>
    BY <1>19 DEF Reader, Client, Receive, FinishReading, Disconnect, Leave,
         WriteFails, ReaderVarsOnly
  <2> QED
    BY <2>1, QuietStepAppends DEF Running
<1>20. ASSUME NEW s \in Sessions, DeleteSession(s) PROVE AheadInv' /\ Appends
  BY <1>20 DEF DeleteSession
<1>21. CASE UNCHANGED vars
  BY <1>21, QuietStepAppends DEF vars, Running
<1> QED
  BY <1>1, <1>2, <1>3, <1>4, <1>5, <1>6, <1>7, <1>8, <1>9, <1>10, <1>11,
     <1>12, <1>13, <1>14, <1>15, <1>16, <1>17, <1>18, <1>19, <1>20, <1>21
     DEF Next, Call, Goroutine

\* Where clients wait for a stream to end before they send the next prompt,
\* and nobody deletes the session, no Save ever takes a message away: neither
\* the one before the stream, nor those of its turns, nor the last one, whose
\* error is not looked at (stream.go).
THEOREM AppendOnlyHolds ==
    Serialized /\ Deletable = {} => (Spec => AppendOnly)
<1> SUFFICES ASSUME Serialized, Deletable = {} PROVE Spec => AppendOnly
  OBVIOUS
<1>1. Init => TypeOK /\ AheadInv
  BY InitTyped DEF Init, AheadInv, Alone, Ahead, Running
<1>2. TypeOK /\ AheadInv /\ [Next]_vars => TypeOK' /\ AheadInv'
  BY NextTyped, AheadStep
<1>3. TypeOK /\ AheadInv /\ [Next]_vars => [Appends]_vars
  BY AheadStep
<1>4. AppendOnly <=> [][Appends]_vars
  BY DEF AppendOnly, Appends
<1> QED
  BY <1>1, <1>2, <1>3, <1>4, PTL DEF Spec
=============================================================================
