--------------------------- MODULE BlockingRunProofs ---------------------------
(***************************************************************************)
(* Proofs about BlockingRun and the ProviderTurn it runs, for any workers, *)
(* calls and replies, and any number of turns: the type invariant; that a  *)
(* turn gives whole calls only, and a stop reason only to a whole reply;   *)
(* that every request has its calls answered; that a run that ends has     *)
(* stored its transcript; that only an allowed call changes the file, and  *)
(* an edit keeps what was there before its tool began.                     *)
(*                                                                         *)
(* First the inductive invariants, part by part.  Then a turn: its events, *)
(* the lines of a block, the chunks, the reader, its start and its end,    *)
(* with one lemma for every action of ProviderTurn.  Then the calls of the *)
(* workers; the run, which takes a turn's steps as they are proved and     *)
(* adds what it does to the transcript; and the theorems.                  *)
(***************************************************************************)
EXTENDS BlockingRun, FiniteSetTheorems, SequenceTheorems, TLAPS

-----------------------------------------------------------------------------
(* The inductive invariant of a turn                                       *)

\* What a block makes when all of it has come, and the events of that.
FirstPieces(i, m) == [k \in 1 .. m |-> <<i, k>>]
Whole(r, i)  == [id |-> i, args |-> Pieces(r, i)]
CallOf(r, i) == ToolCall(Whole(r, i))
TextOf(p) == Delta(<<p>>)

\* What a cut leaves: all of the blocks before the last, and some of that.
Shortened(sent, whole, how) ==
    /\ Len(sent) <= Len(whole)
    /\ \A i \in DOMAIN sent :
          /\ sent[i].kind = whole[i].kind /\ sent[i].n <= whole[i].n
          /\ i < Len(sent) \/ how # "length" => sent[i].n = whole[i].n

ServerInv ==
    /\ provider \in {"anthropic", "openai"}
    /\ meant \in Seq(Blocks)
    /\ reply \in Seq(Blocks)
    /\ Shortened(reply, meant, ending)
    /\ layout \in {"whole", "apart"}
    /\ ending \in {"tool_calls", "stop", "length"}
    /\ place \in (1 .. End) \X Nat
    /\ provider = "openai" =>
          \A i \in Texts(reply), j \in Calls(reply) : i < j

\* The block a parser is in the middle of.
Within(i) == i \in Calls(reply) /\ place[1] = i /\ place[2] > 0

\* Where it keeps that block's call.
Key(i) == IF provider = "anthropic" THEN i ELSE 1

\* Half a call is the one the server is sending, and has come up to the line;
\* a parser keeps nothing else but calls as they were sent.
PendingInv ==
    /\ DOMAIN pending \subseteq Nat
    /\ \A j \in DOMAIN pending : pending[j] \in CallRecords
    /\ \A i \in Calls(reply) : Within(i) =>
          /\ DOMAIN pending = {Key(i)}
          /\ pending[Key(i)] = [id |-> i, args |-> FirstPieces(i, place[2] - 1)]
    /\ provider = "anthropic" /\ (\A i \in Calls(reply) : ~ Within(i)) =>
          DOMAIN pending = {}
    /\ provider = "openai" /\ (place[1] = End => place[2] = 0) =>
          /\ IsFiniteSet(DOMAIN pending)
          /\ layout = "apart" => DOMAIN pending \subseteq {1}
          /\ layout = "whole" /\ place[1] # End => DOMAIN pending = {}
          /\ (\A i \in Calls(reply) : ~ Within(i)) =>
                /\ \A j \in DOMAIN pending : \E i \in Calls(reply) :
                      i < place[1] /\ pending[j] = Whole(reply, i)
                /\ \A j, k \in DOMAIN pending : pending[j] = pending[k] => j = k
          /\ CallsKept => \A i \in Calls(reply) : i < place[1] =>
                \E j \in DOMAIN pending : pending[j] = Whole(reply, i)

\* The events that are neither a piece of text nor a call.
Plain == {MessageStart, Usage, Stop, Delta(<<>>)}

\* What each event is.
EventsInv ==
    /\ events \in Seq(Events)
    /\ \A n \in DOMAIN events :
          \/ events[n] \in Plain
          \/ \E p \in TextPieces(reply) :
                events[n] = TextOf(p) /\ Before(p, place)
          \/ \E i \in Calls(reply) :
                /\ events[n] = CallOf(reply, i)
                /\ IF provider = "anthropic" THEN i < place[1]
                   ELSE place[1] = End /\ place[2] > 0 /\ ending # "length"

\* In which order they come.
OrderInv ==
    /\ \A m, n \in DOMAIN events : m < n =>
          \A p, q \in TextPieces(reply) :
             events[m] = TextOf(p) /\ events[n] = TextOf(q) => Before(p, q)
    /\ \A m, n \in DOMAIN events : \A i \in Calls(reply) :
             events[m] = CallOf(reply, i) /\ events[n] = CallOf(reply, i) => m = n
    /\ provider = "anthropic" => \A m, n \in DOMAIN events : m < n =>
          \A i, j \in Calls(reply) :
             events[m] = CallOf(reply, i) /\ events[n] = CallOf(reply, j) => i < j

\* And which there are, so that a reply with a stop is a whole one.
WholeInv ==
    /\ \A p \in TextPieces(reply) : Before(p, place) => Contains(events, TextOf(p))
    /\ provider = "anthropic" =>
          /\ \A i \in Calls(reply) : i < place[1] => Contains(events, CallOf(reply, i))
          /\ place[1] = End /\ place[2] > 0 => lastUsage
    /\ provider = "openai" /\ place[1] = End =>
          /\ place[2] > 0 /\ CallsKept =>
                \A i \in Calls(reply) : Contains(events, CallOf(reply, i))
          /\ place[2] > 1 => Contains(events, Usage)
    /\ Contains(events, Stop) =>
          /\ Contains(events, Usage)
          /\ \A p \in TextPieces(reply) : Contains(events, TextOf(p))
          /\ CallsKept => \A i \in Calls(reply) : Contains(events, CallOf(reply, i))

\* The message so far is what the events up to index say.
ReaderInv ==
    /\ phase \in {"parsing", "reading", "ok", "failed"}
    /\ lastUsage \in BOOLEAN /\ usage \in BOOLEAN
    /\ stopReason \in {"", "stop"}
    /\ index \in 0 .. Len(events)
    /\ content \in PieceSeqs
    /\ toolCalls \in Seq(CallRecords)
    /\ phase = "ok" => index = Len(events)
    /\ stopReason = "stop" => Contains(events, Stop)
    /\ \A n \in 1 .. index : events[n] = Usage => usage

ContentInv ==
    /\ \A j \in DOMAIN content :
          /\ content[j] \in TextPieces(reply)
          /\ \E n \in 1 .. index : events[n] = TextOf(content[j])
    /\ \A n \in 1 .. index : \A p \in TextPieces(reply) :
          events[n] = TextOf(p) => \E j \in DOMAIN content : content[j] = p
    /\ \A j, k \in DOMAIN content : j < k => Before(content[j], content[k])

CallsInv ==
    /\ \A j \in DOMAIN toolCalls : \E i \in Calls(reply) :
          /\ toolCalls[j] = Whole(reply, i)
          /\ \E n \in 1 .. index : events[n] = CallOf(reply, i)
    /\ \A n \in 1 .. index : \A i \in Calls(reply) :
          events[n] = CallOf(reply, i) => \E j \in DOMAIN toolCalls : toolCalls[j] = Whole(reply, i)
    /\ \A j, k \in DOMAIN toolCalls : toolCalls[j].id = toolCalls[k].id => j = k
    /\ provider = "anthropic" => \A j, k \in DOMAIN toolCalls :
          j < k => toolCalls[j].id < toolCalls[k].id

ParserInv == ServerInv /\ PendingInv /\ EventsInv /\ OrderInv /\ WholeInv
TurnInv   == ParserInv /\ ReaderInv /\ ContentInv /\ CallsInv

-----------------------------------------------------------------------------
(* The inductive invariant of the transcript                               *)

\* Between turns there is nothing of a turn.
Forgotten ==
    /\ reply = <<>> /\ place = <<1, 0>> /\ pending = <<>> /\ lastUsage = FALSE
    /\ events = <<>> /\ index = 0 /\ content = <<>> /\ toolCalls = <<>>
    /\ usage = FALSE /\ stopReason = ""

Closed(i, n) ==
    i + n \in DOMAIN messages /\ messages[i + n] = ToolMessage(messages[i].calls[n])

\* The message whose calls are being answered.
Asking == Len(messages) - executed

\* Every call is answered in its place, but those of the last message that are
\* still to be executed; and every answer has its call.
TranscriptInv ==
    /\ \A i \in DOMAIN messages : messages[i].role = "assistant" =>
          \A n \in DOMAIN messages[i].calls :
             Closed(i, n) \/ (at = "tools" /\ i = Asking /\ n > executed)
    /\ \A i \in DOMAIN messages : messages[i].role = "tool" =>
          \E m \in 1 .. i - 1 :
             /\ messages[i - m].role = "assistant"
             /\ m \in DOMAIN messages[i - m].calls
             /\ messages[i - m].calls[m] = messages[i].of
    /\ at = "tools" => Asking \in DOMAIN messages /\ messages[Asking] = Assistant(calls)

LoopInv ==
    /\ at \in {"create", "turn", "tools", "next", "done", "exceeded",
               "turn failed", "store failed"}
    /\ turn \in 1 .. MaxTurns
    /\ at = "next" => turn # MaxTurns
    /\ at \in {"tools", "next"} => Forgotten
    /\ \A i \in Calls(reply) : <<turn, i>> \in CallIds
    /\ messages \in Seq(Messages)
    /\ stored \in Seq(Messages)
    /\ calls \in Seq(CallIds)
    /\ executed \in 0 .. Len(calls)
    /\ call[Run] # Idle => at = "tools" /\ executed < Len(calls)

TranscriptAll == LoopInv /\ TranscriptInv

-----------------------------------------------------------------------------
(* The inductive invariants                                                *)

AtTool == {"allowed", "edit", "write", "killed"}

\* A call has the fields the tools look at; what it is for does not matter.
InCall(c) == {"at", "id", "tool", "verdict", "seen"} \subseteq DOMAIN c

\* A tool is at work only for a call that was allowed.
CallInv ==
    /\ call = [w \in Workers |-> call[w]]
    /\ \A w \in Workers : call[w] # Idle =>
          /\ InCall(call[w])
          /\ call[w].at \in AtTool => call[w].verdict = "allow"

\* Whoever asks the provider again, or ends, has saved.
StoreInv ==
    at \in {"turn", "next", "done", "exceeded", "turn failed"} =>
        stored = messages

IInv == CallInv /\ EditsSeeWhatWasThere /\ StoreInv

-----------------------------------------------------------------------------
(* A turn: what its parts are                                              *)

LEMMA EventFacts ==
    /\ \A p, q : TextOf(p) = TextOf(q) => p = q
    /\ \A r, i, j : CallOf(r, i) = CallOf(r, j) => i = j
    /\ \A p, r, i : TextOf(p) # CallOf(r, i)
    /\ \A p : TextOf(p) \notin Plain
    /\ \A r, i : CallOf(r, i) \notin Plain
    /\ Usage # Stop /\ Usage # MessageStart /\ Stop # MessageStart
<1>1. \A p : TextOf(p).type = "message_delta" /\ TextOf(p).text = <<p>>
  BY DEF TextOf, Delta
<1>2. \A r, i : CallOf(r, i).type = "tool_call" /\ CallOf(r, i).call = Whole(r, i)
  BY DEF CallOf, ToolCall
<1>3. \A r, i : Whole(r, i).id = i
  BY DEF Whole
<1>4. \A e \in Plain : \/ e.type \in {"message_start", "usage", "stop"}
                       \/ e.type = "message_delta" /\ e.text = <<>>
  BY DEF Plain, MessageStart, Usage, Stop, Delta
<1>5. \A p, q : <<p>> = <<q>> => p = q
  OBVIOUS
<1>6. \A p : <<p>> # <<>>
  OBVIOUS
<1>7. Usage # Stop /\ Usage # MessageStart /\ Stop # MessageStart
  BY DEF Usage, Stop, MessageStart
<1> QED
  BY <1>1, <1>2, <1>3, <1>4, <1>5, <1>6, <1>7

LEMMA ReplyFacts ==
    ASSUME reply \in Seq(Blocks)
    PROVE  /\ Len(reply) \in Nat /\ DOMAIN reply = 1 .. Len(reply)
           /\ Calls(reply) \subseteq DOMAIN reply
           /\ Texts(reply) \subseteq DOMAIN reply
           /\ \A i \in DOMAIN reply :
                 /\ reply[i].n \in Nat /\ Deltas(i) \in Nat /\ LastLine(i) \in Nat
                 /\ reply[i].n <= LastLine(i)
                 /\ i \in Calls(reply) <=> IsCall(reply, i)
           /\ IsFiniteSet(Calls(reply))
<1>1. Len(reply) \in Nat /\ DOMAIN reply = 1 .. Len(reply)
  OBVIOUS
<1>2. \A i \in DOMAIN reply : reply[i] \in Blocks
  OBVIOUS
<1>3. \A i \in DOMAIN reply : reply[i].n \in Nat
  BY <1>2 DEF Blocks
<1>4. \A i \in DOMAIN reply : Deltas(i) \in Nat /\ reply[i].n <= Deltas(i)
  BY <1>3 DEF Deltas
<1>5. \A i \in DOMAIN reply : LastLine(i) \in Nat /\ reply[i].n <= LastLine(i)
  BY <1>3, <1>4 DEF LastLine
<1>6. Calls(reply) \subseteq DOMAIN reply /\ Texts(reply) \subseteq DOMAIN reply
  BY DEF Calls, Texts
<1>7. IsFiniteSet(Calls(reply))
  <2>1. IsFiniteSet(1 .. Len(reply))
    BY <1>1, FS_Interval
  <2> QED
    BY <2>1, <1>1, <1>6, FS_Subset
<1> QED
  BY <1>1, <1>3, <1>4, <1>5, <1>6, <1>7 DEF Calls

LEMMA PieceFacts ==
    ASSUME reply \in Seq(Blocks)
    PROVE  \A p : p \in TextPieces(reply) <=>
              /\ p = <<p[1], p[2]>>
              /\ p[1] \in Texts(reply) /\ p[2] \in 1 .. reply[p[1]].n
  BY DEF TextPieces

LEMMA BeforeTrans ==
    ASSUME NEW p \in Nat \X Nat, NEW q \in Nat \X Nat, NEW r \in Nat \X Nat,
           Before(p, q), Before(q, r)
    PROVE  Before(p, r)
  BY DEF Before

LEMMA AppendFacts ==
    ASSUME NEW S, NEW s \in Seq(S), NEW e \in S
    PROVE  /\ s \o <<e>> = Append(s, e)
           /\ Append(s, e) \in Seq(S) /\ Len(Append(s, e)) = Len(s) + 1
           /\ \A k \in 1 .. Len(s) : Append(s, e)[k] = s[k]
           /\ Append(s, e)[Len(s) + 1] = e
  OBVIOUS

LEMMA FirstPiecesFacts ==
    ASSUME NEW i \in Nat, NEW m \in Nat
    PROVE  /\ FirstPieces(i, m) \in PieceSeqs
           /\ FirstPieces(i, m) \o <<<<i, m + 1>>>> = FirstPieces(i, m + 1)
           /\ FirstPieces(i, 0) = <<>>
<1> DEFINE S == Nat \X Nat
           e == <<i, m + 1>>
           f == FirstPieces(i, m)
           g == FirstPieces(i, m + 1)
<1>1. ASSUME NEW n \in Nat PROVE FirstPieces(i, n) \in Seq(S)
  BY IsASeq DEF FirstPieces
<1>2. /\ f \in Seq(S) /\ Len(f) = m /\ \A k \in 1 .. m : f[k] = <<i, k>>
      /\ g \in Seq(S) /\ Len(g) = m + 1 /\ \A k \in 1 .. m + 1 : g[k] = <<i, k>>
  BY <1>1 DEF FirstPieces
<1>3. e \in S
  OBVIOUS
<1>4. FirstPieces(i, 0) = <<>>
  <2>1. FirstPieces(i, 0) \in Seq(S) /\ Len(FirstPieces(i, 0)) = 0
    BY <1>1 DEF FirstPieces
  <2> HIDE DEF FirstPieces, S
  <2> QED
    BY <2>1
<1>5. f \in PieceSeqs
  BY <1>2 DEF PieceSeqs
<1>6. e = <<i, m + 1>>
  OBVIOUS
<1> HIDE DEF f, g, e, S
<1>7. Append(f, e) \in Seq(S) /\ Len(Append(f, e)) = m + 1
  BY <1>2, <1>3
<1>8. \A k \in 1 .. m + 1 : Append(f, e)[k] = g[k]
  <2>1. /\ \A k \in 1 .. m : Append(f, e)[k] = f[k]
        /\ Append(f, e)[m + 1] = e
    BY <1>2, <1>3, AppendFacts
  <2>2. \A k \in 1 .. m + 1 : k = m + 1 \/ k \in 1 .. m
    OBVIOUS
  <2> QED
    BY <1>2, <1>6, <2>1, <2>2
<1>9. Append(f, e) = g
  BY <1>2, <1>7, <1>8, SeqEqual
<1>10. f \o <<e>> = g
  BY <1>2, <1>3, <1>9, AppendFacts
<1> QED
  BY <1>4, <1>5, <1>10 DEF f, g, e

LEMMA ExtendedCall ==
    ASSUME NEW i, NEW args, NEW more
    PROVE  [[id |-> i, args |-> args] EXCEPT !.args = @ \o more]
              = [id |-> i, args |-> args \o more]
<1>1. [id |-> i, args |-> args].args \o more = args \o more
  OBVIOUS
<1>2. ASSUME NEW x PROVE [[id |-> i, args |-> args] EXCEPT !.args = x]
                            = [id |-> i, args |-> x]
  OBVIOUS
<1> QED
  BY <1>1, <1>2

LEMMA WholeType ==
    ASSUME NEW r \in Seq(Blocks), NEW i \in Calls(r)
    PROVE  Whole(r, i) \in CallRecords /\ CallOf(r, i) \in Events
<1>1. i \in Nat /\ r[i] \in Blocks
  BY DEF Calls
<1>2. r[i].n \in Nat
  BY <1>1 DEF Blocks
<1>3. Pieces(r, i) \in PieceSeqs
  BY <1>1, <1>2, FirstPiecesFacts DEF Pieces, FirstPieces
<1> QED
  BY <1>1, <1>3 DEF Whole, CallRecords, CallOf, ToolCall, Events

LEMMA ConcatFacts ==
    ASSUME NEW S, NEW s \in Seq(S), NEW t \in Seq(S)
    PROVE  /\ s \o t \in Seq(S) /\ Len(s \o t) = Len(s) + Len(t)
           /\ \A k \in 1 .. Len(s) : (s \o t)[k] = s[k]
           /\ \A k \in 1 .. Len(t) : (s \o t)[Len(s) + k] = t[k]
           /\ s \o <<>> = s /\ <<>> \o s = s
  BY ConcatProperties, ConcatEmptySeq

\* What the events are when some more have come.
LEMMA Grown ==
    ASSUME events \in Seq(Events), NEW new \in Seq(Events),
           events' = events \o new
    PROVE  /\ events' \in Seq(Events)
           /\ Len(events) \in Nat /\ Len(events') = Len(events) + Len(new)
           /\ DOMAIN events = 1 .. Len(events) /\ DOMAIN events \subseteq DOMAIN events'
           /\ \A n \in DOMAIN events : events'[n] = events[n]
           /\ \A n \in DOMAIN events' : n \in DOMAIN events \/
                 \E k \in DOMAIN new : n = Len(events) + k /\ events'[n] = new[k]
           /\ \A k \in DOMAIN new :
                 /\ Len(events) + k \in DOMAIN events'
                 /\ events'[Len(events) + k] = new[k]
<1>1. /\ events' \in Seq(Events) /\ Len(events') = Len(events) + Len(new)
      /\ \A k \in 1 .. Len(events) : events'[k] = events[k]
      /\ \A k \in 1 .. Len(new) : events'[Len(events) + k] = new[k]
  BY ConcatFacts
<1>2. /\ Len(events) \in Nat /\ DOMAIN events = 1 .. Len(events)
      /\ Len(new) \in Nat /\ DOMAIN new = 1 .. Len(new)
      /\ DOMAIN events' = 1 .. Len(events')
  BY <1>1
<1>3. ASSUME NEW n \in 1 .. Len(events') PROVE n \in 1 .. Len(events) \/
        \E k \in 1 .. Len(new) : n = Len(events) + k /\ events'[n] = new[k]
  <2>1. n \in 1 .. Len(events) \/ n - Len(events) \in 1 .. Len(new)
    BY <1>1, <1>2
  <2>2. n = Len(events) + (n - Len(events))
    BY <1>1, <1>2
  <2> QED
    BY <1>1, <2>1, <2>2
<1>4. \A k \in DOMAIN new : Len(events) + k \in DOMAIN events'
  BY <1>1, <1>2
<1>5. DOMAIN events \subseteq DOMAIN events'
  BY <1>1, <1>2
<1> QED
  BY <1>1, <1>2, <1>3, <1>4, <1>5

\* A line further on, nothing else is known of the server.
LEMMA MovesOn ==
    ASSUME ServerInv, UNCHANGED serverVars,
           place' \in (1 .. End) \X Nat, Before(place, place')
    PROVE  /\ ServerInv' /\ End' = End /\ reply' = reply /\ provider' = provider
           /\ place[1] <= place'[1]
           /\ place[1] = End => place'[1] = End /\ place[2] < place'[2]
           /\ \A p \in TextPieces(reply) : Before(p, place) => Before(p, place')
<1>1. /\ reply' = reply /\ provider' = provider /\ layout' = layout
      /\ ending' = ending /\ End' = End /\ End \in Nat
  BY ReplyFacts DEF serverVars, ServerInv, End
<1>2. place \in (1 .. End) \X Nat /\ place' \in (1 .. End) \X Nat
  BY <1>1 DEF ServerInv
<1>3. /\ place[1] <= place'[1]
      /\ place[1] = End => place'[1] = End /\ place[2] < place'[2]
  BY <1>1, <1>2 DEF Before
<1>4. \A p \in TextPieces(reply) : p \in Nat \X Nat
  BY PieceFacts, ReplyFacts DEF ServerInv
<1>5. \A p \in TextPieces(reply) : Before(p, place) => Before(p, place')
  <2>1. place \in Nat \X Nat /\ place' \in Nat \X Nat
    BY <1>1, <1>2
  <2> QED
    BY <2>1, <1>4, BeforeTrans
<1>6. ServerInv'
  BY <1>1, <1>2 DEF ServerInv, Shortened, serverVars
<1> QED
  BY <1>1, <1>3, <1>5, <1>6

-----------------------------------------------------------------------------
(* A turn: its events                                                      *)

LEMMA EventBounds ==
    ASSUME EventsInv, NEW n \in DOMAIN events
    PROVE  /\ \A p \in TextPieces(reply) : events[n] = TextOf(p) => Before(p, place)
           /\ \A i \in Calls(reply) : events[n] = CallOf(reply, i) =>
                 IF provider = "anthropic" THEN i < place[1]
                 ELSE place[1] = End /\ place[2] > 0 /\ ending # "length"
  BY EventFacts DEF EventsInv

\* What one line may add to the events.
LEMMA EventsStep ==
    ASSUME ServerInv, EventsInv, OrderInv, UNCHANGED serverVars,
           place' \in (1 .. End) \X Nat, Before(place, place'),
           NEW new \in Seq(Events), events' = events \o new,
           \/ \A k \in DOMAIN new : new[k] \in Plain
           \/ new = <<TextOf(place)>> /\ place \in TextPieces(reply)
           \/ /\ provider = "anthropic" /\ new = <<CallOf(reply, place[1])>>
              /\ place[1] \in Calls(reply) /\ place[1] < place'[1]
           \/ /\ provider = "openai" /\ place = <<End, 0>> /\ ending # "length"
              /\ \A k \in DOMAIN new : \E i \in Calls(reply) :
                    new[k] = CallOf(reply, i)
              /\ \A k, l \in DOMAIN new : new[k] = new[l] => k = l
    PROVE  EventsInv' /\ OrderInv'
<1>1. /\ reply' = reply /\ provider' = provider /\ End' = End
      /\ place[1] <= place'[1]
      /\ place[1] = End => place'[1] = End /\ place[2] < place'[2]
      /\ \A p \in TextPieces(reply) : Before(p, place) => Before(p, place')
      /\ place \in (1 .. End) \X Nat /\ End \in Nat
      /\ Calls(reply) \subseteq Nat
  BY MovesOn, ReplyFacts DEF ServerInv, End
<1>2. /\ events' \in Seq(Events)
      /\ Len(events) \in Nat /\ DOMAIN events = 1 .. Len(events)
      /\ \A n \in DOMAIN events : n \in DOMAIN events' /\ events'[n] = events[n]
      /\ \A n \in DOMAIN events' : n \in DOMAIN events \/
            \E k \in DOMAIN new : n = Len(events) + k /\ events'[n] = new[k]
      /\ DOMAIN new \subseteq Nat \ {0}
  BY Grown DEF EventsInv
<1>3. ASSUME NEW k \in DOMAIN new PROVE
         \/ new[k] \in Plain
         \/ new[k] = TextOf(place) /\ place \in TextPieces(reply) /\ k = 1
         \/ /\ provider = "anthropic" /\ new[k] = CallOf(reply, place[1]) /\ k = 1
            /\ place[1] \in Calls(reply) /\ place[1] < place'[1]
         \/ /\ provider = "openai" /\ place = <<End, 0>> /\ ending # "length"
            /\ \E i \in Calls(reply) : new[k] = CallOf(reply, i)
            /\ \A l \in DOMAIN new : new[k] = new[l] => k = l
  OBVIOUS
<1>4. EventsInv'
  <2> SUFFICES ASSUME NEW n \in DOMAIN events'
               PROVE  \/ events'[n] \in Plain
                      \/ \E p \in TextPieces(reply) :
                            events'[n] = TextOf(p) /\ Before(p, place')
                      \/ \E i \in Calls(reply) :
                            /\ events'[n] = CallOf(reply, i)
                            /\ IF provider = "anthropic" THEN i < place'[1]
                               ELSE place'[1] = End /\ place'[2] > 0 /\ ending # "length"
    BY <1>1, <1>2 DEF EventsInv, serverVars
  <2>1. CASE n \in DOMAIN events
    BY <2>1, <1>1, <1>2 DEF EventsInv
  <2>2. CASE n \notin DOMAIN events
    <3>1. PICK k \in DOMAIN new : events'[n] = new[k]
      BY <1>2, <2>2
    <3>2. CASE new[k] = TextOf(place) /\ place \in TextPieces(reply)
      <4>1. Before(place, place')
        OBVIOUS
      <4> QED
        BY <3>1, <3>2, <4>1
    <3>3. CASE provider = "openai" /\ place = <<End, 0>> /\ ending # "length"
      BY <3>1, <3>3, <1>1, <1>3
    <3> QED
      BY <3>1, <3>2, <3>3, <1>1, <1>3
  <2> QED
    BY <2>1, <2>2
<1>5. ASSUME NEW m \in DOMAIN events', NEW n \in DOMAIN events', m < n,
             NEW p \in TextPieces(reply), NEW q \in TextPieces(reply),
             events'[m] = TextOf(p), events'[n] = TextOf(q)
      PROVE  Before(p, q)
  <2>1. CASE n \in DOMAIN events
    <3>1. m \in DOMAIN events
      BY <2>1, <1>2, <1>5
    <3> QED
      BY <2>1, <3>1, <1>2, <1>5 DEF OrderInv
  <2>2. CASE n \notin DOMAIN events
    <3>1. PICK k \in DOMAIN new : n = Len(events) + k /\ new[k] = TextOf(q)
      BY <1>2, <1>5, <2>2
    <3>2. q = place /\ k = 1
      BY <3>1, <1>3, EventFacts
    <3>3. m \in DOMAIN events
      BY <3>1, <3>2, <1>2, <1>5
    <3> QED
      BY <3>2, <3>3, <1>2, <1>5, EventBounds
  <2> QED
    BY <2>1, <2>2
<1>6. ASSUME NEW m \in DOMAIN events', NEW n \in DOMAIN events', m <= n,
             NEW i \in Calls(reply), NEW j \in Calls(reply),
             events'[m] = CallOf(reply, i), events'[n] = CallOf(reply, j)
      PROVE  /\ i = j => m = n
             /\ provider = "anthropic" /\ m < n => i < j
  <2>1. CASE n \in DOMAIN events
    <3>1. m \in DOMAIN events
      BY <2>1, <1>2, <1>6
    <3> QED
      BY <2>1, <3>1, <1>2, <1>6 DEF OrderInv
  <2>2. CASE n \notin DOMAIN events
    <3>1. PICK k \in DOMAIN new : n = Len(events) + k /\ new[k] = CallOf(reply, j)
      BY <1>2, <1>6, <2>2
    <3>2. CASE provider = "anthropic"
      <4>1. j = place[1] /\ k = 1
        BY <3>1, <3>2, <1>3, EventFacts
      <4>2. m \in DOMAIN events \/ m = n
        BY <3>1, <4>1, <1>2, <1>6
      <4>3. m \in DOMAIN events => i < place[1]
        BY <3>2, <1>2, <1>6, EventBounds
      <4> QED
        BY <4>1, <4>2, <4>3, <1>1
    <3>3. CASE provider # "anthropic"
      <4>1. place = <<End, 0>> /\ \A l \in DOMAIN new : new[k] = new[l] => k = l
        BY <3>1, <3>3, <1>3, EventFacts
      <4>2. m \notin DOMAIN events
        BY <4>1, <3>3, <1>2, <1>6, EventBounds
      <4>3. PICK l \in DOMAIN new : m = Len(events) + l /\ new[l] = CallOf(reply, i)
        BY <4>2, <1>2, <1>6
      <4> QED
        BY <3>1, <3>3, <4>1, <4>3
    <3> QED
      BY <3>2, <3>3
  <2> QED
    BY <2>1, <2>2
<1>7. OrderInv'
  <2>1. DOMAIN events' \subseteq Nat
    BY <1>2
  <2>2. \A m, n \in DOMAIN events' : m <= n \/ n <= m
    BY <2>1
  <2>3. \A m, n \in DOMAIN events' : m < n => m <= n
    BY <2>1
  <2>4. \A m, n \in DOMAIN events' : \A i \in Calls(reply) :
          events'[m] = CallOf(reply, i) /\ events'[n] = CallOf(reply, i) => m = n
    BY <1>6, <2>2
  <2>5. provider = "anthropic" => \A m, n \in DOMAIN events' : m < n =>
          \A i, j \in Calls(reply) :
             events'[m] = CallOf(reply, i) /\ events'[n] = CallOf(reply, j) => i < j
    BY <1>6, <2>3
  <2>6. \A m, n \in DOMAIN events' : m < n =>
          \A p, q \in TextPieces(reply) :
             events'[m] = TextOf(p) /\ events'[n] = TextOf(q) => Before(p, q)
    BY <1>5
  <2>7. reply' = reply /\ provider' = provider
    BY <1>1
  <2> QED
    BY <2>4, <2>5, <2>6, <2>7 DEF OrderInv
<1> QED
  BY <1>4, <1>7

\* More events take nothing away from what has been read.
LEMMA ReaderStays ==
    ASSUME ServerInv, EventsInv, ReaderInv, ContentInv, CallsInv,
           UNCHANGED serverVars, UNCHANGED turnVars,
           lastUsage' \in BOOLEAN, phase' \in {"parsing", "reading", "failed"},
           NEW new \in Seq(Events), events' = events \o new
    PROVE  ReaderInv' /\ ContentInv' /\ CallsInv'
<1>1. /\ Len(events) \in Nat /\ DOMAIN events = 1 .. Len(events)
      /\ Len(events') \in Nat /\ Len(events) <= Len(events')
      /\ DOMAIN events \subseteq DOMAIN events'
      /\ \A n \in DOMAIN events : events'[n] = events[n]
  <2>1. Len(new) \in Nat
    OBVIOUS
  <2> QED
    BY <2>1, Grown DEF EventsInv
<1>2. /\ index' = index /\ content' = content /\ toolCalls' = toolCalls
      /\ usage' = usage /\ stopReason' = stopReason
      /\ reply' = reply /\ provider' = provider
  BY DEF turnVars, serverVars
<1>3. index \in 0 .. Len(events)
  BY DEF ReaderInv
<1>4. 1 .. index \subseteq DOMAIN events /\ index \in 0 .. Len(events')
  BY <1>1, <1>3
<1>5. \A n \in 1 .. index : events'[n] = events[n]
  BY <1>1, <1>4
<1>6. ReaderInv'
  <2>1. Contains(events, Stop) => Contains(events', Stop)
    BY <1>1 DEF Contains
  <2>2. phase' # "ok"
    OBVIOUS
  <2> HIDE DEF Contains, PieceSeqs, CallRecords
  <2> QED
    BY <1>2, <1>4, <1>5, <2>1, <2>2 DEF ReaderInv
<1>7. ContentInv'
  BY <1>2, <1>5 DEF ContentInv
<1>8. CallsInv'
  <2>1. \A j \in DOMAIN toolCalls : \E i \in Calls(reply) :
          /\ toolCalls[j] = Whole(reply, i)
          /\ \E n \in 1 .. index : events'[n] = CallOf(reply, i)
    <3> TAKE j \in DOMAIN toolCalls
    <3>1. PICK i \in Calls(reply) :
             /\ toolCalls[j] = Whole(reply, i)
             /\ \E n \in 1 .. index : events[n] = CallOf(reply, i)
      BY DEF CallsInv
    <3>2. \E n \in 1 .. index : events'[n] = CallOf(reply, i)
      BY <3>1, <1>5
    <3> QED
      BY <3>1, <3>2
  <2>2. \A n \in 1 .. index : \A i \in Calls(reply) :
          events'[n] = CallOf(reply, i) =>
             \E j \in DOMAIN toolCalls : toolCalls[j] = Whole(reply, i)
    BY <1>5 DEF CallsInv
  <2> QED
    BY <1>2, <2>1, <2>2 DEF CallsInv
<1> QED
  BY <1>6, <1>7, <1>8

\* What a line owes to those that come after it.
LEMMA WholeStep ==
    ASSUME ServerInv, EventsInv, WholeInv, UNCHANGED serverVars,
           place' \in (1 .. End) \X Nat, Before(place, place'),
           NEW new \in Seq(Events), events' = events \o new,
           \A p \in TextPieces(reply) :
                 Before(p, place') => Before(p, place) \/ Contains(events', TextOf(p)),
           provider = "anthropic" =>
              /\ \A i \in Calls(reply) :
                    i < place'[1] => i < place[1] \/ Contains(events', CallOf(reply, i))
              /\ place'[1] = End /\ place'[2] > 0 => lastUsage',
           provider = "openai" /\ place'[1] = End =>
              /\ place'[2] > 0 /\ CallsKept =>
                    \/ place[1] = End /\ place[2] > 0
                    \/ \A i \in Calls(reply) : Contains(events', CallOf(reply, i))
              /\ place'[2] > 1 => (place[1] = End /\ place[2] > 1) \/ Contains(events', Usage),
           Contains(events', Stop) => Contains(events, Stop) \/
              /\ Contains(events', Usage) /\ place[1] = End /\ place[2] > 0
    PROVE  WholeInv'
<1>1. /\ reply' = reply /\ provider' = provider /\ End' = End
      /\ layout' = layout /\ ending' = ending
      /\ place[1] <= place'[1]
      /\ place[1] = End => place'[1] = End /\ place[2] < place'[2]
      /\ place \in (1 .. End) \X Nat /\ End \in Nat
      /\ Calls(reply) \subseteq 1 .. Len(reply) /\ End = Len(reply) + 1
  BY MovesOn, ReplyFacts DEF ServerInv, End, serverVars
<1>2. CallsKept' = CallsKept
  BY <1>1 DEF CallsKept
<1>3. \A e : Contains(events, e) => Contains(events', e)
  BY Grown DEF EventsInv, Contains
<1>4. place'[1] # End => place[1] # End
  BY <1>1
<1>5. \A p \in TextPieces(reply) : Before(p, place') => Contains(events', TextOf(p))
  BY <1>3, <1>4 DEF WholeInv
<1>6. provider = "anthropic" =>
         \A i \in Calls(reply) : i < place'[1] => Contains(events', CallOf(reply, i))
  BY <1>3 DEF WholeInv
<1>7. provider = "openai" /\ place'[1] = End =>
         /\ place'[2] > 0 /\ CallsKept =>
               \A i \in Calls(reply) : Contains(events', CallOf(reply, i))
         /\ place'[2] > 1 => Contains(events', Usage)
  BY <1>3 DEF WholeInv
<1>8. ASSUME Contains(events', Stop)
      PROVE  /\ Contains(events', Usage)
             /\ \A p \in TextPieces(reply) : Contains(events', TextOf(p))
             /\ CallsKept => \A i \in Calls(reply) : Contains(events', CallOf(reply, i))
  <2>1. CASE Contains(events, Stop)
    BY <2>1, <1>3 DEF WholeInv
  <2>2. CASE Contains(events', Usage) /\ place[1] = End /\ place[2] > 0
    <3>1. \A p \in TextPieces(reply) : p[1] \in 1 .. Len(reply)
      BY PieceFacts, ReplyFacts DEF ServerInv
    <3>2. \A p \in TextPieces(reply) : Before(p, place)
      BY <3>1, <2>2, <1>1 DEF Before
    <3>3. \A p \in TextPieces(reply) : Contains(events', TextOf(p))
      BY <3>2, <1>3 DEF WholeInv
    <3>4. \A i \in Calls(reply) : i < place[1]
      BY <2>2, <1>1
    <3>5. CallsKept => \A i \in Calls(reply) : Contains(events, CallOf(reply, i))
      BY <3>4, <2>2 DEF WholeInv, ServerInv
    <3> QED
      BY <2>2, <3>3, <3>5, <1>3
  <2> QED
    BY <1>8, <2>1, <2>2
<1>9. Contains(events', Stop) =>
         /\ Contains(events', Usage)
         /\ \A p \in TextPieces(reply) : Contains(events', TextOf(p))
         /\ CallsKept => \A i \in Calls(reply) : Contains(events', CallOf(reply, i))
  BY <1>8
<1>10. provider = "anthropic" => (place'[1] = End /\ place'[2] > 0 => lastUsage')
  OBVIOUS
<1> QED
  BY <1>1, <1>2, <1>5, <1>6, <1>7, <1>9, <1>10 DEF WholeInv

-----------------------------------------------------------------------------
(* A turn: the lines of a block                                            *)

\* The next line of a block, or the first of the next block.
LEMMA AfterFacts ==
    ASSUME ServerInv, NEW i \in DOMAIN reply, NEW k \in Nat,
           place = <<i, k>>, place' = After(i, k)
    PROVE  /\ place' \in (1 .. End) \X Nat /\ Before(place, place')
           /\ \/ k < LastLine(i) /\ place' = <<i, k + 1>>
              \/ k >= LastLine(i) /\ place' = <<i + 1, 0>>
           /\ \A p \in TextPieces(reply) :
                 Before(p, place') => Before(p, place) \/ p = place
           /\ i \in 1 .. Len(reply) /\ End = Len(reply) + 1 /\ End \in Nat
<1>1. /\ Len(reply) \in Nat /\ i \in 1 .. Len(reply) /\ End = Len(reply) + 1
      /\ LastLine(i) \in Nat /\ reply[i].n <= LastLine(i) /\ reply[i].n \in Nat
  BY ReplyFacts DEF ServerInv, End
<1>2. \/ k < LastLine(i) /\ place' = <<i, k + 1>>
      \/ k >= LastLine(i) /\ place' = <<i + 1, 0>>
  BY <1>1 DEF After
<1>3. place' \in (1 .. End) \X Nat /\ Before(place, place')
  BY <1>1, <1>2 DEF Before
<1>4. ASSUME NEW p \in TextPieces(reply), Before(p, place')
      PROVE  Before(p, place) \/ p = place
  <2>1. /\ p = <<p[1], p[2]>> /\ p[1] \in 1 .. Len(reply)
        /\ p[2] \in 1 .. reply[p[1]].n /\ p[2] \in Nat
    BY PieceFacts, ReplyFacts DEF ServerInv
  <2>2. CASE k < LastLine(i) /\ place' = <<i, k + 1>>
    BY <2>1, <2>2, <1>1, <1>4 DEF Before
  <2>3. CASE k >= LastLine(i) /\ place' = <<i + 1, 0>>
    <3>1. p[1] = i => p[2] <= k
      BY <2>1, <2>3, <1>1
    <3>2. p[1] <= i
      BY <2>1, <2>3, <1>1, <1>4 DEF Before
    <3> QED
      BY <2>1, <3>1, <3>2, <1>1 DEF Before
  <2> QED
    BY <2>2, <2>3, <1>2
<1> QED
  BY <1>1, <1>2, <1>3, <1>4

LEMMA EventTypes ==
    /\ Plain \subseteq Events
    /\ \A p \in Nat \X Nat : TextOf(p) \in Events
<1>1. <<>> \in PieceSeqs /\ \A p \in Nat \X Nat : <<p>> \in PieceSeqs
  BY DEF PieceSeqs
<1> QED
  BY <1>1 DEF Plain, Events, Delta, TextOf

\* One event more, or none.
LEMMA OneMore ==
    ASSUME events \in Seq(Events), NEW e \in Events
    PROVE  /\ Append(events, e) = events \o <<e>> /\ events = events \o <<>>
           /\ <<e>> \in Seq(Events) /\ <<>> \in Seq(Events)
           /\ Contains(Append(events, e), e)
           /\ \A x : Contains(Append(events, e), x) => Contains(events, x) \/ x = e
<1>1. /\ Append(events, e) \in Seq(Events) /\ Len(events) \in Nat
      /\ Len(Append(events, e)) = Len(events) + 1
      /\ \A k \in 1 .. Len(events) : Append(events, e)[k] = events[k]
      /\ Append(events, e)[Len(events) + 1] = e
  BY AppendFacts
<1>2. Contains(Append(events, e), e)
  BY <1>1 DEF Contains
<1>3. ASSUME NEW x, Contains(Append(events, e), x)
      PROVE  Contains(events, x) \/ x = e
  <2>1. PICK k \in 1 .. Len(events) + 1 : Append(events, e)[k] = x
    BY <1>1, <1>3 DEF Contains
  <2>2. k \in 1 .. Len(events) \/ k = Len(events) + 1
    BY <1>1
  <2> QED
    BY <1>1, <2>1, <2>2 DEF Contains
<1> QED
  BY <1>2, <1>3, AppendFacts, ConcatFacts

\* Anthropic's parser has nothing pending but the call it is in.
LEMMA AnthropicPending ==
    ASSUME provider' = "anthropic", reply' \in Seq(Blocks),
           place' \in Nat \X Nat,
           \/ /\ DOMAIN pending' = {}
              /\ place'[2] = 0 \/ place'[1] \notin Calls(reply')
           \/ /\ DOMAIN pending' = {place'[1]} /\ place'[1] \in Calls(reply')
              /\ place'[2] > 0
              /\ pending'[place'[1]] =
                    [id |-> place'[1], args |-> FirstPieces(place'[1], place'[2] - 1)]
    PROVE  PendingInv'
<1>1. place'[1] \in Nat /\ place'[2] \in Nat
  OBVIOUS
<1>2. CASE DOMAIN pending' = {} /\ (place'[2] = 0 \/ place'[1] \notin Calls(reply'))
  <2>1. \A i \in Calls(reply') : ~ Within(i)'
    BY <1>1, <1>2 DEF Within
  <2> QED
    BY <1>2, <2>1 DEF PendingInv
<1>3. CASE /\ DOMAIN pending' = {place'[1]} /\ place'[1] \in Calls(reply')
           /\ place'[2] > 0
           /\ pending'[place'[1]] =
                 [id |-> place'[1], args |-> FirstPieces(place'[1], place'[2] - 1)]
  <2>1. place'[2] - 1 \in Nat
    BY <1>1, <1>3
  <2>2. FirstPieces(place'[1], place'[2] - 1) \in PieceSeqs
    BY <1>1, <2>1, FirstPiecesFacts
  <2>3. pending'[place'[1]] \in CallRecords
    BY <1>1, <1>3, <2>2 DEF CallRecords
  <2>4. \A i \in Calls(reply') : Within(i)' <=> i = place'[1]
    BY <1>1, <1>3 DEF Within
  <2>5. \A i : Key(i)' = i
    BY DEF Key
  <2> HIDE DEF CallRecords, FirstPieces
  <2> QED
    BY <1>1, <1>3, <2>3, <2>4, <2>5 DEF PendingInv
<1> QED
  BY <1>2, <1>3

LEMMA BlockStartKeeps == TurnInv /\ BlockStart => TurnInv'
<1> SUFFICES ASSUME TurnInv, NEW i \in DOMAIN reply, provider = "anthropic",
                    Line(<<i, 0>>, After(i, 0)),
                    IF IsCall(reply, i) THEN Put(i, [id |-> i, args |-> <<>>])
                                        ELSE UNCHANGED pending,
                    UNCHANGED <<serverVars, phase, lastUsage, events, turnVars>>
             PROVE  TurnInv'
  BY DEF BlockStart
<1> USE DEF TurnInv, ParserInv
<1>1. /\ place = <<i, 0>> /\ place' = After(i, 0) /\ 0 \in Nat
      /\ reply' = reply /\ provider' = provider
      /\ UNCHANGED serverVars /\ UNCHANGED turnVars
      /\ phase' = "parsing" /\ lastUsage' = lastUsage /\ events' = events
  BY DEF Line, serverVars
<1>2. /\ place' \in (1 .. End) \X Nat /\ Before(place, place')
      /\ \A p \in TextPieces(reply) :
            Before(p, place') => Before(p, place) \/ p = place
      /\ i \in 1 .. Len(reply) /\ End = Len(reply) + 1 /\ End \in Nat
  BY <1>1, AfterFacts
<1>3. place' = <<i, 1>>
  <2>1. Deltas(i) \in Nat /\ LastLine(i) = Deltas(i) + 1
    BY ReplyFacts DEF ServerInv, LastLine
  <2> QED
    BY <1>1, <2>1 DEF After
<1>4. PendingInv'
  <2>1. place'[1] = i /\ place'[2] = 1 /\ place' \in Nat \X Nat
    BY <1>2, <1>3
  <2>2. DOMAIN pending = {}
    BY <1>1 DEF PendingInv, Within
  <2>3. CASE i \in Calls(reply)
    <3>1. IsCall(reply, i)
      BY <2>3 DEF Calls
    <3>4. pending' = [j \in DOMAIN pending \cup {i} |->
                        IF j = i THEN [id |-> i, args |-> <<>>] ELSE pending[j]]
      BY <3>1 DEF Put
    <3>2. DOMAIN pending' = {i} /\ pending'[i] = [id |-> i, args |-> <<>>]
      BY <2>2, <3>4
    <3>3. FirstPieces(i, 1 - 1) = <<>>
      <4>1. i \in Nat /\ 1 - 1 = 0
        BY <2>1
      <4> QED
        BY <4>1, FirstPiecesFacts
    <3> QED
      BY <1>1, <2>1, <2>3, <3>2, <3>3, AnthropicPending DEF ServerInv
  <2>4. CASE i \notin Calls(reply)
    <3>1. pending' = pending
      BY <2>4 DEF Calls
    <3> QED
      BY <1>1, <2>1, <2>2, <2>4, <3>1, AnthropicPending DEF ServerInv
  <2> QED
    BY <2>3, <2>4
<1>5. <<>> \in Seq(Events) /\ events' = events \o <<>> /\ DOMAIN <<>> = {}
  BY <1>1, ConcatFacts DEF EventsInv
<1>6. ServerInv'
  BY <1>1, <1>2, MovesOn
<1>7. EventsInv' /\ OrderInv'
  <2>1. \A k \in DOMAIN <<>> : <<>>[k] \in Plain
    BY <1>5
  <2> QED
    BY <1>1, <1>2, <1>5, <2>1, EventsStep
<1>8. WholeInv'
  <2>1. \A p \in TextPieces(reply) : p # place
    BY <1>1, PieceFacts, ReplyFacts DEF ServerInv
  <2>2. place'[1] = place[1] /\ place'[1] # End
    BY <1>1, <1>2, <1>3
  <2> HIDE DEF TextPieces, Calls
  <2> QED
    BY <1>1, <1>2, <1>5, <2>1, <2>2, WholeStep
<1>9. ReaderInv' /\ ContentInv' /\ CallsInv'
  BY <1>1, <1>5, ReaderStays DEF ReaderInv
<1> QED
  BY <1>4, <1>6, <1>7, <1>8, <1>9

LEMMA BlockDeltaKeeps == TurnInv /\ BlockDelta => TurnInv'
<1> DEFINE pieces(i, k) == IF k \in DOMAIN Pieces(reply, i) THEN <<<<i, k>>>> ELSE <<>>
<1> SUFFICES ASSUME TurnInv, NEW i \in DOMAIN reply, NEW k \in 1 .. Deltas(i),
                    provider = "anthropic", Line(<<i, k>>, After(i, k)),
                    \/ /\ ~IsCall(reply, i)
                       /\ events' = Append(events, Delta(pieces(i, k)))
                       /\ UNCHANGED pending
                    \/ /\ IsCall(reply, i)
                       /\ Put(i, [pending[i] EXCEPT !.args = @ \o pieces(i, k)])
                       /\ UNCHANGED events,
                    UNCHANGED <<serverVars, phase, lastUsage, turnVars>>
             PROVE  TurnInv'
  BY DEF BlockDelta
<1> USE DEF TurnInv, ParserInv
<1>0. Deltas(i) \in Nat /\ k \in Nat \ {0} /\ k <= Deltas(i) /\ reply[i].n \in Nat
  BY ReplyFacts DEF ServerInv
<1>1. /\ place = <<i, k>> /\ place' = After(i, k)
      /\ reply' = reply /\ provider' = provider
      /\ UNCHANGED serverVars /\ UNCHANGED turnVars
      /\ phase' = "parsing" /\ lastUsage' = lastUsage
  BY DEF Line, serverVars
<1>2. /\ place' \in (1 .. End) \X Nat /\ Before(place, place')
      /\ \A p \in TextPieces(reply) :
            Before(p, place') => Before(p, place) \/ p = place
      /\ i \in 1 .. Len(reply) /\ End = Len(reply) + 1 /\ End \in Nat
  BY <1>0, <1>1, AfterFacts
<1>3. place' = <<i, k + 1>>
  <2>1. LastLine(i) = Deltas(i) + 1
    BY DEF LastLine
  <2> QED
    BY <1>0, <1>1, <2>1 DEF After
<1>4. place'[1] = i /\ place'[2] = k + 1 /\ place' \in Nat \X Nat /\ place[1] = i
      /\ i \in Nat /\ place'[1] # End
  BY <1>0, <1>1, <1>2, <1>3
<1>5. ServerInv'
  BY <1>1, <1>2, MovesOn
<1>6. CASE i \in Calls(reply)
  <2>1. /\ IsCall(reply, i) /\ events' = events
        /\ Put(i, [pending[i] EXCEPT !.args = @ \o pieces(i, k)])
    BY <1>6 DEF Calls
  <2>2. Deltas(i) = reply[i].n /\ DOMAIN Pieces(reply, i) = 1 .. reply[i].n
    BY <2>1 DEF Deltas, Pieces
  <2>3. pieces(i, k) = <<<<i, k>>>>
    BY <2>2, <1>0
  <2>4. DOMAIN pending = {i} /\ pending[i] = [id |-> i, args |-> FirstPieces(i, k - 1)]
    <3>1. Within(i)
      BY <1>0, <1>1, <1>6 DEF Within
    <3>2. Key(i) = i /\ place[2] = k
      BY <1>1 DEF Key
    <3> QED
      BY <3>1, <3>2, <1>6 DEF PendingInv
  <2>5. FirstPieces(i, k - 1) \o <<<<i, k>>>> = FirstPieces(i, k)
    <3>1. k - 1 \in Nat /\ (k - 1) + 1 = k
      BY <1>0
    <3> QED
      BY <3>1, <1>4, FirstPiecesFacts
  <2>6. DOMAIN pending' = {i} /\ pending'[i] = [id |-> i, args |-> FirstPieces(i, k)]
    <3> DEFINE c == [pending[i] EXCEPT !.args = @ \o pieces(i, k)]
    <3>1. c = [id |-> i, args |-> FirstPieces(i, k)]
      <4> DEFINE old == [id |-> i, args |-> FirstPieces(i, k - 1)]
      <4>1. c = [old EXCEPT !.args = @ \o <<<<i, k>>>>]
        BY <2>3, <2>4
      <4>2. [old EXCEPT !.args = @ \o <<<<i, k>>>>]
               = [id |-> i, args |-> FirstPieces(i, k - 1) \o <<<<i, k>>>>]
        BY ExtendedCall
      <4> HIDE DEF c, old
      <4> QED
        BY <4>1, <4>2, <2>5
    <3>2. pending' = [j \in DOMAIN pending \cup {i} |->
                        IF j = i THEN c ELSE pending[j]]
      BY <2>1 DEF Put
    <3> HIDE DEF c
    <3>3. DOMAIN pending' = {i} /\ pending'[i] = c
      BY <2>4, <3>2
    <3> QED
      BY <3>1, <3>3
  <2>7. PendingInv'
    <3>1. (k + 1) - 1 = k /\ k + 1 > 0
      BY <1>0
    <3> QED
      BY <1>1, <1>4, <1>6, <2>6, <3>1, AnthropicPending DEF ServerInv
  <2>8. <<>> \in Seq(Events) /\ events' = events \o <<>>
        /\ \A j \in DOMAIN <<>> : <<>>[j] \in Plain
    BY <2>1, ConcatFacts DEF EventsInv
  <2>9. EventsInv' /\ OrderInv'
    BY <1>1, <1>2, <2>8, EventsStep
  <2>10. WholeInv'
    <3>1. \A p \in TextPieces(reply) : p # place
      BY <1>1, <1>6, PieceFacts DEF ServerInv, Texts
    <3> HIDE DEF TextPieces, Calls
    <3> QED
      BY <1>1, <1>2, <1>4, <2>1, <2>8, <3>1, WholeStep
  <2>11. ReaderInv' /\ ContentInv' /\ CallsInv'
    BY <1>1, <2>8, ReaderStays DEF ReaderInv
  <2> QED
    BY <1>5, <2>7, <2>9, <2>10, <2>11
<1>7. CASE i \notin Calls(reply)
  <2> DEFINE e == Delta(pieces(i, k))
  <2>1. events' = Append(events, e) /\ pending' = pending
    BY <1>7 DEF Calls
  <2>2. e \in Plain \/ (e = TextOf(place) /\ place \in TextPieces(reply))
    <3>1. CASE k \in 1 .. reply[i].n
      <4>1. pieces(i, k) = <<place>>
        BY <1>1, <3>1 DEF Pieces
      <4>2. place \in TextPieces(reply)
        BY <1>1, <1>7, <3>1, PieceFacts DEF ServerInv, Texts
      <4> QED
        BY <4>1, <4>2 DEF TextOf
    <3>2. CASE k \notin 1 .. reply[i].n
      <4>1. pieces(i, k) = <<>>
        BY <3>2 DEF Pieces
      <4>2. e = Delta(<<>>)
        BY <4>1
      <4> QED
        BY <4>2 DEF Plain
    <3> QED
      BY <3>1, <3>2
  <2>3. place \in Nat \X Nat /\ e \in Events
    <3>1. place \in Nat \X Nat
      BY <1>0, <1>1, <1>4
    <3> QED
      BY <2>2, <3>1, EventTypes
  <2>4. \A p \in TextPieces(reply) : p = place => e = TextOf(p)
    <3>1. ASSUME place \in TextPieces(reply) PROVE pieces(i, k) = <<place>>
      <4>1. place[1] = i /\ place[2] = k
        BY <1>1
      <4>2. k \in 1 .. reply[i].n
        BY <4>1, <3>1, PieceFacts DEF ServerInv
      <4> QED
        BY <1>1, <4>2 DEF Pieces
    <3> QED
      BY <3>1 DEF TextOf
  <2> HIDE DEF e
  <2>5. /\ <<e>> \in Seq(Events) /\ events' = events \o <<e>>
        /\ Contains(events', e)
        /\ \A x : Contains(events', x) => Contains(events, x) \/ x = e
    BY <2>1, <2>3, OneMore DEF EventsInv
  <2>6. PendingInv'
    <3>1. DOMAIN pending = {}
      BY <1>1, <1>7 DEF PendingInv, Within
    <3> QED
      BY <1>1, <1>4, <1>7, <2>1, <3>1, AnthropicPending DEF ServerInv
  <2>7. EventsInv' /\ OrderInv'
    <3>1. \/ \A j \in DOMAIN <<e>> : <<e>>[j] \in Plain
          \/ <<e>> = <<TextOf(place)>> /\ place \in TextPieces(reply)
      BY <2>2
    <3> QED
      BY <1>1, <1>2, <2>5, <3>1, EventsStep
  <2>8. WholeInv'
    <3>1. \A p \in TextPieces(reply) :
             Before(p, place') => Before(p, place) \/ Contains(events', TextOf(p))
      BY <1>2, <2>4, <2>5
    <3>2. e # Stop
      BY DEF e, Delta, Stop
    <3>3. Contains(events', Stop) => Contains(events, Stop)
      BY <2>5, <3>2
    <3> HIDE DEF TextPieces, Calls
    <3> QED
      BY <1>1, <1>2, <1>4, <2>5, <3>1, <3>3, WholeStep
  <2>9. ReaderInv' /\ ContentInv' /\ CallsInv'
    BY <1>1, <2>5, ReaderStays DEF ReaderInv
  <2> QED
    BY <1>5, <2>6, <2>7, <2>8, <2>9
<1> QED
  BY <1>6, <1>7

LEMMA BlockStopKeeps == TurnInv /\ BlockStop => TurnInv'
<1> SUFFICES ASSUME TurnInv, NEW i \in DOMAIN reply, provider = "anthropic",
                    Line(<<i, Deltas(i) + 1>>, <<i + 1, 0>>),
                    IF i \in DOMAIN pending
                    THEN /\ events' = Append(events, ToolCall(pending[i]))
                         /\ pending' = Without(i)
                    ELSE UNCHANGED <<events, pending>>,
                    UNCHANGED <<serverVars, phase, lastUsage, turnVars>>
             PROVE  TurnInv'
  BY DEF BlockStop
<1> USE DEF TurnInv, ParserInv
<1>0. /\ Deltas(i) \in Nat /\ reply[i].n <= Deltas(i) /\ LastLine(i) = Deltas(i) + 1
      /\ reply[i].n \in Nat
  BY ReplyFacts DEF ServerInv, LastLine, Deltas
<1>1. /\ place = <<i, Deltas(i) + 1>> /\ place' = <<i + 1, 0>>
      /\ reply' = reply /\ provider' = provider
      /\ UNCHANGED serverVars /\ UNCHANGED turnVars
      /\ phase' = "parsing" /\ lastUsage' = lastUsage
  BY DEF Line, serverVars
<1>2. /\ place' \in (1 .. End) \X Nat /\ Before(place, place')
      /\ \A p \in TextPieces(reply) :
            Before(p, place') => Before(p, place) \/ p = place
      /\ i \in 1 .. Len(reply) /\ End = Len(reply) + 1 /\ End \in Nat
  <2>1. place' = After(i, Deltas(i) + 1) /\ Deltas(i) + 1 \in Nat
    BY <1>0, <1>1 DEF After
  <2> QED
    BY <2>1, <1>1, AfterFacts
<1>3. /\ place[1] = i /\ place'[1] = i + 1 /\ place'[2] = 0
      /\ place' \in Nat \X Nat /\ i \in Nat
  BY <1>1, <1>2
<1>4. ServerInv'
  BY <1>1, <1>2, MovesOn
<1>5. \A p \in TextPieces(reply) : p # place
  <2>1. \A p \in TextPieces(reply) : p[1] = i => p[2] <= Deltas(i)
    BY <1>0, PieceFacts DEF ServerInv
  <2> QED
    BY <2>1, <1>0, <1>1
<1>6. CASE i \in Calls(reply)
  <2>1. Deltas(i) = reply[i].n /\ place[2] - 1 = reply[i].n
    BY <1>0, <1>1, <1>6 DEF Calls, Deltas
  <2>2. DOMAIN pending = {i} /\ pending[i] = Whole(reply, i)
    <3>1. Within(i)
      BY <1>0, <1>1, <1>6 DEF Within
    <3>2. Key(i) = i
      BY DEF Key
    <3>3. pending[i] = [id |-> i, args |-> FirstPieces(i, reply[i].n)]
      BY <2>1, <3>1, <3>2, <1>6 DEF PendingInv
    <3>4. DOMAIN pending = {i}
      BY <3>1, <3>2, <1>6 DEF PendingInv
    <3> QED
      BY <3>3, <3>4 DEF Whole, Pieces, FirstPieces
  <2>3. events' = Append(events, CallOf(reply, i)) /\ DOMAIN pending' = {}
    BY <2>2 DEF CallOf, Without
  <2>4. CallOf(reply, i) \in Events
    BY <1>6, WholeType DEF ServerInv
  <2> DEFINE e == CallOf(reply, i)
  <2>5. /\ <<e>> \in Seq(Events) /\ events' = events \o <<e>>
        /\ Contains(events', e)
        /\ \A x : Contains(events', x) => Contains(events, x) \/ x = e
    BY <2>3, <2>4, OneMore DEF EventsInv
  <2>6. e # Stop
    BY EventFacts DEF Plain
  <2> HIDE DEF e
  <2>7. PendingInv'
    BY <1>1, <1>3, <2>3, AnthropicPending DEF ServerInv
  <2>8. EventsInv' /\ OrderInv'
    <3>1. <<e>> = <<CallOf(reply, place[1])>> /\ place[1] < place'[1]
      BY <1>3 DEF e
    <3> QED
      BY <1>1, <1>2, <1>3, <1>6, <2>5, <3>1, EventsStep
  <2>9. WholeInv'
    <3>1. \A j \in Calls(reply) :
             j < place'[1] => j < place[1] \/ Contains(events', CallOf(reply, j))
      <4>1. Calls(reply) \subseteq Nat
        BY ReplyFacts DEF ServerInv
      <4>2. \A j \in Calls(reply) : j < place'[1] => j < place[1] \/ j = i
        BY <1>3, <4>1
      <4> QED
        BY <4>2, <2>5 DEF e
    <3>2. Contains(events', Stop) => Contains(events, Stop)
      BY <2>5, <2>6
    <3>3. ~(place'[2] > 0) /\ provider # "openai"
      BY <1>3
    <3>4. \A p \in TextPieces(reply) : Before(p, place') => Before(p, place)
      BY <1>2, <1>5
    <3> HIDE DEF TextPieces, Calls
    <3> QED
      BY <1>1, <1>2, <2>5, <3>1, <3>2, <3>3, <3>4, WholeStep
  <2>10. ReaderInv' /\ ContentInv' /\ CallsInv'
    BY <1>1, <2>5, ReaderStays DEF ReaderInv
  <2> QED
    BY <1>4, <2>7, <2>8, <2>9, <2>10
<1>7. CASE i \notin Calls(reply)
  <2>1. DOMAIN pending = {}
    BY <1>1, <1>7 DEF PendingInv, Within
  <2>2. events' = events /\ pending' = pending
    BY <2>1
  <2>3. PendingInv'
    BY <1>1, <1>3, <2>1, <2>2, AnthropicPending DEF ServerInv
  <2>4. <<>> \in Seq(Events) /\ events' = events \o <<>>
        /\ \A j \in DOMAIN <<>> : <<>>[j] \in Plain
    BY <2>2, ConcatFacts DEF EventsInv
  <2>5. EventsInv' /\ OrderInv'
    BY <1>1, <1>2, <2>4, EventsStep
  <2>6. WholeInv'
    <3>1. \A j \in Calls(reply) : j < place'[1] => j < place[1]
      <4>1. Calls(reply) \subseteq Nat
        BY ReplyFacts DEF ServerInv
      <4> QED
        BY <1>3, <1>7, <4>1
    <3>2. ~(place'[2] > 0) /\ provider # "openai"
      BY <1>3
    <3>3. \A p \in TextPieces(reply) : Before(p, place') => Before(p, place)
      BY <1>2, <1>5
    <3> HIDE DEF TextPieces, Calls
    <3> QED
      BY <1>1, <1>2, <2>2, <2>4, <3>1, <3>2, <3>3, WholeStep
  <2>7. ReaderInv' /\ ContentInv' /\ CallsInv'
    BY <1>1, <2>4, ReaderStays DEF ReaderInv
  <2> QED
    BY <1>4, <2>3, <2>5, <2>6, <2>7
<1> QED
  BY <1>6, <1>7

\* The lines after the blocks.
LEMMA EndFacts ==
    ASSUME ServerInv, place[1] = End, UNCHANGED serverVars,
           NEW k \in Nat, place' = <<End, k>>, k > place[2]
    PROVE  /\ place' \in (1 .. End) \X Nat /\ Before(place, place')
           /\ \A p \in TextPieces(reply) : Before(p, place)
           /\ place'[1] = End /\ place'[2] = k /\ End \in Nat \ {0}
           /\ \A i \in Calls(reply) : i < End
           /\ \A i \in Calls(reply) : ~ Within(i) /\ ~ Within(i)'
<1>1. Len(reply) \in Nat /\ End = Len(reply) + 1 /\ Calls(reply) \subseteq 1 .. Len(reply)
  BY ReplyFacts DEF ServerInv, End
<1>2. /\ place' \in (1 .. End) \X Nat /\ Before(place, place')
      /\ place'[1] = End /\ place'[2] = k /\ End \in Nat \ {0}
      /\ \A i \in Calls(reply) : i < End
  BY <1>1 DEF ServerInv, Before
<1>3. \A p \in TextPieces(reply) : p[1] \in 1 .. Len(reply)
  BY PieceFacts, ReplyFacts DEF ServerInv
<1>4. \A p \in TextPieces(reply) : Before(p, place)
  BY <1>1, <1>3 DEF Before
<1>5. \A i \in Calls(reply) : ~ Within(i) /\ ~ Within(i)'
  BY <1>2 DEF Within
<1> QED
  BY <1>2, <1>4, <1>5

LEMMA MessageDeltaKeeps == TurnInv /\ MessageDelta => TurnInv'
<1> SUFFICES ASSUME TurnInv, MessageDelta PROVE TurnInv'
  OBVIOUS
<1> USE DEF TurnInv, ParserInv
<1>1. /\ place = <<End, 0>> /\ place' = <<End, 1>>
      /\ reply' = reply /\ provider' = provider /\ provider = "anthropic"
      /\ UNCHANGED serverVars /\ UNCHANGED turnVars
      /\ phase' = "parsing" /\ lastUsage' = TRUE
      /\ events' = events /\ pending' = pending
  BY DEF MessageDelta, Line, serverVars
<1>2. place[1] = End /\ 1 > place[2] /\ 1 \in Nat
  BY <1>1
<1>3. /\ place' \in (1 .. End) \X Nat /\ Before(place, place')
      /\ \A p \in TextPieces(reply) : Before(p, place)
      /\ place'[1] = End /\ place'[2] = 1 /\ End \in Nat \ {0}
      /\ \A i \in Calls(reply) : i < End
      /\ \A i \in Calls(reply) : ~ Within(i) /\ ~ Within(i)'
  BY <1>1, <1>2, EndFacts
<1>4. ServerInv'
  BY <1>1, <1>3, MovesOn
<1>5. PendingInv'
  <2>1. DOMAIN pending' = {} /\ place'[1] \notin Calls(reply')
    BY <1>1, <1>3 DEF PendingInv
  <2>2. place' \in Nat \X Nat /\ reply' \in Seq(Blocks)
    BY <1>1, <1>3 DEF ServerInv
  <2> QED
    BY <2>1, <2>2, <1>1, AnthropicPending
<1>6. <<>> \in Seq(Events) /\ events' = events \o <<>>
      /\ \A j \in DOMAIN <<>> : <<>>[j] \in Plain
  BY <1>1, ConcatFacts DEF EventsInv
<1>7. EventsInv' /\ OrderInv'
  BY <1>1, <1>3, <1>6, EventsStep
<1>8. WholeInv'
  <2> HIDE DEF TextPieces, Calls
  <2> QED
    BY <1>1, <1>2, <1>3, <1>6, WholeStep
<1>9. ReaderInv' /\ ContentInv' /\ CallsInv'
  BY <1>1, <1>6, ReaderStays DEF ReaderInv
<1> QED
  BY <1>4, <1>5, <1>7, <1>8, <1>9

LEMMA ContainsConcat ==
    ASSUME NEW S, NEW s \in Seq(S), NEW t \in Seq(S), NEW x
    PROVE  Contains(s \o t, x) <=> Contains(s, x) \/ Contains(t, x)
<1>1. /\ Len(s) \in Nat /\ Len(t) \in Nat /\ Len(s \o t) = Len(s) + Len(t)
      /\ \A k \in 1 .. Len(s) : (s \o t)[k] = s[k]
      /\ \A k \in 1 .. Len(t) : (s \o t)[Len(s) + k] = t[k]
  BY ConcatFacts
<1>2. ASSUME NEW n \in 1 .. Len(s) + Len(t), (s \o t)[n] = x
      PROVE  Contains(s, x) \/ Contains(t, x)
  <2>1. n \in 1 .. Len(s) \/ (n - Len(s) \in 1 .. Len(t) /\ n = Len(s) + (n - Len(s)))
    BY <1>1
  <2> QED
    BY <1>1, <1>2, <2>1 DEF Contains
<1>3. /\ \A k \in 1 .. Len(s) : k \in 1 .. Len(s) + Len(t)
      /\ \A k \in 1 .. Len(t) : Len(s) + k \in 1 .. Len(s) + Len(t)
  BY <1>1
<1> QED
  BY <1>1, <1>2, <1>3 DEF Contains

LEMMA MessageStopKeeps == TurnInv /\ MessageStop => TurnInv'
<1> SUFFICES ASSUME TurnInv, MessageStop PROVE TurnInv'
  OBVIOUS
<1> USE DEF TurnInv, ParserInv
<1> DEFINE new == <<Usage, Stop>>
<1>1. /\ place = <<End, 1>> /\ place' = <<End, 2>>
      /\ reply' = reply /\ provider' = provider /\ provider = "anthropic"
      /\ UNCHANGED serverVars /\ UNCHANGED turnVars
      /\ phase' = "parsing" /\ lastUsage' = lastUsage /\ pending' = pending
  BY DEF MessageStop, Line, serverVars
<1>2. place[1] = End /\ place[2] = 1 /\ 2 > place[2] /\ 2 \in Nat
  BY <1>1
<1>3. /\ place' \in (1 .. End) \X Nat /\ Before(place, place')
      /\ \A p \in TextPieces(reply) : Before(p, place)
      /\ place'[1] = End /\ place'[2] = 2 /\ End \in Nat \ {0}
      /\ \A i \in Calls(reply) : i < End
      /\ \A i \in Calls(reply) : ~ Within(i) /\ ~ Within(i)'
  BY <1>1, <1>2, EndFacts
<1>4. ServerInv'
  BY <1>1, <1>3, MovesOn
<1>5. PendingInv'
  <2>1. DOMAIN pending' = {} /\ place'[1] \notin Calls(reply')
    BY <1>1, <1>3 DEF PendingInv
  <2>2. place' \in Nat \X Nat /\ reply' \in Seq(Blocks)
    BY <1>1, <1>3 DEF ServerInv
  <2> QED
    BY <2>1, <2>2, <1>1, AnthropicPending
<1>6. lastUsage
  BY <1>1, <1>2 DEF WholeInv
<1>7. events' = events \o new
  BY <1>6 DEF MessageStop
<1>8. new \in Seq(Events) /\ \A j \in DOMAIN new : new[j] \in Plain
  <2>1. Usage \in Events /\ Stop \in Events /\ Usage \in Plain /\ Stop \in Plain
    BY EventTypes DEF Plain
  <2> QED
    BY <2>1
<1>9. Contains(events', Usage)
  <2>1. Contains(new, Usage)
    BY DEF Contains
  <2> HIDE DEF new
  <2> QED
    BY <2>1, <1>7, <1>8, ContainsConcat DEF EventsInv
<1> HIDE DEF new
<1>10. EventsInv' /\ OrderInv'
  BY <1>1, <1>3, <1>7, <1>8, EventsStep
<1>11. WholeInv'
  <2>1. /\ place[2] > 0 /\ lastUsage' /\ provider # "openai"
        /\ \A i \in Calls(reply) : i < place[1]
    BY <1>1, <1>2, <1>3, <1>6
  <2> HIDE DEF TextPieces, Calls
  <2> QED
    BY <1>1, <1>2, <1>3, <1>7, <1>8, <1>9, <2>1, WholeStep
<1>12. ReaderInv' /\ ContentInv' /\ CallsInv'
  BY <1>1, <1>7, <1>8, ReaderStays DEF ReaderInv
<1> QED
  BY <1>4, <1>5, <1>10, <1>11, <1>12

-----------------------------------------------------------------------------
(* A turn: the chunks                                                      *)

LEMMA ChunkFacts ==
    ASSUME events \in Seq(Events), NEW l, ReadChunk(l)
    PROVE  /\ UNCHANGED <<serverVars, phase, lastUsage, turnVars>>
           /\ l.finish \notin Flushing =>
                 /\ pending' = Accumulate(l.calls)
                 /\ l.text = <<>> /\ ~l.usage => events' = events
                 /\ l.text # <<>> /\ ~l.usage /\ Delta(l.text) \in Events =>
                       events' = Append(events, Delta(l.text))
                 /\ l.text = <<>> /\ l.usage => events' = Append(events, Usage)
           /\ l.finish \in Flushing /\ l.text = <<>> /\ ~l.usage =>
                 /\ \E order \in Orders(DOMAIN Accumulate(l.calls)) :
                       events' = events \o [j \in DOMAIN order |->
                                   ToolCall(Accumulate(l.calls)[order[j]])]
                 /\ pending' = <<>>
<1> DEFINE said == (IF l.usage THEN <<Usage>> ELSE <<>>)
                      \o (IF l.text = <<>> THEN <<>> ELSE <<Delta(l.text)>>)
<1>1. Usage \in Events
  BY EventTypes DEF Plain
<1>2. l.text = <<>> /\ ~l.usage => said = <<>>
  OBVIOUS
<1>3. l.text # <<>> /\ ~l.usage /\ Delta(l.text) \in Events =>
         said = <<Delta(l.text)>>
  BY ConcatFacts, OneMore
<1>4. l.text = <<>> /\ l.usage => said = <<Usage>>
  BY <1>1, ConcatFacts, OneMore
<1>5. events \o <<>> = events
  BY ConcatFacts
<1>6. /\ UNCHANGED <<serverVars, phase, lastUsage, turnVars>>
      /\ l.finish \notin Flushing =>
            pending' = Accumulate(l.calls) /\ events' = events \o said
      /\ l.finish \in Flushing =>
            /\ \E order \in Orders(DOMAIN Accumulate(l.calls)) :
                  events' = (events \o said) \o [j \in DOMAIN order |->
                              ToolCall(Accumulate(l.calls)[order[j]])]
            /\ pending' = <<>>
  BY DEF ReadChunk
<1> HIDE DEF said
<1>7. ASSUME NEW e \in Events, said = <<e>>, events' = events \o said
      PROVE  events' = Append(events, e)
  BY <1>7, OneMore
<1> QED
  BY <1>1, <1>2, <1>3, <1>4, <1>5, <1>6, <1>7

LEMMA QuietAccumulate ==
    ASSUME pending' = Accumulate(<<>>)
    PROVE  /\ DOMAIN pending' = DOMAIN pending
           /\ \A j \in DOMAIN pending : pending'[j] = pending[j]
  BY DEF Accumulate

\* OpenAI's parser between two calls, or before its only one.
LEMMA OpenAISettled ==
    ASSUME ServerInv', provider' = "openai",
           place'[2] = 0 \/ place'[1] \notin Calls(reply'),
           IsFiniteSet(DOMAIN pending'), DOMAIN pending' \subseteq Nat,
           layout' = "apart" => DOMAIN pending' \subseteq {1},
           layout' = "whole" /\ place'[1] # End' => DOMAIN pending' = {},
           \A j \in DOMAIN pending' : \E i \in Calls(reply') :
              i < place'[1] /\ pending'[j] = Whole(reply', i),
           \A j, k \in DOMAIN pending' : pending'[j] = pending'[k] => j = k,
           CallsKept' => \A i \in Calls(reply') : i < place'[1] =>
              \E j \in DOMAIN pending' : pending'[j] = Whole(reply', i)
    PROVE  PendingInv'
<1>1. place' \in Nat \X Nat
  BY ReplyFacts DEF ServerInv, End
<1>2. \A i \in Calls(reply') : ~ Within(i)'
  BY <1>1 DEF Within
<1>3. \A j \in DOMAIN pending' : pending'[j] \in CallRecords
  <2>1. \A i \in Calls(reply') : Whole(reply', i) \in CallRecords
    BY WholeType DEF ServerInv
  <2> QED
    BY <2>1
<1> HIDE DEF Calls, Whole, CallRecords, CallsKept
<1> QED
  BY <1>2, <1>3 DEF PendingInv

\* And beyond the calls: what it is left with does not matter.
LEMMA OpenAIBeyond ==
    ASSUME PendingInv, ServerInv', provider' = "openai", place'[1] = End', place'[2] > 0,
           \/ DOMAIN pending' = {}
           \/ /\ DOMAIN pending' = DOMAIN pending
              /\ \A j \in DOMAIN pending : pending'[j] = pending[j]
    PROVE  PendingInv'
<1>1. place' \in (1 .. End') \X Nat /\ End' = Len(reply') + 1 /\ Len(reply') \in Nat
      /\ Calls(reply') \subseteq 1 .. Len(reply')
  BY DEF ServerInv, End, Calls
<1>2. \A i \in Calls(reply') : ~ Within(i)'
  BY <1>1 DEF Within
<1>3. /\ DOMAIN pending' \subseteq Nat
      /\ \A j \in DOMAIN pending' : pending'[j] \in CallRecords
  BY DEF PendingInv
<1>4. place'[1] = End' /\ place'[2] # 0
  BY <1>1
<1> HIDE DEF Calls, CallRecords, CallsKept
<1> QED
  BY <1>2, <1>3, <1>4 DEF PendingInv

LEMMA TextChunkKeeps == TurnInv /\ TextChunk => TurnInv'
<1> SUFFICES ASSUME TurnInv, NEW i \in DOMAIN reply, i \notin Calls(reply),
                    NEW k \in Nat, k <= reply[i].n, provider = "openai",
                    place = <<i, k>>, place' = After(i, k), phase = "parsing",
                    UNCHANGED <<serverVars, phase, lastUsage, turnVars>>,
                    pending' = Accumulate(<<>>),
                    k = 0 => events' = events,
                    k # 0 /\ TextOf(place) \in Events =>
                       events' = Append(events, TextOf(place))
             PROVE  TurnInv'
  <2> SUFFICES ASSUME TurnInv, TextChunk PROVE TurnInv'
    OBVIOUS
  <2>1. PICK i \in Texts(reply), k \in Nat :
           /\ k \in 0 .. reply[i].n
           /\ provider = "openai"
           /\ Line(<<i, k>>, After(i, k))
           /\ ReadChunk(Chunk(IF k = 0 THEN <<>> ELSE <<<<i, k>>>>, <<>>, ""))
    <3>1. \A i \in Texts(reply) : 0 .. reply[i].n \subseteq Nat
      OBVIOUS
    <3> QED
      BY <3>1 DEF TextChunk
  <2> DEFINE l == Chunk(IF k = 0 THEN <<>> ELSE <<<<i, k>>>>, <<>>, "")
  <2>2. /\ l.text = IF k = 0 THEN <<>> ELSE <<<<i, k>>>>
        /\ l.calls = <<>> /\ l.finish \notin Flushing /\ l.usage = FALSE
    BY DEF Chunk, Flushing
  <2>3. ReadChunk(l) /\ events \in Seq(Events)
    BY <2>1 DEF TurnInv, ParserInv, EventsInv
  <2>4. provider = "openai" /\ place = <<i, k>> /\ place' = After(i, k) /\ phase = "parsing"
    BY <2>1 DEF Line
  <2> HIDE DEF l
  <2>5. i \in DOMAIN reply /\ i \notin Calls(reply)
    BY DEF Texts
  <2>6. k <= reply[i].n
    <3>1. reply[i].n \in Nat
      BY <2>5, ReplyFacts DEF TurnInv, ParserInv, ServerInv
    <3>2. k \in 0 .. reply[i].n
      BY <2>1
    <3> QED
      BY <3>1, <3>2
  <2>7. /\ UNCHANGED <<serverVars, phase, lastUsage, turnVars>>
        /\ pending' = Accumulate(<<>>)
        /\ l.text = <<>> => events' = events
        /\ l.text # <<>> /\ Delta(l.text) \in Events =>
              events' = Append(events, Delta(l.text))
    BY <2>2, <2>3, ChunkFacts
  <2>8. k # 0 => l.text # <<>> /\ Delta(l.text) = TextOf(place)
    BY <2>2, <2>4 DEF TextOf
  <2> QED
    BY <2>2, <2>4, <2>5, <2>6, <2>7, <2>8
<1> USE DEF TurnInv, ParserInv
<1>2. /\ reply' = reply /\ provider' = provider /\ layout' = layout
      /\ UNCHANGED serverVars /\ UNCHANGED turnVars
      /\ phase' = "parsing" /\ lastUsage' = lastUsage
  BY DEF serverVars
<1>3. i \in DOMAIN reply /\ reply[i].n \in Nat
  BY ReplyFacts DEF ServerInv
<1>4. /\ place' \in (1 .. End) \X Nat /\ Before(place, place')
      /\ \/ k < LastLine(i) /\ place' = <<i, k + 1>>
         \/ k >= LastLine(i) /\ place' = <<i + 1, 0>>
      /\ \A p \in TextPieces(reply) :
            Before(p, place') => Before(p, place) \/ p = place
      /\ i \in 1 .. Len(reply) /\ End = Len(reply) + 1 /\ End \in Nat
  BY AfterFacts
<1>5. /\ place[1] = i /\ i \in Nat /\ i # End /\ place'[1] \in {i, i + 1}
      /\ place'[2] = 0 \/ place'[1] = i
      /\ place'[1] = End => place'[2] = 0
      /\ place'[1] \in Nat
  BY <1>3, <1>4
<1>6. ServerInv' /\ End' = End
  BY <1>2, <1>4, MovesOn
<1>7. PendingInv'
  <2>1. /\ DOMAIN pending' = DOMAIN pending
        /\ \A j \in DOMAIN pending : pending'[j] = pending[j]
    BY QuietAccumulate
  <2>2. \A j \in Calls(reply) : ~ Within(j)
    BY <1>3, <1>5 DEF Within
  <2>3. \A j \in Calls(reply) : j \in Nat /\ i < j
    <3>1. i \in Texts(reply) /\ Calls(reply) \subseteq Nat
      BY ReplyFacts DEF ServerInv, Texts
    <3> QED
      BY <3>1 DEF ServerInv
  <2>4. /\ IsFiniteSet(DOMAIN pending) /\ DOMAIN pending \subseteq Nat
        /\ layout = "apart" => DOMAIN pending \subseteq {1}
        /\ layout = "whole" => DOMAIN pending = {}
        /\ \A j \in DOMAIN pending : \E c \in Calls(reply) :
              c < place[1] /\ pending[j] = Whole(reply, c)
        /\ \A j, m \in DOMAIN pending : pending[j] = pending[m] => j = m
    BY <1>5, <2>2 DEF PendingInv
  <2>5. DOMAIN pending = {}
    <3>1. \A c \in Calls(reply) : ~(c < place[1])
      BY <1>5, <2>3
    <3> QED
      BY <2>4, <3>1
  <2>6. \A c \in Calls(reply) : ~(c < place'[1])
    BY <1>5, <2>3
  <2>7. place'[2] = 0 \/ place'[1] \notin Calls(reply')
    BY <1>2, <1>3, <1>5
  <2> QED
    BY <1>2, <1>6, <2>1, <2>4, <2>5, <2>6, <2>7, OpenAISettled
<1>8. EventsInv' /\ OrderInv' /\ WholeInv' /\ ReaderInv' /\ ContentInv' /\ CallsInv'
  <2>1. /\ ~(place'[2] > 0 /\ place'[1] = End) /\ ~(place'[2] > 1 /\ place'[1] = End)
        /\ provider # "anthropic"
    BY <1>5
  <2>2. CASE k = 0
    <3>1. <<>> \in Seq(Events) /\ events' = events \o <<>>
          /\ events' = events /\ \A j \in DOMAIN <<>> : <<>>[j] \in Plain
      BY <2>2, ConcatFacts DEF EventsInv
    <3>2. \A p \in TextPieces(reply) : Before(p, place') => Before(p, place)
      <4>1. \A p \in TextPieces(reply) : p # place
        BY <2>2, PieceFacts DEF ServerInv
      <4> QED
        BY <4>1, <1>4
    <3>3. EventsInv' /\ OrderInv'
      BY <1>2, <1>4, <3>1, EventsStep
    <3>4. WholeInv'
      BY <1>2, <1>4, <2>1, <3>1, <3>2, WholeStep
    <3>5. ReaderInv' /\ ContentInv' /\ CallsInv'
      BY <1>2, <3>1, ReaderStays DEF ReaderInv
    <3> QED
      BY <3>3, <3>4, <3>5
  <2>3. CASE k # 0
    <3> DEFINE e == TextOf(place)
    <3>2. place \in TextPieces(reply) /\ place \in Nat \X Nat
      BY <1>3, <1>5, <2>3, PieceFacts DEF ServerInv, Texts
    <3>3. e \in Events
      BY <3>2, EventTypes
    <3>4. events' = Append(events, e)
      BY <2>3, <3>3
    <3>5. e # Stop
      BY EventFacts DEF Plain
    <3> HIDE DEF e
    <3>6. /\ <<e>> \in Seq(Events) /\ events' = events \o <<e>>
          /\ Contains(events', e)
          /\ \A x : Contains(events', x) => Contains(events, x) \/ x = e
      BY <3>3, <3>4, OneMore DEF EventsInv
    <3>7. EventsInv' /\ OrderInv'
      <4>1. <<e>> = <<TextOf(place)>>
        BY DEF e
      <4> QED
        BY <1>2, <1>4, <3>2, <3>6, <4>1, EventsStep
    <3>8. WholeInv'
      <4>1. \A p \in TextPieces(reply) :
               Before(p, place') => Before(p, place) \/ Contains(events', TextOf(p))
        BY <1>4, <3>6 DEF e
      <4>2. Contains(events', Stop) => Contains(events, Stop)
        BY <3>5, <3>6
      <4> QED
        BY <1>2, <1>4, <2>1, <3>6, <4>1, <4>2, WholeStep
    <3>9. ReaderInv' /\ ContentInv' /\ CallsInv'
      BY <1>2, <3>6, ReaderStays DEF ReaderInv
    <3> QED
      BY <3>7, <3>8, <3>9
  <2> QED
    BY <2>2, <2>3
<1> QED
  BY <1>6, <1>7, <1>8

\* OpenAI's parser in the middle of a call.
LEMMA OpenAIWithin ==
    ASSUME ServerInv', provider' = "openai", layout' = "apart",
           NEW i, i \in Calls(reply'), NEW k \in Nat, place' = <<i, k + 1>>,
           DOMAIN pending' = {1},
           pending'[1] = [id |-> i, args |-> FirstPieces(i, k)]
    PROVE  PendingInv'
<1>1. i \in Nat /\ Calls(reply') \subseteq Nat
  BY ReplyFacts DEF ServerInv, Calls
<1>2. place'[1] = i /\ place'[2] = k + 1 /\ k + 1 > 0 /\ (k + 1) - 1 = k
  OBVIOUS
<1>3. \A j \in Calls(reply') : Within(j)' <=> j = i
  BY <1>2 DEF Within
<1>4. \A j : Key(j)' = 1
  BY DEF Key
<1>5. pending'[1] \in CallRecords
  <2>1. FirstPieces(i, k) \in PieceSeqs
    BY <1>1, FirstPiecesFacts
  <2> QED
    BY <1>1, <2>1 DEF CallRecords
<1>6. CallsKept' => \A j \in Calls(reply') : ~(j < place'[1])
  BY <1>1, <1>2 DEF CallsKept
<1>7. IsFiniteSet({1})
  BY FS_Singleton
<1> HIDE DEF Calls, CallRecords, CallsKept, FirstPieces
<1> QED
  BY <1>2, <1>3, <1>4, <1>5, <1>6, <1>7 DEF PendingInv

\* A part of a call adds its pieces to what OpenAI's parser keeps at 1.
LEMMA PartAccumulates ==
    ASSUME NEW i \in Nat \ {0}, NEW k \in Nat, NEW part,
           part = IF k = 0 THEN Part(i, <<>>) ELSE Part(NoId, <<<<i, k>>>>),
           pending' = Accumulate(<<part>>), DOMAIN pending \subseteq {1},
           k # 0 => /\ DOMAIN pending = {1}
                    /\ pending[1] = [id |-> i, args |-> FirstPieces(i, k - 1)]
    PROVE  /\ DOMAIN pending' = {1}
           /\ pending'[1] = [id |-> i, args |-> FirstPieces(i, k)]
<1> DEFINE chunk == <<part>>
           extended == [pending[1] EXCEPT !.args = @ \o part.args]
<1>1. DOMAIN chunk = {1} /\ chunk[1] = part
  OBVIOUS
<1> HIDE DEF chunk
<1>2. CASE k = 0
  <2>1. part.id = i /\ part.args = <<>> /\ part.id # NoId
    BY <1>2 DEF Part, NoId
  <2>2. pending' = [j \in DOMAIN pending \cup {j \in DOMAIN chunk : chunk[j].id # NoId} |->
           IF j \notin DOMAIN chunk THEN pending[j]
           ELSE IF chunk[j].id # NoId THEN [id |-> chunk[j].id, args |-> chunk[j].args]
           ELSE [pending[j] EXCEPT !.args = @ \o chunk[j].args]]
    BY DEF Accumulate, chunk
  <2>3. {j \in DOMAIN chunk : chunk[j].id # NoId} = {1}
    BY <1>1, <2>1
  <2>4. DOMAIN pending' = {1}
    BY <2>2, <2>3
  <2>5. pending'[1] = [id |-> chunk[1].id, args |-> chunk[1].args]
    BY <1>1, <2>1, <2>2, <2>3
  <2>6. pending'[1] = [id |-> i, args |-> <<>>]
    BY <1>1, <2>1, <2>5
  <2> QED
    BY <1>2, <2>4, <2>6, FirstPiecesFacts
<1>3. CASE k # 0
  <2>1. part.id = NoId /\ part.args = <<<<i, k>>>>
    BY <1>3 DEF Part, NoId
  <2>2. pending' = [j \in DOMAIN pending \cup {j \in DOMAIN chunk : chunk[j].id # NoId} |->
           IF j \notin DOMAIN chunk THEN pending[j]
           ELSE IF chunk[j].id # NoId THEN [id |-> chunk[j].id, args |-> chunk[j].args]
           ELSE [pending[j] EXCEPT !.args = @ \o chunk[j].args]]
    BY DEF Accumulate, chunk
  <2>3. DOMAIN pending' = {1} /\ pending'[1] = extended
    BY <1>1, <1>3, <2>1, <2>2
  <2>4. FirstPieces(i, k - 1) \o <<<<i, k>>>> = FirstPieces(i, k)
    <3>1. k - 1 \in Nat /\ (k - 1) + 1 = k
      BY <1>3
    <3> QED
      BY <3>1, FirstPiecesFacts
  <2>5. extended = [id |-> i, args |-> FirstPieces(i, k)]
    <3> DEFINE old == [id |-> i, args |-> FirstPieces(i, k - 1)]
    <3>1. extended = [old EXCEPT !.args = @ \o <<<<i, k>>>>]
      BY <1>3, <2>1
    <3>2. [old EXCEPT !.args = @ \o <<<<i, k>>>>]
             = [id |-> i, args |-> FirstPieces(i, k - 1) \o <<<<i, k>>>>]
      BY ExtendedCall
    <3> HIDE DEF extended, old
    <3> QED
      BY <3>1, <3>2, <2>4
  <2> QED
    BY <2>3, <2>5
<1> QED
  BY <1>2, <1>3

LEMMA PartChunkKeeps == TurnInv /\ PartChunk => TurnInv'
<1> SUFFICES ASSUME TurnInv, PartChunk PROVE TurnInv'
  OBVIOUS
<1> USE DEF TurnInv, ParserInv
<1>1. PICK i \in Calls(reply), k \in Nat :
         /\ k \in 0 .. reply[i].n
         /\ provider = "openai" /\ layout = "apart"
         /\ Line(<<i, k>>, After(i, k))
         /\ ReadChunk(Chunk(<<>>, <<IF k = 0 THEN Part(i, <<>>)
                                    ELSE Part(NoId, <<<<i, k>>>>)>>, ""))
  <2>1. \A i \in Calls(reply) : 0 .. reply[i].n \subseteq Nat
    OBVIOUS
  <2> QED
    BY <2>1 DEF PartChunk
<1> DEFINE part == IF k = 0 THEN Part(i, <<>>) ELSE Part(NoId, <<<<i, k>>>>)
<1>2. /\ UNCHANGED <<serverVars, phase, lastUsage, turnVars>>
      /\ pending' = Accumulate(<<part>>) /\ events' = events
  <2> DEFINE l == Chunk(<<>>, <<part>>, "")
  <2>1. /\ l.text = <<>> /\ l.calls = <<part>> /\ l.finish \notin Flushing
        /\ l.usage = FALSE
    BY DEF Chunk, Flushing
  <2>2. ReadChunk(l)
    BY <1>1
  <2> HIDE DEF l, part
  <2> QED
    BY <2>1, <2>2, ChunkFacts DEF EventsInv
<1>3. /\ provider = "openai" /\ layout = "apart" /\ place = <<i, k>>
      /\ place' = After(i, k) /\ phase' = "parsing"
      /\ reply' = reply /\ provider' = provider /\ layout' = layout
      /\ UNCHANGED serverVars /\ UNCHANGED turnVars /\ lastUsage' = lastUsage
  BY <1>1, <1>2 DEF Line, serverVars
<1>4. i \in DOMAIN reply /\ i \in Nat \ {0} /\ reply[i].n \in Nat /\ k <= reply[i].n
  <2>1. i \in DOMAIN reply /\ i \in Nat \ {0} /\ reply[i].n \in Nat
    BY ReplyFacts DEF ServerInv
  <2>2. k \in 0 .. reply[i].n
    BY <1>1
  <2> QED
    BY <2>1, <2>2
<1> HIDE DEF part
<1>5. /\ place' \in (1 .. End) \X Nat /\ Before(place, place')
      /\ \/ k < LastLine(i) /\ place' = <<i, k + 1>>
         \/ k >= LastLine(i) /\ place' = <<i + 1, 0>>
      /\ \A p \in TextPieces(reply) :
            Before(p, place') => Before(p, place) \/ p = place
      /\ i \in 1 .. Len(reply) /\ End = Len(reply) + 1 /\ End \in Nat
  BY <1>3, <1>4, AfterFacts
<1>6. LastLine(i) = reply[i].n /\ place[1] = i /\ place[2] = k /\ i # End
      /\ (place'[2] > 0 => place'[1] # End)
  BY <1>3, <1>5 DEF LastLine
<1>7. ServerInv' /\ End' = End
  BY <1>3, <1>5, MovesOn
<1>8. /\ DOMAIN pending' = {1}
      /\ pending'[1] = [id |-> i, args |-> FirstPieces(i, k)]
  <2>1. DOMAIN pending \subseteq {1}
    BY <1>3, <1>6 DEF PendingInv
  <2>2. k # 0 => /\ DOMAIN pending = {1}
                 /\ pending[1] = [id |-> i, args |-> FirstPieces(i, k - 1)]
    <3>1. k # 0 => Within(i)
      BY <1>6 DEF Within
    <3>2. Key(i) = 1
      BY <1>3 DEF Key
    <3> QED
      BY <1>6, <3>1, <3>2 DEF PendingInv
  <2> QED
    BY <1>2, <1>4, <2>1, <2>2, PartAccumulates DEF part
<1>9. PendingInv'
  <2>1. CASE place' = <<i, k + 1>>
    BY <1>3, <1>7, <1>8, <2>1, OpenAIWithin
  <2>2. CASE place' = <<i + 1, 0>> /\ k = reply[i].n
    <3>1. pending'[1] = Whole(reply, i)
      BY <1>8, <2>2 DEF Whole, Pieces, FirstPieces
    <3>2. place'[1] = i + 1 /\ place'[2] = 0 /\ i < i + 1
      BY <1>4, <2>2
    <3>3. CallsKept' => \A j \in Calls(reply) : j = i
      BY <1>3 DEF CallsKept
    <3>4. IsFiniteSet(DOMAIN pending')
      BY <1>8, FS_Singleton
    <3>5. DOMAIN pending' \subseteq Nat
      BY <1>8
    <3> HIDE DEF Calls, CallsKept
    <3> QED
      BY <1>3, <1>7, <1>8, <3>1, <3>2, <3>3, <3>4, <3>5, OpenAISettled
  <2> QED
    BY <1>4, <1>5, <1>6, <2>1, <2>2
<1>10. <<>> \in Seq(Events) /\ events' = events \o <<>>
       /\ (\A j \in DOMAIN <<>> : <<>>[j] \in Plain)
  BY <1>2, ConcatFacts DEF EventsInv
<1>11. EventsInv' /\ OrderInv'
  BY <1>3, <1>5, <1>10, EventsStep
<1>12. WholeInv'
  <2>1. \A p \in TextPieces(reply) : Before(p, place') => Before(p, place)
    <3>1. \A p \in TextPieces(reply) : p # place
      BY <1>6, PieceFacts DEF ServerInv, Texts
    <3> QED
      BY <1>5, <3>1
  <2>2. /\ ~(place'[2] > 0 /\ place'[1] = End) /\ ~(place'[2] > 1 /\ place'[1] = End)
        /\ provider # "anthropic"
    <3>1. place'[1] = End => place'[2] = 0
      BY <1>5, <1>6
    <3> QED
      BY <1>3, <3>1
  <2> HIDE DEF TextPieces, Calls
  <2> QED
    BY <1>2, <1>3, <1>5, <1>10, <2>1, <2>2, WholeStep
<1>13. ReaderInv' /\ ContentInv' /\ CallsInv'
  BY <1>3, <1>10, ReaderStays DEF ReaderInv
<1> QED
  BY <1>7, <1>9, <1>11, <1>12, <1>13

\* An order has every element once.
LEMMA OrderFacts ==
    ASSUME NEW S, IsFiniteSet(S), NEW order \in Orders(S)
    PROVE  /\ Cardinality(S) \in Nat /\ DOMAIN order = 1 .. Cardinality(S)
           /\ \A j \in DOMAIN order : order[j] \in S
           /\ \A j, k \in DOMAIN order : order[j] = order[k] => j = k
           /\ \A x \in S : \E j \in DOMAIN order : order[j] = x
<1>1. Cardinality(S) \in Nat
  BY FS_CardinalityType
<1>2. order \in [1 .. Cardinality(S) -> S]
  BY DEF Orders, Bijection, Injection, Surjection
<1>3. \A j, k \in 1 .. Cardinality(S) : order[j] = order[k] => j = k
  BY DEF Orders, Bijection, Injection, Surjection, IsInjective
<1>4. \A x \in S : \E j \in 1 .. Cardinality(S) : order[j] = x
  BY DEF Orders, Bijection, Surjection
<1> QED
  BY <1>1, <1>2, <1>3, <1>4

\* A chunk with all the calls makes each of them.
LEMMA CallsAccumulate ==
    ASSUME NEW r \in Seq(Blocks), NEW order \in Orders(Calls(r)),
           IsFiniteSet(Calls(r)), DOMAIN pending = {},
           pending' = Accumulate([j \in DOMAIN order |-> Part(order[j], Pieces(r, order[j]))])
    PROVE  /\ DOMAIN pending' = DOMAIN order
           /\ \A j \in DOMAIN order : pending'[j] = Whole(r, order[j])
<1> DEFINE chunk == [j \in DOMAIN order |-> Part(order[j], Pieces(r, order[j]))]
<1>1. DOMAIN chunk = DOMAIN order
  OBVIOUS
<1>2. \A j \in DOMAIN order :
         /\ chunk[j].id = order[j] /\ chunk[j].args = Pieces(r, order[j])
         /\ chunk[j].id # NoId
  <2>1. \A j \in DOMAIN order : order[j] \in DOMAIN r
    BY OrderFacts DEF Calls
  <2>2. DOMAIN r \subseteq Nat \ {0}
    OBVIOUS
  <2>3. \A j \in DOMAIN order : order[j] # NoId
    BY <2>1, <2>2 DEF NoId
  <2>4. \A j \in DOMAIN order : chunk[j] = Part(order[j], Pieces(r, order[j]))
    OBVIOUS
  <2>5. \A a, b : Part(a, b).id = a /\ Part(a, b).args = b
    BY DEF Part
  <2> HIDE DEF chunk
  <2> QED
    BY <2>3, <2>4, <2>5
<1>3. pending' = [j \in DOMAIN pending \cup {j \in DOMAIN chunk : chunk[j].id # NoId} |->
           IF j \notin DOMAIN chunk THEN pending[j]
           ELSE IF chunk[j].id # NoId THEN [id |-> chunk[j].id, args |-> chunk[j].args]
           ELSE [pending[j] EXCEPT !.args = @ \o chunk[j].args]]
  BY DEF Accumulate
<1> HIDE DEF chunk
<1>4. {j \in DOMAIN chunk : chunk[j].id # NoId} = DOMAIN order
  BY <1>1, <1>2
<1>5. DOMAIN pending' = DOMAIN order
  BY <1>3, <1>4
<1>6. \A j \in DOMAIN order : pending'[j] = [id |-> chunk[j].id, args |-> chunk[j].args]
  BY <1>1, <1>2, <1>3, <1>4
<1>7. \A j \in DOMAIN order : pending'[j] = Whole(r, order[j])
  BY <1>2, <1>6 DEF Whole
<1> QED
  BY <1>5, <1>7

LEMMA CallsChunkKeeps == TurnInv /\ CallsChunk => TurnInv'
<1> SUFFICES ASSUME TurnInv, CallsChunk PROVE TurnInv'
  OBVIOUS
<1> USE DEF TurnInv, ParserInv
<1>1. PICK i \in Calls(reply), order \in Orders(Calls(reply)) :
         /\ provider = "openai" /\ layout = "whole"
         /\ Line(<<i, 0>>, <<End, 0>>)
         /\ ReadChunk(Chunk(<<>>, [j \in DOMAIN order |->
                                    Part(order[j], Pieces(reply, order[j]))], ""))
  BY DEF CallsChunk
<1> DEFINE parts == [j \in DOMAIN order |-> Part(order[j], Pieces(reply, order[j]))]
<1>2. /\ UNCHANGED <<serverVars, phase, lastUsage, turnVars>>
      /\ pending' = Accumulate(parts) /\ events' = events
  <2> DEFINE l == Chunk(<<>>, parts, "")
  <2>1. /\ l.text = <<>> /\ l.calls = parts /\ l.finish \notin Flushing
        /\ l.usage = FALSE
    BY DEF Chunk, Flushing
  <2>2. ReadChunk(l)
    BY <1>1
  <2> HIDE DEF l, parts
  <2> QED
    BY <2>1, <2>2, ChunkFacts DEF EventsInv
<1>3. /\ provider = "openai" /\ layout = "whole" /\ place = <<i, 0>>
      /\ place' = <<End, 0>> /\ phase' = "parsing"
      /\ reply' = reply /\ provider' = provider /\ layout' = layout
      /\ UNCHANGED serverVars /\ UNCHANGED turnVars /\ lastUsage' = lastUsage
  BY <1>1, <1>2 DEF Line, serverVars
<1>4. /\ IsFiniteSet(Calls(reply)) /\ Calls(reply) \subseteq 1 .. Len(reply)
      /\ End = Len(reply) + 1 /\ Len(reply) \in Nat
  BY ReplyFacts DEF ServerInv, End
<1>5. /\ DOMAIN order = 1 .. Cardinality(Calls(reply))
      /\ Cardinality(Calls(reply)) \in Nat
      /\ \A j \in DOMAIN order : order[j] \in Calls(reply)
      /\ \A j, k \in DOMAIN order : order[j] = order[k] => j = k
      /\ \A x \in Calls(reply) : \E j \in DOMAIN order : order[j] = x
  BY <1>4, OrderFacts
<1>6. /\ place[1] = i /\ place'[1] = End /\ place'[2] = 0 /\ i < End
      /\ place' \in (1 .. End) \X Nat /\ Before(place, place')
  BY <1>3, <1>4 DEF Before
<1>7. ServerInv' /\ End' = End
  BY <1>3, <1>6, MovesOn
<1>8. DOMAIN pending = {}
  BY <1>3, <1>4, <1>6 DEF PendingInv
<1>9. /\ DOMAIN pending' = DOMAIN order
      /\ \A j \in DOMAIN order : pending'[j] = Whole(reply, order[j])
  BY <1>2, <1>4, <1>8, CallsAccumulate DEF ServerInv
<1> HIDE DEF parts
<1>10. PendingInv'
  <2>1. IsFiniteSet(DOMAIN pending') /\ DOMAIN pending' \subseteq Nat
    BY <1>5, <1>9, FS_Interval
  <2>2. \A j, k \in DOMAIN pending' : pending'[j] = pending'[k] => j = k
    <3>1. \A a, b : Whole(reply, a) = Whole(reply, b) => a = b
      BY DEF Whole
    <3> QED
      BY <1>5, <1>9, <3>1
  <2>3. \A j \in DOMAIN pending' : \E c \in Calls(reply') :
           c < place'[1] /\ pending'[j] = Whole(reply', c)
    <3>1. \A c \in Calls(reply) : c < End
      BY <1>4
    <3> QED
      BY <1>3, <1>5, <1>6, <1>9, <3>1
  <2>4. \A c \in Calls(reply') : \E j \in DOMAIN pending' : pending'[j] = Whole(reply', c)
    BY <1>3, <1>5, <1>9
  <2>5. layout' # "apart" /\ place'[1] = End' /\ provider' = "openai"
    BY <1>3, <1>6, <1>7
  <2> HIDE DEF Calls, CallsKept
  <2> QED
    BY <1>6, <1>7, <2>1, <2>2, <2>3, <2>4, <2>5, OpenAISettled
<1>11. <<>> \in Seq(Events) /\ events' = events \o <<>>
       /\ (\A j \in DOMAIN <<>> : <<>>[j] \in Plain)
  BY <1>2, ConcatFacts DEF EventsInv
<1>12. EventsInv' /\ OrderInv'
  BY <1>3, <1>6, <1>11, EventsStep
<1>13. WholeInv'
  <2>1. \A p \in TextPieces(reply) : Before(p, place') => Before(p, place)
    <3>1. \A p \in TextPieces(reply) : p[1] \in Texts(reply)
      BY PieceFacts DEF ServerInv
    <3>2. \A t \in Texts(reply) : t < i
      BY <1>3 DEF ServerInv
    <3> QED
      BY <1>6, <3>1, <3>2 DEF Before
  <2>2. ~(place'[2] > 0) /\ ~(place'[2] > 1) /\ provider # "anthropic"
    BY <1>3, <1>6
  <2> HIDE DEF TextPieces, Calls
  <2> QED
    BY <1>2, <1>3, <1>6, <1>11, <2>1, <2>2, WholeStep
<1>14. ReaderInv' /\ ContentInv' /\ CallsInv'
  BY <1>3, <1>11, ReaderStays DEF ReaderInv
<1> QED
  BY <1>7, <1>10, <1>12, <1>13, <1>14

\* At the end of a reply OpenAI's parser keeps whole calls only, and hands
\* each of them on once.
LEMMA FlushedCalls ==
    ASSUME ServerInv, PendingInv, provider = "openai", place = <<End, 0>>,
           NEW kept, DOMAIN kept = DOMAIN pending,
           \A j \in DOMAIN pending : kept[j] = pending[j],
           NEW order \in Orders(DOMAIN kept),
           NEW new, new = [j \in DOMAIN order |-> ToolCall(kept[order[j]])]
    PROVE  /\ new \in Seq(Events)
           /\ \A k \in DOMAIN new : \E i \in Calls(reply) : new[k] = CallOf(reply, i)
           /\ \A k, l \in DOMAIN new : new[k] = new[l] => k = l
           /\ CallsKept => \A i \in Calls(reply) : Contains(new, CallOf(reply, i))
<1>1. place[1] = End /\ place[2] = 0
  OBVIOUS
<1>2. /\ Calls(reply) \subseteq Nat
      /\ \A i \in Calls(reply) : i < End /\ CallOf(reply, i) \in Events
  <2>1. Calls(reply) \subseteq 1 .. Len(reply) /\ End = Len(reply) + 1 /\ Len(reply) \in Nat
    BY ReplyFacts DEF ServerInv, End
  <2> QED
    BY <2>1, WholeType DEF ServerInv
<1>3. \A i \in Calls(reply) : ~ Within(i)
  BY <1>1 DEF Within
<1>4. /\ IsFiniteSet(DOMAIN pending)
      /\ \A j \in DOMAIN pending : \E i \in Calls(reply) : pending[j] = Whole(reply, i)
      /\ \A j, k \in DOMAIN pending : pending[j] = pending[k] => j = k
      /\ CallsKept => \A i \in Calls(reply) : i < place[1] =>
                \E j \in DOMAIN pending : pending[j] = Whole(reply, i)
  BY <1>1, <1>3 DEF PendingInv
<1>5. /\ Cardinality(DOMAIN pending) \in Nat
      /\ DOMAIN order = 1 .. Cardinality(DOMAIN pending)
      /\ \A j \in DOMAIN order : order[j] \in DOMAIN pending
      /\ \A j, k \in DOMAIN order : order[j] = order[k] => j = k
      /\ \A x \in DOMAIN pending : \E j \in DOMAIN order : order[j] = x
  BY <1>4, OrderFacts
<1>6. /\ DOMAIN new = DOMAIN order
      /\ \A k \in DOMAIN order : new[k] = ToolCall(pending[order[k]])
  BY <1>5
<1>7. \A x, y : ToolCall(x) = ToolCall(y) => x = y
  <2>1. \A x : ToolCall(x).call = x
    BY DEF ToolCall
  <2> QED
    BY <2>1
<1>8. ASSUME NEW k \in DOMAIN new PROVE \E i \in Calls(reply) : new[k] = CallOf(reply, i)
  <2>1. PICK i \in Calls(reply) : pending[order[k]] = Whole(reply, i)
    BY <1>4, <1>5, <1>6
  <2>2. new[k] = CallOf(reply, i)
    BY <1>6, <2>1 DEF CallOf
  <2> QED
    BY <2>2
<1>9. ASSUME NEW k \in DOMAIN new, NEW l \in DOMAIN new, new[k] = new[l] PROVE k = l
  <2>1. pending[order[k]] = pending[order[l]]
    BY <1>6, <1>7, <1>9
  <2>2. order[k] = order[l]
    BY <1>4, <1>5, <1>6, <2>1
  <2> QED
    BY <1>5, <1>6, <2>2
<1>10. new \in Seq(Events)
  <2> DEFINE n == Cardinality(DOMAIN pending)
  <2>1. n \in Nat /\ DOMAIN new = 1 .. n
    BY <1>5, <1>6
  <2>2. \A k \in 1 .. n : new[k] \in Events
    BY <1>2, <1>8, <2>1
  <2>3. new = [k \in 1 .. n |-> new[k]]
    BY <2>1
  <2> HIDE DEF n
  <2> QED
    BY <2>1, <2>2, <2>3, IsASeq
<1>11. ASSUME CallsKept, NEW i \in Calls(reply) PROVE Contains(new, CallOf(reply, i))
  <2>1. PICK j \in DOMAIN pending : pending[j] = Whole(reply, i)
    BY <1>1, <1>2, <1>4, <1>11
  <2>2. PICK k \in DOMAIN order : order[k] = j
    BY <1>5
  <2>3. new[k] = CallOf(reply, i)
    BY <1>6, <2>1, <2>2 DEF CallOf
  <2>4. k \in 1 .. Len(new)
    BY <1>6, <1>10
  <2> QED
    BY <2>3, <2>4 DEF Contains
<1> QED
  BY <1>8, <1>9, <1>10, <1>11

LEMMA FinishChunkKeeps == TurnInv /\ FinishChunk => TurnInv'
<1> SUFFICES ASSUME TurnInv, FinishChunk PROVE TurnInv'
  OBVIOUS
<1> USE DEF TurnInv, ParserInv
<1> DEFINE l == Chunk(<<>>, <<>>, ending)
           kept == Accumulate(<<>>)
<1>1. /\ l.text = <<>> /\ l.calls = <<>> /\ l.finish = ending /\ l.usage = FALSE
      /\ ReadChunk(l)
  BY DEF FinishChunk, Chunk
<1> HIDE DEF l
<1>2. /\ provider = "openai" /\ place' = <<End, 1>> /\ phase = "parsing"
      /\ place = <<End, 0>>
  BY DEF FinishChunk, Line
<1>3. /\ UNCHANGED <<serverVars, phase, lastUsage, turnVars>>
      /\ ending \notin Flushing => pending' = Accumulate(<<>>) /\ events' = events
      /\ ending \in Flushing =>
            /\ \E order \in Orders(DOMAIN kept) :
                  events' = events \o [j \in DOMAIN order |-> ToolCall(kept[order[j]])]
            /\ pending' = <<>>
  BY <1>1, ChunkFacts DEF EventsInv
<1>4. /\ phase' = "parsing" /\ UNCHANGED serverVars /\ UNCHANGED turnVars
      /\ reply' = reply /\ provider' = provider /\ lastUsage' = lastUsage
      /\ "length" \notin Flushing
  BY <1>2, <1>3 DEF serverVars, Flushing
<1>5. /\ DOMAIN kept = DOMAIN pending
      /\ \A j \in DOMAIN pending : kept[j] = pending[j]
  BY DEF Accumulate
<1> HIDE DEF kept
<1>6. /\ Len(reply) \in Nat /\ End = Len(reply) + 1
      /\ place \in (1 .. End) \X Nat
  BY ReplyFacts DEF ServerInv, End
<1>7. place'[1] = End /\ place'[2] = 1
  BY <1>2
<1>8. place' \in (1 .. End) \X Nat /\ Before(place, place')
  BY <1>2, <1>6, <1>7 DEF Before
<1>9. ServerInv' /\ End' = End
  BY <1>4, <1>8, MovesOn
<1>10. PendingInv'
  <2>1. CASE ending \in Flushing
    <3>1. DOMAIN pending' = {}
      BY <1>3, <2>1
    <3> QED
      BY <1>2, <1>4, <1>7, <1>9, <3>1, OpenAIBeyond
  <2>2. CASE ending \notin Flushing
    <3>1. /\ DOMAIN pending' = DOMAIN pending
          /\ \A j \in DOMAIN pending : pending'[j] = pending[j]
      BY <1>3, <2>2, QuietAccumulate
    <3> QED
      BY <1>2, <1>4, <1>7, <1>9, <3>1, OpenAIBeyond
  <2> QED
    BY <2>1, <2>2
<1>11. CASE ending \in Flushing
  <2>1. PICK order \in Orders(DOMAIN kept) :
           events' = events \o [j \in DOMAIN order |-> ToolCall(kept[order[j]])]
    BY <1>3, <1>11
  <2> DEFINE new == [j \in DOMAIN order |-> ToolCall(kept[order[j]])]
  <2>2. /\ place = <<End, 0>> /\ place[1] = End /\ place[2] = 0
        /\ events' = events \o new /\ ending # "length"
    BY <1>2, <1>4, <1>6, <1>11, <2>1
  <2> HIDE DEF new
  <2>3. /\ new \in Seq(Events)
        /\ \A k \in DOMAIN new : \E i \in Calls(reply) : new[k] = CallOf(reply, i)
        /\ \A k, m \in DOMAIN new : new[k] = new[m] => k = m
        /\ CallsKept => \A i \in Calls(reply) : Contains(new, CallOf(reply, i))
    <3> HIDE DEF CallsKept
    <3> QED
      BY <1>2, <1>5, FlushedCalls DEF new
  <2>4. EventsInv' /\ OrderInv'
    BY <1>2, <1>4, <1>8, <2>2, <2>3, EventsStep
  <2>5. \A e : Contains(events', e) <=> Contains(events, e) \/ Contains(new, e)
    BY <2>2, <2>3, ContainsConcat DEF EventsInv
  <2>6. WholeInv'
    <3>1. \A p \in TextPieces(reply) : Before(p, place)
      <4>1. 1 > place[2] /\ 1 \in Nat
        BY <2>2
      <4> QED
        BY <1>2, <1>4, <2>2, <4>1, EndFacts
    <3>2. ~ Contains(new, Stop)
      <4>1. \A k \in DOMAIN new : new[k] # Stop
        BY <2>3, EventFacts DEF Plain
      <4>2. DOMAIN new = 1 .. Len(new)
        BY <2>3
      <4> QED
        BY <4>1, <4>2 DEF Contains
    <3>3. Contains(events', Stop) => Contains(events, Stop)
      BY <2>5, <3>2
    <3>4. CallsKept => \A i \in Calls(reply) : Contains(events', CallOf(reply, i))
      BY <2>3, <2>5
    <3>5. ~(place'[2] > 1) /\ provider # "anthropic"
      BY <1>2, <1>7
    <3> HIDE DEF TextPieces, Calls
    <3> QED
      BY <1>4, <1>8, <2>2, <2>3, <3>1, <3>3, <3>4, <3>5, WholeStep
  <2>7. ReaderInv' /\ ContentInv' /\ CallsInv'
    BY <1>4, <2>2, <2>3, ReaderStays DEF ReaderInv
  <2> QED
    BY <1>9, <1>10, <2>4, <2>6, <2>7
<1>12. CASE ending \notin Flushing
  <2>1. ending = "length" /\ events' = events
    BY <1>3, <1>12 DEF ServerInv, Flushing
  <2>2. <<>> \in Seq(Events) /\ events' = events \o <<>>
        /\ (\A j \in DOMAIN <<>> : <<>>[j] \in Plain)
    BY <2>1, ConcatFacts DEF EventsInv
  <2>3. EventsInv' /\ OrderInv'
    BY <1>4, <1>8, <2>2, EventsStep
  <2>4. WholeInv'
    <3>1. ~ CallsKept /\ ~(place'[2] > 1) /\ provider # "anthropic"
      BY <1>2, <1>7, <2>1 DEF CallsKept
    <3>2. \A p \in TextPieces(reply) : Before(p, place)
      <4>1. place[1] = End /\ 1 > place[2] /\ 1 \in Nat
        BY <1>2
      <4> QED
        BY <1>2, <1>4, <4>1, EndFacts
    <3> HIDE DEF TextPieces, Calls, CallsKept
    <3> QED
      BY <1>4, <1>8, <2>1, <2>2, <3>1, <3>2, WholeStep
  <2>5. ReaderInv' /\ ContentInv' /\ CallsInv'
    BY <1>4, <2>2, ReaderStays DEF ReaderInv
  <2> QED
    BY <1>9, <1>10, <2>3, <2>4, <2>5
<1> QED
  BY <1>11, <1>12

LEMMA UsageChunkKeeps == TurnInv /\ UsageChunk => TurnInv'
<1> SUFFICES ASSUME TurnInv, UsageChunk PROVE TurnInv'
  OBVIOUS
<1> USE DEF TurnInv, ParserInv
<1> DEFINE l == [Chunk(<<>>, <<>>, "") EXCEPT !.usage = TRUE]
<1>1. /\ l.text = <<>> /\ l.calls = <<>> /\ l.finish \notin Flushing /\ l.usage
      /\ ReadChunk(l)
  BY DEF UsageChunk, Chunk, Flushing
<1> HIDE DEF l
<1>2. /\ provider = "openai" /\ phase = "parsing"
      /\ place = <<End, 1>> /\ place' = <<End, 2>>
  BY DEF UsageChunk, Line
<1>3. /\ UNCHANGED <<serverVars, phase, lastUsage, turnVars>>
      /\ pending' = Accumulate(<<>>) /\ events' = Append(events, Usage)
  BY <1>1, ChunkFacts DEF EventsInv
<1>4. /\ phase' = "parsing" /\ UNCHANGED serverVars /\ UNCHANGED turnVars
      /\ reply' = reply /\ provider' = provider /\ lastUsage' = lastUsage
      /\ place[1] = End /\ place[2] = 1 /\ 2 > place[2] /\ 2 \in Nat
  BY <1>2, <1>3 DEF serverVars
<1>5. /\ place' \in (1 .. End) \X Nat /\ Before(place, place')
      /\ \A p \in TextPieces(reply) : Before(p, place)
      /\ place'[1] = End /\ place'[2] = 2
  BY <1>2, <1>4, EndFacts
<1>6. ServerInv' /\ End' = End
  BY <1>4, <1>5, MovesOn
<1>7. PendingInv'
  <2>1. /\ DOMAIN pending' = DOMAIN pending
        /\ \A j \in DOMAIN pending : pending'[j] = pending[j]
    BY <1>3, QuietAccumulate
  <2> QED
    BY <1>2, <1>4, <1>5, <1>6, <2>1, OpenAIBeyond
<1>8. Usage \in Events /\ Usage \in Plain /\ Usage # Stop
  BY EventTypes, EventFacts DEF Plain
<1>9. /\ <<Usage>> \in Seq(Events) /\ events' = events \o <<Usage>>
      /\ Contains(events', Usage)
      /\ \A x : Contains(events', x) => Contains(events, x) \/ x = Usage
  BY <1>3, <1>8, OneMore DEF EventsInv
<1>10. EventsInv' /\ OrderInv'
  <2>1. \A k \in DOMAIN <<Usage>> : <<Usage>>[k] \in Plain
    BY <1>8
  <2> QED
    BY <1>4, <1>5, <1>9, <2>1, EventsStep
<1>11. WholeInv'
  <2>1. Contains(events', Stop) => Contains(events, Stop)
    BY <1>8, <1>9
  <2>2. place[2] > 0 /\ provider # "anthropic"
    BY <1>2, <1>4
  <2> HIDE DEF TextPieces, Calls
  <2> QED
    BY <1>4, <1>5, <1>9, <2>1, <2>2, WholeStep
<1>12. ReaderInv' /\ ContentInv' /\ CallsInv'
  BY <1>4, <1>9, ReaderStays DEF ReaderInv
<1> QED
  BY <1>6, <1>7, <1>10, <1>11, <1>12

LEMMA DoneKeeps == TurnInv /\ Done => TurnInv'
<1> SUFFICES ASSUME TurnInv, Done PROVE TurnInv'
  OBVIOUS
<1> USE DEF TurnInv, ParserInv
<1>1. /\ provider = "openai" /\ phase' = "reading"
      /\ place = <<End, 2>> /\ place' = <<End, 3>>
      /\ UNCHANGED serverVars /\ UNCHANGED turnVars
      /\ reply' = reply /\ provider' = provider
      /\ lastUsage' = lastUsage /\ pending' = pending
      /\ events' = Append(events, Stop)
  BY DEF Done, Line, serverVars
<1>2. place[1] = End /\ place[2] = 2 /\ 3 > place[2] /\ 3 \in Nat
  BY <1>1
<1>3. /\ place' \in (1 .. End) \X Nat /\ Before(place, place')
      /\ \A p \in TextPieces(reply) : Before(p, place)
      /\ place'[1] = End /\ place'[2] = 3
  BY <1>1, <1>2, EndFacts
<1>4. ServerInv' /\ End' = End
  BY <1>1, <1>3, MovesOn
<1>5. PendingInv'
  BY <1>1, <1>3, <1>4, OpenAIBeyond
<1>6. Stop \in Events /\ Stop \in Plain
  BY EventTypes DEF Plain
<1>7. /\ <<Stop>> \in Seq(Events) /\ events' = events \o <<Stop>>
      /\ \A x : Contains(events', x) => Contains(events, x) \/ x = Stop
  BY <1>1, <1>6, OneMore DEF EventsInv
<1>8. EventsInv' /\ OrderInv'
  <2>1. \A k \in DOMAIN <<Stop>> : <<Stop>>[k] \in Plain
    BY <1>6
  <2> QED
    BY <1>1, <1>3, <1>7, <2>1, EventsStep
<1>9. WholeInv'
  <2>1. Contains(events', Usage)
    <3>1. Contains(events, Usage)
      BY <1>1, <1>2 DEF WholeInv
    <3> QED
      BY <1>7, <3>1, ContainsConcat DEF EventsInv
  <2>2. place[2] > 0 /\ place[2] > 1 /\ provider # "anthropic"
    BY <1>1, <1>2
  <2> HIDE DEF TextPieces, Calls
  <2> QED
    BY <1>1, <1>2, <1>3, <1>7, <2>1, <2>2, WholeStep
<1>10. ReaderInv' /\ ContentInv' /\ CallsInv'
  BY <1>1, <1>7, ReaderStays DEF ReaderInv
<1> QED
  BY <1>4, <1>5, <1>8, <1>9, <1>10

\* The body is over, and the parser leaves it at what it has.
LEMMA ParserRests ==
    ASSUME ParserInv, UNCHANGED serverVars, UNCHANGED parserVars
    PROVE  ParserInv'
<1>1. /\ meant' = meant /\ reply' = reply /\ provider' = provider
      /\ layout' = layout /\ ending' = ending /\ place' = place /\ pending' = pending
      /\ lastUsage' = lastUsage /\ events' = events
  BY DEF serverVars, parserVars
<1>2. End' = End /\ CallsKept' = CallsKept
  BY <1>1 DEF End, CallsKept
<1>3. ServerInv'
  BY <1>1, <1>2 DEF ParserInv, ServerInv, Shortened
<1>4. PendingInv'
  BY <1>1, <1>2 DEF ParserInv, PendingInv, Within, Key
<1>5. EventsInv' /\ OrderInv' /\ WholeInv'
  BY <1>1, <1>2 DEF ParserInv, EventsInv, OrderInv, WholeInv
<1> QED
  BY <1>3, <1>4, <1>5 DEF ParserInv

LEMMA BodyEnds == TurnInv /\ (EndOfBody \/ StreamFails) => TurnInv'
<1> SUFFICES ASSUME TurnInv, EndOfBody \/ StreamFails PROVE TurnInv'
  OBVIOUS
<1>1. /\ UNCHANGED serverVars /\ UNCHANGED parserVars /\ UNCHANGED turnVars
      /\ phase' \in {"reading", "failed"}
      /\ events' = events /\ lastUsage' = lastUsage
  BY DEF EndOfBody, StreamFails, parserVars
<1>2. <<>> \in Seq(Events) /\ events' = events \o <<>>
  BY <1>1, ConcatFacts DEF TurnInv, ParserInv, EventsInv
<1>3. ReaderInv' /\ ContentInv' /\ CallsInv'
  BY <1>1, <1>2, ReaderStays DEF TurnInv, ParserInv, ReaderInv
<1> QED
  BY <1>1, <1>3, ParserRests DEF TurnInv

LEMMA ParserKeeps == TurnInv /\ Parser => TurnInv'
  BY BlockStartKeeps, BlockDeltaKeeps, BlockStopKeeps, MessageDeltaKeeps,
     MessageStopKeeps, TextChunkKeeps, PartChunkKeeps, CallsChunkKeeps,
     FinishChunkKeeps, UsageChunkKeeps, DoneKeeps, BodyEnds DEF Parser

-----------------------------------------------------------------------------
(* A turn: its reader                                                      *)

\* An event is read.
LEMMA ReadFacts ==
    ASSUME TurnInv, NEW type, NextEvent(type)
    PROVE  /\ ParserInv'
           /\ reply' = reply /\ provider' = provider /\ events' = events
           /\ lastUsage' = lastUsage
           /\ index \in Nat /\ index' = index + 1 /\ index' \in 0 .. Len(events')
           /\ 1 .. index' \subseteq DOMAIN events
           /\ \A n \in 1 .. index' : n \in 1 .. index \/ n = index'
           /\ 1 .. index \subseteq 1 .. index' /\ index' \in 1 .. index'
           /\ \A n \in 1 .. index : n < index'
           /\ Event = events[index'] /\ Event.type = type
           /\ phase = "reading" /\ Len(events) \in Nat
<1>1. /\ UNCHANGED serverVars /\ UNCHANGED parserVars
      /\ index' = index + 1 /\ index < Len(events)
      /\ Event.type = type /\ phase = "reading"
  BY DEF NextEvent
<1>2. /\ reply' = reply /\ provider' = provider /\ events' = events
      /\ lastUsage' = lastUsage
  BY <1>1 DEF serverVars, parserVars
<1>3. events \in Seq(Events) /\ index \in 0 .. Len(events)
  BY DEF TurnInv, ParserInv, EventsInv, ReaderInv
<1>4. Len(events) \in Nat /\ DOMAIN events = 1 .. Len(events)
  BY <1>3
<1>5. ParserInv'
  BY <1>1, ParserRests DEF TurnInv
<1>6. /\ index \in Nat /\ index' \in 0 .. Len(events')
      /\ 1 .. index' \subseteq DOMAIN events
      /\ \A n \in 1 .. index' : n \in 1 .. index \/ n = index'
      /\ 1 .. index \subseteq 1 .. index' /\ index' \in 1 .. index'
      /\ \A n \in 1 .. index : n < index'
  BY <1>1, <1>2, <1>3, <1>4
<1>7. Event = events[index']
  BY <1>1 DEF Event
<1> QED
  BY <1>1, <1>2, <1>4, <1>5, <1>6, <1>7

\* What the reader has before its next event, and what that is.
LEMMA EventTypesDiffer ==
    /\ \A p : TextOf(p).type = "message_delta" /\ TextOf(p).text = <<p>>
    /\ \A r, i : CallOf(r, i).type = "tool_call" /\ CallOf(r, i).call = Whole(r, i)
    /\ Usage.type = "usage" /\ Stop.type = "stop"
    /\ \A e \in Plain : /\ e.type = "message_delta" => e.text = <<>>
                        /\ e.type # "tool_call"
                        /\ e.type = "stop" => e = Stop
  BY DEF TextOf, CallOf, ToolCall, Delta, Usage, Stop, Plain, MessageStart

LEMMA ContentStays ==
    ASSUME TurnInv, NEW type, NextEvent(type), content' = content,
           \A p \in TextPieces(reply) : Event # TextOf(p)
    PROVE  ContentInv'
<1>1. /\ reply' = reply /\ events' = events
      /\ \A n \in 1 .. index' : n \in 1 .. index \/ n = index'
      /\ 1 .. index \subseteq 1 .. index' /\ Event = events[index']
  BY ReadFacts
<1>2. ContentInv
  BY DEF TurnInv
<1> HIDE DEF TextPieces, Before
<1> QED
  BY <1>1, <1>2 DEF ContentInv

LEMMA CallsStay ==
    ASSUME TurnInv, NEW type, NextEvent(type), toolCalls' = toolCalls,
           \A i \in Calls(reply) : Event # CallOf(reply, i)
    PROVE  CallsInv'
<1>1. /\ reply' = reply /\ provider' = provider /\ events' = events
      /\ \A n \in 1 .. index' : n \in 1 .. index \/ n = index'
      /\ 1 .. index \subseteq 1 .. index' /\ Event = events[index']
  BY ReadFacts
<1>2. CallsInv
  BY DEF TurnInv
<1> HIDE DEF Calls
<1>3. \A j \in DOMAIN toolCalls : \E i \in Calls(reply) :
         /\ toolCalls[j] = Whole(reply, i)
         /\ \E n \in 1 .. index' : events[n] = CallOf(reply, i)
  BY <1>1, <1>2 DEF CallsInv
<1>4. \A n \in 1 .. index' : \A i \in Calls(reply) :
         events[n] = CallOf(reply, i) => \E j \in DOMAIN toolCalls : toolCalls[j] = Whole(reply, i)
  BY <1>1, <1>2 DEF CallsInv
<1> QED
  BY <1>1, <1>2, <1>3, <1>4 DEF CallsInv

\* What does not depend on the event read.
LEMMA ReaderMoves ==
    ASSUME TurnInv, NEW type, NextEvent(type),
           phase' \in {"reading", "failed"}, content' \in PieceSeqs,
           toolCalls' \in Seq(CallRecords), usage' \in BOOLEAN, usage => usage',
           type = "usage" => usage',
           stopReason' = stopReason \/ (stopReason' = "stop" /\ Event = Stop)
    PROVE  ReaderInv'
<1>1. /\ events' = events /\ lastUsage' = lastUsage
      /\ \A n \in 1 .. index' : n \in 1 .. index \/ n = index'
      /\ Event = events[index'] /\ Event.type = type
      /\ index' \in 0 .. Len(events') /\ 1 .. index' \subseteq DOMAIN events
      /\ index' \in 1 .. index'
  BY ReadFacts
<1>2. ReaderInv
  BY DEF TurnInv
<1>3. \A n \in 1 .. index' : events[n] = Usage => usage'
  <2>1. Event = Usage => usage'
    BY <1>1, EventTypesDiffer
  <2> QED
    BY <1>1, <1>2, <2>1 DEF ReaderInv
<1>4. stopReason' = "stop" => Contains(events, Stop)
  <2>1. DOMAIN events = 1 .. Len(events)
    BY DEF TurnInv, ParserInv, EventsInv
  <2>2. Event = Stop => Contains(events, Stop)
    BY <1>1, <2>1 DEF Contains
  <2> HIDE DEF Contains
  <2> QED
    BY <1>2, <2>2 DEF ReaderInv
<1> HIDE DEF Contains, PieceSeqs, CallRecords
<1> QED
  BY <1>1, <1>2, <1>3, <1>4 DEF ReaderInv

LEMMA QuietReads == TurnInv /\ (ReadStart \/ ReadUsage \/ ReadStop) => TurnInv'
<1> SUFFICES ASSUME TurnInv, NEW type \in {"message_start", "usage", "stop"},
                    NextEvent(type), phase' = phase, content' = content,
                    toolCalls' = toolCalls, usage' = (usage \/ type = "usage"),
                    stopReason' = IF type = "stop" THEN "stop" ELSE stopReason
             PROVE  TurnInv'
  <2>1. TurnInv => usage \in BOOLEAN
    BY DEF TurnInv, ReaderInv
  <2> QED
    BY <2>1 DEF ReadStart, ReadUsage, ReadStop
<1>1. /\ ParserInv' /\ Event.type = type /\ phase = "reading"
      /\ 1 .. index' \subseteq DOMAIN events /\ index' \in 1 .. index'
      /\ Event = events[index']
  BY ReadFacts
<1>2. /\ \A p \in TextPieces(reply) : Event # TextOf(p)
      /\ \A i \in Calls(reply) : Event # CallOf(reply, i)
  BY <1>1, EventTypesDiffer
<1>3. ContentInv' /\ CallsInv'
  BY <1>2, ContentStays, CallsStay
<1>4. type = "stop" => Event = Stop
  <2>1. Event \in Plain
    BY <1>1, <1>2 DEF TurnInv, ParserInv, EventsInv
  <2> QED
    BY <1>1, <2>1, EventTypesDiffer
<1>5. ReaderInv'
  <2>1. /\ content \in PieceSeqs /\ toolCalls \in Seq(CallRecords)
        /\ usage \in BOOLEAN
    BY DEF TurnInv, ReaderInv
  <2>2. usage' \in BOOLEAN /\ (usage => usage') /\ (type = "usage" => usage')
    BY <2>1
  <2>3. stopReason' = stopReason \/ (stopReason' = "stop" /\ Event = Stop)
    BY <1>4
  <2> HIDE DEF PieceSeqs, CallRecords
  <2> QED
    BY <1>1, <2>1, <2>2, <2>3, ReaderMoves
<1> QED
  BY <1>1, <1>3, <1>5 DEF TurnInv

LEMMA ReadDeltaKeeps == TurnInv /\ ReadDelta => TurnInv'
<1> SUFFICES ASSUME TurnInv, ReadDelta PROVE TurnInv'
  OBVIOUS
<1>1. /\ NextEvent("message_delta")
      /\ IF Event.text = <<>> THEN phase' = "failed" /\ content' = content
         ELSE content' = content \o Event.text /\ phase' = phase
      /\ toolCalls' = toolCalls /\ usage' = usage /\ stopReason' = stopReason
  BY DEF ReadDelta
<1>2. /\ ParserInv' /\ Event.type = "message_delta" /\ phase = "reading"
      /\ reply' = reply /\ events' = events
      /\ 1 .. index' \subseteq DOMAIN events /\ index' \in 1 .. index'
      /\ 1 .. index \subseteq 1 .. index'
      /\ \A n \in 1 .. index' : n \in 1 .. index \/ n = index'
      /\ \A n \in 1 .. index : n < index'
      /\ Event = events[index']
  BY <1>1, ReadFacts
<1>3. CallsInv'
  <2>1. \A i \in Calls(reply) : Event # CallOf(reply, i)
    BY <1>2, EventTypesDiffer
  <2> QED
    BY <1>1, <2>1, CallsStay
<1>4. /\ content \in PieceSeqs /\ toolCalls \in Seq(CallRecords)
      /\ usage \in BOOLEAN /\ reply \in Seq(Blocks)
  BY DEF TurnInv, ReaderInv, ParserInv, ServerInv
<1>5. CASE Event \in Plain
  <2>1. Event.text = <<>>
    BY <1>2, <1>5, EventTypesDiffer
  <2>2. phase' = "failed" /\ content' = content
    BY <1>1, <2>1
  <2>3. \A p \in TextPieces(reply) : Event # TextOf(p)
    BY <1>5, EventFacts
  <2>4. ContentInv'
    BY <1>1, <2>2, <2>3, ContentStays
  <2>5. ReaderInv'
    <3> HIDE DEF PieceSeqs, CallRecords
    <3> QED
      BY <1>1, <1>4, <2>2, ReaderMoves
  <2> QED
    BY <1>2, <1>3, <2>4, <2>5 DEF TurnInv
<1>6. CASE Event \notin Plain
  <2>1. PICK p \in TextPieces(reply) : Event = TextOf(p)
    <3>1. \A i \in Calls(reply) : Event # CallOf(reply, i)
      BY <1>2, EventTypesDiffer
    <3> QED
      BY <1>2, <1>6, <3>1 DEF TurnInv, ParserInv, EventsInv
  <2>2. Event.text = <<p>> /\ <<p>> # <<>>
    BY <2>1, EventTypesDiffer
  <2>3. content' = content \o <<p>> /\ phase' = "reading"
    BY <1>1, <1>2, <2>2
  <2>4. p \in Nat \X Nat
    BY <1>4, PieceFacts, ReplyFacts
  <2>5. /\ content' \in PieceSeqs /\ Len(content) \in Nat
        /\ DOMAIN content = 1 .. Len(content) /\ DOMAIN content' = 1 .. Len(content) + 1
        /\ \A j \in 1 .. Len(content) : content'[j] = content[j]
        /\ content'[Len(content) + 1] = p
    <3> DEFINE S == Nat \X Nat
    <3>1. content \in Seq(S) /\ p \in S
      BY <1>4, <2>4 DEF PieceSeqs
    <3> HIDE DEF S
    <3>2. /\ content' = Append(content, p) /\ content' \in Seq(S)
          /\ Len(content') = Len(content) + 1
          /\ \A j \in 1 .. Len(content) : content'[j] = content[j]
          /\ content'[Len(content) + 1] = p
      BY <2>3, <3>1, AppendFacts
    <3>3. Len(content) \in Nat /\ DOMAIN content = 1 .. Len(content)
          /\ DOMAIN content' = 1 .. Len(content')
      BY <3>1, <3>2
    <3>4. content' \in PieceSeqs
      BY <3>2 DEF PieceSeqs, S
    <3> QED
      BY <3>2, <3>3, <3>4
  <2>6. ReaderInv'
    <3> HIDE DEF PieceSeqs, CallRecords
    <3> QED
      BY <1>1, <1>4, <2>3, <2>5, ReaderMoves
  <2>7. ContentInv'
    <3>1. \A j \in DOMAIN content' : j \in DOMAIN content \/ j = Len(content) + 1
      BY <2>5
    <3>2. /\ \A j \in DOMAIN content :
               /\ content[j] \in TextPieces(reply)
               /\ \E n \in 1 .. index : events[n] = TextOf(content[j])
          /\ \A n \in 1 .. index : \A q \in TextPieces(reply) :
               events[n] = TextOf(q) => \E j \in DOMAIN content : content[j] = q
          /\ \A j, k \in DOMAIN content : j < k => Before(content[j], content[k])
      BY DEF TurnInv, ContentInv
    <3>3. \A j \in DOMAIN content' :
             /\ content'[j] \in TextPieces(reply)
             /\ \E n \in 1 .. index' : events[n] = TextOf(content'[j])
      BY <1>2, <2>1, <2>5, <3>1, <3>2
    <3>4. ASSUME NEW n \in 1 .. index', NEW q \in TextPieces(reply), events[n] = TextOf(q)
          PROVE  \E j \in DOMAIN content' : content'[j] = q
      <4>1. CASE n \in 1 .. index
        <5>1. PICK j \in DOMAIN content : content[j] = q
          BY <3>2, <3>4, <4>1
        <5>2. j \in DOMAIN content' /\ content'[j] = q
          BY <2>5, <5>1
        <5> QED
          BY <5>2
      <4>2. CASE n = index'
        <5>1. q = p
          BY <1>2, <2>1, <3>4, <4>2, EventFacts
        <5>2. Len(content) + 1 \in DOMAIN content'
          BY <2>5
        <5> QED
          BY <2>5, <5>1, <5>2
      <4> QED
        BY <1>2, <4>1, <4>2
    <3>5. ASSUME NEW j \in DOMAIN content', NEW k \in DOMAIN content', j < k
          PROVE  Before(content'[j], content'[k])
      <4>1. CASE k \in DOMAIN content
        <5>1. j \in DOMAIN content
          BY <2>5, <3>5, <4>1
        <5> QED
          BY <2>5, <3>2, <3>5, <4>1, <5>1
      <4>2. CASE k = Len(content) + 1
        <5>1. j \in DOMAIN content /\ content'[j] = content[j]
          BY <2>5, <3>5, <4>2
        <5>2. PICK n \in 1 .. index : events[n] = TextOf(content[j])
          BY <3>2, <5>1
        <5>3. /\ n < index' /\ n \in DOMAIN events /\ index' \in DOMAIN events
              /\ content[j] \in TextPieces(reply) /\ events[index'] = TextOf(p)
          BY <1>2, <2>1, <3>2, <5>1
        <5>4. Before(content[j], p)
          BY <5>2, <5>3 DEF TurnInv, ParserInv, OrderInv
        <5> QED
          BY <2>5, <4>2, <5>1, <5>4
      <4> QED
        BY <3>1, <4>1, <4>2
    <3> HIDE DEF TextPieces, Before
    <3> QED
      BY <1>2, <3>3, <3>4, <3>5 DEF ContentInv
  <2> QED
    BY <1>2, <1>3, <2>6, <2>7 DEF TurnInv
<1> QED
  BY <1>5, <1>6

LEMMA ReadToolCallKeeps == TurnInv /\ ReadToolCall => TurnInv'
<1> SUFFICES ASSUME TurnInv, ReadToolCall PROVE TurnInv'
  OBVIOUS
<1>1. /\ NextEvent("tool_call") /\ toolCalls' = Append(toolCalls, Event.call)
      /\ phase' = phase /\ content' = content
      /\ usage' = usage /\ stopReason' = stopReason
  BY DEF ReadToolCall
<1>2. /\ ParserInv' /\ Event.type = "tool_call" /\ phase = "reading"
      /\ reply' = reply /\ events' = events /\ provider' = provider
      /\ 1 .. index' \subseteq DOMAIN events /\ index' \in 1 .. index'
      /\ 1 .. index \subseteq 1 .. index'
      /\ \A n \in 1 .. index' : n \in 1 .. index \/ n = index'
      /\ \A n \in 1 .. index : n < index'
      /\ Event = events[index']
  BY <1>1, ReadFacts
<1>3. /\ content \in PieceSeqs /\ toolCalls \in Seq(CallRecords)
      /\ usage \in BOOLEAN /\ reply \in Seq(Blocks)
  BY DEF TurnInv, ReaderInv, ParserInv, ServerInv
<1>4. PICK c \in Calls(reply) : Event = CallOf(reply, c)
  <2>1. Event \notin Plain /\ \A p \in TextPieces(reply) : Event # TextOf(p)
    BY <1>2, EventTypesDiffer
  <2> QED
    BY <1>2, <2>1 DEF TurnInv, ParserInv, EventsInv
<1>5. Event.call = Whole(reply, c) /\ Whole(reply, c) \in CallRecords
  BY <1>3, <1>4, EventTypesDiffer, WholeType
<1>6. /\ toolCalls' \in Seq(CallRecords) /\ Len(toolCalls) \in Nat
      /\ DOMAIN toolCalls = 1 .. Len(toolCalls)
      /\ DOMAIN toolCalls' = 1 .. Len(toolCalls) + 1
      /\ \A j \in 1 .. Len(toolCalls) : toolCalls'[j] = toolCalls[j]
      /\ toolCalls'[Len(toolCalls) + 1] = Whole(reply, c)
  <2> HIDE DEF CallRecords
  <2>1. /\ toolCalls' \in Seq(CallRecords) /\ Len(toolCalls') = Len(toolCalls) + 1
        /\ \A j \in 1 .. Len(toolCalls) : toolCalls'[j] = toolCalls[j]
        /\ toolCalls'[Len(toolCalls) + 1] = Whole(reply, c)
    BY <1>1, <1>3, <1>5, AppendFacts
  <2>2. /\ Len(toolCalls) \in Nat /\ DOMAIN toolCalls = 1 .. Len(toolCalls)
        /\ DOMAIN toolCalls' = 1 .. Len(toolCalls')
    BY <1>3, <2>1
  <2> QED
    BY <2>1, <2>2
<1>7. ContentInv'
  <2>1. \A p \in TextPieces(reply) : Event # TextOf(p)
    BY <1>2, EventTypesDiffer
  <2> QED
    BY <1>1, <2>1, ContentStays
<1>8. ReaderInv'
  <2> HIDE DEF PieceSeqs, CallRecords
  <2> QED
    BY <1>1, <1>2, <1>3, <1>6, ReaderMoves
<1>9. \A i : Whole(reply, i).id = i
  BY DEF Whole
<1>10. /\ \A j \in DOMAIN toolCalls : \E i \in Calls(reply) :
             /\ toolCalls[j] = Whole(reply, i)
             /\ \E n \in 1 .. index : events[n] = CallOf(reply, i)
       /\ \A n \in 1 .. index : \A i \in Calls(reply) :
             events[n] = CallOf(reply, i) => \E j \in DOMAIN toolCalls : toolCalls[j] = Whole(reply, i)
       /\ \A j, k \in DOMAIN toolCalls : toolCalls[j].id = toolCalls[k].id => j = k
       /\ provider = "anthropic" => \A j, k \in DOMAIN toolCalls :
             j < k => toolCalls[j].id < toolCalls[k].id
  BY DEF TurnInv, CallsInv
<1>11. \A j \in DOMAIN toolCalls' : j \in DOMAIN toolCalls \/ j = Len(toolCalls) + 1
  BY <1>6
<1>12. ASSUME NEW j \in DOMAIN toolCalls
       PROVE  /\ toolCalls[j].id # c
              /\ provider = "anthropic" => toolCalls[j].id < c
  <2>1. PICK i \in Calls(reply) :
           /\ toolCalls[j] = Whole(reply, i)
           /\ \E n \in 1 .. index : events[n] = CallOf(reply, i)
    BY <1>10
  <2>2. PICK n \in 1 .. index : events[n] = CallOf(reply, i)
    BY <2>1
  <2>3. /\ n < index' /\ n # index' /\ n \in DOMAIN events /\ index' \in DOMAIN events
        /\ events[index'] = CallOf(reply, c)
    <3>1. n < index' /\ index' \in Int /\ n \in Int
      BY <1>1, <1>2, ReadFacts
    <3> QED
      BY <1>2, <1>4, <3>1
  <2>4. i # c /\ (provider = "anthropic" => i < c)
    BY <2>2, <2>3 DEF TurnInv, ParserInv, OrderInv
  <2>5. toolCalls[j].id = i
    BY <1>9, <2>1
  <2> QED
    BY <2>4, <2>5
<1>13. CallsInv'
  <2> HIDE DEF Calls
  <2>1. ASSUME NEW j \in DOMAIN toolCalls'
        PROVE  \E i \in Calls(reply) :
                 /\ toolCalls'[j] = Whole(reply, i)
                 /\ \E n \in 1 .. index' : events[n] = CallOf(reply, i)
    <3>1. CASE j \in DOMAIN toolCalls
      <4>1. PICK i \in Calls(reply) :
               /\ toolCalls[j] = Whole(reply, i)
               /\ \E n \in 1 .. index : events[n] = CallOf(reply, i)
        BY <1>10, <3>1
      <4>2. \E n \in 1 .. index' : events[n] = CallOf(reply, i)
        BY <1>2, <4>1
      <4>3. toolCalls'[j] = Whole(reply, i)
        BY <1>6, <3>1, <4>1
      <4> QED
        BY <4>2, <4>3
    <3>2. CASE j = Len(toolCalls) + 1
      BY <1>2, <1>4, <1>6, <3>2
    <3> QED
      BY <1>11, <3>1, <3>2
  <2>2. ASSUME NEW n \in 1 .. index', NEW i \in Calls(reply), events[n] = CallOf(reply, i)
        PROVE  \E j \in DOMAIN toolCalls' : toolCalls'[j] = Whole(reply, i)
    <3>1. CASE n \in 1 .. index
      <4>1. PICK j \in DOMAIN toolCalls : toolCalls[j] = Whole(reply, i)
        BY <1>10, <2>2, <3>1
      <4>2. j \in DOMAIN toolCalls' /\ toolCalls'[j] = Whole(reply, i)
        BY <1>6, <4>1
      <4> QED
        BY <4>2
    <3>2. CASE n = index'
      <4>1. i = c
        BY <1>2, <1>4, <2>2, <3>2, EventFacts
      <4>2. Len(toolCalls) + 1 \in DOMAIN toolCalls'
        BY <1>6
      <4> QED
        BY <1>6, <4>1, <4>2
    <3> QED
      BY <1>2, <3>1, <3>2
  <2>3. ASSUME NEW j \in DOMAIN toolCalls', NEW k \in DOMAIN toolCalls', j <= k
        PROVE  /\ toolCalls'[j].id = toolCalls'[k].id => j = k
               /\ provider = "anthropic" /\ j < k => toolCalls'[j].id < toolCalls'[k].id
    <3>1. CASE k \in DOMAIN toolCalls
      <4>1. j \in DOMAIN toolCalls
        BY <1>6, <2>3, <3>1
      <4>2. toolCalls'[j] = toolCalls[j] /\ toolCalls'[k] = toolCalls[k]
        BY <1>6, <3>1, <4>1
      <4> QED
        BY <1>10, <3>1, <4>1, <4>2
    <3>2. CASE k = Len(toolCalls) + 1
      <4>1. toolCalls'[k].id = c
        BY <1>6, <1>9, <3>2
      <4>2. CASE j = k
        <5>1. ~(j < k)
          BY <1>6, <4>2
        <5> QED
          BY <4>2, <5>1
      <4>3. CASE j # k
        <5>1. j \in DOMAIN toolCalls
          BY <1>11, <3>2, <4>3
        <5>2. toolCalls'[j] = toolCalls[j]
          BY <1>6, <5>1
        <5> QED
          BY <1>12, <4>1, <5>1, <5>2
      <4> QED
        BY <4>2, <4>3
    <3> QED
      BY <1>11, <3>1, <3>2
  <2>4. DOMAIN toolCalls' \subseteq Nat
    BY <1>6
  <2>5. \A j, k \in DOMAIN toolCalls' : j <= k \/ k <= j
    BY <2>4
  <2>6. \A j, k \in DOMAIN toolCalls' : j < k => j <= k
    BY <2>4
  <2>7. \A j, k \in DOMAIN toolCalls' : toolCalls'[j].id = toolCalls'[k].id => j = k
    BY <2>3, <2>5
  <2>8. provider = "anthropic" => \A j, k \in DOMAIN toolCalls' :
           j < k => toolCalls'[j].id < toolCalls'[k].id
    BY <2>3, <2>6
  <2> QED
    BY <1>2, <2>1, <2>2, <2>7, <2>8 DEF CallsInv
<1> QED
  BY <1>2, <1>7, <1>8, <1>13 DEF TurnInv

LEMMA ReadEOFKeeps == TurnInv /\ ReadEOF => TurnInv'
<1> SUFFICES ASSUME TurnInv, ReadEOF PROVE TurnInv'
  OBVIOUS
<1>1. /\ UNCHANGED serverVars /\ UNCHANGED parserVars /\ UNCHANGED turnVars
      /\ phase' = "ok" /\ index >= Len(events)
  BY DEF ReadEOF
<1>2. /\ reply' = reply /\ provider' = provider /\ events' = events
      /\ lastUsage' = lastUsage /\ index' = index /\ content' = content
      /\ toolCalls' = toolCalls /\ usage' = usage /\ stopReason' = stopReason
  BY <1>1 DEF serverVars, parserVars, turnVars
<1>3. index = Len(events)
  <2>1. index \in 0 .. Len(events) /\ events \in Seq(Events)
    BY DEF TurnInv, ReaderInv, ParserInv, EventsInv
  <2>2. Len(events) \in Nat
    BY <2>1
  <2> QED
    BY <1>1, <2>1, <2>2
<1>4. ReaderInv'
  <2> HIDE DEF Contains, PieceSeqs, CallRecords
  <2> QED
    BY <1>1, <1>2, <1>3 DEF TurnInv, ReaderInv
<1>5. ContentInv' /\ CallsInv'
  BY <1>2 DEF TurnInv, ContentInv, CallsInv
<1> QED
  BY <1>1, <1>4, <1>5, ParserRests DEF TurnInv

LEMMA TurnKeeps == TurnInv /\ Next => TurnInv'
  BY ParserKeeps, QuietReads, ReadDeltaKeeps, ReadToolCallKeeps, ReadEOFKeeps
     DEF Next, Reader

-----------------------------------------------------------------------------
(* A turn: its start and its end                                           *)

\* A turn of which nothing has been sent, and nothing read.
Fresh ==
    /\ provider \in {"anthropic", "openai"}
    /\ meant \in Seq(Blocks)
    /\ reply \in Seq(Blocks)
    /\ Shortened(reply, meant, ending)
    /\ layout \in {"whole", "apart"}
    /\ ending \in {"tool_calls", "stop", "length"}
    /\ provider = "openai" =>
          \A i \in Texts(reply), j \in Calls(reply) : i < j
    /\ place = <<1, 0>> /\ pending = <<>> /\ lastUsage = FALSE
    /\ \/ phase = "parsing" /\ events = <<MessageStart>>
       \/ phase \in {"parsing", "reading", "ok", "failed"} /\ events = <<>>
    /\ index = 0
    /\ content = <<>> /\ toolCalls = <<>> /\ usage = FALSE /\ stopReason = ""

LEMMA FreshTurn == Fresh => TurnInv
<1> SUFFICES ASSUME Fresh PROVE TurnInv
  OBVIOUS
<1>0. /\ reply \in Seq(Blocks) /\ place = <<1, 0>> /\ pending = <<>>
      /\ lastUsage = FALSE /\ usage = FALSE /\ stopReason = ""
      /\ content = <<>> /\ toolCalls = <<>> /\ index = 0
      /\ phase \in {"parsing", "reading", "ok", "failed"}
  BY DEF Fresh
<1>1. /\ reply \in Seq(Blocks) /\ Len(reply) \in Nat /\ End = Len(reply) + 1
      /\ Calls(reply) \subseteq 1 .. Len(reply) /\ Texts(reply) \subseteq 1 .. Len(reply)
      /\ place = <<1, 0>> /\ place[1] = 1 /\ place[2] = 0
      /\ DOMAIN pending = {} /\ DOMAIN content = {} /\ DOMAIN toolCalls = {}
      /\ index = 0
  <2>1. /\ Len(reply) \in Nat /\ DOMAIN reply = 1 .. Len(reply)
        /\ Calls(reply) \subseteq DOMAIN reply /\ Texts(reply) \subseteq DOMAIN reply
    BY <1>0, ReplyFacts
  <2>2. place[1] = 1 /\ place[2] = 0
    BY <1>0
  <2>3. DOMAIN pending = {} /\ DOMAIN content = {} /\ DOMAIN toolCalls = {}
    <3>1. DOMAIN <<>> = {}
      OBVIOUS
    <3>2. pending = <<>> /\ content = <<>> /\ toolCalls = <<>>
      BY <1>0
    <3> QED
      BY <3>1, <3>2
  <2> QED
    BY <1>0, <2>1, <2>2, <2>3 DEF End
<1>2. \A i \in Calls(reply) : ~ Within(i) /\ ~(i < place[1])
  BY <1>1 DEF Within
<1>3. \A p \in TextPieces(reply) : ~ Before(p, place)
  <2>1. \A p \in TextPieces(reply) : p[1] \in 1 .. Len(reply) /\ p[2] \in Nat
    BY <1>1, PieceFacts, ReplyFacts
  <2> QED
    BY <1>1, <2>1 DEF Before
<1>4. /\ events \in Seq(Events) /\ Len(events) \in Nat
      /\ DOMAIN events = 1 .. Len(events) /\ DOMAIN events \subseteq {1}
      /\ \A n \in DOMAIN events : events[n] = MessageStart
      /\ phase = "ok" => Len(events) = 0
  <2>1. MessageStart \in Events
    BY DEF Events
  <2>2. \/ phase # "ok" /\ events = <<MessageStart>>
        \/ events = <<>>
    BY DEF Fresh
  <2>3. CASE events = <<>>
    BY <2>3
  <2>4. CASE phase # "ok" /\ events = <<MessageStart>>
    BY <2>1, <2>4
  <2> QED
    BY <2>2, <2>3, <2>4
<1>5. /\ \A n \in DOMAIN events : events[n] \in Plain
      /\ \A p : ~ Contains(events, TextOf(p))
      /\ \A i : ~ Contains(events, CallOf(reply, i))
      /\ ~ Contains(events, Stop)
      /\ \A n \in DOMAIN events : \A p : events[n] # TextOf(p)
      /\ \A n \in DOMAIN events : \A i : events[n] # CallOf(reply, i)
  <2>1. MessageStart \in Plain
    BY DEF Plain
  <2>2. /\ \A n \in DOMAIN events : events[n] \in Plain /\ events[n] # Stop
        /\ \A n \in DOMAIN events : \A p : events[n] # TextOf(p)
        /\ \A n \in DOMAIN events : \A i : events[n] # CallOf(reply, i)
    BY <1>4, <2>1, EventFacts
  <2> QED
    BY <1>4, <2>2 DEF Contains
<1>6. ServerInv
  <2>1. place \in (1 .. End) \X Nat
    BY <1>1
  <2> QED
    BY <2>1 DEF ServerInv, Fresh
<1>7. PendingInv
  <2>1. IsFiniteSet({})
    BY FS_EmptySet
  <2> QED
    BY <1>1, <1>2, <2>1 DEF PendingInv
<1>8. EventsInv /\ OrderInv
  BY <1>4, <1>5 DEF EventsInv, OrderInv
<1>9. WholeInv
  <2>1. place[1] = End => Calls(reply) = {}
    BY <1>1
  <2> HIDE DEF Contains, Calls, TextPieces, Before
  <2> QED
    BY <1>1, <1>2, <1>3, <1>5, <2>1 DEF WholeInv
<1>10. ReaderInv
  <2>1. <<>> \in PieceSeqs /\ <<>> \in Seq(CallRecords)
    BY DEF PieceSeqs
  <2>2. /\ index \in 0 .. Len(events) /\ 1 .. index = {}
        /\ phase = "ok" => index = Len(events)
    BY <1>1, <1>4
  <2>3. stopReason # "stop" /\ lastUsage \in BOOLEAN /\ usage \in BOOLEAN
    BY <1>0
  <2>4. content \in PieceSeqs /\ toolCalls \in Seq(CallRecords)
    BY <1>0, <2>1
  <2> HIDE DEF PieceSeqs, CallRecords, Contains
  <2> QED
    BY <1>0, <2>2, <2>3, <2>4 DEF ReaderInv
<1>11. ContentInv /\ CallsInv
  <2>1. 1 .. index = {}
    BY <1>1
  <2> QED
    BY <1>1, <2>1 DEF ContentInv, CallsInv
<1> QED
  BY <1>6, <1>7, <1>8, <1>9, <1>10, <1>11 DEF TurnInv, ParserInv

LEMMA FreshNext == Fresh' => TurnInv'
  BY FreshTurn, PTL

LEMMA TurnRests ==
    ASSUME TurnInv, UNCHANGED vars
    PROVE  TurnInv'
<1>1. /\ UNCHANGED serverVars /\ UNCHANGED parserVars
      /\ reply' = reply /\ provider' = provider /\ events' = events
      /\ index' = index /\ content' = content /\ toolCalls' = toolCalls
      /\ usage' = usage /\ stopReason' = stopReason /\ phase' = phase
      /\ lastUsage' = lastUsage
  BY DEF vars, serverVars, parserVars, turnVars
<1>2. ReaderInv'
  BY <1>1 DEF TurnInv, ReaderInv
<1>3. ContentInv' /\ CallsInv'
  BY <1>1 DEF TurnInv, ContentInv, CallsInv
<1> QED
  BY <1>1, <1>2, <1>3, ParserRests DEF TurnInv

LEMMA TurnTypes == TurnInv => TypeOK
<1> SUFFICES ASSUME TurnInv PROVE TypeOK
  OBVIOUS
<1> HIDE DEF PieceSeqs, CallRecords, Events, Blocks
<1> QED
  BY DEF TurnInv, ParserInv, ServerInv, PendingInv, EventsInv, ReaderInv, TypeOK

LEMMA TurnCalls == TurnInv => OnlyWholeCalls
<1> SUFFICES ASSUME TurnInv, NEW j \in DOMAIN toolCalls
             PROVE  /\ toolCalls[j].id \in Calls(meant)
                    /\ \/ toolCalls[j].args = Pieces(meant, toolCalls[j].id)
                       \/ /\ provider = "anthropic" /\ ending = "length"
                          /\ j = Len(toolCalls)
                          /\ IsPrefix(toolCalls[j].args, Pieces(meant, toolCalls[j].id))
  BY DEF TurnInv, CallsInv, OnlyWholeCalls
<1>1. PICK i \in Calls(reply) :
         /\ toolCalls[j] = Whole(reply, i)
         /\ \E n \in 1 .. index : events[n] = CallOf(reply, i)
  BY DEF TurnInv, CallsInv
<1>2. toolCalls[j].id = i /\ toolCalls[j].args = Pieces(reply, i)
  BY <1>1 DEF Whole
<1>3. /\ Len(reply) \in Nat /\ Len(meant) \in Nat /\ i \in 1 .. Len(reply)
      /\ i \in DOMAIN reply /\ i \in DOMAIN meant /\ IsCall(reply, i)
      /\ reply[i].n \in Nat /\ meant[i].n \in Nat
  <2>1. /\ reply \in Seq(Blocks) /\ meant \in Seq(Blocks)
        /\ Len(reply) <= Len(meant)
    BY DEF TurnInv, ParserInv, ServerInv, Shortened
  <2>2. i \in DOMAIN reply /\ IsCall(reply, i)
    BY DEF Calls
  <2>3. DOMAIN reply = 1 .. Len(reply) /\ DOMAIN meant = 1 .. Len(meant)
        /\ Len(reply) \in Nat /\ Len(meant) \in Nat
    BY <2>1
  <2>4. i \in DOMAIN meant
    BY <2>1, <2>2, <2>3
  <2>5. reply[i] \in Blocks /\ meant[i] \in Blocks
    BY <2>1, <2>2, <2>4
  <2> QED
    BY <2>2, <2>3, <2>4, <2>5 DEF Blocks
<1>4. /\ meant[i].kind = reply[i].kind /\ reply[i].n <= meant[i].n
      /\ i < Len(reply) \/ ending # "length" => reply[i].n = meant[i].n
  BY <1>3 DEF TurnInv, ParserInv, ServerInv, Shortened
<1>5. i \in Calls(meant)
  BY <1>3, <1>4 DEF Calls, IsCall
<1>6. CASE reply[i].n = meant[i].n
  <2>1. Pieces(reply, i) = Pieces(meant, i)
    BY <1>6 DEF Pieces
  <2> QED
    BY <1>2, <1>5, <2>1
<1>7. CASE reply[i].n # meant[i].n
  <2>1. i = Len(reply) /\ ending = "length"
    BY <1>3, <1>4, <1>7
  <2>2. provider = "anthropic"
    <3>1. PICK n \in 1 .. index : events[n] = CallOf(reply, i)
      BY <1>1
    <3>2. n \in DOMAIN events /\ EventsInv
      <4>1. events \in Seq(Events) /\ index \in 0 .. Len(events) /\ EventsInv
        BY DEF TurnInv, ParserInv, EventsInv, ReaderInv
      <4>2. Len(events) \in Nat /\ DOMAIN events = 1 .. Len(events)
        BY <4>1
      <4> QED
        BY <4>1, <4>2
    <3>3. ending # "length" \/ provider = "anthropic"
      BY <3>1, <3>2, EventBounds
    <3> QED
      BY <2>1, <3>3
  <2>3. j = Len(toolCalls)
    <3> DEFINE k == Len(toolCalls)
    <3>1. Len(toolCalls) \in Nat /\ DOMAIN toolCalls = 1 .. Len(toolCalls)
      <4>1. toolCalls \in Seq(CallRecords)
        BY DEF TurnInv, ReaderInv
      <4> QED
        BY <4>1
    <3>2. k \in DOMAIN toolCalls
      BY <3>1
    <3>3. PICK m \in Calls(reply) : toolCalls[k] = Whole(reply, m)
      BY <3>2 DEF TurnInv, CallsInv
    <3>4. toolCalls[k].id = m /\ m \in 1 .. Len(reply)
      <4>1. m \in DOMAIN reply /\ reply \in Seq(Blocks)
        BY DEF Calls, TurnInv, ParserInv, ServerInv
      <4> QED
        BY <3>3, <4>1 DEF Whole
    <3>5. j < k => toolCalls[j].id < toolCalls[k].id
      BY <2>2, <3>2 DEF TurnInv, CallsInv
    <3> QED
      BY <1>2, <1>3, <2>1, <3>1, <3>4, <3>5
  <2>4. IsPrefix(Pieces(reply, i), Pieces(meant, i))
    <3> DEFINE s == [k \in 1 .. reply[i].n |-> <<i, k>>]
               t == [k \in 1 .. meant[i].n |-> <<i, k>>]
    <3>1. s = Pieces(reply, i) /\ t = Pieces(meant, i)
      BY DEF Pieces
    <3>2. /\ s \in Seq(Nat \X Nat) /\ t \in Seq(Nat \X Nat)
          /\ Len(s) = reply[i].n /\ Len(t) = meant[i].n
      <4>1. /\ \A k \in 1 .. reply[i].n : <<i, k>> \in Nat \X Nat
            /\ \A k \in 1 .. meant[i].n : <<i, k>> \in Nat \X Nat
        BY <1>3
      <4>2. s \in Seq(Nat \X Nat) /\ t \in Seq(Nat \X Nat)
        BY <1>3, <4>1, IsASeq
      <4> QED
        BY <1>3, <4>2
    <3>3. SubSeq(s, 1, Len(s)) = SubSeq(t, 1, Len(s))
      BY <1>3, <1>4, <3>2
    <3> QED
      BY <1>4, <3>1, <3>2, <3>3 DEF IsPrefix
  <2> QED
    BY <1>2, <1>5, <2>1, <2>2, <2>3, <2>4
<1> QED
  BY <1>6, <1>7

LEMMA TurnWhole == TurnInv => StopMeansWhole
<1> SUFFICES ASSUME TurnInv, phase = "ok", stopReason = "stop"
             PROVE  /\ ToSet(content) = TextPieces(reply)
                    /\ \A j, k \in DOMAIN content :
                          j < k => Before(content[j], content[k])
                    /\ usage
                    /\ CallsKept => {toolCalls[j].id : j \in DOMAIN toolCalls} = Calls(reply)
                    /\ provider = "anthropic" => \A j, k \in DOMAIN toolCalls :
                          j < k => toolCalls[j].id < toolCalls[k].id
  BY DEF StopMeansWhole
<1>1. /\ index = Len(events) /\ Contains(events, Stop)
      /\ \A n \in 1 .. index : events[n] = Usage => usage
  BY DEF TurnInv, ReaderInv
<1>2. /\ Contains(events, Usage)
      /\ \A p \in TextPieces(reply) : Contains(events, TextOf(p))
      /\ CallsKept => \A i \in Calls(reply) : Contains(events, CallOf(reply, i))
  BY <1>1 DEF TurnInv, ParserInv, WholeInv
<1>3. \A e : Contains(events, e) => \E n \in 1 .. index : events[n] = e
  BY <1>1 DEF Contains
<1>4. usage
  BY <1>1, <1>2, <1>3
<1>5. ToSet(content) = TextPieces(reply)
  <2>1. ToSet(content) = {content[j] : j \in DOMAIN content}
    BY DEF ToSet
  <2>2. \A p \in TextPieces(reply) : \E j \in DOMAIN content : content[j] = p
    BY <1>2, <1>3 DEF TurnInv, ContentInv
  <2>3. \A j \in DOMAIN content : content[j] \in TextPieces(reply)
    BY DEF TurnInv, ContentInv
  <2> HIDE DEF TextPieces
  <2> QED
    BY <2>1, <2>2, <2>3
<1>6. ASSUME CallsKept
      PROVE  {toolCalls[j].id : j \in DOMAIN toolCalls} = Calls(reply)
  <2>1. \A i : Whole(reply, i).id = i
    BY DEF Whole
  <2>2. \A i \in Calls(reply) : \E j \in DOMAIN toolCalls : toolCalls[j] = Whole(reply, i)
    BY <1>2, <1>3, <1>6 DEF TurnInv, CallsInv
  <2>3. \A j \in DOMAIN toolCalls : \E i \in Calls(reply) : toolCalls[j] = Whole(reply, i)
    BY DEF TurnInv, CallsInv
  <2> HIDE DEF Calls
  <2> QED
    BY <2>1, <2>2, <2>3
<1> QED
  BY <1>4, <1>5, <1>6 DEF TurnInv, ContentInv, CallsInv

-----------------------------------------------------------------------------
(* Calls                                                                   *)

LEMMA CallFacts ==
    /\ \A c : InCall(c) => c # Idle
    /\ \A i, t : LET c == [at |-> "asked", id |-> i, tool |-> t,
                           verdict |-> "none", seen |-> {}]
                 IN  InCall(c) /\ c # Idle
  <1>1. ASSUME NEW c, InCall(c) PROVE c # Idle
    BY <1>1 DEF InCall, Idle
  <1> QED
    BY <1>1 DEF InCall

\* Execute begins a call, and changes nothing else.
LEMMA ExecuteKeeps ==
    ASSUME CallInv, EditsSeeWhatWasThere, NEW w \in Workers, NEW id, NEW tool,
           Execute(w, id, tool)
    PROVE  CallInv' /\ EditsSeeWhatWasThere' /\ contents' = contents
<1> DEFINE new == [at |-> "asked", id |-> id, tool |-> tool,
                   verdict |-> "none", seen |-> {}]
<1>1. /\ call' = [call EXCEPT ![w] = new]
      /\ contents' = contents /\ landed' = landed
  BY DEF Execute
<1>2. InCall(new) /\ new # Idle /\ new.at = "asked"
  BY CallFacts
<1> HIDE DEF new
<1>3. call'[w] = new /\ \A v \in Workers \ {w} : call'[v] = call[v]
  BY <1>1 DEF CallInv
<1>4. CallInv'
  <2>1. call' = [v \in Workers |-> call'[v]]
    BY <1>1 DEF CallInv
  <2> QED
    BY <2>1, <1>2, <1>3 DEF CallInv, AtTool
<1>5. EditsSeeWhatWasThere'
  BY <1>1, <1>2, <1>3 DEF EditsSeeWhatWasThere, At
<1> QED
  BY <1>1, <1>4, <1>5

\* What a step makes of its own call, and of the file.
LEMMA StepShape ==
    ASSUME CallInv, NEW w \in Workers, Decide(w) \/ Tool(w)
    PROVE  /\ \E c : /\ call' = [call EXCEPT ![w] = c]
                     /\ InCall(c)
                     /\ c.at \in AtTool => c.verdict = "allow"
                     /\ c.at = "edit" => /\ contents' = contents
                                         /\ c.seen = contents
           /\ contents' # contents =>
                 /\ call[w] # Idle /\ call[w].at \in AtTool
                 /\ call[w].verdict = "allow"
                 /\ contents' \ contents \subseteq {call[w].id} \cup call[w].seen
<1> DEFINE c0 == call[w]
<1>1. /\ c0 # Idle /\ InCall(c0)
      /\ c0.at \in AtTool => c0.verdict = "allow"
  BY DEF CallInv, Decide, Tool, Reject, Read, ReadForEdit, Truncate, Write,
         BashWrites, BashKilled, BashEnds, At
<1>2. ASSUME NEW x, Goto(w, x), x \notin AtTool \/ c0.verdict = "allow",
             x # "edit"
      PROVE  \E c : /\ call' = [call EXCEPT ![w] = c]
                    /\ InCall(c)
                    /\ c.at \in AtTool => c.verdict = "allow"
                    /\ c.at = "edit" => /\ contents' = contents
                                        /\ c.seen = contents
  <2>1. call' = [call EXCEPT ![w] = [c0 EXCEPT !.at = x]]
    BY <1>2 DEF Goto
  <2>2. LET d == [c0 EXCEPT !.at = x]
        IN  InCall(d) /\ d.at = x /\ d.verdict = c0.verdict
    BY <1>1 DEF InCall
  <2> QED
    BY <2>1, <2>2, <1>1, <1>2
<1>3. CASE Decide(w)
  <2>1. contents' = contents
    BY <1>3 DEF Decide
  <2>2. CASE Answer(w)
    BY <2>1, <2>2, <1>2 DEF Answer, AtTool
  <2>3. ASSUME NEW verdict \in Verdicts(c0.tool),
               call' = [call EXCEPT ![w].verdict = verdict,
                          ![w].at = IF verdict = "allow" THEN "allowed"
                                                         ELSE "answered"]
        PROVE  \E c : /\ call' = [call EXCEPT ![w] = c]
                      /\ InCall(c)
                      /\ c.at \in AtTool => c.verdict = "allow"
                      /\ c.at # "edit"
    <3> DEFINE x == IF verdict = "allow" THEN "allowed" ELSE "answered"
               d == [c0 EXCEPT !.verdict = verdict, !.at = x]
    <3>1. call' = [call EXCEPT ![w] = d]
      BY <2>3 DEF CallInv
    <3>2. InCall(d) /\ d.at = x /\ d.verdict = verdict
      BY <1>1 DEF InCall
    <3>3. x # "edit" /\ (x \in AtTool => verdict = "allow")
      BY DEF AtTool
    <3> HIDE DEF d, x
    <3> QED
      BY <3>1, <3>2, <3>3
  <2> QED
    BY <1>3, <2>1, <2>2, <2>3 DEF Decide
<1>4. CASE Reject(w) \/ Read(w) \/ BashEnds(w)
  <2>1. contents' = contents /\ Goto(w, "answered")
    BY <1>4 DEF Reject, Read, BashEnds, Answer
  <2> QED
    BY <2>1, <1>2 DEF AtTool
<1>5. CASE ReadForEdit(w)
  <2> DEFINE d == [c0 EXCEPT !.seen = contents, !.at = "edit"]
  <2>1. call' = [call EXCEPT ![w] = d] /\ contents' = contents
    BY <1>5 DEF ReadForEdit, CallInv
  <2>2. InCall(d) /\ d.at = "edit" /\ d.verdict = c0.verdict /\ d.seen = contents
    BY <1>1 DEF InCall
  <2>3. c0.verdict = "allow"
    BY <1>1, <1>5 DEF ReadForEdit, At, AtTool
  <2> HIDE DEF d
  <2> QED
    BY <2>1, <2>2, <2>3
<1>6. CASE Truncate(w)
  <2>1. c0.at \in AtTool
    BY <1>6 DEF Truncate, At, AtTool
  <2>2. \E x \in {"write", "answered"} : Goto(w, x)
    BY <1>6 DEF Truncate, Answer
  <2>3. contents' \ contents = {}
    BY <1>6 DEF Truncate
  <2> QED
    BY <2>1, <2>2, <2>3, <1>1, <1>2
<1>7. CASE Write(w)
  <2>1. c0.at \in AtTool
    BY <1>7 DEF Write, At, AtTool
  <2>2. Goto(w, "answered")
    BY <1>7 DEF Write, Answer
  <2>3. contents' \ contents \subseteq {c0.id} \cup c0.seen
    BY <1>7 DEF Write
  <2> QED
    BY <2>1, <2>2, <2>3, <1>1, <1>2
<1>8. CASE BashWrites(w)
  <2>1. c0.at \in {"allowed", "killed"} /\ call' = call
    BY <1>8 DEF BashWrites, At
  <2>2. call' = [call EXCEPT ![w] = c0]
    BY <2>1 DEF CallInv
  <2>3. contents' \ contents \subseteq {c0.id} \cup c0.seen
    BY <1>8 DEF BashWrites
  <2> QED
    BY <2>1, <2>2, <2>3, <1>1 DEF AtTool
<1>9. CASE BashKilled(w)
  <2>1. contents' = contents /\ Goto(w, "killed") /\ c0.at = "allowed"
    BY <1>9 DEF BashKilled, At
  <2> QED
    BY <2>1, <1>1, <1>2 DEF AtTool
<1> QED
  BY <1>3, <1>4, <1>5, <1>6, <1>7, <1>8, <1>9 DEF Tool

\* A step of a call keeps what is known of all of them.
LEMMA ToolStepKeeps ==
    ASSUME CallInv, EditsSeeWhatWasThere, NEW w \in Workers, ToolStep(w)
    PROVE  CallInv' /\ EditsSeeWhatWasThere'
<1>1. PICK c : /\ call' = [call EXCEPT ![w] = c]
               /\ InCall(c)
               /\ c.at \in AtTool => c.verdict = "allow"
               /\ c.at = "edit" => contents' = contents /\ c.seen = contents
  BY StepShape DEF ToolStep
<1>2. /\ call'[w] = c
      /\ \A v \in Workers \ {w} : call'[v] = call[v]
      /\ call' = [v \in Workers |-> call'[v]]
  BY <1>1 DEF CallInv
<1>3. CallInv'
  BY <1>1, <1>2 DEF CallInv
<1>4. ASSUME NEW v \in Workers, At(v, "edit", "edit_file")'
      PROVE  contents' \subseteq call'[v].seen \cup landed'[v]
  <2>1. CASE v = w
    BY <2>1, <1>1, <1>2, <1>4 DEF At
  <2>2. CASE v # w
    <3>1. contents \subseteq call[v].seen \cup landed[v]
      BY <2>2, <1>2, <1>4 DEF At, EditsSeeWhatWasThere
    <3>2. landed'[v] = landed[v] \cup (contents' \ contents)
      BY <2>2, <1>4 DEF ToolStep, NoteLanded, At
    <3> QED
      BY <3>1, <3>2, <2>2, <1>2
  <2> QED
    BY <2>1, <2>2
<1> QED
  BY <1>3, <1>4 DEF EditsSeeWhatWasThere

-----------------------------------------------------------------------------
(* The run                                                                 *)

LEMMA InitInv == RunInit => IInv
  BY DEF RunInit, ToolInit, IInv, CallInv, EditsSeeWhatWasThere, StoreInv, At

\* What happens to the transcript and its copy in the store.
LEMMA StoreStep == StoreInv /\ [RunNext]_runVars => StoreInv'
<1> SUFFICES ASSUME StoreInv, [RunNext]_runVars PROVE StoreInv'
  OBVIOUS
<1> USE DEF StoreInv, loopVars
<1>1. CASE CreateSession
  BY <1>1 DEF CreateSession, Save
<1>2. CASE ReadTurn
  BY <1>2 DEF ReadTurn
<1>3. CASE TurnFails
  BY <1>3 DEF TurnFails
<1>4. CASE KeepMessage
  BY <1>4 DEF KeepMessage, Save
<1>5. CASE StartCall
  BY <1>5 DEF StartCall
<1>6. CASE WorkOnCall
  BY <1>6 DEF WorkOnCall
<1>7. CASE KeepAnswer
  BY <1>7 DEF KeepAnswer
<1>8. CASE SaveTurn
  BY <1>8 DEF SaveTurn, Save
<1>9. CASE NextTurn
  BY <1>9 DEF NextTurn
<1>10. CASE OthersWork
  BY <1>10 DEF OthersWork
<1>11. CASE UNCHANGED runVars
  BY <1>11 DEF runVars
<1> QED
  BY <1>1, <1>2, <1>3, <1>4, <1>5, <1>6, <1>7, <1>8, <1>9, <1>10, <1>11
  DEF RunNext

\* The loop leaves the file and the others' calls alone.
LEMMA LoopLeavesTools ==
    ASSUME CreateSession \/ ReadTurn \/ TurnFails \/ KeepMessage \/ SaveTurn
               \/ NextTurn \/ UNCHANGED runVars
    PROVE  UNCHANGED toolVars
  BY DEF CreateSession, ReadTurn, TurnFails, KeepMessage, SaveTurn, NextTurn,
         runVars, toolVars

LEMMA ToolsStep ==
    CallInv /\ EditsSeeWhatWasThere /\ [RunNext]_runVars =>
        CallInv' /\ EditsSeeWhatWasThere'
<1> SUFFICES ASSUME CallInv, EditsSeeWhatWasThere, [RunNext]_runVars
             PROVE  CallInv' /\ EditsSeeWhatWasThere'
  OBVIOUS
<1>1. CASE UNCHANGED toolVars
  BY <1>1 DEF toolVars, CallInv, EditsSeeWhatWasThere, At
<1>2. CASE StartCall
  BY <1>2, ExecuteKeeps, RunAssumption DEF StartCall
<1>3. CASE WorkOnCall
  BY <1>3, ToolStepKeeps, RunAssumption DEF WorkOnCall
<1>4. CASE OthersWork
  BY <1>4, ToolStepKeeps, ExecuteKeeps DEF OthersWork
<1>5. CASE KeepAnswer
  <2>1. /\ call' = [call EXCEPT ![Run] = Idle]
        /\ contents' = contents /\ landed' = landed
    BY <1>5 DEF KeepAnswer
  <2>2. /\ call'[Run] = Idle
        /\ \A v \in Workers \ {Run} : call'[v] = call[v]
        /\ call' = [v \in Workers |-> call'[v]]
    BY <2>1, RunAssumption DEF CallInv
  <2> QED
    BY <2>1, <2>2 DEF CallInv, EditsSeeWhatWasThere, At
<1> QED
  BY <1>1, <1>2, <1>3, <1>4, <1>5, LoopLeavesTools DEF RunNext

LEMMA Invariance == RunSpec => []IInv
<1>1. RunInit => IInv
  BY InitInv
<1>2. IInv /\ [RunNext]_runVars => IInv'
  BY StoreStep, ToolsStep DEF IInv
<1> QED
  BY <1>1, <1>2, PTL DEF RunSpec

-----------------------------------------------------------------------------
(* The run: its turns                                                      *)

LEMMA ForgetTurnKeeps ==
    ASSUME TurnInv, ForgetTurn
    PROVE  TurnInv'
<1>1. Calls(<<>>) = {} /\ Texts(<<>>) = {}
  BY DEF Calls, Texts
<1>2. /\ provider \in {"anthropic", "openai"}
      /\ phase \in {"parsing", "reading", "ok", "failed"}
  BY DEF TurnInv, ParserInv, ServerInv, ReaderInv
<1>3. /\ meant' = <<>> /\ reply' = <<>> /\ layout' = "whole" /\ ending' = "stop"
      /\ place' = <<1, 0>>
      /\ pending' = <<>> /\ lastUsage' = FALSE /\ events' = <<>>
      /\ index' = 0 /\ content' = <<>> /\ toolCalls' = <<>>
      /\ usage' = FALSE /\ stopReason' = ""
      /\ provider' = provider /\ phase' = phase
  BY DEF ForgetTurn
<1>4. <<>> \in Seq(Blocks)
  OBVIOUS
<1>5. Shortened(<<>>, <<>>, "stop")
  BY DEF Shortened
<1>6. Fresh'
  BY <1>1, <1>2, <1>3, <1>4, <1>5 DEF Fresh
<1> QED
  BY <1>6, FreshNext

\* A cut reply is a reply.
LEMMA CutFacts ==
    ASSUME NEW r \in Seq(Blocks), NEW s \in Cuts(r)
    PROVE  s \in Seq(Blocks) /\ Shortened(s, r, "length")
<1>1. Len(r) \in Nat /\ DOMAIN r = 1 .. Len(r)
  OBVIOUS
<1>2. CASE s = <<>>
  BY <1>1, <1>2 DEF Shortened
<1>3. CASE s # <<>>
  <2>0. PICK i \in DOMAIN r : \E k \in 0 .. r[i].n :
           s = Append(SubSeq(r, 1, i - 1), [r[i] EXCEPT !.n = k])
    BY <1>3 DEF Cuts
  <2>1. PICK k \in 0 .. r[i].n :
           s = Append(SubSeq(r, 1, i - 1), [r[i] EXCEPT !.n = k])
    BY <2>0
  <2>2. r[i] \in Blocks /\ i \in 1 .. Len(r) /\ i - 1 \in 0 .. Len(r)
    BY <1>1
  <2>3. r[i].n \in Nat /\ k \in Nat /\ k <= r[i].n
    BY <2>2 DEF Blocks
  <2> DEFINE half == [r[i] EXCEPT !.n = k]
             front == SubSeq(r, 1, i - 1)
  <2>4. half \in Blocks /\ half.kind = r[i].kind /\ half.n = k
    BY <2>2, <2>3 DEF Blocks
  <2>5. /\ front \in Seq(Blocks) /\ Len(front) = i - 1
        /\ \A m \in 1 .. i - 1 : front[m] = r[m]
    BY <1>1, <2>2
  <2> HIDE DEF half, front
  <2>6. s = Append(front, half)
    BY <2>1 DEF half, front
  <2>7. /\ s \in Seq(Blocks) /\ Len(s) = i
        /\ \A m \in 1 .. i - 1 : s[m] = r[m]
        /\ s[i] = half
    <3>1. Len(front) + 1 = i
      BY <2>2, <2>5
    <3> QED
      BY <2>4, <2>5, <2>6, <3>1, AppendFacts
  <2>8. DOMAIN s = 1 .. i /\ i <= Len(r)
    BY <2>2, <2>7
  <2>9. ASSUME NEW m \in DOMAIN s
        PROVE  /\ s[m].kind = r[m].kind /\ s[m].n <= r[m].n
               /\ m < Len(s) => s[m].n = r[m].n
    <3>1. CASE m = i
      BY <3>1, <2>3, <2>4, <2>7
    <3>2. CASE m # i
      <4>1. m \in 1 .. i - 1 /\ m \in DOMAIN r
        BY <1>1, <2>2, <2>8, <3>2
      <4>3. r[m] \in Blocks
        BY <4>1
      <4>2. s[m] = r[m] /\ r[m].n \in Nat
        BY <2>7, <4>1, <4>3 DEF Blocks
      <4> QED
        BY <4>2
    <3> QED
      BY <3>1, <3>2
  <2> QED
    BY <2>7, <2>8, <2>9 DEF Shortened
<1> QED
  BY <1>2, <1>3

\* What the server may send, in the first turn or a later one.
LEMMA AnswerFacts ==
    ASSUME NEW replies \in SUBSET Seq(Blocks), NEW a \in Answers(replies), NEW s \in Sent(a)
    PROVE  /\ a.provider \in {"anthropic", "openai"}
           /\ a.meant \in Seq(Blocks) /\ s \in Seq(Blocks)
           /\ Shortened(s, a.meant, a.ending)
           /\ a.layout \in {"whole", "apart"}
           /\ a.ending \in {"tool_calls", "stop", "length"}
           /\ a.provider = "openai" =>
                 \A i \in Texts(s), j \in Calls(s) : i < j
           /\ a.meant \in replies /\ Calls(s) \subseteq Calls(a.meant)
<1>1. /\ a.provider \in {"anthropic", "openai"} /\ a.meant \in replies
      /\ a.layout \in {"whole", "apart"}
      /\ a.ending \in {"tool_calls", "stop", "length"}
      /\ a.provider = "openai" =>
            \A i \in Texts(a.meant), j \in Calls(a.meant) : i < j
  BY DEF Answers
<1>2. a.meant \in Seq(Blocks)
  BY <1>1
<1>3. s \in Seq(Blocks) /\ Shortened(s, a.meant, a.ending)
  <2>1. CASE a.ending = "length"
    BY <1>2, <2>1, CutFacts DEF Sent
  <2>2. CASE a.ending # "length"
    <3>1. s = a.meant /\ Len(s) \in Nat
      BY <1>2, <2>2 DEF Sent
    <3>2. \A i \in DOMAIN s : s[i].n \in Nat
      <4>1. \A i \in DOMAIN s : s[i] \in Blocks
        BY <1>2, <3>1
      <4> QED
        BY <4>1 DEF Blocks
    <3> QED
      BY <1>2, <3>1, <3>2 DEF Shortened
  <2> QED
    BY <2>1, <2>2
<1>4. Texts(s) \subseteq Texts(a.meant) /\ Calls(s) \subseteq Calls(a.meant)
  <2>1. DOMAIN s \subseteq DOMAIN a.meant
    BY <1>2, <1>3 DEF Shortened
  <2>2. \A i \in DOMAIN s : s[i].kind = a.meant[i].kind
    BY <1>3 DEF Shortened
  <2> QED
    BY <2>1, <2>2 DEF Texts, Calls, IsCall
<1> QED
  BY <1>1, <1>2, <1>3, <1>4

LEMMA NextTurnKeeps ==
    ASSUME LoopInv, NextTurn
    PROVE  TurnInv'
<1>1. Forgotten
  BY DEF LoopInv, NextTurn
<1>2. PICK a \in Answers(LaterReplies) :
         /\ a.provider = provider /\ meant' = a.meant
         /\ reply' \in Sent(a) /\ layout' = a.layout /\ ending' = a.ending
  BY DEF NextTurn
<1>3. /\ phase' = "parsing" /\ events' = <<MessageStart>>
      /\ provider' = provider /\ place' = <<1, 0>> /\ pending' = <<>>
      /\ lastUsage' = FALSE /\ index' = 0 /\ content' = <<>>
      /\ toolCalls' = <<>> /\ usage' = FALSE /\ stopReason' = ""
  BY <1>1 DEF NextTurn, Forgotten
<1>4. /\ provider' \in {"anthropic", "openai"}
      /\ meant' \in Seq(Blocks) /\ reply' \in Seq(Blocks)
      /\ Shortened(reply', meant', ending')
      /\ layout' \in {"whole", "apart"}
      /\ ending' \in {"tool_calls", "stop", "length"}
      /\ provider' = "openai" =>
            \A i \in Texts(reply'), j \in Calls(reply') : i < j
  BY <1>2, <1>3, AnswerFacts, RunAssumption
<1>5. Fresh'
  BY <1>3, <1>4 DEF Fresh
<1> QED
  BY <1>5, FreshNext

LEMMA TurnStep == TurnInv /\ LoopInv /\ [RunNext]_runVars => TurnInv'
<1> SUFFICES ASSUME TurnInv, LoopInv, [RunNext]_runVars PROVE TurnInv'
  OBVIOUS
<1>1. CASE ReadTurn
  BY <1>1, TurnKeeps DEF ReadTurn
<1>2. CASE KeepMessage
  BY <1>2, ForgetTurnKeeps DEF KeepMessage
<1>3. CASE NextTurn
  BY <1>3, NextTurnKeeps
<1>4. CASE CreateSession \/ TurnFails \/ StartCall \/ WorkOnCall \/ KeepAnswer
              \/ SaveTurn \/ OthersWork \/ UNCHANGED runVars
  <2>1. UNCHANGED vars
    BY <1>4 DEF CreateSession, TurnFails, StartCall, WorkOnCall, KeepAnswer,
                SaveTurn, OthersWork, runVars
  <2> QED
    BY <2>1, TurnRests
<1> QED
  BY <1>1, <1>2, <1>3, <1>4 DEF RunNext

LEMMA TurnInit == RunInit => TurnInv
<1> SUFFICES ASSUME RunInit PROVE TurnInv
  OBVIOUS
<1>1. PICK a \in Answers(Replies) :
         /\ provider = a.provider /\ meant = a.meant /\ reply \in Sent(a)
         /\ layout = a.layout /\ ending = a.ending
  BY DEF RunInit, Init
<1>2. /\ provider \in {"anthropic", "openai"}
      /\ meant \in Seq(Blocks) /\ reply \in Seq(Blocks)
      /\ Shortened(reply, meant, ending)
      /\ layout \in {"whole", "apart"}
      /\ ending \in {"tool_calls", "stop", "length"}
      /\ provider = "openai" =>
            \A i \in Texts(reply), j \in Calls(reply) : i < j
  BY <1>1, AnswerFacts, RepliesAssumption
<1>3. Fresh
  BY <1>2 DEF Fresh, RunInit, Init
<1> QED
  BY <1>3, FreshTurn

LEMMA IdsType ==
    ASSUME TurnInv, LoopInv
    PROVE  Ids \in Seq(CallIds) /\ Len(Ids) = Len(toolCalls)
<1> DEFINE n == Len(toolCalls)
<1>1. n \in Nat /\ DOMAIN toolCalls = 1 .. n
  <2>1. toolCalls \in Seq(CallRecords)
    BY DEF TurnInv, ReaderInv
  <2> QED
    BY <2>1
<1>2. \A j \in 1 .. n : <<turn, toolCalls[j].id>> \in CallIds
  <2> TAKE j \in 1 .. n
  <2>1. PICK i \in Calls(reply) : toolCalls[j] = Whole(reply, i)
    BY <1>1 DEF TurnInv, CallsInv
  <2>2. toolCalls[j].id = i
    BY <2>1 DEF Whole
  <2> QED
    BY <2>2 DEF LoopInv
<1>3. Ids = [j \in 1 .. n |-> <<turn, toolCalls[j].id>>]
  BY <1>1 DEF Ids
<1> HIDE DEF n
<1>4. [j \in 1 .. n |-> <<turn, toolCalls[j].id>>] \in Seq(CallIds)
  BY <1>1, <1>2, IsASeq
<1>5. Ids \in Seq(CallIds) /\ DOMAIN Ids = 1 .. n
  BY <1>3, <1>4
<1>6. Len(Ids) = n
  BY <1>1, <1>5
<1> QED
  BY <1>5, <1>6 DEF n

-----------------------------------------------------------------------------
(* The run: its transcript                                                 *)

LEMMA MessageFacts ==
    /\ \A ids : Assistant(ids).role = "assistant" /\ Assistant(ids).calls = ids
    /\ \A id : ToolMessage(id).role = "tool" /\ ToolMessage(id).of = id
    /\ User.role = "user" /\ User \in Messages
    /\ \A ids \in Seq(CallIds) : Assistant(ids) \in Messages
    /\ \A id \in CallIds : ToolMessage(id) \in Messages
  BY DEF Assistant, ToolMessage, User, Messages

\* The steps that leave the loop alone.
LEMMA LoopRests ==
    ASSUME LoopInv, UNCHANGED <<loopVars, reply>>, at \in {"tools", "next"} => Forgotten',
           call'[Run] # Idle => at = "tools" /\ executed < Len(calls)
    PROVE  LoopInv'
  BY DEF LoopInv, loopVars

LEMMA SameReply == [Next]_vars => reply' = reply
  BY DEF Next, Parser, Reader, BlockStart, BlockDelta, BlockStop, MessageDelta,
         MessageStop, TextChunk, PartChunk, CallsChunk, FinishChunk, UsageChunk,
         ReadChunk, Done, EndOfBody, StreamFails, ReadStart, ReadDelta,
         ReadToolCall, ReadUsage, ReadStop, ReadEOF, NextEvent, serverVars, vars

LEMMA ForgottenRests == Forgotten /\ UNCHANGED vars => Forgotten'
  BY DEF Forgotten, vars, serverVars, parserVars, turnVars

\* The others' call is not this run's.
LEMMA OthersLeaveRun ==
    ASSUME CallInv, NEW w \in Workers \ {Run},
           (\E tool \in Tools : Execute(w, OtherId, tool)) \/ ToolStep(w)
    PROVE  call'[Run] = call[Run]
<1>1. \E c : call' = [call EXCEPT ![w] = c]
  <2>1. CASE \E tool \in Tools : Execute(w, OtherId, tool)
    BY <2>1 DEF Execute
  <2>2. CASE ToolStep(w)
    <3>1. \E c : /\ call' = [call EXCEPT ![w] = c]
                 /\ InCall(c)
                 /\ c.at \in AtTool => c.verdict = "allow"
                 /\ c.at = "edit" => /\ contents' = contents
                                     /\ c.seen = contents
      BY <2>2, StepShape DEF ToolStep
    <3> QED
      BY <3>1
  <2> QED
    BY <2>1, <2>2
<1> QED
  BY <1>1, RunAssumption DEF CallInv

LEMMA LoopStep == TurnInv /\ CallInv /\ LoopInv /\ [RunNext]_runVars => LoopInv'
<1> SUFFICES ASSUME TurnInv, CallInv, LoopInv, [RunNext]_runVars PROVE LoopInv'
  OBVIOUS
<1>1. CASE CreateSession
  <2>1. /\ UNCHANGED <<vars, toolVars, turn, calls, executed, messages>>
        /\ \/ stored' = messages /\ at' = "turn"
           \/ stored' = stored /\ at' = "store failed"
        /\ at = "create"
    BY <1>1 DEF CreateSession, Save
  <2> QED
    BY <2>1 DEF LoopInv, vars, serverVars, toolVars
<1>2. CASE ReadTurn
  <2>1. at = "turn" /\ UNCHANGED <<loopVars, toolVars>> /\ reply' = reply
    BY <1>2, SameReply DEF ReadTurn
  <2>2. call'[Run] = call[Run]
    BY <2>1 DEF toolVars
  <2> QED
    BY <2>1, <2>2, LoopRests DEF LoopInv
<1>3. CASE TurnFails
  <2>1. /\ UNCHANGED <<vars, toolVars, turn, calls, executed, messages, stored>>
        /\ at = "turn" /\ at' = "turn failed"
    BY <1>3 DEF TurnFails
  <2> QED
    BY <2>1 DEF LoopInv, vars, serverVars, toolVars
<1>4. CASE KeepMessage
  <2>1. /\ at = "turn" /\ executed' = 0 /\ calls' = Ids /\ turn' = turn
        /\ call' = call /\ ForgetTurn
        /\ messages' \in {messages, Append(messages, Assistant(Ids))}
        /\ \/ at' = "tools" /\ stored' = stored
           \/ at' = "done" /\ stored' = messages'
           \/ at' = "store failed" /\ stored' = stored
    BY <1>4 DEF KeepMessage, Save, toolVars
  <2>2. Ids \in Seq(CallIds)
    BY IdsType
  <2>3. messages' \in Seq(Messages)
    <3>1. messages \in Seq(Messages) /\ Assistant(Ids) \in Messages
      BY <2>2, MessageFacts DEF LoopInv
    <3>2. Append(messages, Assistant(Ids)) \in Seq(Messages)
      BY <3>1, AppendFacts
    <3> QED
      BY <2>1, <3>1, <3>2
  <2>4. Forgotten'
    BY <2>1 DEF ForgetTurn, Forgotten
  <2>5. Calls(reply') = {}
    <3>1. Calls(<<>>) = {}
      BY DEF Calls
    <3>2. reply' = <<>>
      BY <2>4 DEF Forgotten
    <3> QED
      BY <3>1, <3>2
  <2>6. executed' \in 0 .. Len(calls')
    <3>1. Len(Ids) \in Nat
      BY <2>2
    <3>2. executed' = 0 /\ calls' = Ids
      BY <2>1
    <3>3. 0 \in 0 .. Len(Ids)
      BY <3>1
    <3> QED
      BY <3>2, <3>3
  <2>7. call'[Run] = Idle
    BY <2>1 DEF LoopInv
  <2> QED
    BY <2>1, <2>2, <2>3, <2>4, <2>5, <2>6, <2>7 DEF LoopInv
<1>5. CASE StartCall \/ WorkOnCall \/ OthersWork
  <2>1. UNCHANGED <<loopVars, reply, vars>> /\ at = "tools"
    BY <1>5 DEF StartCall, WorkOnCall, OthersWork, vars, serverVars
  <2>2. at \in {"tools", "next"} => Forgotten'
    BY <2>1, ForgottenRests DEF LoopInv
  <2>3. call'[Run] # Idle => executed < Len(calls)
    <3>1. CASE StartCall
      BY <3>1 DEF StartCall
    <3>2. CASE WorkOnCall
      <4>1. call[Run] # Idle
        BY <3>2 DEF WorkOnCall, ToolStep, Decide, Tool, Reject, Read, ReadForEdit,
                    Truncate, Write, BashWrites, BashKilled, BashEnds, At
      <4> QED
        BY <4>1 DEF LoopInv
    <3>3. CASE OthersWork
      <4>1. call'[Run] = call[Run]
        BY <3>3, OthersLeaveRun DEF OthersWork
      <4> QED
        BY <4>1 DEF LoopInv
    <3> QED
      BY <1>5, <3>1, <3>2, <3>3
  <2> QED
    BY <2>1, <2>2, <2>3, LoopRests
<1>6. CASE KeepAnswer
  <2>1. /\ at = "tools" /\ at' = at /\ turn' = turn /\ calls' = calls
        /\ stored' = stored /\ executed' = executed + 1 /\ UNCHANGED vars
        /\ messages' = Append(messages, ToolMessage(calls[executed + 1]))
        /\ call' = [call EXCEPT ![Run] = Idle] /\ call[Run] # Idle
    BY <1>6 DEF KeepAnswer
  <2>2. executed \in Nat /\ executed + 1 \in 1 .. Len(calls)
    BY <2>1 DEF LoopInv
  <2>3. messages' \in Seq(Messages)
    <3>1. calls[executed + 1] \in CallIds
      <4>1. calls \in Seq(CallIds)
        BY DEF LoopInv
      <4> QED
        BY <2>2, <4>1
    <3>2. messages \in Seq(Messages) /\ ToolMessage(calls[executed + 1]) \in Messages
      BY <3>1, MessageFacts DEF LoopInv
    <3> QED
      BY <2>1, <3>2
  <2>4. call'[Run] = Idle
    BY <2>1, RunAssumption DEF CallInv
  <2>5. Forgotten' /\ reply' = reply
    BY <2>1, ForgottenRests DEF LoopInv, vars, serverVars
  <2>6. executed' \in 0 .. Len(calls')
    BY <2>1, <2>2
  <2> QED
    BY <2>1, <2>3, <2>4, <2>5, <2>6 DEF LoopInv
<1>7. CASE SaveTurn
  <2>1. /\ at = "tools" /\ executed = Len(calls)
        /\ UNCHANGED <<vars, toolVars, turn, calls, executed, messages>>
        /\ \/ stored' = messages /\ at' = (IF turn = MaxTurns THEN "exceeded" ELSE "next")
           \/ stored' = stored /\ at' = "store failed"
    BY <1>7 DEF SaveTurn, Save
  <2>2. call'[Run] = Idle
    <3>1. ~(executed < Len(calls))
      <4>1. calls \in Seq(CallIds)
        BY DEF LoopInv
      <4>2. Len(calls) \in Nat
        BY <4>1
      <4>3. executed = Len(calls)
        BY <2>1
      <4> QED
        BY <4>2, <4>3
    <3> QED
      BY <2>1, <3>1 DEF LoopInv, toolVars
  <2>3. Forgotten' /\ reply' = reply
    BY <2>1, ForgottenRests DEF LoopInv, vars, serverVars
  <2> QED
    BY <2>1, <2>2, <2>3 DEF LoopInv
<1>8. CASE NextTurn
  <2>1. /\ at = "next" /\ at' = "turn" /\ turn' = turn + 1
        /\ calls' = <<>> /\ executed' = 0 /\ call' = call
        /\ messages' = messages /\ stored' = stored
    BY <1>8 DEF NextTurn, toolVars
  <2>2. turn' \in 1 .. MaxTurns
    <3>1. turn \in 1 .. MaxTurns /\ turn # MaxTurns
      BY <2>1 DEF LoopInv
    <3> QED
      BY <2>1, <3>1, RunAssumption
  <2>3. PICK a \in Answers(LaterReplies) : reply' \in Sent(a)
    BY <1>8 DEF NextTurn
  <2>7. a.meant \in LaterReplies /\ Calls(reply') \subseteq Calls(a.meant)
    BY <2>3, AnswerFacts, RunAssumption
  <2>4. \A i \in Calls(reply') : <<turn', i>> \in CallIds
    BY <2>2, <2>7, RunAssumption
  <2>5. executed' \in 0 .. Len(calls') /\ calls' \in Seq(CallIds)
    BY <2>1
  <2>6. call'[Run] = Idle
    BY <2>1 DEF LoopInv
  <2> QED
    BY <2>1, <2>2, <2>4, <2>5, <2>6 DEF LoopInv
<1>9. CASE UNCHANGED runVars
  <2>1. UNCHANGED <<loopVars, reply, vars>> /\ call' = call
    BY <1>9 DEF runVars, vars, serverVars, toolVars
  <2>2. at \in {"tools", "next"} => Forgotten'
    BY <2>1, ForgottenRests DEF LoopInv
  <2> QED
    BY <2>1, <2>2, LoopRests DEF LoopInv
<1> QED
  BY <1>1, <1>2, <1>3, <1>4, <1>5, <1>6, <1>7, <1>8, <1>9 DEF RunNext

\* The two places of a message and of what answers it.
LEMMA AskingFacts ==
    ASSUME LoopInv
    PROVE  /\ messages \in Seq(Messages) /\ Len(messages) \in Nat
           /\ DOMAIN messages = 1 .. Len(messages)
           /\ calls \in Seq(CallIds) /\ Len(calls) \in Nat
           /\ DOMAIN calls = 1 .. Len(calls)
           /\ executed \in Nat /\ executed <= Len(calls)
<1>1. messages \in Seq(Messages) /\ calls \in Seq(CallIds)
  BY DEF LoopInv
<1>2. Len(messages) \in Nat /\ DOMAIN messages = 1 .. Len(messages)
  BY <1>1
<1>3. Len(calls) \in Nat /\ DOMAIN calls = 1 .. Len(calls)
  BY <1>1
<1>4. executed \in 0 .. Len(calls)
  BY DEF LoopInv
<1> QED
  BY <1>1, <1>2, <1>3, <1>4

\* A transcript without a call to be answered stays one when Run moves on.
LEMMA TranscriptRests ==
    ASSUME TranscriptInv, LoopInv, messages' = messages,
           \/ at' = at /\ executed' = executed /\ calls' = calls
           \/ at # "tools" /\ at' # "tools"
           \/ at = "tools" /\ executed = Len(calls) /\ at' # "tools"
    PROVE  TranscriptInv'
<1>1. CASE at' = at /\ executed' = executed /\ calls' = calls
  BY <1>1 DEF TranscriptInv, Closed, Asking
<1>2. CASE at # "tools" /\ at' # "tools"
  BY <1>2 DEF TranscriptInv, Closed
<1>3. CASE at = "tools" /\ executed = Len(calls) /\ at' # "tools"
  <2>1. ASSUME NEW i \in DOMAIN messages, messages[i].role = "assistant",
               NEW n \in DOMAIN messages[i].calls
        PROVE  Closed(i, n)
    <3>1. CASE i = Asking
      <4>1. messages[i].calls = calls
        BY <1>3, <3>1, MessageFacts DEF TranscriptInv
      <4>2. n \in 1 .. Len(calls)
        BY <2>1, <4>1, AskingFacts
      <4>3. ~(n > executed)
        BY <1>3, <4>2, AskingFacts
      <4> QED
        BY <2>1, <4>3 DEF TranscriptInv
    <3>2. CASE i # Asking
      BY <2>1, <3>2 DEF TranscriptInv
    <3> QED
      BY <3>1, <3>2
  <2>2. \A i \in DOMAIN messages : \A n : Closed(i, n)' <=> Closed(i, n)
    BY DEF Closed
  <2> QED
    BY <1>3, <2>1, <2>2 DEF TranscriptInv
<1> QED
  BY <1>1, <1>2, <1>3

LEMMA KeepMessageKeeps ==
    ASSUME TurnInv, LoopInv, TranscriptInv, KeepMessage
    PROVE  TranscriptInv'
<1>1. /\ at = "turn" /\ executed' = 0 /\ calls' = Ids
      /\ messages' = IF shouldPersistAssistant
                     THEN Append(messages, Assistant(Ids)) ELSE messages
      /\ toolCalls = <<>> => at' # "tools"
  BY DEF KeepMessage, Save
<1>2. Ids \in Seq(CallIds) /\ Len(Ids) = Len(toolCalls)
  BY IdsType
<1>3. CASE ~ shouldPersistAssistant
  <2>1. toolCalls = <<>>
    BY <1>3 DEF shouldPersistAssistant
  <2> QED
    BY <1>1, <1>3, <2>1, TranscriptRests
<1>4. CASE shouldPersistAssistant
  <2> DEFINE last == Len(messages) + 1
  <2>1. /\ Len(messages) \in Nat /\ DOMAIN messages = 1 .. Len(messages)
        /\ DOMAIN messages' = 1 .. last /\ Len(messages') = last
        /\ \A i \in DOMAIN messages : i \in DOMAIN messages' /\ messages'[i] = messages[i]
        /\ messages'[last] = Assistant(Ids)
    <3>1. messages \in Seq(Messages) /\ Assistant(Ids) \in Messages
      BY <1>2, AskingFacts, MessageFacts
    <3>2. /\ Append(messages, Assistant(Ids)) \in Seq(Messages)
          /\ Len(Append(messages, Assistant(Ids))) = Len(messages) + 1
          /\ \A k \in 1 .. Len(messages) : Append(messages, Assistant(Ids))[k] = messages[k]
          /\ Append(messages, Assistant(Ids))[Len(messages) + 1] = Assistant(Ids)
      BY <3>1, AppendFacts
    <3>3. messages' = Append(messages, Assistant(Ids))
      BY <1>1, <1>4
    <3>4. Len(messages) \in Nat /\ DOMAIN messages = 1 .. Len(messages)
      BY AskingFacts
    <3>5. /\ DOMAIN messages' = 1 .. Len(messages) + 1 /\ Len(messages') = Len(messages) + 1
          /\ \A k \in 1 .. Len(messages) : messages'[k] = messages[k]
          /\ messages'[Len(messages) + 1] = Assistant(Ids)
      BY <3>2, <3>3
    <3> QED
      BY <3>4, <3>5
  <2>2. Asking' = last
    BY <1>1, <2>1 DEF Asking
  <2>3. \A i \in DOMAIN messages' : i \in DOMAIN messages \/ i = last
    BY <2>1
  <2> HIDE DEF last
  <2>4. ASSUME NEW i \in DOMAIN messages, NEW n, Closed(i, n)
        PROVE  Closed(i, n)'
    BY <2>1, <2>4 DEF Closed
  <2>5. ASSUME NEW i \in DOMAIN messages', messages'[i].role = "assistant",
               NEW n \in DOMAIN messages'[i].calls
        PROVE  Closed(i, n)' \/ (at' = "tools" /\ i = Asking' /\ n > executed')
    <3>1. CASE i \in DOMAIN messages
      BY <1>1, <2>1, <2>4, <2>5, <3>1 DEF TranscriptInv
    <3>2. CASE i = last
      <4>1. n \in 1 .. Len(toolCalls)
        BY <1>2, <2>1, <2>5, <3>2, MessageFacts
      <4>2. toolCalls # <<>>
        BY <4>1
      <4>3. at' = "tools"
        BY <4>2, <1>1 DEF KeepMessage
      <4>4. Len(toolCalls) \in Nat
        BY <1>2
      <4>5. n > executed'
        BY <1>1, <4>1, <4>4
      <4> QED
        BY <2>2, <3>2, <4>3, <4>5
    <3> QED
      BY <2>3, <3>1, <3>2
  <2>6. ASSUME NEW i \in DOMAIN messages', messages'[i].role = "tool"
        PROVE  \E m \in 1 .. i - 1 :
                 /\ messages'[i - m].role = "assistant"
                 /\ m \in DOMAIN messages'[i - m].calls
                 /\ messages'[i - m].calls[m] = messages'[i].of
    <3>1. i \in DOMAIN messages
      BY <2>1, <2>3, <2>6, MessageFacts
    <3>2. PICK m \in 1 .. i - 1 :
             /\ messages[i - m].role = "assistant"
             /\ m \in DOMAIN messages[i - m].calls
             /\ messages[i - m].calls[m] = messages[i].of
      BY <2>1, <2>6, <3>1 DEF TranscriptInv
    <3>3. i - m \in DOMAIN messages
      BY <2>1, <3>1, <3>2
    <3> QED
      BY <2>1, <3>1, <3>2, <3>3
  <2>7. at' = "tools" => Asking' \in DOMAIN messages' /\ messages'[Asking'] = Assistant(calls')
    <3>1. last \in DOMAIN messages'
      BY <2>1 DEF last
    <3> QED
      BY <1>1, <2>1, <2>2, <3>1
  <2> QED
    BY <2>5, <2>6, <2>7 DEF TranscriptInv
<1> QED
  BY <1>3, <1>4

LEMMA KeepAnswerKeeps ==
    ASSUME LoopInv, TranscriptInv, KeepAnswer
    PROVE  TranscriptInv'
<1> DEFINE last == Len(messages) + 1
           answer == ToolMessage(calls[executed + 1])
<1>1. /\ at = "tools" /\ at' = "tools" /\ calls' = calls /\ executed' = executed + 1
      /\ messages' = Append(messages, answer) /\ call[Run] # Idle
  BY DEF KeepAnswer
<1>2. executed \in Nat /\ executed + 1 \in DOMAIN calls
  <2>1. executed < Len(calls)
    BY <1>1 DEF LoopInv
  <2> QED
    BY <2>1, AskingFacts
<1>3. /\ Len(messages) \in Nat /\ DOMAIN messages = 1 .. Len(messages)
      /\ DOMAIN messages' = 1 .. last /\ Len(messages') = last
      /\ \A i \in DOMAIN messages : i \in DOMAIN messages' /\ messages'[i] = messages[i]
      /\ messages'[last] = answer
  <2>1. messages \in Seq(Messages) /\ answer \in Messages
    <3>1. calls[executed + 1] \in CallIds
      BY <1>2, AskingFacts
    <3> QED
      BY <3>1, AskingFacts, MessageFacts
  <2> HIDE DEF answer
  <2>2. /\ messages' \in Seq(Messages) /\ Len(messages') = Len(messages) + 1
        /\ \A k \in 1 .. Len(messages) : messages'[k] = messages[k]
        /\ messages'[Len(messages) + 1] = answer
    BY <1>1, <2>1, AppendFacts
  <2>3. Len(messages) \in Nat /\ DOMAIN messages = 1 .. Len(messages)
    BY AskingFacts
  <2>4. DOMAIN messages' = 1 .. Len(messages')
    BY <2>2
  <2> QED
    BY <2>2, <2>3, <2>4
<1>4. Asking' = Asking /\ Asking + (executed + 1) = last
  BY <1>1, <1>2, <1>3 DEF Asking
<1>5. \A i \in DOMAIN messages' : i \in DOMAIN messages \/ i = last
  BY <1>3
<1>6. /\ Asking \in DOMAIN messages /\ messages[Asking].role = "assistant"
      /\ messages[Asking].calls = calls
  BY <1>1, MessageFacts DEF TranscriptInv
<1>7. answer.role = "tool" /\ answer.of = calls[executed + 1]
  BY MessageFacts
<1>8. last \in DOMAIN messages'
  BY <1>3
<1> HIDE DEF last
<1>9. ASSUME NEW i \in DOMAIN messages', messages'[i].role = "assistant",
             NEW n \in DOMAIN messages'[i].calls
      PROVE  Closed(i, n)' \/ (i = Asking' /\ n > executed')
  <2>1. i \in DOMAIN messages /\ messages'[i] = messages[i]
    BY <1>3, <1>5, <1>7, <1>9
  <2>2. CASE Closed(i, n)
    BY <1>3, <2>1, <2>2 DEF Closed
  <2>3. CASE ~ Closed(i, n)
    <3>1. i = Asking /\ n > executed /\ n \in DOMAIN calls
      BY <1>6, <1>9, <2>1, <2>3 DEF TranscriptInv
    <3>2. CASE n = executed + 1
      <4>1. i + n = last /\ messages'[i].calls = calls
        BY <1>4, <1>6, <2>1, <3>1, <3>2
      <4> QED
        BY <1>3, <1>8, <3>2, <4>1 DEF Closed
    <3>3. CASE n # executed + 1
      <4>1. n \in Nat
        BY <3>1, AskingFacts
      <4> QED
        BY <1>1, <1>2, <1>4, <3>1, <3>3, <4>1
    <3> QED
      BY <3>2, <3>3
  <2> QED
    BY <2>2, <2>3
<1>10. ASSUME NEW i \in DOMAIN messages', messages'[i].role = "tool"
       PROVE  \E m \in 1 .. i - 1 :
                /\ messages'[i - m].role = "assistant"
                /\ m \in DOMAIN messages'[i - m].calls
                /\ messages'[i - m].calls[m] = messages'[i].of
  <2>1. CASE i \in DOMAIN messages
    <3>1. PICK m \in 1 .. i - 1 :
             /\ messages[i - m].role = "assistant"
             /\ m \in DOMAIN messages[i - m].calls
             /\ messages[i - m].calls[m] = messages[i].of
      BY <1>3, <1>10, <2>1 DEF TranscriptInv
    <3>2. i - m \in DOMAIN messages
      BY <1>3, <2>1, <3>1
    <3> QED
      BY <1>3, <2>1, <3>1, <3>2
  <2>2. CASE i = last
    <3>1. /\ executed + 1 \in 1 .. i - 1 /\ i - (executed + 1) = Asking
      BY <1>2, <1>3, <1>4, <1>6, <2>2
    <3>2. messages'[Asking] = messages[Asking]
      BY <1>3, <1>6
    <3> QED
      BY <1>2, <1>3, <1>6, <1>7, <2>2, <3>1, <3>2
  <2> QED
    BY <1>5, <2>1, <2>2
<1>11. Asking' \in DOMAIN messages' /\ messages'[Asking'] = Assistant(calls')
  <2>1. messages[Asking] = Assistant(calls)
    BY <1>1 DEF TranscriptInv
  <2> QED
    BY <1>1, <1>3, <1>4, <1>6, <2>1
<1> QED
  BY <1>1, <1>9, <1>10, <1>11 DEF TranscriptInv

LEMMA TranscriptStep ==
    TurnInv /\ TranscriptAll /\ [RunNext]_runVars => TranscriptInv'
<1> SUFFICES ASSUME TurnInv, LoopInv, TranscriptInv, [RunNext]_runVars
             PROVE  TranscriptInv'
  BY DEF TranscriptAll
<1>1. CASE KeepMessage
  BY <1>1, KeepMessageKeeps
<1>2. CASE KeepAnswer
  BY <1>2, KeepAnswerKeeps
<1>3. CASE SaveTurn
  <2>1. /\ at = "tools" /\ executed = Len(calls) /\ messages' = messages
        /\ at' # "tools"
    BY <1>3 DEF SaveTurn, Save
  <2> QED
    BY <2>1, TranscriptRests
<1>4. CASE CreateSession \/ TurnFails \/ NextTurn
  <2>1. at # "tools" /\ at' # "tools" /\ messages' = messages
    BY <1>4 DEF CreateSession, TurnFails, NextTurn, Save
  <2> QED
    BY <2>1, TranscriptRests
<1>5. CASE ReadTurn \/ StartCall \/ WorkOnCall \/ OthersWork \/ UNCHANGED runVars
  <2>1. UNCHANGED loopVars
    BY <1>5 DEF ReadTurn, StartCall, WorkOnCall, OthersWork, runVars
  <2>2. at' = at /\ executed' = executed /\ calls' = calls /\ messages' = messages
    BY <2>1 DEF loopVars
  <2> QED
    BY <2>2, TranscriptRests
<1> QED
  BY <1>1, <1>2, <1>3, <1>4, <1>5 DEF RunNext

LEMMA LoopInit == RunInit => TranscriptAll
<1> SUFFICES ASSUME RunInit PROVE TranscriptAll
  OBVIOUS
<1>1. /\ at = "create" /\ turn = 1 /\ messages = <<User>> /\ calls = <<>>
      /\ executed = 0 /\ stored = <<>> /\ call = [w \in Workers |-> Idle]
  BY DEF RunInit, ToolInit
<1>2. call[Run] = Idle
  BY <1>1, RunAssumption
<1>3. turn \in 1 .. MaxTurns
  BY <1>1, RunAssumption
<1>4. \E m \in Replies : Calls(reply) \subseteq Calls(m)
  <2>1. PICK a \in Answers(Replies) : reply \in Sent(a)
    BY DEF RunInit, Init
  <2> QED
    BY <2>1, AnswerFacts, RepliesAssumption
<1>5. \A i \in Calls(reply) : <<turn, i>> \in CallIds
  BY <1>3, <1>4, RunAssumption
<1>6. /\ messages \in Seq(Messages) /\ stored \in Seq(Messages)
      /\ DOMAIN messages = {1} /\ messages[1] = User
  BY <1>1, MessageFacts
<1>7. calls \in Seq(CallIds) /\ executed \in 0 .. Len(calls)
  BY <1>1
<1>8. LoopInv
  BY <1>1, <1>2, <1>3, <1>5, <1>6, <1>7 DEF LoopInv
<1>9. TranscriptInv
  BY <1>1, <1>6, MessageFacts DEF TranscriptInv
<1> QED
  BY <1>8, <1>9 DEF TranscriptAll

-----------------------------------------------------------------------------
(* The run: its types                                                      *)

LEMMA ExecuteTypes ==
    ASSUME ToolTypeOK, NEW w \in Workers, NEW id \in CallIds, NEW tool \in Tools,
           Execute(w, id, tool)
    PROVE  ToolTypeOK'
<1> DEFINE new == [at |-> "asked", id |-> id, tool |-> tool,
                   verdict |-> "none", seen |-> {}]
<1>1. call' = [call EXCEPT ![w] = new] /\ contents' = contents /\ landed' = landed
  BY DEF Execute
<1>2. new \in CallStates
  BY DEF CallStates, Steps
<1> HIDE DEF new
<1> QED
  BY <1>1, <1>2 DEF ToolTypeOK

\* What a step makes of its call is a call.
LEMMA StepTypes ==
    ASSUME ToolTypeOK, NEW w \in Workers, Decide(w) \/ Tool(w)
    PROVE  call' \in [Workers -> CallStates] /\ contents' \subseteq Changes
<1> DEFINE c == call[w]
           Work == [at: Steps, id: CallIds, tool: Tools, verdict: {"none", "allow",
                    "deny", "prompt", "error"}, seen: SUBSET Changes]
<1>1. call \in [Workers -> CallStates] /\ contents \subseteq Changes
  BY DEF ToolTypeOK
<1>2. c # Idle
  BY DEF Decide, Tool, Reject, Read, ReadForEdit, Truncate, Write, BashWrites,
         BashKilled, BashEnds, At
<1>3. c \in Work
  BY <1>1, <1>2 DEF CallStates
<1>4. c.id \in Changes /\ c.seen \subseteq Changes
  BY <1>3 DEF Changes
<1>5. ASSUME NEW x \in Steps, Goto(w, x) PROVE call' \in [Workers -> CallStates]
  <2>1. [c EXCEPT !.at = x] \in CallStates
    BY <1>3 DEF CallStates
  <2>2. call' = [call EXCEPT ![w] = [c EXCEPT !.at = x]]
    BY <1>5 DEF Goto
  <2> QED
    BY <1>1, <2>1, <2>2
<1>6. CASE Decide(w)
  <2>1. contents' = contents
    BY <1>6 DEF Decide
  <2>2. CASE Answer(w)
    BY <1>1, <1>5, <2>1, <2>2 DEF Answer, Steps
  <2>3. ASSUME NEW verdict \in Verdicts(c.tool),
               call' = [call EXCEPT ![w].verdict = verdict,
                          ![w].at = IF verdict = "allow" THEN "allowed"
                                                         ELSE "answered"]
        PROVE  call' \in [Workers -> CallStates]
    <3> DEFINE x == IF verdict = "allow" THEN "allowed" ELSE "answered"
               d == [c EXCEPT !.verdict = verdict, !.at = x]
    <3>1. call' = [call EXCEPT ![w] = d]
      BY <1>1, <2>3
    <3>2. d \in CallStates
      <4>1. verdict \in {"allow", "deny", "prompt", "error"} /\ x \in Steps
        BY DEF Verdicts, Steps
      <4> HIDE DEF x
      <4> QED
        BY <1>3, <4>1 DEF CallStates
    <3> HIDE DEF d
    <3> QED
      BY <1>1, <3>1, <3>2
  <2> QED
    BY <1>1, <1>6, <2>1, <2>2, <2>3 DEF Decide
<1>7. CASE Reject(w) \/ Read(w) \/ BashEnds(w)
  <2>1. contents' = contents /\ Goto(w, "answered")
    BY <1>7 DEF Reject, Read, BashEnds, Answer
  <2> QED
    BY <1>1, <1>5, <2>1 DEF Steps
<1>8. CASE ReadForEdit(w)
  <2> DEFINE d == [c EXCEPT !.seen = contents, !.at = "edit"]
  <2>1. call' = [call EXCEPT ![w] = d] /\ contents' = contents
    BY <1>1, <1>8 DEF ReadForEdit
  <2>2. d \in CallStates
    BY <1>1, <1>3 DEF CallStates, Steps
  <2> HIDE DEF d
  <2> QED
    BY <1>1, <2>1, <2>2
<1>9. CASE Truncate(w)
  <2>1. \E x \in {"write", "answered"} : Goto(w, x)
    BY <1>9 DEF Truncate, Answer
  <2>2. contents' \in {{}, contents}
    BY <1>9 DEF Truncate
  <2> QED
    BY <1>1, <1>5, <2>1, <2>2 DEF Steps
<1>10. CASE Write(w)
  <2>1. Goto(w, "answered") /\ contents' \in {c.seen \cup {c.id}, contents, {}}
    BY <1>10 DEF Write, Answer
  <2> QED
    BY <1>1, <1>4, <1>5, <2>1 DEF Steps
<1>11. CASE BashWrites(w)
  <2>1. call' = call /\ contents' \in {contents \cup {c.id}, {c.id}, {}}
    BY <1>11 DEF BashWrites
  <2> QED
    BY <1>1, <1>4, <2>1
<1>12. CASE BashKilled(w)
  <2>1. contents' = contents /\ Goto(w, "killed")
    BY <1>12 DEF BashKilled
  <2> QED
    BY <1>1, <1>5, <2>1 DEF Steps
<1> QED
  BY <1>6, <1>7, <1>8, <1>9, <1>10, <1>11, <1>12 DEF Tool

LEMMA ToolStepTypes ==
    ASSUME ToolTypeOK, NEW w \in Workers, ToolStep(w)
    PROVE  ToolTypeOK'
<1>1. call' \in [Workers -> CallStates] /\ contents' \subseteq Changes
  BY StepTypes DEF ToolStep
<1>2. landed \in [Workers -> SUBSET Changes]
  BY DEF ToolTypeOK
<1>3. landed' \in [Workers -> SUBSET Changes]
  BY <1>1, <1>2 DEF ToolStep, NoteLanded
<1> QED
  BY <1>1, <1>3 DEF ToolTypeOK

LEMMA TypesStep == LoopInv /\ ToolTypeOK /\ [RunNext]_runVars => ToolTypeOK'
<1> SUFFICES ASSUME LoopInv, ToolTypeOK, [RunNext]_runVars PROVE ToolTypeOK'
  OBVIOUS
<1>1. CASE UNCHANGED toolVars
  BY <1>1 DEF toolVars, ToolTypeOK
<1>2. CASE StartCall
  <2>1. executed < Len(calls)
    BY <1>2 DEF StartCall
  <2>2. calls[executed + 1] \in CallIds
    <3>1. executed + 1 \in DOMAIN calls
      BY <2>1, AskingFacts
    <3> QED
      BY <3>1, AskingFacts
  <2>3. PICK tool \in Tools : Execute(Run, calls[executed + 1], tool)
    BY <1>2 DEF StartCall
  <2> QED
    BY <2>2, <2>3, ExecuteTypes, RunAssumption
<1>3. CASE WorkOnCall
  BY <1>3, ToolStepTypes, RunAssumption DEF WorkOnCall
<1>4. CASE OthersWork
  BY <1>4, ToolStepTypes, ExecuteTypes, RunAssumption DEF OthersWork
<1>5. CASE KeepAnswer
  <2>1. /\ call' = [call EXCEPT ![Run] = Idle]
        /\ contents' = contents /\ landed' = landed
    BY <1>5 DEF KeepAnswer
  <2>2. Idle \in CallStates
    BY DEF CallStates
  <2> QED
    BY <2>1, <2>2 DEF ToolTypeOK
<1> QED
  BY <1>1, <1>2, <1>3, <1>4, <1>5, LoopLeavesTools DEF RunNext

-----------------------------------------------------------------------------
(* The run: its requests                                                   *)

\* The messages in a request, after d others.
Holds(request, toolRole, d) ==
    /\ DOMAIN request = 1 .. Len(messages) + d
    /\ \A i \in DOMAIN messages : request[i + d] = Converted(messages[i], toolRole)
    /\ d = 1 => request[1] = System

\* Every call in a request is answered in its place, and every answer has its
\* call.
Paired(request) ==
    \A i \in DOMAIN request : \A n \in DOMAIN request[i].blocks :
       /\ request[i].blocks[n].type = "tool_use" =>
             /\ i + n \in DOMAIN request
             /\ request[i + n].blocks =
                   <<Block("tool_result", request[i].blocks[n].id)>>
       /\ request[i].blocks[n].type = "tool_result" =>
             \E m \in 1 .. i - 1 :
                /\ m \in DOMAIN request[i - m].blocks
                /\ request[i - m].blocks[m] =
                      Block("tool_use", request[i].blocks[n].id)

LEMMA ConvertedPaired ==
    ASSUME LoopInv, TranscriptInv, at = "turn", NEW toolRole, NEW d \in {0, 1},
           NEW request, Holds(request, toolRole, d)
    PROVE  Paired(request)
<1> SUFFICES ASSUME NEW i \in DOMAIN request, NEW n \in DOMAIN request[i].blocks
    PROVE  /\ request[i].blocks[n].type = "tool_use" =>
                 /\ i + n \in DOMAIN request
                 /\ request[i + n].blocks =
                       <<Block("tool_result", request[i].blocks[n].id)>>
           /\ request[i].blocks[n].type = "tool_result" =>
                 \E m \in 1 .. i - 1 :
                    /\ m \in DOMAIN request[i - m].blocks
                    /\ request[i - m].blocks[m] =
                          Block("tool_use", request[i].blocks[n].id)
  BY DEF Paired
<1> DEFINE k == i - d
<1>0. /\ DOMAIN request = 1 .. Len(messages) + d
      /\ \A j \in DOMAIN messages : request[j + d] = Converted(messages[j], toolRole)
      /\ d = 1 => request[1] = System
  BY DEF Holds
<1>1. Len(messages) \in Nat /\ DOMAIN messages = 1 .. Len(messages)
  BY AskingFacts
<1>2. k \in DOMAIN messages /\ i = k + d
  <2>1. i = 1 /\ d = 1 => DOMAIN request[i].blocks = {}
    BY <1>0 DEF System
  <2> QED
    BY <1>0, <1>1, <2>1
<1>3. request[i] = Converted(messages[k], toolRole)
  BY <1>0, <1>2
<1>4. \A type, id : Block(type, id).type = type /\ Block(type, id).id = id
  BY DEF Block
<1>5. \A m : m.role = "tool" =>
         Converted(m, toolRole).blocks = <<Block("tool_result", m.of)>>
  BY DEF Converted
<1>6. \A m : m.role = "assistant" =>
         Converted(m, toolRole).blocks =
            [j \in DOMAIN m.calls |-> Block("tool_use", m.calls[j])]
  BY DEF Converted
<1>7. \A m : m.role \notin {"tool", "assistant"} => Converted(m, toolRole).blocks = <<>>
  BY DEF Converted
<1>8. k \in Nat /\ d \in Nat /\ i \in Nat
  BY <1>1, <1>2
<1> HIDE DEF k, Converted, Block
<1>9. CASE messages[k].role = "assistant"
  <2>1. /\ n \in DOMAIN messages[k].calls
        /\ request[i].blocks[n] = Block("tool_use", messages[k].calls[n])
    <3>1. request[i].blocks = [j \in DOMAIN messages[k].calls |->
                                  Block("tool_use", messages[k].calls[j])]
      BY <1>3, <1>6, <1>9
    <3> QED
      BY <3>1
  <2>2. Closed(k, n)
    BY <1>2, <1>9, <2>1 DEF TranscriptInv
  <2>3. k + n \in DOMAIN messages /\ messages[k + n] = ToolMessage(messages[k].calls[n])
    BY <2>2 DEF Closed
  <2>4. n \in Nat
    <3>1. messages[k] \in Messages
      BY <1>2, AskingFacts
    <3>2. messages[k].calls \in Seq(CallIds)
      BY <1>9, <3>1 DEF Messages, User
    <3> QED
      BY <2>1, <3>2
  <2>5. i + n = (k + n) + d
    BY <1>2, <1>8, <2>4
  <2>6. i + n \in DOMAIN request
    BY <1>0, <1>1, <1>8, <2>3, <2>5
  <2>7. request[i + n].blocks = <<Block("tool_result", messages[k].calls[n])>>
    <3>1. request[i + n] = Converted(messages[k + n], toolRole)
      BY <1>0, <2>3, <2>5
    <3> QED
      BY <1>5, <2>3, <3>1, MessageFacts
  <2> QED
    BY <1>4, <2>1, <2>6, <2>7
<1>10. CASE messages[k].role = "tool"
  <2>1. request[i].blocks[n] = Block("tool_result", messages[k].of)
    BY <1>3, <1>5, <1>10
  <2>2. PICK m \in 1 .. k - 1 :
           /\ messages[k - m].role = "assistant"
           /\ m \in DOMAIN messages[k - m].calls
           /\ messages[k - m].calls[m] = messages[k].of
    BY <1>2, <1>10 DEF TranscriptInv
  <2>3. m \in 1 .. i - 1 /\ k - m \in DOMAIN messages /\ i - m = (k - m) + d
    BY <1>1, <1>2, <1>8, <2>2
  <2>4. request[i - m] = Converted(messages[k - m], toolRole)
    BY <1>0, <2>3
  <2>5. /\ m \in DOMAIN request[i - m].blocks
        /\ request[i - m].blocks[m] = Block("tool_use", messages[k].of)
    <3>1. request[i - m].blocks = [j \in DOMAIN messages[k - m].calls |->
                                      Block("tool_use", messages[k - m].calls[j])]
      BY <1>6, <2>2, <2>4
    <3> QED
      BY <2>2, <3>1
  <2> QED
    BY <1>4, <2>1, <2>3, <2>5
<1>11. CASE messages[k].role \notin {"tool", "assistant"}
  BY <1>3, <1>7, <1>11
<1> QED
  BY <1>9, <1>10, <1>11

LEMMA TranscriptPaired == TranscriptAll => RequestsPaired
<1> SUFFICES ASSUME LoopInv, TranscriptInv, at = "turn"
             PROVE  \E toolRole \in {"user", "tool"}, d \in {0, 1} :
                       Holds(buildAPIRequest, toolRole, d)
  <2>1. Paired(buildAPIRequest) => RequestsPaired
    BY DEF Paired, RequestsPaired
  <2> QED
    BY <2>1, ConvertedPaired DEF TranscriptAll, RequestsPaired
<1>1. Len(messages) \in Nat /\ DOMAIN messages = 1 .. Len(messages)
  BY AskingFacts
<1>2. CASE provider = "anthropic"
  <2>1. buildAPIRequest = [j \in DOMAIN messages |-> Converted(messages[j], "user")]
    BY <1>2 DEF buildAPIRequest, toAPIMessage
  <2>2. Holds(buildAPIRequest, "user", 0)
    <3>1. \A j \in DOMAIN messages : j + 0 = j
      BY <1>1
    <3>2. Len(messages) + 0 = Len(messages)
      BY <1>1
    <3> HIDE DEF buildAPIRequest
    <3> QED
      BY <1>1, <2>1, <3>1, <3>2 DEF Holds
  <2> QED
    BY <2>2
<1>3. CASE provider # "anthropic"
  <2> DEFINE chat == [j \in DOMAIN messages |-> Converted(messages[j], "tool")]
             S == {System} \cup {chat[j] : j \in DOMAIN messages}
  <2>1. buildAPIRequest = <<System>> \o chat
    BY <1>3 DEF buildAPIRequest, toChatMessage
  <2>2. chat \in Seq(S) /\ <<System>> \in Seq(S)
    <3>1. chat = [j \in 1 .. Len(messages) |-> chat[j]]
      BY <1>1
    <3>2. \A j \in 1 .. Len(messages) : chat[j] \in S
      BY <1>1
    <3>3. System \in S
      OBVIOUS
    <3> HIDE DEF S, chat
    <3>4. chat \in Seq(S)
      BY <1>1, <3>1, <3>2, IsASeq
    <3> QED
      BY <3>3, <3>4
  <2>3. Len(chat) = Len(messages)
    BY <1>1, <2>2
  <2>4. \A j \in DOMAIN messages : chat[j] = Converted(messages[j], "tool")
    OBVIOUS
  <2> HIDE DEF S, chat
  <2>5. Holds(buildAPIRequest, "tool", 1)
    <3>1. /\ buildAPIRequest \in Seq(S) /\ Len(buildAPIRequest) = 1 + Len(messages)
          /\ buildAPIRequest[1] = <<System>>[1]
          /\ \A j \in 1 .. Len(messages) : buildAPIRequest[1 + j] = chat[j]
      <4>1. Len(<<System>>) = 1
        OBVIOUS
      <4> QED
        BY <2>1, <2>2, <2>3, <4>1, ConcatFacts
    <3>2. \A j \in 1 .. Len(messages) : 1 + j = j + 1
      OBVIOUS
    <3>3. 1 + Len(messages) = Len(messages) + 1 /\ <<System>>[1] = System
      BY <1>1
    <3> HIDE DEF buildAPIRequest, System
    <3>4. DOMAIN buildAPIRequest = 1 .. Len(buildAPIRequest)
      BY <3>1
    <3> QED
      BY <1>1, <2>4, <3>1, <3>2, <3>3, <3>4 DEF Holds
  <2> QED
    BY <2>5
<1> QED
  BY <1>2, <1>3

-----------------------------------------------------------------------------
(* The run: the whole of it                                                *)

RunInv == TurnInv /\ TranscriptAll /\ IInv /\ ToolTypeOK

LEMMA ToolTypesInit == RunInit => ToolTypeOK
<1>1. Idle \in CallStates /\ Original \in Changes
  BY DEF CallStates, Changes
<1> QED
  BY <1>1 DEF RunInit, ToolInit, ToolTypeOK

LEMMA RunInvariance == RunSpec => []RunInv
<1>1. RunInit => RunInv
  BY TurnInit, LoopInit, InitInv, ToolTypesInit DEF RunInv
<1>2. RunInv /\ [RunNext]_runVars => RunInv'
  <2> SUFFICES ASSUME RunInv, [RunNext]_runVars PROVE RunInv'
    OBVIOUS
  <2>1. TurnInv' /\ LoopInv' /\ TranscriptInv'
    BY TurnStep, LoopStep, TranscriptStep DEF RunInv, TranscriptAll, IInv
  <2>2. IInv'
    BY StoreStep, ToolsStep DEF RunInv, IInv
  <2>3. ToolTypeOK'
    BY TypesStep DEF RunInv, TranscriptAll
  <2> QED
    BY <2>1, <2>2, <2>3 DEF RunInv, TranscriptAll
<1> QED
  BY <1>1, <1>2, PTL DEF RunSpec

-----------------------------------------------------------------------------
(* The theorems                                                            *)

\* Nothing but a call that was allowed changes the file, whoever else is at
\* work, and it shows nothing but that call and what it has read.
THEOREM OnlyAllowed == RunSpec => OnlyAllowedCallsChange
<1> DEFINE Allowed ==
      contents' # contents =>
          \E w \in Workers :
             /\ call[w] # Idle
             /\ call[w].verdict = "allow"
             /\ call[w].at \in {"allowed", "edit", "write", "killed"}
             /\ contents' \ contents \subseteq {call[w].id} \cup call[w].seen
<1>1. IInv /\ [RunNext]_runVars => [Allowed]_toolVars
  <2> SUFFICES ASSUME IInv, [RunNext]_runVars, contents' # contents
               PROVE  Allowed
    OBVIOUS
  <2>1. ASSUME NEW w \in Workers, ToolStep(w) PROVE Allowed
    BY <2>1, StepShape DEF ToolStep, IInv, AtTool
  <2>2. CASE WorkOnCall
    BY <2>2, <2>1, RunAssumption DEF WorkOnCall
  <2>3. CASE OthersWork
    BY <2>3, <2>1 DEF OthersWork, Execute
  <2>4. CASE StartCall \/ KeepAnswer
    BY <2>4 DEF StartCall, Execute, KeepAnswer
  <2>5. CASE UNCHANGED toolVars
    BY <2>5 DEF toolVars
  <2> QED
    BY <2>2, <2>3, <2>4, <2>5, LoopLeavesTools DEF RunNext
<1> QED
  BY <1>1, Invariance, PTL DEF RunSpec, OnlyAllowedCallsChange

\* However long the decision took, an edit is made on the file as it was
\* after it: what it overwrites is its own, was read, or landed since.
THEOREM EditsKeepWhatWasThere == RunSpec => []EditsSeeWhatWasThere
<1>1. IInv => EditsSeeWhatWasThere
  BY DEF IInv
<1> QED
  BY <1>1, Invariance, PTL

\* A run that ends, however it ends, has stored its whole transcript, unless
\* the store failed.
THEOREM TranscriptIsStored == RunSpec => []NothingUnsaved
<1>1. IInv => NothingUnsaved
  BY DEF IInv, StoreInv, NothingUnsaved
<1> QED
  BY <1>1, Invariance, PTL

\* The provider's turn, the calls' state, the transcript and its copy have
\* their types, however the reply is cut and whoever else is at work.
THEOREM RunTypes == RunSpec => []RunTypeOK
<1>1. RunInv => RunTypeOK
  BY TurnTypes DEF RunInv, TranscriptAll, LoopInv, RunTypeOK
<1> QED
  BY <1>1, RunInvariance, PTL

\* For any replies, and wherever the body breaks off or the token limit cuts
\* one: executeTool gets only calls the model made, each whole and once.
THEOREM CallsAreWhole == RunSpec => []OnlyWholeCalls
<1>1. RunInv => OnlyWholeCalls
  BY TurnCalls DEF RunInv
<1> QED
  BY <1>1, RunInvariance, PTL

\* A message with the stop reason "stop" is the whole reply in its order, but
\* for the two exceptions of openai's parser.
THEOREM StopIsWhole == RunSpec => []StopMeansWhole
<1>1. RunInv => StopMeansWhole
  BY TurnWhole DEF RunInv
<1> QED
  BY <1>1, RunInvariance, PTL

\* A provider is never asked with a call whose result does not follow in its
\* place, nor with a result whose call is not in the request, in either form
\* that buildAPIRequest gives it.
THEOREM RequestsArePaired == RunSpec => []RequestsPaired
<1>1. RunInv => RequestsPaired
  BY TranscriptPaired DEF RunInv
<1> QED
  BY <1>1, RunInvariance, PTL
=============================================================================
