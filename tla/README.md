# Specifications of claw

TLA+ modules for the Go server and command line in `src/`: what its parts do,
checked by TLC on small instances, and what is proved of them by TLAPS for
every instance. `PROJECT.json` maps every definition that stands for code to
the lines it models, names the runs and the theorems, and lists the hazards of
the code with the properties that would notice each one going wrong.

To repeat a check: `tlc -config PromptStream_two.cfg MCPromptStream.tla`; to
repeat the proofs of a component: `tlapm PromptStreamProofs.tla`.

## 1. Inventory of the system

claw runs coding sessions with a language model. A *prompt* is a user message
sent to a session; it makes the engine ask a provider, run the tools the model
calls, and ask again until the model calls none. Sessions live in a store, in
memory or one file each, and are used over HTTP (with an answer at the end, or
as server-sent events), over a WebSocket, or from a terminal, which has a blocking
loop of its own (`Run`).

| component | state | operations | what makes it hard | what makes it correct |
|---|---|---|---|---|
| Prompt engine (`internal/runtime`) | per prompt: a copy of the session, turn counter, channel of events | RunPromptStream, streamLoop, RunPrompt, Run/runTurn | a goroutine per prompt, no order between prompts of one session; a client that vanishes; every kind of failure in the middle of a turn | stored transcripts are ones a provider accepts; the events follow a grammar; the goroutine ends; nothing stored is lost |
| HTTP handlers (`internal/server/handlers.go`, `sse.go`, `server.go`) | none of their own | create, list, get, delete, message, stream; shutdown | each makes several calls that are not atomic together | metric, directory and store agree; an answer is complete |
| Admission (`middleware.go`, `ratelimit.go`) | token buckets | CORS, health, auth, metrics, Allow | refill by the next request and not by a clock | no burst above a bound, no refusal without cause |
| Session store (`internal/session`) | sessions, in memory or as files | Create, Load, Save, List, Delete | whole-session upserts, files written in place | a deleted session stays deleted, a torn file harms nobody |
| Garbage collector (`gc.go`) | the list of its round | Start, loop, RunOnce, Stop | decides on a list while prompts save | collects what is old, and nothing that is used |
| Working directories (`internal/workdir`) | clones shared by sessions, a directory per session, a mutex | Setup, Cleanup | git commands that fail or are killed half way, shared clones, one mutex for all | a directory lives as long as its session and is complete; nobody uses a clone that is being made; the mutex comes free |
| Permissions (`internal/permissions`, `cmd/claw/rules.go`, `confirm.go`) | rules in memory, decisions of the session, a rule file | Decide, confirmation, storing a rule, the rules commands | several processes on one file, a fixed temporary name, memory read once | a call is allowed only by an allow of its target; a stored rule stays |
| WebSocket sessions (`websocket.go`) | connection, send buffer, active skills | read pump, write pump, messages | two pumps that end each other, a buffer that drops, a deadline that only a read renews | no send after close; both pumps end; a client that answers is not cut off |
| Providers (`internal/provider`) | none between calls | Generate, Stream and its parser | fragments of tool calls, truncated replies | the events rebuild the reply that was sent |
| Tools (`internal/tools`) | the registry; the files of one directory | Execute; read, write, edit, bash, glob, grep | a decision that may take minutes before the tool, several workers on one directory, files truncated and written, a command whose children outlive its timeout | only what was allowed changes a file; an edit loses nothing it could have seen |
| Skills (`internal/skill`) | registered skills, active ones | Register, Activate, Deactivate | shared maps | nothing depends on them yet, see section 6 |
| SDK (`pkg/sdk`) | none | Chat, ChatStream, the other calls of the HTTP API | a stream that is cut off, an end that looks like any other, a time limit over the body | events in order, no error only for a whole answer, every call returns |
| Metrics | a gauge, counters | Inc, Dec | no owner | the gauge is the number of sessions |
| Configuration, wiring, prompt builder, sandbox, types | values read once | | | |

How they interact: a handler calls `engine.RunPromptStream`, which loads and
saves the session in the store and starts a goroutine that owns the copy it
loaded. The goroutine talks to the provider and to the tool executor, which
asks the permission engine; its events go through a bounded channel to the
reader, which is the SSE handler, the WebSocket's read pump or RunPrompt's
collector. A client that hangs up cancels the request's context. The tools of all
sessions work in the one directory of the configuration, whatever directories
the working directory manager has made. Beside all this the collector goes through the store on a ticker, and other processes
(`claw permissions rules`, a second server, a terminal) share the rule file
and, with a file store, the session files.

`PROJECT.json` lists the hazards at the lines where they bite. Beside those, and
with no property, for there is nothing the code does about them: a bucket is
kept for every client ever seen (`ratelimit.go:38`); ids are the time in
nanoseconds (`engine.go:388`); an interrupt is read when its prompt is over
(`websocket.go:215`); a fetch moves no branch of a bare clone, so that later
sessions start from the first clone's commit (`manager.go:115`); a text delta
without text is an error to Validate (`events.go:63`); and a reply of a usage
alone is kept as a message (`engine.go:292`).

## 2. Modules

| module | models | abstract or composed with |
|---|---|---|
| `EventProtocol` | what a stream of events promises its reader | the abstract specification of `PromptStream` |
| `PromptStream` | prompts on stored sessions: engine, store, channel, readers, clients | `INSTANCE EventProtocol` with `owed <- calls - answered` |
| `RateLimiter` | the middlewares that can refuse a request, and the buckets | |
| `PermissionRules` | engines and commands that share the rule file | |
| `PermissionRulesHistory` | the same, with what each process has missed of the file | `EXTENDS PermissionRules` |
| `SessionLifecycle` | creation, deletion, collection and restart, with the files, the directories and the metric | takes of `PromptStream` only that a prompt loads and saves; the abstract specification of `Workdirs` |
| `Workdirs` | Setup and Cleanup, command by command, with clones, worktrees and the mutex | takes creation and deletion from `INSTANCE SessionLifecycle`, and implements it |
| `WebSocket` | one connection: read pump, write pump, queue, deadline, client | `INSTANCE EventProtocol` as its engine, so it uses of the engine what `PromptStream` is proved to give |
| `ProviderTurn` | one turn with a provider: the service's lines, both parsers, the reader and runTurn | gives in detail what `PromptStream` takes as a reply |
| `Workspace` | tool calls of several workers on one directory: decision, tool, file | takes of `PermissionRules` only what a decision may be |
| `BlockingRun` | engine.Run: turns, requests, calls, saves | composes `ProviderTurn` and `Workspace` |
| `ClientStream` | the SDK's Chat and ChatStream, the handler, the connection | `INSTANCE EventProtocol` as its engine |
| `MC...` | the instances TLC checks | |
| `...Proofs` | the theorems of a component and their proofs | |

An operator whose comment begins with "Mutant" is never part of a
specification. It is the definition that follows it with one plausible bug, and
for every checked property there is one that breaks it.

### PromptStream

`pc` is the place of a prompt's goroutine: `LoadSession`, `Reject` and
`SavePrompt` are RunPromptStream up to the `go` statement; `BeginTurn` is the
head of the loop in streamLoop with its two checks; `CallProvider` is
`provider.Stream`, which returns a reader of 0 to `MaxEvents` events or an
error; `ReadDelta`, `ReadToolCall`, `ReadStop` and `ReadError` are the cases of
the switch on one event; `EndOfReply` appends the assistant message if it is
worth it (`substance` is shouldPersistAssistant); `StartTool` and `AnswerTool`
run one call; `SaveTurn` and `SaveReply` save, the first looking at the error
and the second not. `Emit` is the plain send: it waits for room, whoever reads.
`sess` is the goroutine's own copy, and `Save` is the store's upsert. A message
is only its author, its turn and the number of its calls, or the call it
answers. The readers are `Receive`, `FinishReading`, `Leave` (the handler's
select on the closed connection) and `WriteFails`. `cancelled` is the request's
context. The provider and the tools are free to return anything at once; a tool
call's permission is one of the ways it can fail.

### RateLimiter

A request is one step: the code holds the limiter's mutex from the reading of
the clock to the answer. `FirstRequest`, `NewWindow`, `TakeToken` and `Refuse`
are the four outcomes of `Allow`; `Preflight`, `Unauthorized` and `Uncounted`
are the requests that do not get as far. `admitted` is a history.

### PermissionRules

Engines decide calls (`Decide`, `Confirm`, `ConfirmRule`) and store rules;
commands change the file once each. Storing is `Open` (which truncates the one
temporary file), `Write` and `Rename`, each of which may fail, and `fd` follows
an open file through the renames of others, as an inode would. A death at any
point forgets memory and open files and leaves the temporary file. A rule file
is a function from keys to decisions: only the target of a rule is kept of it.
Nothing keeps two processes from being between opening and renaming it at once,
and the model does not either. PermissionRulesHistory adds two histories.
`missed` has, for each process with a picture of the file, the keys that others
have changed in the file, or reported as stored, since it was taken; `crossed`
has the writers that were not alone between their open and their rename.

### SessionLifecycle

A session's file is absent, a pair of times, or torn. Handlers advance in the
steps their calls make (`creating`, `deleting`); a prompt is a copy that may be
saved at any time until it ends; a round of the collector is the set it decided
on (`expired`) at `listedAt`, deleted one by one; `Restart` forgets the handlers,
the round and the metric, and may leave a file torn that was being written.
`used` and `born` are histories. A DELETE may name any session, one that is still
being created too, since it can be listed from the moment it is stored. Ids are
taken to be unique, the list of a round and its clock are read at once, and the
removal of a file does not fail.

### Workdirs

`mu` is the manager's mutex and `step` the place of its holder. `EnterSetup`
takes it, `MakeDir` is a session without a repository, `FindBareRepo`,
`CloneEnds` and `CloneKilled` are ensureBareRepo, `Fetch` and `AddWorktree` the
rest; every one may fail, and `EndSetup` is the deferred Unlock with the
handler's warning. `EnterCleanup`, `RemoveWorktree` and `RemoveAll` are Cleanup.
`gone` are the sessions whose client has hung up, which kills git commands and
nothing else: waiting for the mutex goes on. `bare` and `dir` say what a
directory holds; what git leaves behind when it fails or is killed is external,
and taken from how git behaves: a clone that fails removes its directory, one
that is killed does not. `cut` is a history of killed clones, `early` of the sessions
whose Cleanup was over before their Setup began. The actions outside
the mutex are those of SessionLifecycle, instantiated without a collector,
prompts, failing disks and restarts; its `worktrees` are the directories of
Setups that are over and of Cleanups that are not. DataDir is taken to be
absolute, as its default is.

### Workspace

`call` is what each worker is at: `Execute` asks, `Decide` answers (a tool above
the configured mode is PermissionRules' matter and may be allowed, refused, left
without anybody to ask, or fail), and the tool itself follows.
`ReadForEdit`, `Truncate` and `Write` are edit_file and write_file, the latter
two for os.WriteFile, which truncates first; `BashWrites`, `BashKilled` and
`BashEnds` are a command, the timeout that kills only its shell, and Run, which
waits for whoever has its pipes. All calls are about one file, and its content is
the set of the calls whose change it shows. `landed` is a history: what others
have changed since a worker's tool began. Processes that a command leaves in the
background with their output elsewhere are not modelled.

### BlockingRun

`at` is the place of Run. `ReadTurn` is a step of ProviderTurn; `KeepMessage`
appends the assistant message if it is worth it, `StartCall`, `WorkOnCall` and
`KeepAnswer` are executeTool on Workspace's worker `Run`, `SaveTurn` is the Save
after the calls. Any Save may fail and then ends the run. `buildAPIRequest` and the two
translations of a message are what the next request is made of. Calls are named
by their turn and block. `OthersWork` is another worker in the same directory;
it is let loose only while Run is at its calls, since it does not touch a turn.

### ClientStream

`EngineStep` is a step of the abstract protocol and a plain send. The handler
(`WriteEvent`, `EncodeFails`, `WriteFails`, `SeeChannelClosed`, `SeeGone`,
`SeeBroken`; `Collect` and `AnswerChat` for Chat) takes events by their number in
the engine's `log` and puts them on the `wire`. `Break` is a connection that ends
at any time and takes a part of what was under way with it; a write on it may
still seem to succeed. The client is `Deliver` (the callback, which may stop),
`ScanFails` (a line longer than the scanner's buffer), `SeeBreak`, `SeeEnd`,
`SeeResponse` and `TimeOut`. `unsent` is a history: an event had no encoding. A
line cut in two, which the scanner still returns, is not JSON and is skipped.

### WebSocket

`reader` and `serving` are readPump and the handleSendMessage inside it: `Read`
is ReadMessage, which takes frames from gorilla's buffer (`buffered`) or, before
the deadline, from the network; `ReadPong` is the pong handler, `ReadPrompt`,
`Forward` and `PromptOver` are handleSendMessage, `CloseReader` its deferred
calls. `send` counts the messages in the queue and `SendJSON` drops when it is
full. The writer is `WriteMessage`, `WritePing`, `WriteFails` and `SeeClosed`.
`remaining` and `pingIn` count down to the deadline and the next ping; `Tick` is
the only action that takes time. The client may send a prompt, a frame too large
or one that gets a single answer, answer a ping or not, close the connection, or
vanish. `punctual` and `busy` are histories: nothing that could be done at once
has been left over a tick, and how long the reader has had work.

### ProviderTurn

A turn has two phases, as in the code: the parser reads the body to its end, and
only then does runTurn read the events. `meant` is what the model would say and
`reply` what the service sends of it: all, or at the token limit (`ending` is
"length", of either provider) any beginning of it (`Cuts`), the last block of
which may be half a text or half a call. Both are
blocks of text (`Texts`) or of one call (`Calls`), whose pieces are pairs of a
block and a number, so that the properties can tell whose piece is where; `place`
is the block and the line of it that comes next, and the block after the last
(`End`) stands for the lines that close the stream. `BlockStart`, `BlockDelta`,
`BlockStop`, `MessageDelta` and `MessageStop` are the cases of Anthropic's
parseSSEStream. OpenAI's parser has one, `ReadChunk`; `TextChunk`, `PartChunk`
(a call piece by piece), `CallsChunk` (all calls at once), `FinishChunk` and
`UsageChunk` are what the service makes it read, and `Done` is its last line.
`EndOfBody` is the end of the body wherever it comes, `StreamFails` any error up
to it, which leaves no events. `pending` holds the calls being put together;
`Orders` are the orders in which OpenAI's parser may go through its map of them. The
`Read...` actions are runTurn over SliceStreamReader.Next, with Validate. What a
service streams is external; the parsers' own struct types and tests say what
they take it to be. Anthropic's service closes a block that the limit has cut like
any other; an input that has nothing of its call becomes `{}` in the parser,
which the model has as no pieces.

## 3. What the runs show

Runs expected to pass:

| run | properties | what it shows |
|---|---|---|
| `prompt_two` | PairedToolCalls, CompleteAnswer | two concurrent prompts and deletions: messages may be lost, but what is stored always has each call answered in its place, and a reader that reaches the end has seen the one terminal event |
| `prompt_serial` | TypeOK, CancelEndsTurns, FollowsProtocol, AppendOnly, StreamEndsOrIsAbandoned, CollectorReturns | every path of streamLoop, over two turns, follows the grammar; a vanished client costs at most one more call to the provider; clients that wait for a stream to end lose nothing; with a limit on the turns every stream ends, unless its reader is gone and has left the channel full, and RunPrompt returns |
| `rate_keys` | TypeOK, BurstBound, RefusalJustified | the bursts and the refusals of two clients' buckets |
| `rules` | TypeOK, AllowsAreGranted, RenameInstalls, LostOnlyToStaleWriter | an engine and two commands on one file, writing at once or in turn, or an engine that dies anywhere, twice, with one command: who is allowed was granted, a process that was alone from its open to its rename installs its own rules, and a reported rule is lost only to a writer that was not alone or had an older picture of the file, so one process alone keeps all |
| `life_rounds` | TypeOK, CollectsUnused, ExpiredIsCollected | the collector among prompts, a deletion, failing writes and restarts: it takes only what was unused when it looked, and in the end takes what is too old |
| `workdirs` | GaugeExact, NoOrphanWorktree, OnlyCutClonesAreUnsound, ReadyIsWhole, ImplementsLifecycle, EveryHandlerEnds | two sessions of two repositories, of one or of none, and two DELETEs at any time, of a session still being created too, with git failing or killed anywhere: the metric is exact, and a directory is left only by a DELETE that came before it |
| `agent` | RunTypeOK, OnlyWholeCalls, StopMeansWhole, RequestsPaired, NothingUnsaved, EditsSeeWhatWasThere, OnlyAllowedCallsChange | every short reply of either provider, cut off or failing anywhere, its calls executed while somebody else works in the directory, and a second turn: only whole calls are run, but for the last of an Anthropic reply that the token limit cut; a stop reason means all that the service sent; the provider is asked with answered calls only, and files change by allowed calls alone |
| `client` | TypeOK, DeliveredInOrder, NilMeansComplete, CallReturns, HandlerFollows | one call of the SDK over a connection that may break anywhere |
| `ws_pumps` | TypeOK, ClosedAfterPrompts, OnlyLongWorkTimesOut, PumpsEnd | a connection whose client is slow, leaves or vanishes at any point of a prompt, with a queue of two |

Runs expected to find a violation. Each states what a document or a message of
the program says and shows a behaviour of the code that contradicts it:

| run | what is said | what happens |
|---|---|---|
| `prompt_lost` | one write operation per session at a time (SPEC.md) | two prompts save the copies they loaded, and stored messages disappear |
| `rules_stale` | the rule was stored (the command's message) | a running engine saves its older memory over it |
| `ws_stays` | after Done a Ping is answered, and the client closes (SPEC.md) | the pong of a client that answers at once lies unread behind its prompt until the deadline has passed, and the server closes |

The passing properties are as strong as the code allows, and where they carry a
condition it is because the code does less than one might expect:

* a session deleted while a prompt runs on it is stored again by the prompt's
  next Save (`Save` is an upsert), so nothing says that it stays deleted;
* a goroutine whose reader left a full channel is never ended
  (StreamEndsOrIsAbandoned names the case, CancelEndsTurns what is bounded);
* a bucket refilled by the next request lets up to 2 * Rate - 1 requests through
  in a window (BurstBound says no more than that);
* two processes that write rules at once share a temporary file, and one may
  rename what the other has only truncated, or the other's rules as its own
  (RenameInstalls and LostOnlyToStaleWriter name it, `crossed`; without it
  both fail);
* the default limit on turns is math.MaxInt (`engine.go:22`): a model that always
  calls a tool keeps its stream, or its RunPrompt, for ever
  (StreamEndsOrIsAbandoned and CollectorReturns rest on a finite `MaxTurns`);
* a session that is deleted before its Setup gets its directory all the same, and
  nothing removes it (NoOrphanWorktree names it, `early`);
* a rule stored by the command without a target has an empty kind, which no
  request has, and is never applied;
* the collector deletes a session and leaves the metric and the working directory
  as they are, so GaugeExact and NoOrphanWorktree are checked without one; it
  takes the session of a running prompt if that has not saved for IdleTimeout;
  and it never sees a file that a failed write has left torn
  (ExpiredIsCollected excepts it);
* a prompt on a WebSocket that keeps the reader for longer than pongWait -
  pingPeriod, 6 s of 60, may cost its client the connection
  (OnlyLongWorkTimesOut is the other half: nothing shorter does);
* both parsers give the stop reason "stop" also to a reply cut at the token limit,
  so nothing says that a stop means all the model had to say (StopMeansWhole
  compares with what was sent);
* of such a reply Anthropic's parser hands on the call that was cut, since it looks
  at no stop reason: the call is run with an input broken off, which the tool
  cannot decode, or with `{}` (OnlyWholeCalls excepts it, the last call). What is
  not JSON cannot be encoded again, so the next request or Save fails; the model
  has failures of both, but does not tie them to such a call;
* openai's parser drops a call cut at the limit,
  and keeps only the last of several calls that are sent piece by piece, since it
  collects them by their position in a chunk (StopMeansWhole excepts both);
* a rule that was reported as stored is lost when an engine or a command that
  read the file before writes its own picture (LostOnlyToStaleWriter names it);
* the tools of all sessions work in the one directory of the configuration,
  although SPEC.md:1618 confines them to the session's own, and an edit reads
  and writes a file with nothing held: what lands in between is lost
  (EditsSeeWhatWasThere says that nothing older is);
* a clone that was killed is taken for made by every later Setup, whose worktree
  then fails (OnlyCutClonesAreUnsound: only those); a Setup that hangs in git
  holds up all others;
* a tool call whose input is not JSON cannot be encoded, the handler returns,
  and the body ends as a complete one does, so that ChatStream returns nil
  (NilMeansComplete excepts it, `unsent`);
* Chat's handler goes on collecting when its client has gone (HandlerFollows
  is of the handler that streams);
* a message for a full WebSocket queue is dropped, the terminal one too, and an
  interrupt is read only when there is nothing left to interrupt.

### Bounds

`MaxEvents` and `MaxTurns` bound a provider's reply and the loop. The
instances have one event in a reply, so that two prompts can be explored: a text,
a call or an error; with two turns a call is followed by an answer, by another
call at the turn limit, or by a failure. Longer replies and more turns are left
to the proofs, which have no bounds. In `agent`, a first reply of three
blocks has up to two calls with a text before, between or after them, and a block
of two pieces can be cut in the middle, by the end of the body or by the token limit; a second turn of one block is enough to see the
first one's messages in a request, and the limit of two turns reached. One other
worker with one call meets an edit at each of its steps. In `client`, three
events among texts, usages and calls fill a channel of two. A
channel of one or two makes every send meet both room and none; the code's 128
would only make the full channel rarer. Two prompts on one session are enough
for one to save over the other. Two clients and three windows show a bucket
refilled twice. One session is enough for the collector, which decides on each
by itself, with any steps between its decision and the deletion. Two restarts, or deaths of an engine, cover a death while it repairs what an
earlier one left; in `rules`, `DeathsOrCommands` follows an engine's death
only while one of the two commands has not begun, so that the run has either
three writers without a death or two with up to two deaths, and `OneGrant` follows
nothing beyond the first state in which two keys have been allowed (the others are
denied): one key allowed and the others denied are enough
to tell an allow of one target from that of another. Two sessions and two deletions let one session be deleted twice while
the other is created, and one Setup find what a killed one of the same
repository has left. A clock that reaches one tick past TTL
makes a session expire while others do not. A deadline of three ticks and a ping every two leave a margin of one, as small as
it can be; a queue of two is full and empty in turn; a client with two frames
unread can have a pong behind another frame. Symmetry is used only where no
liveness property is checked.

Deadlock checking is off where a behaviour really ends: when the prompts are
over, or the requests of an instance used up.

### Fairness

`FairSpec` gives weak fairness to each goroutine and to each reader that has not
left: the Go scheduler runs what can run. It assumes that the provider answers
or fails, that a tool returns, and that a write to a client returns or fails;
the code sets no timeout for these, so a provider that never answers is outside
of what the liveness runs show. The same holds of WebSocket's `Spec`, whose clock
goes on. Nothing is assumed of clients: they need not
hang up, nor stay. ClientStream assumes only that time passes, so that a call
reaches the client's limit (`TimeOut`; http.Client.Timeout is set and covers the
body), and that the select of a handler whose client has left sees it
(`SeeGone`); the provider, the network and the scanner may stop for ever.
`LiveSpec` of Workdirs lets handlers go on, a waiting handler take a mutex that
is free (each has one turn at it, so none is overtaken for ever), and a git
command end; the code sets no time limit for git, so this is assumed of it. `LiveSpec` of SessionLifecycle gives weak fairness to the
ticker's rounds and to each deletion of a round, since `loop` returns only when
the server stops.

## 4. What is proved

Every theorem holds for all values of the constants that satisfy the module's
ASSUME, so for any number of prompts, sessions, clients and processes.

* `PromptStreamProofs`. TypeCorrect, from the types alone. PairedToolCallsHolds
  rests on `TurnInv`: the transcript in the store is paired, and a goroutine's
  copy is paired except for its last assistant message, which is followed by
  exactly `answered` answers. The property alone is not inductive, since it says
  nothing of the copies that will be saved. The lemma CloseTurn says that the
  last answer makes the copy paired. StreamFollowsProtocol is the refinement of
  EventProtocol: `LastInv` ties `pc` to the kind of the last event, and StepRefines
  maps each action to one of the protocol or to a stutter. CancelEndsTurnsHolds
  uses `LateInv` (a late call can only be the one whose check came before the
  cancellation). CompleteAnswerHolds uses `ReadInv`: the terminal event is the
  last that was sent, and is in the channel or has been received.
  AppendOnlyHolds assumes what the property says of the users: `Serialized`, that
  a client waits for a session's stream to end, and that nobody deletes. A Save
  adds to the store if the copy it saves begins with what the store has, and
  `AheadInv` says so of every prompt on its way; it holds because there is one of
  a session at most, which is the other half of the invariant. Without the
  assumption `prompt_lost` refutes it.
* `RateLimiterProofs`. BurstBoundHolds and RefusalJustifiedHolds rest on
  `BucketInv`: the tokens left and the time of the refill say how many of the
  admissions recorded are younger than it.
* `PermissionRulesProofs`. AllowsAreGrantedHolds needs no assumption on writers:
  `GrantInv` says that every allow, in memory, in a file or in an answer, is one
  somebody gave. The others are of the specification with its histories, and assume
  nothing of the writers either: RenameInstallsHolds, and
  DamagedByTwoHolds which follows from it, rest on `WriterInv`, that of two writers at once each is in
  `crossed`, and that the temporary file of one that is not holds what it means to
  rename. LostOnlyToStaleWriterHolds adds `MissedInv`, which is what makes a
  loss somebody's: a process with a picture of the file that lacks a rule which
  the file has, as reported, has missed it. A step keeps that for the process that
  takes it, which reads, writes or forgets, and for all others, who are told what
  it touched (BystanderAware); and only a rename of a process with a picture, or a
  step of one that was not alone, takes a rule away (LossStep).
* `SessionLifecycleProofs`. CollectsUnusedHolds uses `CollectInv`: what is in
  `expired` was too old or too idle at `listedAt`, or has been stored since, for
  the times in the file are those of the histories.
* `WorkdirsProofs`, for any sessions, deletions and repositories, finite or not.
  `MutexInv` ties the mutex to the handler that is where it is needed, `CloneInv`
  says that only its holder has a clone that is being made and that an
  incomplete one was killed, `CleanupInv` that what is left of a deleted session,
  or is still to be made for it, has a Cleanup coming, or has had it `early`. Refinement maps each step: the end of a Setup is
  SessionLifecycle's Setup with or without a directory, the end of a Cleanup is
  its cleanup, the actions outside the mutex are its own, and all others are
  stutters, for `Worktrees` does not see them. GaugeIsExact is by `GaugeInv`: the metric is
  the number of sessions counted in (`CountedIn`) less those counted out
  (`CountedOut`, which may come first), finite sets, and each is counted out by
  one request.
* `BlockingRunProofs`, for any workers, calls, replies of either provider and
  number of turns. None of a turn's properties is inductive: they are about the
  message, which is made of events, which are made of lines. So `TurnInv` follows
  a piece all the way.
    - `PendingInv`: a call that a parser holds is as it was sent, except the one the
      service is in the middle of, which has what has come of it up to `place`.
    - `EventsInv`, `OrderInv` and `WholeInv`: every event is a piece of text or a
      call as it was sent; they come in the order of the reply and a
      call but once; and all that was sent is there, unless the token limit or
      openai's way of putting calls together has lost it. A stop among the events
      therefore means the rest.
    - `ReaderInv`, `ContentInv` and `CallsInv`: the message so far is what the
      events up to `index` say, no more and no less.

  One lemma for each action keeps all of it (TurnKeeps is their sum), and
  CallsAreWhole and StopIsWhole read their properties off it, the first with what
  `Cuts` leaves of a reply: of all its blocks only the last may be cut. RequestsArePaired is
  about what is sent of the transcript; `TranscriptInv` says that each call in it
  is answered in its place, but for those of the last message that are still to be
  executed, and that an answer has its call, and ConvertedPaired that the
  translation to a request keeps that. RunTypes comes with the same invariants;
  that `CallIds` has the name of every call a reply can make is the module's
  assumption on that set.
  `CallInv` says that a tool is at work only for a call that was allowed, and
  `StoreInv` that whoever asks again, or ends, has saved. That runTurn and the
  tools leave each other's state alone makes the two parts separate lemmas.
* `ClientStreamProofs`, for any number of events and any capacity. The events are
  in one line, callback, wire, channel: `ChannelInv` says that the channel is the
  end of the log, `WireInv` that the wire continues where the callback is and,
  while the connection is up and the handler at work, that nothing is missing in
  between. NilIsComplete needs of the protocol that the engine is silent after
  the terminal event.
* `WebSocketProofs`. TimeoutMeansLongWork is for any deadline and any shorter
  ping period. `MarginInv` says where the margin is: while everybody is on time,
  the deadline is ahead of the next ping's tick by at least pongWait - pingPeriod;
  once the ping is due, by itself; and once the pong is in the inbox, what the
  deadline has lost the reader has spent working. ReaderClosesLast uses
  `ServeInv`: a prompt that is not being served has said nothing or everything.

Every invariant and action property of a passing run is stated by a theorem. Only
model-checked are the seven liveness properties (StreamEndsOrIsAbandoned,
CollectorReturns, ExpiredIsCollected, EveryHandlerEnds, CallReturns,
HandlerFollows, PumpsEnd): temporal reasoning under fairness is out of the
prover's reach here. The violated ones have their counterexamples instead.

## 5. Plan

Done, in this order: prompts and their stream, admission, permissions, the life
of a session, WebSocket connections, a provider's turn, working directories,
tools and the blocking loop, the SDK. What is left, by what it would add:

1. Two servers, or a server and a terminal, on the files of one store: the
   composition of PromptStream's saves with SessionLifecycle's torn files.
2. PromptStream's calls through Workspace, so that prompts of two sessions meet
   in the directory, as Run and its other worker do here.
3. Proofs: that a turn of ProviderTurn is one of those PromptStream takes from
   its provider, as a refinement.

## 6. Not modelled

* Skills. RecordUse and its countdown, SystemPromptFragment, ToolNames and
  FindByTrigger have no caller but their tests, so that no behaviour of the
  program depends on a skill being active; the rest is a map behind a lock.
* CreateMessage, CreateResponse and the providers' Send, which nothing calls, and
  the stub clients, which answer without a service.
* GCFileStore.CleanupFile, called by tests alone.
* The handlers and commands that only read, and the SDK's other calls, which send
  one request and decode one answer.
* Configuration, wiring, prompt text, the sandbox's arguments and the type
  declarations, which keep no state or are read once.
* Rules kept in memory only (an empty rule path); a server without working
  directories, where Setup does not exist; a relative DataDir.
* Which path, pattern or text a tool call names and what it answers.

Times are ticks, and message contents only what the properties tell apart.
