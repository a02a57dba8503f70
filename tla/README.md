# TLA+ models of CausewaybayJarvis

A verification project for the Rust backend in `rust/` and the clients that
talk to it. The modules are translated from the source; the words of comments
and docs appear only in properties, where they say what the code is meant to
guarantee. `PROJECT.json` maps every definition to the lines it stands for.

Contents: [the system](#the-system) · [the modules](#the-modules) ·
[the runs](#the-runs) · [fairness](#fairness) · [proofs](#what-is-proved) ·
[disagreements](#where-the-code-and-its-comments-disagree) ·
[not modelled](#what-is-not-modelled) · [plan](#plan) ·
[running it](#running-it)

## The system

A *space* is a directory (`~/.causewaybayjarvis`) that holds an archive: robots,
what is filed with each of them, and the transcript of each. A *backend* opens
the space and answers *ops* (JSON requests): file, delete, search, chat. It is
reached through a daemon (`agentd listen`), through a one-shot `agentd <op>`,
or in a client's own process through the C library.

| component | source | state | operations | talks to |
|---|---|---|---|---|
| archive store | `rustagent/src/store.rs`, `db.rs`, `mirror.rs`, `space.rs` | `robots.db` (every row, vector, setting), one `agent.db` per robot, `items.jsonl`, `items.csv` and `agent.md` per space, files on shelves | add, delete, clear, put_embedding, export, sync (at boot) | the file system and SQLite; other processes of the same space |
| daemon | `server.rs`, `http.rs` | a job queue; per connection a channel of frames, a map of turns, cancel flags | accept, read, queue, dispatch, stream, stop, shut down | clients over WebSocket, line JSON and HTTP; the backend, by calls on one thread |
| one daemon per space | `server.rs` (`listen`), `backend_worker.lua`, `client.rs`, `client.lua`, `Makefile` | `agentd.port`, `agentd.pid` | look, start, bind, write, stop, remove | each other, through the two files |
| provider and settings | `proto.rs` (`Ai`), `provider.rs`, `setup.rs`, `ondevice.rs`, `ollama.rs` | settings in the space; clients and a cached probe in the process | turn, prepare, provider.set, config.set, health | the local ollama daemon, the cloud, the model's files |
| embedder and index | `embed.rs`, `search.rs` | the fallback's latch; vectors by row and model | embed, reindex, semantic search | the store, the ollama client |
| harness, tools and router | `harness.rs`, `tools.rs`, `context.rs`, `router.rs`, `paper.rs` | the locals of one turn: whose it is, its question's row, rounds and calls | route, file the question, retrieve, ask the model, run tools, file the answer | the store, the brain |
| C library | `rustffi/src` | a table of handles; one backend behind a mutex; per session a transcript; per download a thread and its outcome | open, call, close, send, generate, poll, free | a client's process, which it calls back in events |
| engine | `rustcore/src`, `rustmlx/src` | loaded model, a cache per layer and the record of what is in it; downloads | render, generate (prefill, sample, split), fetch | the GPU, the hub |
| clients | `rustcli`, `rusttui`, `robots/`, `love/`, `lua/` | screens, queues of jobs, connections | ask, draw | the daemon or the C library |

### What is hard about it, and what makes each part correct

**Archive.** Nothing is one transaction. Filing a document is: find a free name,
copy the file, INSERT into `robots.db`, INSERT into `agent.db`, append to two
text files, read the page back, write `agent.md`, INSERT a vector twice. Any of
these may fail, the process may end between any two, and another process (a
one-shot `agentd` beside the daemon) may be half-way through its own. Row ids are
SQLite rowids without AUTOINCREMENT, so the id of a deleted last row is used
again, and vectors, own rows and log entries are keyed by it. Correct means: a
row never names a file that is not there; nothing is shown under the wrong robot
or the wrong row; after an operation that was not cut short all copies agree;
boot repairs what it promises to repair.

**Daemon.** One thread per connection, one dispatcher. A WebSocket's thread both
writes what the dispatcher sends it and answers `stop` by itself, so two threads
produce the frames of one connection, and a stop races the turn it means through a
map keyed by ids the client chooses. A turn may run for ever; only its sink's
refusal ends it. Correct means: the reply is a request's last frame and replies
keep the order of requests; a stop or a hang-up ends the turn it is meant for and
no other; everyone is answered; the one who asked for the shutdown hears of it.

**One daemon per space.** A test-then-write on a port file, clients that unlink a
file they take for a corpse's, and a `make stop` that kills by another file.
Correct means one daemon at a time whom the file leads to, everyone connected,
and each client stopping only what is its own.

**Provider.** The wish is in the database, where any process may change it; the
clients built from it and the last answer of the local daemon (trusted for ten
seconds) are in memory. Correct means a turn never runs on a brain the settings
rule out, a daemon that comes up is found, and nothing panics in between.

**Embedder.** The real embedder may fail at any call, and then a local one takes
over for good, half-way through whatever is going on. Vectors of two models must
never be compared. Correct means that, and that every row is found in the end.

**A robot's turn.** It lasts minutes, holds no transaction, and keeps a row id and a
GUID over all of it, while other processes file, delete, clear and forget. Rowids
are used again and a shipped robot that was deleted is made again under its old
name. The model may call for tools for ever. Correct means: a robot's model sees its
own robot's rows only, unless it asks for all by name; the question is not given to
it twice; questions and answers pair up in one transcript; the turn ends.

**Sessions and the engine.** A turn hands control to the caller in every event, and
the caller may call in again from there, stop it, or make it panic. A pass of the
model may break between two layers. The cache of the last prompt is kept by
comparing ids with a record of what it holds. Correct means: turns are taken whole,
the record is right, and every token is sampled after the whole prompt.

**The text of a reply.** Tags and glyphs are cut anywhere by tokens, so the
detokenizer, the splitter of reasoning and answer, and the brain that hides tool
calls each hold text back. Correct means that cuts do not matter, that not more is
held than must be, and that a reader who has said stop hears nothing more.

**Handles.** Tokens in place of addresses, a busy flag per object, one lock for the
one backend, panics caught at the boundary. Correct means that no object is reached
by two calls or after it was freed, that there is never a second backend, and that
every call returns, also after a panic in another one.

## The modules

Shared conventions. One action is what a thread or process does up to the next
point where somebody else can see or change shared state: a commit, a file
write, a frame, a queue operation, an atomic flag. A comment above each action
names what it does; a *history* variable is marked as such and is never read by
a guard. Properties quote the `file:line` of the promise they state.
Definitions that begin "Mutant of ..." are plausible bugs, kept beside the
definition they would replace, each of which makes a run fail: they document
what a property would catch.

### `Archive` (with `MCArchive`, `ArchiveProofs`)

| TLA+ | code |
|---|---|
| `rows`, `vec` | `items` and `embeddings` of `robots.db` |
| `own[a]`, `ownVec[a]` | the same tables of robot `a`'s `agent.db` |
| `log[s]` | what replaying `items.jsonl` gives (a delete event takes a row off) |
| `page[s]` | the rows `agent.md` was rendered from, `NoPage` if there is none |
| `shelf` | the files in `photos/`, `files/`, `notes/` |
| `pc[p]`, `job[p]` | where process `p` is in its operation, and that operation's locals: the row it inserted, the rows it read |
| `hurt` | history: spaces with an operation cut half done and no complete export since |

`AddDocument`, `CopyFile`, `InsertRow`, `DeleteOwn`, `InsertOwn` (the two statements of
`own_insert`, each its own commit), `AppendLog`, `AppendCsv`, `ReadPage`, `WritePage`,
`PutVector`, `PutOwnVector` are `item.add` in the order of the code; `FindRow` and
`DeleteRow`, and `ClearRows`, begin the two removals, which share the rest;
`LoadRows`, `LoadVectors` (two reads: another process may file in between, and then
`RebuildOwn` fails on a vector without a row), `RebuildOwn`, `TruncateLogs`, `ReplayRow`
are `export`; `Boot`,
`SyncWant`, `SyncCompare`, `SyncGlobal`, `Booted` are `sync`. `Fail` is any `?`
on the way (a guard that fails, such as a unique index or a foreign key, leaves
only it), `Crash` the end of the process, `EmptyFolder` the operator's hand.
`items.csv` is written and truncated by steps of its own and has no variable: the program
never reads it.
The text of rows is abstracted to `born`, the number of the filing it came from:
a vector, a file or a log entry that carries another `born` than the row it is
found under holds another row's content. Names on a shelf are the naming loop's
candidates 1, 2, ... of one stem.

### `Server` (with `Service`, `MCServer`, `ServerProofs`)

`asked` numbers the requests; `inbox`, `frames`, `got` are the three legs of a
connection (socket in, channel, socket out), `turns` and `cancel` the map and the
flags, `queue`, `job`, `pc` the dispatcher. `WsWrite`/`WsDrained`/`WsTick` are the
drain-then-read loop, `WsStop`/`WsRequest`/`WsClosed` what a read may bring,
`Take` to `Exit` the dispatcher. A turn's pieces are two steps, because the
cancel flag is looked at before the piece is sent: `SinkTakes`, `SendChunk`. That
a refused piece ends the turn at once abstracts the harness's last few steps,
which send nothing more. A socket buffer is never full (see below).

`Service` is what a client may count on: what it has asked on a connection is answered
in turn, each with the pieces of its turn and one reply, and nothing is sent to a client
that is there for a request while one before it, other than a stop, has no reply. It has
no threads, channels, queue or map of turns. `Server` implements it under the mapping

    there <- the clients' ends that are open
    told  <- the frames written (`got`)
    up    <- the dispatcher has not panicked

checked and proved as `ServesInTurn == Clients!Spec`. `FramesInOrder` allows a request to be
passed over; this does not. Where the backend has panicked the promise ends: requests are
refused as they are read, and those that were queued are never answered.

### `Brain` (with `AiProofs`)

`choice` and `stored` are settings in the space, `setup`, `probe`, `fresh` the
lock-held `Ai`, `weights` and `daemon` the world. `Begin` is `effective()`,
`PickAgain` the second `ondevice_engine()` of the same turn, `WriteKey` one
`set_setting` of a `config.set`, `Reconfigure` the rebuild. `Dial` is `daemon_ok`, which
asks the daemon unless its last answer is fresh: `effective()` comes to it only for want of
MLX (`AskDaemon`), the answer to `provider`, `provider.set` and `health` in any case
(`provider_info`). `near` abstracts
"`ondevice.host` is on this machine", `keyed` "the cloud client is usable".

### `Embedding` (with `AiProofs`)

`primary` and `degraded` are the `Fallback`; a vector records the model it is
stored under (`tag`) and the one that made it (`by`). `Reindex` is the question
to the database, `IndexChunk` one batch, `IndexFails` a batch cut by a failing
write; `Search` embeds the query, `Rank` reads the table.

### `Listen` (with `ListenProofs`)

A member of `Daemons` is a process, its ephemeral port and its pid at once; the
files hold one of them or `Nobody`. `Check`, `Bind`, `WritePort`, `WritePid` are
`listen` line by line; `Look`, `Unlink`, `Spawn`, `Poll` a client's
`ensure`; `Kill` and `Remove` the two halves of `make stop`; `Quit` the worker's
quit branch. `told` are the `daemon.stop`s sent and not taken: a daemon that is bound and
does not serve yet has them in its socket's backlog (`TakeStop`). `Mark` is conjoined to every action and records in `raced` whether
two parties have ever been in their windows (`Busy`) at once.

### `Turn` (with `TurnProofs`)

| TLA+ | code |
|---|---|
| `rows`, `roster` | `items` and `agents` of `robots.db` |
| `own` | `items` of the robots' own databases, which a robot's search reads |
| `born`, `made` | history: filings and robots so far, to tell a row from another under its id |
| `pc[p]`, `job[p]` | the statement process `p`'s turn is at, and its locals: whose turn, the question's row id (`user`), rounds of tools, calls left |
| `shown[p]` | the rows the last step put before the model, and through what |

`Ask` to `StoreAnswer` are `turn_with` in order, one action per statement that reads
or writes the archive or asks the model; `RunTool` is `tools::run`, with `Done` the
loop around it. `Others` is everybody else. Routing is two steps: the roster is read
(`Ask`), and then the archives for their evidence (`Route`). `Finds` is what a search may
give: any rows of its scope, which is the robot's own database, or every archive when
nobody is asked. A filing or a deletion that is cut half-way leaves a robot's own database
behind the archive or ahead of it, by up to `MaxLag` rows; `list_context`, `read_item` and
the history read the archive itself. The router's scores are the code's times a hundred, for
up to three robots and one word that keywords claim. What bm25 makes of the archives is not
computed: `Evidence` is any weights, the best one 1, of robots that have something filed,
because bm25's statistics count every row of the index, talk too. `Handed` is the ollama
client's reading of a stream.

### `Session` (with `Prompt`, `Chat`, `MCSession`, `SessionProofs`)

`Prompt` is the built-in template, over texts: sequences of signs, each a message, a
mark of the format or what a token the model may say decodes to. It trims contents and
thoughts (`Trim`; `Blanks` are white space), keeps the thoughts of messages after the last
user's, writes the preamble of an effort that has one, no system block where that would be
empty, and the block of a tool's response. `Encode` is the tokenizer, a constant that may be
any function: a reply is decoded, split, trimmed and, in the next prompt, encoded again,
and nothing says that the tokens are those the model said. A turn's options
(`enable_thinking`, `reasoning_effort`, `preserve_thinking`) are chosen anew each time.
`Session` is `jarvis_send` and its neighbours on the MLX engine: `Refuse` a prompt the
tokenizer makes nothing of, `Feed`/`Fed`
a chunk of the prefill and the event that tells of it, `End`/`Say`/`Stop`/`GoOn`/
`Decode` the loop of `generate`, `Fail`/`Panic` a pass that breaks off after some
layers, or a failure between passes, which leaves the caches as they are. `cache[l]` is what layer `l` has taken in, `fed` the engine's record,
`turn.given` the caches each token was sampled from. The caller's code runs in
`idle`, `fed` and `said`, and may call anything there.

`Chat` is what `jarvis.h` promises: a transcript that changes by whole turns, and a
model that reads the whole prompt before each token. There is no cache, no event and
no turn under way in it. `Session` implements it under the mapping

    messages <- the transcript without the question of a turn under way
    last     <- the completion, with the caches of each token taken for what all
                layers hold

checked and proved as `TakesWholeTurns == Whole!Spec`. The promise ends where a pass fails
(`broken`) and begins again when a cache is reset: see the disagreements.

### `Library` (with `LibraryProofs`)

`next` and `live` are `NEXT_TOKEN` and `LIVE`, `stack[t]` the calls a thread is in that
take time, the innermost last, `holder`/`poisoned`/`slot` the mutex of `AGENT` and
what it guards, `built` the backends there are, `worker[h]` the thread of a
download. `Open`/`Close` are the handles' life, `Send`/`SendEnds` a turn of a session
with its busy flag, `Poll` a download's answer, `Ask` to `CallEnds` the backend's
calls behind the lock. The rules of `jarvis.h` for callers hold (a handle is used by
the thread that opened it, the backend is not called from its own callback); freed
handles and handles of another kind may be passed in at any time.

### `Stream` (with `MCStream`, `StreamProofs`)

`Say` is one token through detokenizer, splitter and the events it makes, `Finish` the
flush at the end. `reader` says whether a session's caller listens, who is handed
reasoning and answer, or a robot's turn, from whom tool calls are hidden
(`Hidden`) and in whose text they are found (`ParseCalls`). The flush hands over text,
and does not tell that the reasoning is closed. `shown` holds which
stretches of the text a turn's reader was handed. Tags are shortened to a few
symbols (`EndThink`, `OpenCall`, `CloseCall`), each with a proper prefix that also
begins another, as theirs do.

The modules do not share variables: they meet at calls, and each models the others'
part of that call as a nondeterministic outcome. `Server`'s brain is `Turn`'s model;
`Turn`'s archive is `Archive`'s `rows` with a filing as one step, and `Brain` chooses
between `Reply` and `ReplyOffline`; `Library`'s turn is a whole turn of `Session` or
`Turn`; `Session`'s `Say` is a token of `Stream`.

## The runs

| run | question | instance and bounds |
|---|---|---|
| `ArchiveOne` | Do tables, folders, files and vectors stay consistent under errors and crashes at any write, and does a boot repair what it promises? | 1 process, 1 robot and the global space, `MaxBorn = 2` filings, `MaxClock = 1`; 2.3M states |
| `ArchiveTwoCopies` | *violated*: does the file keep the bytes its row was filed with? | 2 processes |
| `ServerSafe` | Order of frames, what the map of turns holds whatever ids are used again, who is stopped, the reply to `daemon.stop`; is each client served in turn (`Service`)? | a WebSocket and an event stream, 3 requests, 2 ids, each free to be used twice, 1 piece a turn; 2.4M states |
| `ServerLive` | Do stopped and abandoned turns end, is everyone answered, and after a panic refused or hung up on? | a WebSocket and a line connection, 2 requests, panics allowed; 101K states |
| `BrainTurns` | Does a turn ever run on what the settings rule out? Is a daemon found? | a build with MLX, nothing bounded; 1.1M states |
| `BrainPanics` | *violated*: does `handle` never panic? | a build without MLX |
| `EmbeddingIndex` | Is a query only compared with its own model's vectors? Is every row found? | 3 rows, chunks of 2, 2 rebuilds; 40K states |
| `ListenSpace` | One daemon, and the file is its own, as long as nothing overlaps? Is everybody connected in the end? | 3 daemons, 2 clients, one of them an owner, 2 upsets (crashes, quits, stops, waits given up); 0.9M states |
| `TurnLoop` | What is the model shown, where are questions and answers filed, do turns end? | 2 processes in turns, 2 robots, one of them shipped, 4 filings, 1 round of 1 call, a history of 2, weights of 0, 1/4 and 1, own databases up to 2 rows off; 0.7M states |
| `SessionTurns` | Is the cache what the record says, and does the session keep its promise (`Chat`)? | 2 layers, chunks of 8 tokens, replies of up to 2, transcripts of up to 2 when a turn begins, thinking with a low effort and kept thoughts or neither, a tokenizer that makes one token of two blanks, an empty raw prompt, a saved transcript with a tool's response; 0.3M states |
| `LibraryCalls` | Is an object used by one call at a time, is there one backend, do all calls return? | 2 threads, 2 handles, calls 2 deep; 57K states |
| `StreamText` | Do cuts matter? What is held back, what is shown, after a stop too? | replies of up to 5 tokens from a vocabulary of 8 and of 7 pieces; 0.15M states |

What the bounds allow. Two filings are enough for a rowid to be used again, for
two documents to want one name and for a row to be deleted while another
operation is under way; two seconds of the clock are enough for two rows to have
equal and different times (with one, every time would be equal). Three requests are
a turn, one more under the same or another id, and a stop. Four rows are a
question, an answer, and a row that takes the id of one of them. Two robots are one that
is asked and one that is made or forgotten meanwhile; own databases two rows off are one
that lacks a row and has one that is gone. A prefill of a second turn may be more than one
chunk of 8, and that turn is one that may find its prefix cached, or, when the reply was
trimmed or reads back as other tokens, may not. Two calls deep is a call from inside an event. Five tokens hold an
opening tag cut in two, a closing one, and a symbol between. Three daemons are one
that serves, one that dies or is replaced and one more that starts meanwhile.
Three rows in chunks of two are a full chunk and a rest. `Brain` has no bound: its
state space is finite as it is.

What each property is for, and how it could fail, is in the comment above it.
The ones that take most to violate:

* `FoldersInStep`: six copies of a space's rows agree between operations, except
  in spaces whose last operation was cut (`hurt`). It fails if any of
  add/delete/clear/export forgets one copy, for instance a clear that leaves the
  folder alone.
* `BootRepairsOwn`: sync compares ids and times only. It holds because a row that
  replaced another under its id in the own database's absence would also have to
  have its second; the run has both cases of the clock, and the property claims no
  more than the code compares. Contents are *not* claimed: see the disagreements.
* `VectorsFitRows`: with rowids used again, it is the cascade that keeps a new row
  from inheriting the vector of the one it replaced.
* `NotItsOwnContext`: the question is recognised by its row id, after other processes
  may have deleted it and its id was given to another row; the other row is left out
  then, but the question is never let in.
* `AnswersHaveQuestions`: over two turns at once in one transcript, deletes, and a robot
  that goes and comes back under a new GUID.
* `StaysInItsArchive`: a robot's search reads its own database, which may lack rows and
  have rows that are gone, but none of another robot's, whatever ids are used again.
* `CacheIsFed`: a stopped turn's last token is in the reply and not in the cache, a
  raw prompt is in the cache and not in the transcript, and a call from inside an
  event may have reset both.
* `TakesWholeTurns`: see above; it fails if a failed turn leaves its question, if a cache
  is kept for a prompt it is not a prefix of, or if a call gets in from an event.
* `PollIsFinal`, `FreedStaysRefused`, `NoAlias`: what a binding in another language
  relies on.
* `CallsAreHidden`: a call that will be run is never seen, but for the two tokens at its
  ends; it holds only as long as no stray closing tag came before, and says so.
* `StopsAreMeant`, `TurnsArePending`: the map of turns is written by the socket's
  thread and cleared by the dispatcher; an id used twice makes the map hold less than is
  pending, but never a turn that is over.
* `FramesInOrder`, `StopIsAnsweredFirst`: two threads write the frames of one socket, and
  the process may end while they are still in a channel.
* `ServesInTurn`: five places a request may be in, three kinds of threads that move it, and
  clients that hang up in between; it fails if a queue turns round, a stopped turn that is
  still queued is dropped without a reply, or a reply gets past one in the channel.
* `EveryoneAnswered`: the dispatcher is one thread, so one turn nobody ends holds all.
* `RefusedAfterPanic`: the dispatcher is gone and the process goes on accepting; each
  kind of connection finds out by a failing send, and must say so or close.
* `OneAtATime`: through every stale file a crash leaves behind.
* `EveryClientConnects`: clients unlink each other's port file and each starts a daemon;
  a daemon that finds another answering quits before it has written the file.
* `RunsAsSet`: between the writes of a `config.set`, after its failure, and with
  another process writing. Its premise `~behind` is what the code promises:
  settings written by others take effect at the next rebuild.
* `DaemonIsFound`: the probe's answer is trusted for ten seconds, so it must run out in
  every state a turn may come in.
* `SameGeometry`, `EveryRowIsFound`: the fallback may latch between any two calls of a
  reindex or a search; the rows done before it are done again.
* `EveryCallReturns`: a panic behind the lock poisons it; nobody may be left waiting.
* `ChunksDoNotMatter`, `HeldJustEnough`, `NothingAfterStop`: over every way to cut every
  short reply, and a stop at every event.

## Fairness

* `Server`: the dispatcher's own steps, each connection's thread and a brain's next
  piece are weakly fair: they are threads of a running process, and a brain that
  streams comes to its next piece. Clients are under no fairness. Nothing is
  assumed of `Finish`, so a turn may stream for ever: `UnwantedTurnsEnd`
  holds all the same. `EveryoneAnswered` has weak fairness of
  `Finish` as its premise.
* `Brain`: time passes (`Expire`) and a request that was taken is worked on
  (`Work`). Nobody has to ask.
* `Embedding`: strong fairness of `Reindex` and `IndexChunk`: every turn ends with a
  reindex, other requests come in between, and a batch's writes do not fail for
  ever. `MaxBuilds` bounds rebuilds, so from some point on the clients stay.
* `Listen`: each daemon and each client runs. Upsets are bounded, under no fairness, and a
  client that has given up or quit has no claim.
* `Turn`: a turn that has begun is worked on (`Step`), model calls included: HTTP clients
  have timeouts, generation has a token limit. Nobody has to ask, and others may do
  what they like meanwhile.
* `Library`: a call in its turn ends, again and again if it is called back from, and a
  download ends (its connection has a timeout); for the lock strong fairness, which
  holds of a mutex whose waiters are threads of one process. A caller need not do
  anything.

Deadlock is checked for `Archive`, `Brain`, `Embedding`, `Session` and `Library`. `Server`
stops once the process has exited or every request has been served, `Listen` once
everyone has quit, `Turn` once the bound on rows is used up and `Stream` when the reply is
done, so there it is not.

## What is proved

For every roster, every number of processes, daemons, clients, threads and handles, and
every bound, with TLAPS:

* `ArchiveProofs`: `ArchiveTypeOK`, `ArchiveRowsHaveFiles`, `ArchiveOwnIsOwn`; and with one
  process on the space `ArchiveRowsKeepTheirBytes`, `ArchiveVectorsFitRows`,
  `ArchiveFoldersInStep`, `ArchiveBootRepairsOwn`.
* `ServerProofs`: `ServerTypeOK`, `ServerFramesInOrder`, `ServerTurnsArePending`,
  `ServerStopsAreMeant`, `ServerStopIsAnsweredFirst`, `ServerServesInTurn` (`Server`
  implements `Service`).
* `AiProofs`: `BrainTypeOK`, `BrainRunsAsSet` of `Brain`; `EmbeddingTypeOK`,
  `EmbeddingSameGeometry` of `Embedding`.
* `ListenProofs`: `ListenTypeOK`, `ListenOneAtATime`.
* `TurnProofs`: `TurnTypeOK`, `TurnStaysInItsArchive`, `TurnNotItsOwnContext`,
  `TurnAnswersHaveQuestions`.
* `SessionProofs`: `SessionTypeOK`, `SessionCacheIsFed`, `SessionTakesWholeTurns`
  (`Session` implements `Chat`), for any tokenizer.
* `LibraryProofs`: `LibraryTypeOK`, `LibraryNoAlias`, `LibraryOneBackend`,
  `LibraryPollIsFinal`, `LibraryFreedStaysRefused`.
* `StreamProofs`: `StreamTypeOK`, `StreamChunksDoNotMatter`, `StreamHeldJustEnough`,
  `StreamNothingAfterStop`, `StreamCallsAreHidden`.

They rest on the ASSUMEs of the modules: the global space is no robot and nobody no
thread, the bounds are naturals, the sets of daemons and clients are disjoint, the
shipped robots are robots, the transcripts a caller may restore are of messages and its
own prompts are texts, what the model may say is in the vocabulary, the
tokens a model may say are texts that are not empty (`TokensAreText`), the
processes of `Turn` finitely many (what a bound on filings
leaves for the turns under way is a count of them). That `Turn`'s robots are at most three
(`RobotsAreFew`, the table of the router's weights) is used by TLC and by no proof, nor is
what the weights of evidence are (`WeightsAreSome`). The
theorems about one process have two hypotheses more: that `Procs` has one member, and that
`NoPage` is no set of rows (a folder without an `agent.md` can be told from one whose
page is empty). The type invariants of `Archive`, `Server`, `Listen`, `Turn` and `Library`
are proved and not run; those of the others are checked as well. Each inductive invariant was checked
with TLC on the constants of its module's run before it was proved; the definitions are in
the `...Proofs` modules, and can be checked so again.

**Archive.** `RowsHaveFiles` and `OwnIsOwn` are not inductive, because an operation
uses at one write what it read or wrote some writes before. The invariant is

    IInv == TypeOK /\ JobFits /\ FileFirst /\ RowsHaveFiles /\ OwnIsOwn

`FileFirst` says that an operation that has come to its INSERT has its file on the
shelf (nothing in the code ever removes one, which is why it stays true whatever
other processes do); that no two rows name one file is the unique index, not the
naming loop. `JobFits` says that the locals of an operation are of its space: the
row to insert, the batch and the vectors an export carries from `LoadRows` and
`LoadVectors` to `RebuildOwn`, so that what is written to an own database is that robot's;
that every vector of it belongs to a row of the batch is the foreign key, without which the
transaction does not commit. Each conjunct has a lemma of its own
(`NextTyped`, `FitsKept`, `FileFirstKept`, `RowsHaveFilesKept`, `OwnIsOwnKept`)
with one step per action that can disturb it.

Three properties are true of one process only (a second one takes the same name, deletes
the row a vector is about to be written for, or exports a folder from what it read
before). For that case the invariant is

    SInv == IInv /\ Sole

where `Sole` has the three properties and what makes them inductive: ids are unique and
vectors have rows; what an operation carries from one write to the next is still so when
it is used (`Carries`); a boot only exports (`Booting`); how far its own folder has come at
each place of an operation (`Caught`), while every folder that is neither its own nor hurt
by a cut operation is in step (`OthersInStep`); and the robots a boot is done with hold
what `robots.db` holds of them (`Repaired`, from which `ArchiveBootRepairsOwn`). That
`RowsKeepTheirBytes` fails for two processes is the run `ArchiveTwoCopies`.

**Server.** The invariant is

    IInv == Base /\ Lined /\ Delivery /\ Acks /\ StopsAreMeant /\ TurnsArePending
    Base == TypeOK /\ Belongs /\ Wires /\ JobFits

`Base` says where things belong: requests, frames and turns are of their connection, what
each kind of wire is used for, what the dispatcher's place says of its job. `Lined` says
that no request overtakes another of its connection on its way through inbox and queue;
`Delivery` that frames are in order from the dispatcher to the client, and that what is
queued is behind everything that has been answered. A WebSocket is written to by two
threads, its own and the dispatcher's channel, and `FramesInOrder` needs that they never
write for the same request: a stop is answered by the one, everything else by the other.
`Acks` follows the answer to `daemon.stop` from the channel to the client. Each part is
carried over a step by lemmas that say what a step may do to one place (`InboxStep`,
`QueueStep`, `JobStep`, `CancelStep`, `SentFrom`), so that no later proof looks at every
action again. `StopsAreMeant` needs `Lined`, because a stop is for what was sent before
it. `TurnsArePending` is between the threads, which enter a request in the map and in the
queue, and the dispatcher, which takes it out when it is done: that nothing in it is over
needs only that an entry is under its request's own id (`MapStaysWaited`), that everything
pending is in it needs ids that are apart.

`ServerServesInTurn` is the refinement. It needs two invariants more (`Followed`):
`NoneLost`, that as long as the dispatcher lives a request of a client that is there is in
its socket, in the queue, at the dispatcher, or has its reply in the channel or with the
client; and `PiecesOfTurns`, that only turns have pieces. With these a frame that is
written, by whichever thread, is a step of `Service`: a request before it that has no reply
would have to be in one of those places, and `Lined` and `Delivery` say that each of them
holds later requests only (`ChannelHeadIsDue`, `JobIsDue`). A thread answers by itself only
stops, and after a panic, where nothing is promised of the order. A request, a hang-up and
a panic are the same steps in both; everything else is a stutter.

**Brain.** The invariant is

    BrainInv == TypeOK /\ InStep /\ TurnIsSound

`RunsAsSet` compares a turn with the settings in the space; the turn was resolved some
steps before from the setup the process had then, by checks whose answers may have changed.
`InStep` relates the setup to the space, `TurnIsSound` the turn to the setup it was resolved
from, which nothing but the dispatcher changes, and the dispatcher is busy with the turn.
What `effective()` may answer is `EffectiveIsSound`, what the choice of an engine may is
`PickedIsSet`; both hold for every answer of the checks and for both builds.

**Embedding.** The invariant is

    IndexInv == IndexTypeOK /\ TagsAreTrue /\ QueryIsLive

Every vector is filed under the name of the model that made it, also half-way through a
reindex in which the fallback latches, and the query's model is the live one when the
table is read. What both rest on is `EmbedIsLive`: whoever answered an embedding is live
afterwards, which is why the code asks for the name after it has the vectors.

**Listen.** The invariant is

    IInv == TypeOK /\ NoOverlap /\ Alone /\ NobodyElse

As long as nothing has overlapped (`~raced`), at most one party is in its window
(`NoOverlap`); a daemon past its test is alone in accepting (`Alone`), and while
somebody is in a window that began with "nobody answers", nobody does
(`NobodyElse`). `OneAtATime` alone is not inductive: it says nothing of the daemon
that has passed the test and not bound yet.

**Turn.** The invariant is

    IInv == Base /\ Rest /\ Sight

`Base` is the type invariant with three facts about the places of the code: the bound on
filings still has room for what every turn under way must file; a turn has shown nothing
and has no question before its question is filed, and runs a tool only while a round is
left; nothing in the table is newer than the last filing. `Rest` says that the row a turn
takes for its question is that question or is gone, that no two turns have one question
and none that goes on is answered, and that answers have questions: two answers to one
question would need two turns of it. `Sight` is the two properties of what is shown. None
of the three properties is inductive by itself: `NotItsOwnContext` speaks of filings, and
the code compares ids, over two databases that need not have the same rows.

**Session.** The invariant is

    IInv == TypeOK /\ Control /\ Asks /\ Holds /\ GivenAll

`Holds` is the heart: at every place of a turn, every layer's cache is what has been read
so far (`Read`: of the prompt up to where the feeding is, of the reply up to the last token
but one), until a pass fails. `GivenAll` says that each token was sampled after the whole
prompt and all tokens before it, `Asks` that what is read is the transcript with its
question, as the tokenizer encodes it. `CacheIsFed` is `Holds` between turns. The
template is a recursive function of the transcript. That it has a value is proved from the
least number principle (`Least`, from `WFMin`), since the induction theorems cannot be used
here.

`SessionTakesWholeTurns` is the refinement. `Chat` sees the transcript without the question
of a turn under way and, of the last reply, what the model had taken in before each token.
The steps of a turn map to stutters of `Chat` but the last, which is the whole turn there;
a turn that fails is `Chat`'s `Fail` or `Panic`, and if it was a pass that failed, nothing
is promised from then on of what tokens are sampled from until the cache is emptied; what a caller does between turns maps to the
same action.

**Library.** The invariant is

    IInv == TypeOK /\ HandlesFit /\ AgentFits

`HandlesFit`: every frame of a turn is of a live, busy session of its own thread, no two
frames of one (this is `NoAlias`, and what makes it inductive is that a token is never
given out twice), and what polls have said is what is kept or what the thread ended with.
`AgentFits`: a thread is in at most one call on the backend, the one past the lock is its
holder, and where that call is says how many backends there are, kept or not.
`FreedStaysRefused` follows from the type invariant, in which every live token is below
`next`.

**Stream.** The invariant is

    IInv == TypeOK /\ Splits /\ Quiet /\ ShownInTheOpen /\ ChunksDoNotMatter

`ChunksDoNotMatter` speaks of the reply's end. What makes it true is `Splits`, which says at
every token what the splitter has: inside the reasoning, all the text but the longest
beginning of the closing tag that the text ends with; after it, what is before the first
tag, and what is after. That the splitter looks for the tag only in what it holds and the
new piece is then enough: a tag that began earlier would have been held back longer
(`Open`). `HeldJustEnough` follows from the same conjunct. `Quiet` says that a reader who
said stop has nothing left in the detokenizer, so that the flush at the end has nothing
to hand over. For `CallsAreHidden`, `ShownInTheOpen` says that no stretch that was shown ended
within a call; the rest counts opening and closing tags, up to the call and in it: where
each closing tag before has its opening one, a stretch that ended in the call after its
first symbol and before its last would have ended where `InCall` says it is hidden. That the recursion of `ParseCalls` has a value
is proved from the least number principle, as for the template.

**Only model-checked**: liveness (`DaemonIsFound`, `EveryRowIsFound`, `EveryCallReturns`,
`EveryClientConnects`, `UnwantedTurnsEnd`, `EveryoneAnswered`, `RefusedAfterPanic`,
`TurnsEnd`), since the
prover does not reason about fairness and ENABLED. Every safety property of a run that
passes is a theorem.

## Where the code and its comments disagree

Two runs are expected to be violated; each property states what a comment says.

* `ArchiveTwoCopies`. `space.rs:151` says two photos of one name both survive. The
  name is tested and then copied over, so two processes may take the same one. The
  second INSERT fails on the unique index, and the first row now shows the second
  one's bytes.
* `BrainPanics`. `proto.rs:763` says `handle` never panics. A turn asks
  `effective()` and then `ondevice_engine()`; the cached probe may expire and the
  daemon go away in between, and the arm for that is `unreachable!`. The panic ends
  the dispatcher thread, and from then on `Server`'s `Panic` describes the daemon: it
  accepts, and refuses everything. The same shape is in `run_turn` (`proto.rs:739`) and at
  534 and 598.

Also seen while modelling, with no run of its own:

* Archive: a file stays on its shelf when its INSERT fails or its row is deleted
  (`store.rs:7-8`); sync does not look inside logs, pages and vectors, so those stay behind
  after a cut operation until the next export (`store.rs:281`); a vector that reached
  `robots.db` only is not found missing by reindex and never reaches `agent.db`
  (`search.rs:351`); a fallback that latches half-way through a reindex leaves rows without
  a vector of the model that is live afterwards, until the next reindex.
* Daemon: two `listen` that both pass the test before either answers both serve
  (`server.rs:112-115`); of two turns under one id a stop finds the later one only, and none
  once the first is over (`server.rs:434`, 512-516); what was queued at a panic is never
  answered on a WebSocket that stays open, and the process keeps its port; a stop without an
  id, which "cancels every turn" (`server.rs:33`),
  does not reach a turn sent without one, since that is in no map (`server.rs:433`); a
  window that once started a daemon stops, as it quits, whichever it finds by then,
  though one somebody else started "is left running" (`backend_worker.lua:234-239`).
* Routing: `search.rs:125-129` says a robot is summoned "by what it has been *given*, not by
  what it has already been asked". `filed_only` leaves the messages out of the rows that are
  ranked, but `bm25()` takes its statistics (how many rows have the word, how long rows are)
  from the whole index, transcripts included (`search.rs:143-155`), and `archive_evidence`
  uses the ratio of two such scores: talk can still move a route, if less. No property
  says otherwise, and `Turn` lets the weights be any. The settings of bm25 are FTS5's, so how
  much talk moves is out of a model's reach.
* Turns: a streamed ollama reply keeps the calls of its last frame that had any
  (`ollama.rs:421-428`, against `harness.rs:190-193`), and a stream that ends early without
  a `done` frame is taken for whole; a reply that was stopped and has tool calls is
  acted on all the same, as nobody looks at `done_reason`; the answer to a refused tool
  piece is not looked at.
* Text: a stop said inside a tool-call block or in a prefill event is not heard
  (`ondevice.rs:331-344`); a lone "<" and the closing tag of a call are shown, a stray
  closing tag earlier makes later calls visible, an unmatched opening tag hides the rest;
  taking a block out may join what is around it into another that is not looked at.
* Engine: a pass that fails leaves its tokens in some layers' caches and `fed` as it was
  (`rustmlx/src/engine.rs:147-167`, 212-217), and the next turn on that prefix keeps the
  cache: its reply is sampled from something else than its prompt, until a reset or a
  prompt that differs. This is where `CacheIsFed` and `Chat` stop (`broken`).
* Sessions: `abi.rs:260-262` says that keeping earlier thoughts "is what lets the KV cache be
  reused from one turn to the next". It takes more: a reply that begins or ends with white
  space is trimmed in the next prompt (`chat.rs:276`, 289), and one that reads back as other
  tokens is encoded anew, and then the prompt does not extend what the cache holds and is
  read from the start. The reply is right all the same (`TakesWholeTurns`).
* C library: a panic in `jarvis_send` leaves the question in the transcript, an error does
  not; after a panic in a call on the backend `jarvis_agent_open` fails for ever, though
  its error says to open again (`agent.rs:54-58`); a poll reads the progress before it asks
  whether the thread is done, so it may answer 0 with a progress that says it is not.
* Downloads: progress is handed on after its lock is dropped, so a caller may be told of
  less than before (`hub.rs:306-330`).

## What is not modelled

* Downloads (`hub.rs`): `Library` takes one as a thread that ends in one of two ways.
  The transfer itself is the Hub client's, outside the repository.
* The robots client's job queue and its resending (`backend_worker.lua:131`): nothing in the
  daemon tells a request sent again from a new one, so there is no promise to check.
* Robots' texts and folders: `Archive`'s roster is fixed, `Turn`'s changes but has no
  folders.
* A client that does not read. A reply to a line or event-stream client is written by
  the dispatcher, so such a client holds everybody; that needs a model of socket
  buffers. `WaitRunsOut` is the one place where a stuck write matters to `Server`.
* The text of rows and requests, the FTS index (triggers in the row's own commit),
  rendering of pages and papers, HTTP parsing and routes.
* Numerical kernels and sampling (`rustmlx`), jinja templates, encoding and configuration
  files (`rustcore`), strings and JSON of the C library, drawing and
  input (`rusttui`, `robots/`, `love/`): data transformation with little control.
* supervisord, a pinned port, and the library a window may use in a daemon's place.

## Plan

Done, in this order: `Archive` and its proofs, `Server`, `Brain`, `Embedding`, `Listen` and
its proofs; then `Turn` and its proofs, `Session` with `Prompt` and `Chat`, `Library` and
its proofs, `Stream`; then the proofs of `Server`, `Brain`, `Embedding` and `Session`, and
those of `Archive` for one process; then those of `Stream`, and `Service` with the proof that
`Server` implements it. What is worth adding:

1. An archive in which filing, deleting and clearing are atomic, implemented by `Archive`
   with one process and no cuts; `Turn` over it.
2. `Hub`: which files are fetched, what is taken for complete, progress in order.
3. Robots' folders in `Archive`: create, edit, delete, `seed_roster` after a delete.
4. Pure algorithms against reference definitions: `sniff`, `percent_decode`, reciprocal
   rank fusion, the precedence of settings.

## Running it

    tlc -workers 2 -config ArchiveOne.cfg Archive.tla
    tlc -workers 2 -config ServerSafe.cfg MCServer.tla
    tlc -workers 2 -config SessionTurns.cfg MCSession.tla
    tlapm ArchiveProofs.tla

and in the same way `ServerProofs`, `AiProofs`, `ListenProofs`, `TurnProofs`,
`SessionProofs`, `LibraryProofs` and `StreamProofs`.

A configuration is run with the module `PROJECT.json` names for it. No run takes
longer than three minutes on two workers; the proofs take a few minutes.
