# HDE in TLA+

HDE is a small messaging system for units that talk over LoRa radio. On each unit an nginx
serves the pages and proxies `/api/` to a Flask backend (`backend/`). The backend accepts
messages from the web page (`html/static/app.js`), hands them to a radio engine and keeps
them in a file the page reads back. A separate Express server (`server.js`) keeps user
accounts. This directory holds TLA+ models of that code, the TLC runs that check them and
the TLAPS proofs about them.

nginx is vendored (`nginx-source/`, 1.29.0; `nginx-win/` is a Windows build of it). Its
upstream side and its master process, on which the delivery of a message and the running of
a unit depend, are modelled from its C source; the rest of it is not. `pyLoRa`, SQLite and
bcrypt are not in the repository and are modelled from the calls made to them.

## Inventory

| component | code | state | operations | who it meets |
|---|---|---|---|---|
| LoRa engine | `backend/lora_engine.py` | `state`, `message_queue`, `running`, the worker thread, the radio's mode | `_loop`, `queue_message`, `set_state`/`get_state`, `get_messages`, `shutdown` | called by request threads; owns the radio |
| Message API | `backend/main.py` | `messages/messages.json`, one JSON object per line | `POST /api/send`, `GET /api/messages/<file>`, start-up, `cleanup_gpio` | engine, parser, web client, front proxy |
| Id generation | `backend/parser.py` | `messages/to_send.json` (read only) | `last_*_id`, `generate_*_id` | called by `send_message` |
| Chunking | `backend/parser.py` | none | `split_into_chunks`, `is_it_in_batches`, `chunk_message`, ... | meant for the send path; no caller |
| Wire format | `backend/parser.py` | none | `prepare`, `parse_message`, `calculate_crc` | `parse_heard_data` in `main.py`; no caller |
| Chunk store | `backend/parser.py` | one JSON file per message and batch | `save_chunk_data`, `reassemble_chunks`, `repair_message` | meant for the receive path |
| MessageStream buffers | `backend/stream.py` | `buffers`, per sender | `add_chunk`, `cleanup` | meant for the receive path |
| Message archive | `backend/stream.py` | `backend/messages/messages.json`, one JSON list | `save_message`, `save_message_async`, `load_messages*` | file system, event loop |
| Web client | `html/static/app.js` | the input field, the list on the page, requests under way | `send`, `getChecksum`, `fetchMessages`, 5 s timer | Message API over HTTP |
| User server | `server.js` | SQLite tables `users`, `login_attempts` | register, login, logout, list/add/delete users | SQLite and bcrypt threads; not connected to the backend |
| Front proxy: upstreams | `ngx_http_upstream.c`, `ngx_http_upstream_round_robin.c`, the keepalive module, `ngx_event_connect.c` | peers with weights, failures and connections in shared memory; the request; cached connections | init, get and free a peer, connect, send, read, next server, finalize | web client in front, backend behind; workers share the peers |
| Front proxy: master | `ngx_process_cycle.c`, `ngx_process.c`, `ngx_exec_new_binary` of `nginx.c` | `ngx_processes`, the signal flags, `ngx_new_binary`, the termination delay | start, reap, quit, terminate, reconfigure, reopen, change the binary | signals, the workers, the kernel |
| File checksums, radio scripts, rest of nginx | `parser.py`, `RX.py`, `TX.py`, `nginx-source/` | | | see "Not modelled" |

What is hard about it:

* **Interleaving.** Request threads and the worker share `state` and one queue; the lock
  covers single reads and writes, so every decision in `queue_message` is taken on a value
  that may have changed. Received packets go onto the queue that is transmitted from. A
  login in `server.js` goes on with a row it read three callbacks ago. nginx workers share
  the counters of a peer, and an attempt ends on a dozen paths.
* **Failure.** A radio exception ends the worker silently; `save_message_manually` swallows
  every exception; files are appended to or rewritten in place, so a kill leaves half a line
  or an empty file. Servers refuse, hang or close while a request is under way.
* **Ordering.** Chunks arrive out of order, twice or not at all; answers to the page's
  requests overtake each other; two asynchronous saves overlap at their awaits; statements
  nobody waits for are executed in any order; signals meet dying children.
* **Time.** The worker polls the state, `get(timeout=1)`, buffers that expire, the
  refresh timer, `fail_timeout`, the alarm of a terminating master.

Every hazard is listed with its line in `PROJECT.json`, with the properties that would catch
it going wrong.

What makes each component correct: the engine loses no message and sends none twice or out
of order, is never stuck in `transmit`, never blocks `shutdown`; the API serves what it
acknowledged, or fails, but never silently drops; chunking neither loses nor splits
characters and fills texts to the limit; a frame is taken for what was sent or refused; a
whole message is noticed whatever the order and the repetition of its chunks, and its chunks
are joined at their places; the archive never forgets silently; the page shows states the
server was in, and finally the latest; a login succeeds only for an account that existed, is
recorded once and stamps its own row; the proxy never sends a POST twice, keeps its counters
and ends its retries; the master replaces workers that die and leaves none behind.

## Modules

| module | models | notes |
|---|---|---|
| `LoRaEngine` | `lora_engine.py` | worker steps `Worker*`, client calls `Queue*`, `Collect*`, `Shutdown*`, `SetState`; radio: `Hear`, `WorkerCrash` |
| `Outbox` | abstract specification of the engine | accept, transmit the oldest, forget all when the process ends |
| `Backend` | `main.py` on top of `LoRaEngine`, ids of `parser.py` | extends `LoRaEngine`: a request thread is a client of the engine |
| `Chunking` | `split_into_chunks`, `is_it_in_batches` | one step per character of the loop |
| `WireFormat` | `prepare`, `calculate_crc`, `parse_message` | operators on sequences of symbols |
| `Framing` | `Chunking` composed with `WireFormat` | cut, frame, disturb, parse |
| `Reassembly` | `MessageStream.add_chunk`, `cleanup`, `is_message_complete` | buffers per sender, ages instead of timestamps |
| `Archive` | `save_message`, `save_message_async`, `save_chunk_data`, `reassemble_chunks` | the shared read / open "w" / write cycle |
| `WebClient` | `app.js` | calls of `send()` and `fetchMessages()` suspended at their awaits |
| `Users` | `server.js` | one record per request, at the callback it waits for |
| `RoundRobin` | peers of an upstream: `get_peer`, `free_peer` and their counters | shared by the workers, under a lock |
| `Upstream` | attempts of a proxied request, on top of `RoundRobin` | extends `RoundRobin` |
| `MasterCycle` | the master process and its children | stages of one turn of the loop |
| `BackendProofs`, `FramingProofs`, `WebClientProofs`, `ArchiveProofs`, `ReassemblyProofs`, `UsersProofs`, `UpstreamProofs`, `MasterProofs` | theorems about the module they extend | `BackendProofs` has those of the engine, `FramingProofs` those of `Chunking` |
| `MC*` | instances for TLC | constants and symmetry only; `MCChunkPath` runs `Framing`, `Reassembly` and `Archive` side by side |

Definitions marked "Mutant:" are plausible bugs of the definition after them; no
specification uses them. Each property of a passing run is violated by one of them.

### LoRaEngine

`state`, `queue`, `running` are the fields of the class. `worker` is the worker's place in
`_loop`, `_do_transmit`, `_do_receive`, `_do_reset`; `hand` is the local `message` of
`_do_transmit`. `cpc` is the place of each client thread in the method it called and `items`
what its `get_messages` collected. `mode` and `inbox` belong to the radio, `sent` and `used`
are history. The lock is never held across two accesses, so each access to `state` is one
step and the lock is not a variable. `WorkerTxGet` and `WorkerTxTimeout` are the two ends of
`get(timeout=1)`. Sleeps only delay and are not steps.

The radio is external: it hears packets in rx mode only, `receive`/`read` hand them over in
order, `reset` empties it, and with `RadioMayFail` any of its calls may raise, after which
the worker is gone (`_loop` catches nothing).

### Backend

`SendStart` builds the entry and puts it on the queue, `SendQueueing` are the remaining
steps of `queue_message`, `SendSave`/`SendSaveFail` are `save_message_manually` (an
exception is swallowed), `SendSaveRaise` the `makedirs` before its `try`, whose error is
answered 500 with the entry queued, `SendReply` the answer. A record of `log` is `[msg,
whole]`: an append that fails or is killed half way leaves a record that is not whole and
shares its line with the next one. `source_messages` is what a GET returns for a given file:
500 as soon as one line does not parse. `Restart` is a kill at any moment followed by a
start: the memory is lost, the file stays. `ToSend` is the content of `to_send.json`, which
no code writes. Requests with missing fields and GETs change nothing and are not steps.
CPython writes the line of an append in one `write()`, so appends of different threads do
not mix.

### Chunking, WireFormat, Framing

`Chunking` runs the loop of `split_into_chunks` on every message over characters of one,
two and four bytes. `WireFormat` has a frame as a sequence of symbols, a symbol being one
character or the name of a field. Exclusive or is symmetric difference of sets of bits, and
the checksum is written with one digit per bit (the code writes two hexadecimal digits for
eight): as in the code every checksum is one way of writing the digits, in upper or, after
noise, in lower case. `Fields` splits the payload character by character, `Values` lists the
values of the fields with one key, of which the last counts. `Framing` composes the two: the
message, or a chunk of it with its marker, is framed, one symbol of the frame may change on
the air, and the frame is parsed. Noise replaces symbols; frames that get shorter or longer,
and two changes at once (which can cancel in an exclusive or), are not tried.

### Reassembly, Archive, WebClient

`Reassembly` lets any chunk of any message of any sender arrive at any time, any number of
times; `AddChunk` is the whole of `add_chunk`, including the call of `reassemble_chunks` that
raises because an argument is missing, so that the buffer is kept and the chunks of the
sender's next message are put into it. `opener` remembers the message whose chunk opened the
buffer, because its total is the one the buffer keeps.

`Archive` has the four steps of a save (load, open, write, or a load that raises), each of
which others may come between; opening with "w" empties the file at once. `keyed` tells the
dictionary of `save_chunk_data` from the list of `save_message`. The archive may also be there
and damaged from the start: the repository ships one with a JSON object per line, which
`json.load` refuses. `reassemble_chunks` is the sequence of parts that `"".join` puts
together: the chunks in the order of their ids, each as `Stripped` leaves it, which cuts a
chunk with `|c` anywhere in it behind its first `|`.

`WebClient` has one program counter per call; the server is reduced to what it queued for the
radio (`queued`) and the list a GET returns (`log`). A POST that is answered 200 has been
queued, and may or may not be in the list: `save_message_manually` swallows its exception.
Requests and answers may be lost.

### Users

`req[c]` is the request of client `c` and what its callbacks have closed over: `at` is what
it waits for (`"hash"`, `"statement"`) or what its last callback found. `Select`, `Insert`,
`DeleteRow` and `Execute` are SQLite carrying out a statement; the two statements at the end
of a login that nobody waits for are put into `pending` and executed in any order, also
after the answer. A statement is known by the number of its request and its place among that
request's statements, so that a second INSERT of the same row is another row. `Fails` is an
error handed to a callback, `ExecuteFails` one nobody sees, `Kill` a kill and start with the
requests and the pending statements lost. `POST /register` and `POST /api/users` are one
kind of request: they differ in the page that answers. `Uid` is the rowid; the schema is not
in the repository, so a new uid may or may not be one that was deleted (`NewUids`).

### RoundRobin, Upstream

`peers` is the shared memory zone: per server `conns`, `fails`, the two weights and, in
place of the timestamps `accessed` and `checked`, ages up to `FailTimeout + 1`. `AfterGet`
and `AfterFree` are get and free of a peer, each under the lock of the peers and so one
step. `Upstream` has one request per client connection, and `home` says which worker process
the connection belongs to: the requests of a worker share its idle connections (`cache`),
the workers share the peers. A request is `"connect"` between attempts, `"connecting"`,
`"sending"`, `"waiting"` for the header or `"reading"` the response while one is under way,
and `"broken"` or `"failed"` where a handler goes on after other workers may have run. A
handler of nginx runs to its end before its worker takes another event (`Ready`); `NextPeer`
is `ngx_http_upstream_next` with its finalize: the client may be gone, the tries or the time
(`proxy_next_upstream_timeout`) used up, and a connection that answered 404 may go back to
the cache (`Retire`). `no_buffering` is `request_body_no_buffering`, which a request keeps
only if its location does not buffer and its body had not come whole. The configurations are
those the repository has (one backend, with `proxy_request_buffering` on or off) and ones
with two weighted servers and with a backup, which exercise the rest of the balancing. When
a configuration makes nginx resolve a name at run time, use TLS, cache or upgrade, other
code runs: none of the repository's does.

### MasterCycle

The master blocks its signals except in `sigsuspend`, so `Wake` runs the handlers of all
pending signals at once, and the loop then takes up the flags they set in the order of the
code: `pc` is the stage, `StageAfter` the next one whose flag is set. A slot of
`ngx_processes` and what the kernel knows of the child in it are one record of `procs`.
`SignalWorkers` is `ngx_signal_worker_processes` with its just-spawned, exiting and
no-such-process cases, `ReapChildren` is `ngx_reap_children`. Children run, quit, die, end
with the fatal exit code or hang between any two stages; the new binary may end at any time
(`BinaryEnds`). `Started(c, just, n)` is `ngx_start_worker_processes` of which `n` calls of
`ngx_spawn_process` succeed: the code does not look at what they return. Each respawn of a
reap succeeds or fails on its own. Doublings of the termination delay stand for its value.

## Runs

| run | checks | shows |
|---|---|---|
| `engine` | `EngineTypeOK`, `ExactlyOnePlace`, `ShutdownReturns` | every queued message is in exactly one place, whatever two threads call and whichever radio call fails; `shutdown` always returns |
| `backend` | `TypeOK`, `IInv`, `TransmitFindsMessage`, `TransmitOnlyInCall`, `FeedNeverPartial`, `NeverIdleAgain`, `OutboxSpec`, `ListensAgain` | concurrent requests with failing radio, failing and torn saves, stop and kill; the refinement of `Outbox`; the radio listens again after a message was queued |
| `chunk_path` | `NothingLost`, `TextsFilled`, `BatchesAgree`, `CorruptionRefused`, `TextHeard`, `MetadataKept`, `WholeIsNoticed`, `OnlySilentDropped`, `NothingForgotten`, `ReassembledText` | the texts of the chunks are the message, full, and as many as predicted; a disturbed frame is refused or says what was sent; a whole message is noticed and active senders keep their buffers; no silent loss under overlapping saves and a crash; chunks are joined at their places |
| `web_client` | `ShownIsPrefix`, `TextKept`, `ShownForGood` | page, field and server under reordered and lost answers and saves that fail; a text stays in the field until it is queued |
| `users` | `TypeOK`, `LoginJustified`, `AuditExact`, `StampsOwnRow`, `EveryRequestAnswered` | logins across deletions, additions, failing statements and kills |
| `upstream` | `TypeOK`, `ConnsExact`, `WeightsBalance`, `SentOnce`, `CachedWhole`, `ProbesRare`, `EveryRequestEnds` | retries, timeouts, broken connections and shared counters of two workers |
| `master` | `TypeOK`, `NoOrphans`, `StaffedAgain`, `ShutsDown` | signals and dying, hanging or unforkable children in every order |

Disagreements between the code and what the repository says of it (`findings`):

| run | violated | what happens |
|---|---|---|
| `queued_is_sent` | `EveryMessageTransmitted` | `queue_message` sets `receive` right after `transmit`; the worker, which polls, misses it and the message stays queued |
| `archive_async` | `SavedIsStored` | one of two overlapping asynchronous saves is lost |
| `chunk_size` | `ChunksWithinMaxSize` | `split_into_chunks` measures the text and then adds the marker `\|cN\|`: a full chunk is at least four bytes longer than `max_size`, which its docstring promises it does not exceed |
| `add_chunk` | `WholeIsReturned` | the chunk that completes a message makes `add_chunk` raise `TypeError`; its docstring promises the assembled string |
| `reload` | `ReloadReplaces` | after a binary upgrade that failed to start, `ngx_new_binary` is -1 and every SIGHUP starts more workers with the old configuration and reloads nothing, until a later SIGUSR2 starts a new binary or the master is restarted |

Also visible while modelling, without a run:

* a unit that has not sent anything stays in `idle` and hears nothing; every entry gets chunk
  id 1, because nothing writes `to_send.json`; `get_messages` can wait for ever when another
  thread takes the last item between its `empty()` and its `get()`; one torn append makes
  every later GET fail (`FeedNeverPartial` shows that it fails rather than serving less); the
  checksum of `/api/checksum` is computed once, at import;
* a message whose save raises, but for the directory, is answered 200 and queued for the
  radio, and the page clears the field; if the radio does not send it either (`queued_is_sent`)
  the text is nowhere (`TextKept` promises only that it was queued);
* `cleanup` has no caller, so a buffer is never deleted and the chunks of a sender's next
  message are counted with those of the first; `parse_message` splits at `|` before it looks
  for the marker, so a framed chunk arrives with an empty message; it never reads the chunk id
  and the checksum that `prepare` sends; `reassemble_chunks` takes only the first `|` off a
  chunk with its marker and leaves `cN|` in the text, and of a stored text with `|c` further
  in drops what precedes its first `|`; `load_chunk` reads an attribute that does not exist;
* a request whose idle connections keep breaking is retried for ever if other requests of the
  worker put new ones into the cache as fast (`EveryRequestEnds` leaves that case out, and
  without the exception TLC finds the loop);
* in `server.js` a login whose account was deleted meanwhile stamps the row of the account
  that was given its uid, if SQLite gives rowids again;
* a SIGHUP beside a running new binary starts workers without setting `live`, so a QUIT soon
  after may leave them behind (`NoOrphans` says so); a refused configuration makes the loop
  start over with the later flags still set, which are taken up at the next signal only;
* when every fork of `ngx_start_worker_processes` fails and no other child is left, the loop
  sets `live` all the same: nothing will ever set `ngx_reap` again, and TERM and QUIT wait
  for ever (`Deserted` in `ShutsDown`; TLC finds it with WINCH, USR2, the end of the new
  binary and a failed fork for every worker). After WINCH and a HUP, which starts new
  workers, `ngx_noaccepting` is still set, and the end of a later new binary starts as many
  again.

Deadlock is not checked where the system may stop for good: a process that was shut down
(`engine`, `backend`, `queued_is_sent`), a finite message (`chunk_path`, `chunk_size`), a
finite set of entries (`chunk_path`, `archive_async`), requests or signals used up (`users`,
`master`, `reload`). `add_chunk`, `web_client` and `upstream` check it.

### Bounds

* `engine`: two clients, one message, one packet: two items for three takers (worker and two
  `get_messages`), which is the least that lets takers race, a shutdown overlap a queueing,
  and a packet be echoed.
* `backend`: two requests at a time, two messages, one packet, one kill (`MaxRestarts`), any
  failure. Two requests are what it takes to interleave inside `queue_message`. The proofs
  remove these bounds. `queued_is_sent` has no failures, so that its counterexample is not
  explained by a dead radio.
* `chunk_path`: cutting and framing, the buffers, and the files share no state, and no code of
  the repository connects them, so in a behaviour one of the three moves and the others rest;
  each is explored as if it were alone. Messages of up to four characters (`MaxLength`) over
  seven characters, among them the ones of a marker, `:` and `*`, and limits of 4 to 6 bytes:
  a character that just fits, or does not, at every position. Frames of messages of up to two
  characters (`MaxNoisyLength`) are disturbed at every position with every symbol of `Noise`.
  Every symbol has a code of its own in five `Bits`; one marker stands for the 999. Two
  senders, each with a message of two chunks and one of three, so that chunks of both meet in
  one buffer; a timeout of one unit, ages capped one above it, where they are no longer told
  apart. Two savers, chunks 2, 9 and 10 (10 is where sorting by string and by number differ),
  one with its marker in front, one with `|c` in its text, one without; one crash
  (`MaxCrashes`). `chunk_size`, `add_chunk` and `archive_async` have the part they are about,
  with the same or smaller constants.
* `web_client`: two sends and a timer refresh in flight, two clicks (`MaxClicks`).
* `users`: two clients, two names, two passphrases, one account at the start, three requests
  (`MaxRequests`), one failure or kill (`MaxFaults`): a login, a deletion and an addition
  that takes the name or the uid over are what it takes to confuse accounts.
* `upstream`: a client that sends POSTs and one that sends GETs, the single backend of
  `lora-sites.conf` behind one worker (whose requests share a cache of one connection) and
  behind two, with bodies buffered and not; two servers with weights 2 and 1 and `max_conns` 1
  for the first, without keepalive, behind two workers; a server with a backup, with keepalive,
  behind one. `max_fails` 1; a `fail_timeout` of 0 units, so that "within" and "after" are both
  there. One connection to keep is the least that lets one request break it while another puts
  it back, and that makes the oldest give way.
* `master`, `reload`: two workers, 14 slots, one fault (`MaxFaults`): a child dies or hangs, a
  configuration or a binary is refused, or forks fail, any number of those of one stage. `Plans`
  bounds how often each signal is sent, in any order: any two signals, and WINCH and USR2 with
  TERM, with QUIT, and WINCH, HUP and QUIT, which is what it takes for workers that were sent
  away to be started again, or not, before the master is told to stop. `Doublings` of the
  delay: 2, five in the code; all between the first and the last do the same. `Signal` is
  guarded so that the table never overflows, because the code's answer to a full table (1024
  slots) is only to log it.

### Fairness

`EngineFairness` and `Fairness` of `Backend` are weak fairness of threads that can run: the
worker, requests under way, a main thread in `join`. Nobody has to call, send, stop, hear or
fail. A client in `get()` on an empty queue is not enabled and may wait for ever. In
`WebClient` the timer and the callbacks are weakly fair and the server's answers to
refreshes strongly fair: `setInterval` never stops, and single requests may fail, but not
all of them from some time on. That leaves out a GET that fails for ever, as it does once a
torn append is in the file (`FeedNeverPartial`): then nothing new is ever shown. In `Users`
the thread pool and the event loop go on while there is work; nobody has to send a request,
fail or kill. In `Upstream` a worker runs a handler to its end (weakly fair), and takes up
the timers of connecting and of waiting for the header, which start once per attempt,
however many other events it has (strongly fair). The timers of a send and of a response
start again at each progress: that they end some time is asked of the servers and clients,
none of which trickles for ever with pauses shorter than the timeout (`Settles`). In
`MasterCycle` the kernel runs the master, the timer and the children, and a worker told to
quit ends its connections at some time; one that hangs does not.

## Proofs

Proved for every value of the constants that satisfies the modules' assumptions:

| module | theorem | says |
|---|---|---|
| `BackendProofs` | `Invariance`, `TypeCorrect`, `TransmitNeverEmpty`, `NeverStuckTransmitting`, `FeedIsNeverPartial` | the invariants of the run `backend` |
| | `IdleOnlyByRestart` | the action property `NeverIdleAgain` |
| | `AckedIsServed` | if appends are never cut short (`~TornWrites`), what was acknowledged and did not fail to be saved is served, also after restarts |
| | `EngineIsOutbox` | `Spec => OutboxSpec`, with the worker's hand in front of the queue as `waiting` |
| | `EngineTypeCorrect`, `NothingLostOrDoubled` | `EngineTypeOK`, `ExactlyOnePlace` of the engine alone, for threads that call any method |
| `FramingProofs` | `ChunksAreTheMessage`, `TextsAreFilled`, `CutWhenInBatches` | `NothingLost`, `TextsFilled`, `BatchesAgree` |
| | `FramingCutsAsChunking` | `FramingSpec => Spec`: the composition cuts as `Chunking` does |
| | `CorruptionIsRefused`, `TextIsHeard`, `MetadataIsKept` | `CorruptionRefused`, `TextHeard`, `MetadataKept` |
| `WebClientProofs` | `PageIsPrefix`, `TextIsKept` | `ShownIsPrefix`; `TextKept` if `PatientUser` |
| `ArchiveProofs` | `NothingIsForgotten`, `TextIsReassembled` | `NothingForgotten`, `ReassembledText` |
| `ReassemblyProofs` | `SilentAreDropped`, `WholeAreNoticed` | `OnlySilentDropped`, `WholeIsNoticed` |
| `UsersProofs` | `UsersTypeCorrect`, `LoginsAreJustified`, `StampsAreOwn`, `AuditIsExact` | `TypeOK`, `LoginJustified`, `StampsOwnRow`, `AuditExact` |
| `UpstreamProofs` | `UpstreamTypeCorrect`, `WeightsAlwaysBalance`, `ConnsAreExact`, `SentAtMostOnce`, `CacheIsWhole`, `ProbesAreRare` | `TypeOK`, `WeightsBalance`, `ConnsExact`, `SentOnce`, `CachedWhole`, the action property `ProbesRare` |
| `MasterProofs` | `MasterTypeCorrect`, `NoneIsOrphaned` | `TypeOK`, `NoOrphans` |

The assumptions are those named in the modules (`EngineAssumption`, `BackendAssumption`,
`ChunkingAssumption`, `WireAssumption`, `FramingAssumption`, `ClientAssumption`,
`ArchiveAssumption`, `ReassemblyAssumption`, `UsersAssumption`, `RoundRobinAssumption`,
`UpstreamAssumption`, `MasterAssumption`); TLC evaluates them in every run of the modules.
Most say of what type a constant is. The others: no character is wider than a chunk may be
(`max_size` is 240 bytes, a character at most four); two symbols have two codes (`ord` tells
characters apart); the accounts at the start have different names (`server.js` answers 409
when an insertion fails with "UNIQUE constraint failed").

None of the properties is inductive as it stands. Each proof module defines `IInv`, proves
that it holds initially and is kept by every action, one lemma per conjunct or per group of
actions, and derives the properties from it. What the strengthenings say:

* **Backend.** `QueueInv`: the queue is at least as long as the number of requests between
  their `put` and their `set_state("transmit")`, plus one if the worker is about to take a
  message or will be once it reads the state (`Owed`). This is why `_do_transmit` never finds
  the queue empty: a `transmit` that the worker acts on always has a message of its own. It
  needs the count, since two requests may have put before either sets the state.
  `HandInv`: the worker holds a message exactly between get and send (or died there).
  `NoOtherCalls`: the backend calls only `queue_message` and `shutdown`; together with
  `QueueInv` it closes the worker's only way back to `idle`. `SaveInv`: a request about to
  answer has its entry in the file unless its save raised.
* **Engine.** `PlaceInv`: no sequence (queue, radio, sent, results of `get_messages`) holds
  an item twice, no two of them and not the worker's hand share one, everything in them was
  used, and every used message is in one of them.
* **Chunking.** `CutInv`: what was cut off, with the text being filled, is the part of the
  message that was passed, numbered, filled and not cut early. `FillInv`: the text being
  filled fits and could not have begun in the last chunk; this is what the next cut needs.
  `CountInv`: there is a chunk exactly if what was passed is too long for one, so that
  `is_it_in_batches`, which measures the whole message, agrees.
* **Framing.** The checksum of two payloads that differ in one place differs: exclusive or
  with the same symbols before and after keeps it apart (`CrcApart`). What noise can do to a
  frame is then four cases, by where it hit and whether a `*` came or went (`HurtFrame`):
  the payload and the checksum no longer agree, or the length of the checksum is wrong.
  `TextHeard` follows from what splitting does to a text that was joined: the fields of
  two texts joined by `|` are those of the one and those of the other (`FieldsJoin`), and
  the values under a key likewise (`ValuesConcat`). A field has no symbol its text has not
  (`FieldsFree`), so a message with any number of `|` adds no value for a key it does not
  contain.
* **Web client.** `AnswerInv`: an answer under way is a prefix of the server's list, since
  what `Show` puts on the page was fixed when the server answered. `FieldInv`: the sends
  under way all carry what is in the field, unless the field was cleared, and then the
  server has queued their text. This needs all sends at once: one that ends clears the field
  that another one relies on.
* **Archive.** `ReadInv`: what a saver is about to write holds every entry that was kept,
  and its own; `AloneInv`: an entry is kept only by a save that nobody overlapped, so no
  saver has read the file before and not yet written. For `reassemble_chunks`: the ids of a
  file that holds every chunk can be sorted in one way (`SortedExists`, `IdsSorted`), in which
  each is at its place among them (`IdAtItsPlace`), and what follows the first `|` of a chunk
  that begins with it is the rest of the chunk (`AfterFirstBar`).
* **Reassembly.** `AgeInv`: a buffer is as old as its sender is silent. `HeldInv`: it holds
  the numbers of the chunks that came since it was opened, its total is that of the message
  that opened it, and the last call raised exactly if that many are there.
* **Users.** `EntitledInv`: a login is entitled if the account it waits for would open, or
  the hash it was given matches. `OwnInv`: a uid that a callback or a pending statement
  remembers is that of its account, or was given again, or has no row. `AuditInv`: a login
  under way has no row yet and shares its number with nobody, an answered one has one
  statement that is its row, executed or pending, unless that was lost, and no row is
  without its login. The type needs `UniqueInv`, that a name has one row: what a `SELECT`
  finds is then one row or none.
* **Upstream.** `HoldsInv`: a request holds a server exactly while an attempt is under way,
  so that `conns` counts them. `CopiesInv`: once a server may have the whole of a request
  that must not be repeated, the request never comes to another attempt. `RetireStep`:
  what goes into a cache, at a 404 as at the end of a response, is whole. `ProbesAreRare`
  needs `AgeInv`, that the age noted for a peer is at most the time since it was picked.
  `WeightsBalance` needs `TableInv`: `get_peer` gives every peer it looks at its effective
  weight and takes what it gave, all together, from the one it picks, so the sum of the
  current weights stays 0 (`SumsMove`, `CurrentSumPaid`). `TypeOK` needs `CacheInv`, that
  the connections kept fit.
* **Master.** `LiveInv`: `live`, found at the last reap, never says less than there is:
  children that are not detached exist only if it is set, unless SIGHUP beside a new binary
  started them. `DetachedInv`: nobody tells the new binary to exit. `StageIsStage` and
  `RestOK` say of every stage that the next one is a stage and that what it leaves is typed.

Two of the theorems carry a hypothesis, as their rows say: `AckedIsServed`, `TextIsKept`.
`TextHeard` and `MetadataKept` are about entries whose fields can be told from one another
(`PlainEntry`: no `|` in a name or a checksum, time and batch numbers
that are not 0); `MetadataKept` is about messages that do not spell out a field, because
`parse_message` takes the last `from:` it finds.

What recursive definitions compute is proved by induction. The library's induction theorems
take a predicate as a parameter, which the installed provers cannot instantiate, so the
modules that need it derive induction over sets of numbers, of subsets and of sequences
(`NatByInduction`, `SubsetInduction`, `SeqByInduction`) from the well-foundedness of `<` and
of strict inclusion. `Bytes`, `calculate_crc`, `Fields` and `Values` are recursive functions
for that reason: each is shown to exist (`FoldExists`) and to be determined by its text
(`SameUpward`), after which one more character is one more step. `Sorted` stands for the
sorting of `reassemble_chunks`, because the sorting operators of the libraries have no
definition the prover can see.

Only model-checked: everything about liveness (`ShutdownReturns`, `ListensAgain`,
`ShownForGood`, `EveryRequestAnswered`, `EveryRequestEnds`, `StaffedAgain`, `ShutsDown`),
which rests on fairness and is out of the prover's reach, and the five disagreements. Every
safety property that a passing run checks is proved.

## Not modelled, and why

* `auto_save_message_async`, `parse_heard_data`, `extract_chunk_info`, `parse_send_data` of
  `main.py`; `chunk_message`, `get_chunks`, `batch_chunks`, `should_it_be_in_batches`,
  `repair_message`, `get_batch_chunks`, `load_chunk` of `parser.py`: no caller, and they
  slice or copy their argument.
* `format_message`: a static method with a `self` parameter that no one can call.
* File checksums: computed on bytes, and the value is only tested for being non-empty.
* Clock jumps: ages only grow in `Reassembly` and `RoundRobin`; `time.time()` is a wall
  clock.
* The username cookie and notifications of the page; HTML and CSS; the pages, redirect and
  logout of `server.js`, which change no state of the server.
* `RX.py`, `TX.py`: straight-line test scripts of the radio.
* In the upstream: cache, TLS, upgrade, the resolver and other load balancing methods, which
  the repository's configurations leave off; what the body of a response contains. In the
  master: the cache processes, the channel descriptors workers pass each other, start-up.
* The rest of nginx (HTTP parsing, filters and other modules, event methods, pools, TLS, the
  HTTP/2 and HTTP/3 code, mail and stream): third-party code, most of it byte-level parsing
  and configuration, that no code of this repository depends on beyond the proxying above.
  It is nearly all of the lines in `src/`, so the modelled share of the repository's lines is
  small while the program's own code is modelled almost whole.

## Plan

1. Done: engine, outbox, backend; chunking, wire format and their composition; buffers,
   archive, web client; users; the proxy's upstreams and master; the proofs above.
2. `Network`: two backends whose radios hear each other, to state what a unit hears of
   another's messages, the echo of received packets included.
3. The proxy in front of `Backend`: `Upstream` with the request threads as its server, to
   state end to end how often a message a page sent is queued.
4. The accept mutex and shared-memory lock of nginx workers (`ngx_event_accept.c`,
   `ngx_shmtx.c`), with a worker that dies while it holds it.
5. Proofs: which server `get_peer` picks, over any number of requests (the share of a server
   is its weight's); whether `Upstream` can try a server twice for one request.
