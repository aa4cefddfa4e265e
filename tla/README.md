# CDCM in TLA+

CDCM runs authenticated checks ("actions") against remote assets. Clients send
it messages; a *broker* process passes their actions on to a pool of *worker*
processes over ZeroMQ, in the style of the Majordomo protocol (MDP); a
*supervisor* starts and restarts all of them. Credentials live in *sessions*,
kept in a cache in shared memory that every process maps.

This directory holds a TLA+ model of that system, TLC instances of it, and
proofs for TLAPS. `PROJECT.json` lists the components, runs, mutants, hazards
and theorems, and maps each definition to the lines it models.

## The system

| part | state | operations | what makes it correct |
|---|---|---|---|
| message broker (`frontend/message_broker.cpp`) | `workers_`, `requests_`, two ROUTER sockets, `heartbeat_at` | `broker_loop`: poll, `worker_process` (READY, REPLY, HEARTBEAT, DISCONNECT, anything else), `client_process`, `service_dispatch`, `purge_workers`, timers | no request is left behind while a worker is idle; nothing is dispatched or answered twice; what a forgotten worker still sends does not bring it back; no null worker is used |
| worker register (`frontend/worker_container.hpp`) | a multi-index container: identity, expiry, last session, idle | insert, erase, idle and busy, `get_next_worker`, ... | unique identities, indexes in step with their keys |
| worker (`backend/message_worker.cpp`, `utils/postponed_actions.hpp`) | DEALER socket, `liveness_`, `heartbeat_at_`, queue of postponed actions | `connect_to_broker`, `recv`, `handle_postponed_actions`, `worker_loop` | it answers at most what it was asked; it notices a dead broker and comes back |
| session cache (`common/sessions_cache/shared_mem_*`) | a multi-index container in shared memory (id, expiration, remote) and a named lock | `add`, `remove_by_id`, `get_session_by`, `touch_by`, `clean` | a session lives until it is closed, replaced or idle for too long, and every operation answers so |
| session actions (`frontend/actions`) | - | `start_session`, `close_session`, `get_cdcm_info`, run by the broker | the cache holds what their answers say |
| maintenance (`frontend/maintenance.cpp`) | a timer, the directory of downloaded files | `clean`, list of the sessions, removal of files | files of live sessions stay |
| supervisor (`supervisor/`) | `broker_`, `workers_pool`, exit callbacks | removal of the shared memory, spawn, `on_exit`, `monitor` | every process that dies runs again; a lock that a dead process holds is gone with the next start |
| ZeroMQ messages and helpers (`common/zmq`) | frames | wrap, unwrap, `send`, `recv`, `set_id` | an answer is addressed to the client that asked |
| protocol (`common/protocol`) | result messages and their codes | `set_response_for_*`, JSON bindings | code and content agree |
| dispatcher, plugins (`common/dispatcher.hpp`, `backend/utils/action_manager.cpp`) | map of names to actions, list of open libraries | `load`, `register1`, `find` | an action that is found lives in a library that is open |
| samba actions (`backend/services/samba_based`) | per process: the context of libsmbclient, a static lambda; per action: connection, pipe, handles | twelve actions of the registry, LSA, srvsvc and SMB families | what is answered is what the asset was like; a failure is not an answer; nothing is left behind |
| file version (`backend/utils/pe_context.cpp`, `file_mapper.*`) | what has been read of a file | `parse`, `pe_rva2ofs`, `discoveryNodesPeres`, `extract_info`; `map_chunk` | the version is found wherever it is, and bytes are used that were read |
| wildcards (`common/wildcards.hpp`) | - | `match` | a name is kept when the pattern means it |
| logger, settings (`common/Logger`, `common/singleton_runner`) | levels and sinks; settings | `load`, `log_event`; `as` | written is what is switched on; a setting has the value of the file |

Clients and broker, broker and workers exchange messages. Workers and broker
share the session cache; the broker process runs `client_process` and the
maintenance timer in two threads. The supervisor sees exits only.

What is hard here, and hardly tested (the repository has unit tests of the
container, of the cache with one thread, of wildcards and of single actions
against real hosts): the interleaving of broker and workers; a dispatch, a purge
and a reconnection that cross; requests queued behind a busy worker; postponed
actions whose short poll timeout eats the worker's lives; the death of either
side with messages under way; a process that dies with the lock of the shared
memory; iterators into shared memory that are used after their lock has been
released; actions of many calls, any of which may fail or find another asset
than the one before; what one action leaves in its process for the next;
parsers of bytes that somebody else has written. The list is in `hazards`.

## Modules

| module | models |
|---|---|
| `Settings` | names and durations that broker and workers share |
| `WorkerContainer` | the worker register: a function from identity to entry; an index is the set it selects, and where the code's order of equal keys depends on history a lookup is a set of possible results |
| `MdpSockets` | the sockets: a FIFO queue per worker and direction, one queue of client messages, per call the count of what was sent back |
| `MessageBroker` | the broker thread, one action per step of `broker_loop` |
| `BrokerSystem` | the broker with *any* workers that keep to MDP, clients, a clock, and deaths of the broker; the properties of the broker |
| `CallPromise` | the abstract specification: of each action of a call at most one answer, and it may be lost |
| `MessageWorker` | the worker processes, one action per step of `recv` and `worker_loop` |
| `Cdcm` | broker and worker processes together; it implements `BrokerSystem` |
| `SessionsCache` | the cache: each lock section is an action, an iterator is a node's address that a process keeps between two sections; maintenance's thread, which lists the sessions without the lock and removes files |
| `SessionStore` | the abstract specification of the cache: what its tests describe, in one step per operation, with what each returns |
| `LocalActions` | `client_process` and `do_act`: messages are taken apart and the actions that the broker runs itself are run one after the other, while maintenance removes sessions |
| `Supervisor` | the processes, who starts them, and the lock of the shared memory that one of them may die with |
| `ActionAnswers` | what all remote actions share: a result message, an asset that changes between two calls, an action that runs again after it was postponed |
| `RegistryActions`, `PermissionActions`, `FileActions` | the twelve actions, one step per call into samba; every call may fail |
| `RemoteActions` | one worker process that runs all of them, one after the other; their properties |
| `SecurityDescriptor`, `Base64`, `RegistryText`, `AssetData` | what the actions do to the data they get: access masks, one right per step; the content of files, one byte per step; texts of the registry, one character per step; paths of keys and shares |
| `FileMapper` | a file that is read in chunks, one action per call of `smbc_read`, while others write to it |
| `PeHeaders` | the parser's way through the headers of an executable, one action per piece that is mapped and then looked at, and what is looked up in them afterwards |
| `PeContext`, `PeFiles` | the tree of resources and the strings of a version; the layout of the executables they are looked for in |
| `Wildcards`, `WildcardLanguage` | the matcher; what a pattern means |
| `ZmqMessage` | messages as sequences of frames, identities as 17 bytes or 33 characters, the envelopes of broker and workers |
| `Envelopes` | the frames of many requests on their way through broker and workers and back; who queues what is in `BrokerSystem` and `Cdcm`, here anything overtakes |
| `Plugins` | the loop over the plugins directory: which entries are loaded, and what the dispatcher points into |
| `Logger`, `SettingsFile` | the two configuration files and what they switch on |
| `BrokerSystemProofs`, `CallPromiseProofs`, `BrokerPromiseProofs`, `CdcmProofs`, `SessionsCacheProofs`, `SupervisorProofs`, `RemoteActionsProofs`, `AlgorithmsProofs` | theorems |
| `MCBrokerSystem`, `MCCdcm`, `MCSessionsCache`, `MCRemoteActions`, `MCLoops`, `MCAlgorithms` | instances for TLC |

`MessageBroker` EXTENDS `WorkerContainer` and `MdpSockets`; `BrokerSystem` adds
the environment; `Cdcm` EXTENDS `BrokerSystem` and `MessageWorker`, and puts the
processes of the second in the place of the first one's environment.
`RemoteActions` EXTENDS the three families, which EXTEND `ActionAnswers`.
`Supervisor` stands alone: for the messages, that a process dies and starts
again is all there is to see of it (`BrokerCrash`, `WorkerDies`, `StartWorker`).
Definitions with a comment "Fault:" are not part of any specification: each is
a plausible mistake in the definition after it, and `mutants` says which
property must notice it.

### How state and actions correspond to the code

*Broker.* `workers`, `requests` and `heartbeat_at` are the code's variables.
`todo` is its program counter: after a poll, at most one worker message, then at
most one client message, then the timers (`broker_loop`, 374-403). The while
loop of `service_dispatch` is one step per request (`DispatchTo`), because a
worker may answer the first request while the second is sent; the code tests
before the loop, once, that some worker is idle, and so does the model.
`worker_process` is five actions, one per command and one for everything else,
each with the calls the branch makes: `worker_waiting` for instance sets the
worker idle, renews its expiry and starts `service_dispatch`, which purges first.
`ProcessInvalid` drops a message of another header, and registers the sender of
an unknown command, as `worker_require` comes before the branches and this one
neither erases the entry nor looks at the queue. Such an entry is idle in the
register without its worker having said so; the history field `announced` of an
entry tells it from the others. The environment of `BrokerSystem` sends such
messages (`WorkerGarbles`), the real workers of `Cdcm` never do.

*Time.* Durations are ticks. An expiry is kept as the ticks left, `heartbeat_at`
as the ticks to go (negative: overdue, by one interval at most). The timeout
that `broker_loop` computes is a count of nanoseconds passed as milliseconds,
or negative, which waits for ever; so in effect the broker's poll never times
out and its timers run after a message only. The model has it so: a broker
without traffic sends no heartbeats, its workers reconnect, and that is the
traffic that drives its timers (run `cdcm_return`).

*Messages.* A request is a session, whether it holds actions the broker runs
itself, the number of actions for workers, and whether parsing throws on the
way. A header's session id starts empty (`EmptyId`); "N/A" (`NoSession`) is what
an entry of the register starts with, and what a client may send. A HEARTBEAT
behind an unread HEARTBEAT is not queued again: it does nothing but reset
`liveness_`, which the first does too. A socket that closes loses what it has
not read, and any suffix of what it has not passed on (linger is 0).

*Worker.* `phase` is the program counter. The queue of postponed actions is a
set keyed by action id, which the client chooses (`SharedIds`: calls number
their actions alike). The durations in it are far below a tick, so an action
may become due at any time, but once per pass.

*Cache.* `index` is the index by expiration as a sequence of nodes, `node` the
memory of the nodes. A node is put in behind all that expire no later (`Placed`,
at `upper_bound`), and taken out by leaving out its place (`Without`). An erased
node keeps its contents until `add` uses the memory again. Use of an iterator to
an erased node is undefined. The model lets the process read what is left, die
(or hang) with the lock, which is in shared memory and stays locked, or, where
the use writes (`modify` relinks the node's neighbours), damage the map:
`Damages` ends the model's claims, nobody does anything from then on, and no
property says what the code does with such a map. `answer` is what the call that
ends with a step returns, compared with that of `SessionStore`, whose `Expire`
takes just the expired sessions and whose `FailToOpen` needs a full segment.

*Maintenance.* Its thread is a process of `SessionsCache` that walks the index by
id without the lock (`list_begin`, `list_next`), and removes the files of every
session that is not in its list (`remove_files`). `alone` is a history variable:
it stays true as long as nothing is erased while another process holds an
iterator, and nothing changes between the two halves of a `clean`.

*Supervisor.* `child` is what each process does: it opens the shared memory,
which takes the lock, it runs, it is inside a section. One that dies inside
leaves the lock `"lost"`, and everyone who wants it waits from then on. Exits
are noticed in any order (`on_exit`); a spawn may fail, and is then never
retried (`failed`).

*Remote actions.* An action is in `pc`, what it keeps from call to call in
`work`, what it answers in `answer`. Each call into a samba library is a step
which succeeds with what `asset` is then, or fails. `seen` is the set of what
the asset was like while the action ran, `troubled` says that a call failed or
that the code read what it must not (the static lambda of `get_sd`, a pointer
that a failed call has not set). `current` and `leaked` are the contexts of
libsmbclient in the process, which outlive an action.

*Algorithms.* A loop is an action per turn, and its local variables are the
state: the rights that are left of an access mask (`flags`, `cont`), the bits of
a triple (`bitsContainer`), the place of a read (`reading.curpos`), the pieces
of an executable (`in_memory`, with `parsing` as the program counter). A
character of a registry text has 16 bits, of which the code looks at the lower
eight (`Low`), for the end of a text too. What a file says of itself is chosen
when it is looked at, not before: a piece that is mapped later and overlaps an
earlier one is read again, by the code too. `present`, `shortest`, `inBuf`,
`accessed`, `before`, `expired` and `posted` are history variables. In
`Envelopes` what is on the way is sets, so that messages may overtake, and those
the broker and workers keep may be used more than once.

Code that recurs over its data is operators. `MCAlgorithms` makes one input
longer, piece by piece, and compares what they compute with a definition that
does not follow their code: a pattern with the language it means, an executable
with what was laid out in it. An entry of a resource directory may be named by
a text; behind the first language `Language` then reads that text as data, as
the code does, and what is read there may lead out of the file (`Nowhere`).

### Bounds

Named in the modules: `MaxQueue` (messages between broker and one worker, in
`BrokerSystem`; or `Unbounded`, which the proofs suppose where a worker process
takes part; TLC's instances of `Cdcm` are bounded by its own protocol and set it
to a number never reached), `MaxGarbled` (a worker sends a foreign header or an
unknown command while fewer messages than that are on the way to or from any
worker and fewer entries of the register are not announced), `MaxActions`,
`MaxCrashes`, `MaxDeaths`, `MaxFailures` (spawns), `Backlog` (in `Cdcm` time
passes only while no more than so many messages of a worker wait, as otherwise a
broker that never runs lets its queue grow without end), `MaxTime`, `MaxChanges`
(of an asset during one action), `MaxMemory` (what `read_file` can allocate),
`Capacity` and `Slot` (the sessions a segment has room for, which is really
limited), `MinimumReadSize` (16 K in the code, two here: what matters is that a
chunk is longer than what was asked for), `MaxEntries` (of the plugins
directory), `MaxBytes` (of a file that is encoded), `MaxUnits` (characters of a
registry text). A call is sent once, so `Call` bounds the clients. The bounds of
the algorithms are the lengths in `MCAlgorithms`: patterns of five tokens, paths
of six pieces, trees of two types with two names and two languages, whose type
or first name and language may be texts. The texts' first characters are one
that is no directory's offset and two that are, of which one leads out of the
file.

## Runs

| run | instance | shows |
|---|---|---|
| `broker` | two workers, two calls (each local and malformed, with one action for workers), expiry 1, queue 2, messages of unknown commands and foreign headers one at a time, workers and calls symmetric | types; `WorkConserving`: outside the dispatch loop no request waits beside an idle worker that has announced itself; `LoopHasWorkerAndRequest`: `get_next_worker` is never null in the loop; `ForgottenStayForgotten`: a late REPLY or HEARTBEAT leaves no entry in the register |
| `broker_crash` | two workers, one call of no or one action that names no session, queue 2, one death of the broker | `KeepsPromise`: the system implements `CallPromise` |
| `cdcm_clock` | one process (two identities, for reconnections), a request of two actions, postponement, clock, one unread message per tick | `CdcmTypeOK`: types, among them that `liveness_` does not wrap; `ImplementsProtocol`: every step of the real worker is one that `BrokerSystem` allows |
| `cdcm_crash` | the same with one death of each side, nothing unread when time passes | `HandsAreClean`: no action stays in a queue after its result was sent; `ImplementsProtocol` through deaths |
| `cdcm_answer` | two processes, two calls; nothing dies, expires or is postponed | `EveryCallIsAnswered` |
| `cdcm_return` | one process, clock, one death of the broker | `WorkersComeBack`: it is registered again and again |
| `cache` | broker, maintenance and one worker, three sessions of two remotes, two nodes, idle time 1, time 2, deaths with the lock | whatever overlaps: types, `IndexInOrder` (the binary search of `clean` needs it), `UseOnlyProlongs`; while `alone`: `ImplementsStore`, with what each call returns, and `FilesOfOpenSessionsStay` |
| `supervisor` | broker and two workers, three deaths, three spawns that fail, a lock that is lost before or during the run | types and one holder of the lock; `NobodyIsForgotten`: who is missing has a callback to come or was given up; `StartIsClean`: a lost lock does not outlive the run it was lost in; `EveryoneRunsAgain` |
| `remote` | one worker, twelve actions, one change of the asset during each | `AnswersAreTrue`: without failure and change, the answer is the asset; `SuccessIsTrue`: with both, an action of one call succeeds with what the asset was at some time; `CodeTellsTheOutcome`; `TreeIsRestored`, `ContextsAreReturned`: what the next action finds; `ActionsEnd` |
| `algorithms` | what the next table says | every algorithm by itself |
| `selects_idle`, `cache_clean` | as `broker` and `cache` | violations, see Findings |

A behaviour of `algorithms` is one of the loops of `MCLoops` or one kind of input
of `MCAlgorithms` (`kind`); what it is not stays as it is at the beginning.

| of | instance | shows |
|---|---|---|
| `FileMapper` | a file of four bytes, minimum read size 2, any calls, reads and changes of length | `MappedIsRead`: what is said to be mapped has been read, as far as the file has always reached |
| `PeHeaders` | a file of 312 bytes: room for all headers, for some, or for a signature only; counts at, below and above their limits; up to two sections | `AddressesAreRight`: only what is mapped is looked at, and addresses are those of their sections |
| `SecurityDescriptor` | masks of up to three rights, on all kinds of objects | `RightsAreTold`: no right is said that is not granted; none that the mask has bits for, and no standard right that its generic bits stand for, is left unsaid |
| `Base64` | files of up to five bytes of seven values | `ContentIsKept`: the text has the announced length and gives the bytes back |
| `RegistryText` | blobs of up to five characters of 16 bits, with an end of text or not behind them | `LowBytesAreTold`: the low bytes of several texts are lines with none left out, those of one are told as they are, whatever is behind them in memory |
| `Plugins` | three entries, two names of actions | `ActionsAreFound`: an exported action is found, in a library that is open |
| `Envelopes` | two clients, one with an identity that the socket made up; two services, one worker; all that overtakes or is answered again | `AnswersGoBack`: an answer is for the client that asked, with the frames it expects |
| `LocalActions` | three ids, two remotes, room for one session, messages of up to three actions | `AnswersTellTheCache`: the answers agree with the sessions, also when one expires in between |
| functions | inputs up to the lengths above | `NamesAreMatched`; `PathsAreSplit`; `VersionIsTold`: the version is found among all resources, those with texts for names included, unless such a text leads out of the file; `ConfigurationIsTaken`: written is what is enabled under the number of its source, and a setting has the file's value or none |

Two workers and two calls are the least with which a request can be queued
behind a busy worker, dispatched to the wrong one, or be one of two that a
worker holds; two identities of one process are what a reconnection needs; the
register's entry of the former identity and the messages under its name are
still there then. Expiry and interval of one tick let every timeout race every
message. In the cache two sessions of one remote give a replacement, a third
one reuses a node; each process holds one iterator, and of each kind (broker,
maintenance, worker) one is enough to meet every section half way. Three deaths
take every process of the supervisor once, or one of them three times. In a
remote action a second change of the asset could only undo the first between
two calls. Three rights in a mask are two that overlap and one behind them; five
bytes are a triple and each of its remainders; a file of four bytes has chunks
that overlap, touch and are apart; three ids let a session be started, replaced
and started again; three entries of a directory are two actions of one name and
something else before, between or after them.

Runs without a clock, with a bounded time, with a lock that died, with inputs
of a bounded length or of an algorithm that ends stop for want of anything to do
and say `CHECK_DEADLOCK FALSE`; all others check that the system never gets
stuck.

*Fairness.* `CdcmFairSpec` has weak fairness of the broker's thread, of each
worker process's steps, and of the clock: each is a thread that blocks only in
`zmq::poll`, and poll returns when there is a message (or, in the worker, when
its timeout is over). Nothing is assumed of which branch is taken, of clients,
or of deaths. `EveryCallIsAnswered` needs that nothing is lost, so it is checked
without deaths and expiry: with them the code does lose requests (a request in
the socket of a worker that reconnects is gone), and `CallPromise` allows it.

`SupervisorFairness`: the supervisor and its event loop run, every callback is
called, and a process that holds the lock gives it back unless it dies (weak
fairness); who waits for a lock that is free again and again gets it, as the
mutex of Boost is a loop that tries (strong fairness of the steps that take it).
Nothing is assumed of deaths or spawns. In `RemoteActions` a call into samba
returns, by its timeout if need be (weak fairness of `Step`), with any result.

`alone` is not something that the code ensures: with it the cache is right; the
finding shows what it is without.

## Findings

* `message_broker.cpp:101`: `service_dispatch` sends to a busy worker. It tests
  before its loop that a worker is idle, and not again (`p.first` is not moved by
  `set_busy`), and `get_next_worker` is the entry that expires last, idle or
  not. The comment at line 90 says "select idle worker". A worker may thus hold
  two requests; it is idle in the register after its first REPLY, and can be
  purged while it works on the second, whose REPLY is then dropped.
* `shared_mem_sessions_cache.cpp:148`: `clean` may erase sessions that have just
  been added or used: the place up to which it erases is looked up in an earlier
  lock section.

Seen while modelling, and not stated as runs.

Broker and cache:

* `message_broker.cpp:151`: `worker_require` registers the sender of any message,
  and the branch for an unknown command or a malformed message (lines 191-193)
  does not erase it. The entry is idle, so the next dispatch may choose it; its
  own arrival dispatches nothing, so a request may go on waiting beside it;
* the session noted for a worker is the parameter of `service_dispatch`, which is
  empty when a REPLY or READY started it (line 111); busy entries never expire,
  although the comment at line 390 says "Disconnect and delete any expired
  workers" (purged ones are not told either);
* a malformed batch is answered with an error and executed as far as it was read,
  and its second reply unwraps one frame too many; an action `{}` is read through
  the first entry of an empty map (line 297); the answers of local actions that
  fail mostly carry no id;
* a lookup may return another session than the one that was asked for, or touch
  freed memory, and damage the map by relinking it
  (`shared_mem_sessions_cache.hpp:144`); `add` erases the remote's old session
  before it finds that the segment is full (`shared_mem_sessions_cache.cpp:96`).

Remote actions and their data:

* `registry_client2.cpp:125`: a lambda is `static` and captures locals by
  reference, so that from the second call on it reads and closes what the first
  call had on its stack;
* `smb_client.cpp:80`: the callback for credentials dereferences a session that
  may be gone;
* `registry_client.cpp:195`: results of the calls by index are not looked at;
  `enumerate_values` sets no code;
* a listing that breaks off keeps its handle open, and `lsa_client::get_secdesc`
  keeps that of the file until its connection ends;
* a key path of slashes only takes the first element of an empty vector; the
  strings of a version are read up to 32 bytes behind what was mapped; the search
  for `StringFileInfo` has no bound (`pe_context.cpp:509`), so a version without
  texts is read until memory ends; for every language behind the first the text of
  its name is read where its data should be (lines 413, 427);
* `registry_client.cpp:99`: a character of a registry text keeps its low byte, so
  texts beyond U+00FF are told wrongly and U+0100 ends one;
* `security_descriptor_utils.cpp:184-195`: of what a generic right stands for only
  the standard rights are told, not FILE_READ_DATA and the like;
* the end of a file that is truncated while it is read counts as mapped.

Configuration:

* the installed `module.xml` gives the supervisor the id 3, `Logger.h:60` says 4:
  its log messages are never written (`InstalledWrites`); `internal_init` does not
  look at what `load` returns, so a wrong version gives an empty configuration; a
  sink without a filter ends the start, as `LoggerConfiguration.cpp:124` catches
  another exception than the one that is thrown;
* a password stays in a log message that has an escaped quote in it, or that was
  cut at 4096 bytes (`Logger.cpp:387-402`);
* a `session_cache_size` of 4096 MB is one of 0 in 32 bits;
* `log_event` adds one to what `vsnprintf` returns, so that its test for an error
  never holds;
* settings that the file lacks are not initialised, and three of them are bound
  under another name than the one that is read; the installed `heartbeat_expiry`
  equals `heartbeat_interval`, so an idle worker may expire between two heartbeats;
* a worker that stops in order closes its plugins before the dispatcher that
  points into them is destroyed.

## Proofs

For all values of the constants, under the assumptions named in `Settings`,
`MdpSockets`, `BrokerSystem`, `MessageWorker`, `Cdcm`, `SessionsCache`,
`Supervisor`, `RemoteActions`, `FileMapper`, `PeHeaders`, `SecurityDescriptor`,
`Base64`, `RegistryText`, `LocalActions` and `Envelopes`: durations are
naturals, the expiry, the number of lives and the minimum read size are not 0,
requests are requests, worker identities and worker processes are finitely many
and none of the processes is called as the broker is, the codes for missing
parameters are among those for errors in a request, the lists of an asset are
lists, and the offset and size of a request are natural numbers, -1 or no
numbers, sizes and counts that files say are naturals, masks have 32 bits, bytes
8 and the characters of texts 16, an action is one that a client may send, no
session has the id that stands for none, and identities of workers and bodies
are text, while identities of clients are text or the 17 bytes that a ROUTER
socket makes up.

| module | theorems |
|---|---|
| `BrokerSystemProofs` | `TypeCorrect`, `WorkIsConserved`, `LoopNeverReadsNull`, `LateMessagesDoNotRegister` |
| `CallPromiseProofs` | `AnsweredAtMostOnce`: a consequence of the abstract specification alone |
| `BrokerPromiseProofs` | `BrokerKeepsPromise`: `BrokerSystem` implements `CallPromise`; `NeverAnsweredTwice`: what that means, in the broker's own variables |
| `CdcmProofs` | `ServiceTypeCorrect`, `HandsStayClean`, `ServiceConservesWork`, `ServiceKeepsRegister`: among its real workers only a READY registers; `ServiceImplementsProtocol`: the broker with its real workers is a `BrokerSystem`; `ServiceKeepsPromise`: it implements `CallPromise` |
| `SessionsCacheProofs` | `CacheTypeCorrect`, `IndexStaysInOrder`, `LivesAreNotShortened`, `FilesStay`; `CacheImplementsStore`: while `alone`, the cache implements `SessionStore` and returns what it returns |
| `SupervisorProofs` | `SupervisorTypeCorrect` (with the lock's one holder), `NobodyForgotten` |
| `RemoteActionsProofs` | `AnswersTellTheTruth`, `SuccessTellsTheTruth`, `CodesTellTheOutcome`, `TreeRestored`, `ContextsReturned` |
| `AlgorithmsProofs` | `AnswersFindTheirClient`, `LocalAnswersFindTheirClient`, `IdentityComesBack`, `EnvelopesAreKept`; `MappedHasBeenRead`; `HeadersAreMapped`; `RightsAreToldInWords`; `FileContentIsKept`; `LowBytesAreAlwaysTold`; `ActionsAreAlwaysFound`; `AnswersAgreeWithTheCache` |

`MaxQueue` bounds the queues of `BrokerSystem` and of nothing in the code: it is
there for TLC. The theorems about `BrokerSystem` hold for any bound and for
`Unbounded`; `ServiceImplementsProtocol` is about `Unbounded`, as a worker that
exceeds a bound does what `BrokerSystem` with that bound does not.

### Arguments

*Broker.* `TypeOK` is inductive. `WorkConserving` and `LoopHasWorkerAndRequest`
are not: both are about the loop of `service_dispatch`, and a step inside it
must leave a request and a worker for the next one. Their conjunction with
`TypeOK` is inductive: the loop is entered only with an idle worker and a
request, a worker is never erased inside it (messages of workers wait until it
is over), and it ends with an empty queue; a worker becomes idle only in
`worker_waiting`, which enters the loop unless the queue is empty (`IInv` in the
module). An entry that an unknown command has made is idle without that, so
`WorkConserving` is about those that have announced themselves.
`ForgottenStayForgotten` follows from the types and one case per action: READY
and `ProcessInvalid` are the only ones that leave a new entry. `MaxQueue` and
`MaxCrashes` appear in it only where the type of `crashes` does: the theorems
hold whatever the bounds are.

*Promise.* What is owed of a call (`Owed`) is a sum over places: what the
workers hold, its message while it waits for the broker, its request in
`requests_`, and what is on the way to and from each worker. Every step but the
client's own moves it from one place to the next or loses it, so `Owed` never
grows (`NoMoreOwed`), and it shrinks by just what a client is sent. The sum over
the workers changes in one term at a time, for which the workers have to be
finitely many. Two facts have to be added to `IInv` to make an invariant of it
(`PInv`): no call has been made twice (`OneRequestPerCall`), and what was
delivered and what is owed are together no more than was asked (`AnsweredOnce`).
Each action is then `Ask`, `Deliver` or `Lose` of `CallPromise`, or none of
them.

*Workers.* The invariant of `Cdcm` (`CInv`) adds to `IInv` that every worker is
in order (`WorkerOK`: outside `down` and `connect` it has a socket, while it
serves it has a life left, the results of a request are fewer than the actions
begun), which the types of liveness, results and replies need, and
`HandsAreClean` itself: what all workers have in hand of a call is a sum over the
processes, a step of one worker changes one term of it (`SumChanges`), and each
step changes that term by no more than it changes `held` (`InHandAsHeld`, one
lemma per step). For the refinements it has to be known too that a worker's
socket is connected and is not another's (`SocketsApart`), as an identity is only
chosen when nobody has it; that a worker never replies more than `held` is
`HandsAreClean`. What waits in the sockets of real workers is of the four commands
(`Known`), so among them the unknown command is no way into the register.

*Cache.* `CacheInv` is inductive for all overlaps, uses of erased nodes and
deaths: the types; what each process keeps between two sections is a place of
memory or the end (`IteratorsOK`); no session expires later than it could have
been given (`TimesOK`), since `touch` moves a node to the back of the index; the
open sessions were added; `OneSessionPerRemote`, as `add` removes the remote's
session in the section in which it puts the new one (the container's unique
index sees to it in the code too), and `IndexInOrder`, as both places where a
node is put are right for its time. `UseOnlyProlongs` follows from it. `AloneOK`
says what more there is as long as nobody gets in anybody's way: an iterator is
to a node in the map (`IteratorsAreValid`), everything in front of the place
that `clean` found has expired (`CleanTakesExpired`), and whatever was there
since maintenance began is in its list or still ahead of it (`ListIsComplete`).
With it the section of an operation that changes `sessions` or returns something
is the step of `SessionStore`, `clean`'s second one erases just those that have
expired, an `add` fails only with all nodes in use, and the others are none, and
the files that are removed are of no session that stayed open.

*Supervisor.* The type invariant counts who is inside a section, so it needs
that two processes never are: `OneInside`. For that a start must not meet a
process that is still there (`StartedOnce`: whoever is to be started, or has an
exit callback to come, is gone, and no name is both), and the lock that the
supervisor's own start makes new must be nobody's (`NobodyBefore`). Their
conjunction with `Types` is inductive, and `NobodyIsForgotten` is inductive
relative to it.

*Remote actions.* The invariants say what holds in the middle of an action.
While a SID is looked up the client's own tree is saved, and it is the client's
current one otherwise (`TreeInv`); whoever has a context of the file library of
its own, or may have one, keeps that which was current before (`ContextInv`).
That a code tells the outcome is inductive, since every way to end an action
sets both. For the truth of the answers (`ActionInv`) one has to know what an
action knows halfway: while no call has failed and the asset is what it was
(`Steady`), a listing has collected what the asset lists up to the place it has
reached (`RegistryKnows`), permissions have the names of the SIDs up to there
(`PermissionKnows`), and what has been read of a file is its content from the
offset on (`FileKnows`). When the asset does change, a listing that was taken in
one call is still what the directory was at some time of the run (`ListingInv`).
Every way to end an action then gives the truth, or an error that a failure
explains.

*Envelopes.* A frame that is text (no zeros, and not like the 33 characters of an
identity) passes through `send`, `recv` and C strings unchanged (`PlainStays`);
an identity comes in as a text that passes unchanged and goes out as itself
(`IdentityIsCarried`). `send` and `recv` work frame by frame (`ReceivedInFront`),
so a message can be followed from its front through broker, worker and broker.

For `EnvelopesAreKept` these facts say what each thing on the way looks like: it
is a request, a dispatched request or an answer that was made from something
that a client has posted.

*Files in memory.* What counts as mapped has been read as far as the file has
always reached, and of the read that goes on all bytes before `curpos`; a read
that ends has reached the end of its chunk or of the file, and a file that
becomes shorter only takes from what has to be there.

*Headers.* The invariant says for each place of `parse` which pieces have been
mapped (`HeldOK`), and that no mapped piece is longer than the file. Mapping only
adds pieces, so what `parse` looks at next is there; `pe_directory_by_entry` and
`pe_rva2ofs` look further, at parts of the pieces of its last two steps. In the
loop over sections the one that an address is in is found before any other if
sections do not overlap (`OffsetComesFrom`).

*Rights.* Of two rights that a table has words for, one includes the other or they
have no bit in common (`RightsAreNested`), and the loop comes to the wider one
first, as the numerically greater. So what takes bits from a right that is still
to come is a wider one, which has then been said; `MaskInv` says that every right
of the mask has been said or is still to come with all of its bits, and that
bits which are gone have been said. The generic bits stay, as no word has them;
their standard rights are said by a table of their own, and the others they
stand for are not said at all, so the property does not ask for them.

*Base64.* The triples that were written stand for the bytes up to there, and the
container holds the one or two bytes since (`Base64Inv`); a number below 2^24
is its four letters, and a padded one is a triple with zeros.

*Registry texts.* Only the low bytes count, for what is told and for what ends a
text. In the loop no character that was passed is where the texts are over,
but for the last of the blob, behind which the code may have seen anything
(`LoopOK`). So several texts are told up to there; one text of n characters was
told while the loop was at its end or one behind it (`SingleSoFar`).

*Plugins.* What is kept is just what exports an action, and of a name the code
is the last library's that exports it, while the text is some kept library's.

*Local actions.* No id is given twice, and the id in the header was given
before, so no answer of a batch is about a session that a later `close_session`
of it closes. A session that was started is there, has expired or was replaced
by an action behind (`StartedOK`), and one that was there before and is not any
more has a reason (`GoneOK`); each new answer is added to that with what its
action did.

### Model-checked only

* Liveness (`EveryCallIsAnswered`, `WorkersComeBack`, `StartIsClean`,
  `EveryoneRunsAgain`, `ActionsEnd`) is out of the prover's reach.
* The algorithms of `MCAlgorithms` (`NamesAreMatched`, `PathsAreSplit`,
  `VersionIsTold`, `ConfigurationIsTaken`): `Wildcards`, `AssetData`, `PeContext`
  and `Logger` are recursions or folds over data, of which nothing can be said
  for every input without an induction whose scheme takes an operator. `SettingsFile` is about the installed file, one input.
* The two findings, which are about one instance by nature.

## Not modelled

* The choice of identities: a new socket gets one that nothing remembers.
  `set_id` draws them without a seed, so that two workers may well share one;
  with that every property of the register would be lost.
* A worker's message that is a header and nothing else (an assertion ends the
  debug build there), the counter `replied_`, JSON, and the formatting, rotation,
  error texts and removal of passwords of logs.
* A map of sessions that a stale iterator has damaged.
* Credentials beyond whether a logon succeeds, and the bytes of the segment:
  `Slot` says how many sessions it holds.
* What the samba libraries do inside a call, and Windows behind them.
* The configuration of services, and the unloading of plugins at the end of a
  worker.
* `inproc_sessions_cache`, the thread, timer and observer helpers, the matcher
  classes of `wildcards.hpp`, and `flush_all_entries`: nothing here calls them.

## Plan

Every safety and action property of the broker, the workers, the cache, the
supervisor, the remote actions and the algorithms that are loops is proved. What
is left:

1. Of the hazards without a property, the queue of postponed actions under one id
   (`message_worker.cpp:276`) and the busy entries that never expire
   (`message_broker.cpp:66`): of the first no doc says what should happen; the
   second is at odds with the comment at line 390, and would be one more run like
   `selects_idle`.
2. The algorithms that recur over their data could become loops with a step per
   element, as access masks, registry texts and base64 are; the wildcards and the
   tree of resources would need the stack of their recursion as a variable.
