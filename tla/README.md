# Ailoy in TLA+

Ailoy runs language models and tools inside one process. A user's runtime
object, a message broker and one or more virtual machines (VMs) are threads that
exchange packets through in-process sockets. On top of them come the agents,
vector stores and text splitters a user works with, and underneath the cache
from which a VM loads its models. These modules model that machinery
from the C++, Python and TypeScript sources under `src/`: what each thread, each
coroutine, each continuation and each process does with a signal, a packet, a
request or a file, in which order, and what can happen between two of its steps.
TLC checks small instances; TLAPS proves the theorems of the eight `*Proofs`
modules for any number of clients, channels, transactions, replies, processes,
items, files, queries and splits, and for texts of any length.

    tlc -workers 2 -config MCAiloy.cfg MCAiloy
    tlapm BrokerProofs.tla          # or any other *Proofs module

## 1. The system

    user ── Runtime ──┐                        ┌── VM thread ── operators,
    (runtime.py)      │  broker_client_t       │   (vm.cpp)     components
                      └──── socket ── broker ──┘
                                    (broker.cpp)

    Agent, VectorStore ── Runtime          operators ── model cache ── server
    (agent.*, vector_store.*)                       ├── language model (engine), OpenAI
                                                    ├── FAISS, Chroma server
                                                    └── text splitters

| Component | State | Operations | Modelled |
|---|---|---|---|
| Signals and monitors (`thread.cpp`) | a queue of signals per monitor; which `notify_t` and `stop_t` has which monitor | `monitor`, `notify`, `set_monitor`, `stop` | inside `Inproc`, `Broker`, `BrokerClient` |
| In-process sockets (`inproc_socket.cpp`) | dialer (acceptors, waiting connections), mailboxes of 128 packets, peers | `connect`, `accept`, `attach`, `send`, `recv`, acceptor's constructor, destructor and `on_monitor_set` | `Inproc` (per critical section), `Broker` |
| Packets (`packet.hpp`) | type, transaction id, channel, headers | `dump_packet`, `get_channel` | the fields that are branched on |
| Broker (`broker.cpp`) | `sockets`, `subscriptions`, `transactions` | one branch per packet type, `broker_start`, `broker_stop` | `Broker` |
| Broker client (`broker_client.hpp/.cpp`) | socket, monitor | constructor, `send`, `listen`, `recv`, destructor | `BrokerClient` |
| Virtual machine (`vm.cpp`) | `vm_states`, imported modules, `components`, `expected_responses` | `vm_start`, `vm_stop`, four `handle_*` | `VM` |
| Operators and components (`module.hpp`) | state of a stream | `initialize`, `step` | as black boxes of `VM` |
| Python runtime (`runtime.py`) | `_responses`, `_exec_responses`, the listening event | constructor, `call`, `call_iter`, `define`, `delete`, `stop` | `Runtime`; `AsyncRuntime` |
| Python bindings (`binding.cpp`) | two threads | `start_threads`, `stop_threads` | `Ailoy` (stop) |
| Node.js runtime (`runtime.ts`) | resolvers, buffered packets, the listener promise | `start`, `stop`, `callIter`, `next`, `listen` | `NodeRuntime` |
| Agents (`agent.py`, `agent.ts`) | the history of messages, the tools, a valid flag; each query's place in its generator | `define`, `delete`, `add_tool`, `query` | `Agent` |
| Vector stores (`vector_store.hpp`, `faiss_*`, `chromadb_*`, `vector_store.py/.ts`) | index, documents and counter in memory; a collection on a server and its id in each client | `insert`, `insert_many`, `get_by_id`, `retrieve`, `remove`, `clear`, `define`, `delete` | `Items`, `Store`, `StoreCalls`, `Faiss`, `Chroma`, `VectorStore` |
| Model cache (`model_cache.cpp`) | a directory with a manifest and files | `download_model`, `remove_model`, `list_local_models` | `ModelCache` |
| Language model (`language_model.cpp`, `mlc_llm_engine.cpp`) | requests, output mode, tokens of a tool call, last error | `infer` (`initialize`, `step`) | `LanguageModel`; tensors and the embedding model are not |
| OpenAI component (`openai.cpp`) | none | `infer` | in `Agent` |
| Text splitter (`split_text.cpp`) | the loop's queue and totals, the recursion | the two operators | `Merge`, `SplitText` |
| Tools and MCP | | calls of a tool | as `Agent` sees them |
| Chat template | | marks of tool calls, the JSON test | in `LanguageModel` |
| Other modules, values, logging, command line | none that outlives a call | | not modelled |

How they interact:

* A client's socket asks an *acceptor* to be accepted; with no acceptor yet it
  waits up to a second in the dialer's list. The broker's thread pops `accept`
  off its monitor, takes one socket out of the acceptor's mailbox and attaches
  the two ends.
* A send puts a packet in the peer's mailbox and then a `recv` signal on the
  peer's monitor. The receiver pops a signal and then a packet. Nothing ties a
  signal to a packet except that they are as many, which is why several
  properties below count both.
* `connect`, `disconnect`, `subscribe` and `unsubscribe` are answered by the
  broker. An `execute` is forwarded to the subscriber of its channel, and its
  `respond_execute` replies go back through the table of transactions.
* The VM subscribes a channel for each operator and factory it imports, and for
  each component it is asked to define. A call is a stream of replies numbered
  from 0 that ends with a `finish` header or with a failure.
* The runtime files each reply under its transaction and number; the generator
  of a call takes number 0, 1, 2, ... from there.
* Coroutines of `AsyncRuntime` take turns in listening for all of them; in
  Node.js one promise listens for every pending `next()`, `start()` and `stop()`.
* `stop()` disconnects the runtime, then `vm_stop`, join, `broker_stop`, join.
* An `Agent` is a component of the VM and a history in the user's process. A
  query is a generator: it calls `infer`, shows what comes, calls the tools the
  model asked for, appends their results and infers again. All queries of an
  agent share the history.
* A `VectorStore` is two components, an embedding model and a store. Two
  processes whose stores name one Chroma collection share what is in it.
* A VM that is to define a language model first runs `download_model`. Processes
  share the cache directory and nothing tells one of another.

What is hard here: threads (users, broker, VMs, callers of
`stop`) that share mailboxes and monitors; notifications that are dropped when
the monitor is not there yet; signals that are taken for what they are not;
full mailboxes nobody looks at; replies routed by a table another packet
wrote; answers that do not wait for what they announce; a shutdown that joins
threads in turn; processes that share a collection or a directory and delete it
under each other; downloads that are cut off anywhere; state of one generation
that is left for the next; a history that several generators append to; unsigned
totals that are counted down. `PROJECT.json` lists these under `hazards` with
their lines and the properties aimed at each.

What makes each component correct:

* **sockets**: a connection that was promised is kept and accepted once, and
  signals and packets stay in step;
* **broker**: a channel has one connected holder and changes hands through it
  alone; replies reach the caller and nobody else; a stream arrives in order
  and ends at its finish;
* **VM**: what `define` and `delete` have answered is so; the broker's table
  and the VM's components agree; every execute is answered; it leaves when told;
* **runtimes**: a caller gets the values of its call in order, each once, and then
  its end; whoever waits is woken; after a call's end nothing of it is left;
* **bindings**: `stop()` returns;
* **vector stores**: what is found is what was added under that id, until it is
  removed or cleared; no id is given twice; what was defined can be deleted;
* **model cache**: a call succeeds only with all files whole, does not touch those
  that are, and trying again repairs whatever an interrupted call has left;
* **language model**: what is put out is what the generated text means as a whole;
* **agents**: every tool call in the history is answered, in order, before the next
  inference; a query ends; the component exists exactly while the agent is valid;
* **text splitter**: totals never wrap, no chunk is longer than asked for, and
  nothing but separators and white space is lost.

## 2. The modules

| Module | Models | Extends |
|---|---|---|
| `Inproc` | dialing, accepting, monitors and mailboxes at the grain of the mutexes | |
| `Broker` | the broker's state, its loop, and the effect of a client's calls on the shared state (`Dial`, `Push`, `Hangup`) | |
| `BrokerClient` | the broker with arbitrary clients: the abstract specification of the VM and the runtime | `Broker` |
| `VM` | `vm_start`, `vm_stop` and the handlers | `BrokerClient` |
| `Runtime` | the Python runtime | `BrokerClient` |
| `Ailoy` | broker, VM and runtime in one process, `stop_threads` | `VM`, `Runtime` |
| `Streams` | what a runtime promises its callers: the abstract specification of the two below | |
| `Service` | a runtime's environment: replies of the VM, responses of the broker, one mailbox, `listen()` | |
| `AsyncRuntime` | coroutines that share one listener, their cancellation, `stop()` | `Service` |
| `NodeRuntime` | resolvers, buffers, the listener promise and the order of jobs | `Service` |
| `Items` | the contents of a store: ids and documents | |
| `Store` | what `vector_store.hpp` promises: the abstract specification of the vector stores | `Items` |
| `StoreCalls` | how a call of a store's operator ends | `Items` |
| `Faiss`, `Chroma` | the two stores | `StoreCalls` |
| `VectorStore` | both stores, the component's operators and the users' classes | `Faiss`, `Chroma` |
| `ModelCache` | the directory of one model, the processes that use it, the server | |
| `LanguageModel` | the engine's request and the `infer` operator, with a reference reading of a text | |
| `Agent` | an agent, its queries and tools over the VM's own model or OpenAI's | `LanguageModel` |
| `Merge` | the loop that merges splits into documents | |
| `SplitText` | the two operators around it | `Merge` |
| `BrokerProofs` | theorems about `BrokerClient` and `Ailoy` | `Ailoy` |
| `ServiceProofs` | what the two runtimes' proofs have in common | `Service` |
| `AsyncProofs` | theorems about `AsyncRuntime` | `AsyncRuntime`, `ServiceProofs` |
| `NodeProofs` | theorems about `Inproc` and `NodeRuntime` | `Inproc`, `NodeRuntime`, `ServiceProofs` |
| `StoreProofs`, `CacheProofs`, `AgentProofs` | theorems about `VectorStore`, `ModelCache`, `Agent` | each its own |
| `SplitProofs` | theorems about `Merge` and `SplitText` | `SplitText` |
| `MC*` | values for the constants | |

Definitions keep the source's names where there is one: `handle_define_component`,
`vm_stop` and `stop_threads` are the functions, `subscriptions`, `transactions`,
`components` and `vmStates` the tables. `PROJECT.json` maps every definition to
its lines.

### Inproc

One variable group per thread. `spc` walks the broker's thread from the
acceptor's constructor (`CreateAcceptor`) over `set_monitor`
(`SetAcceptorMonitor`, then `on_monitor_set` as `ServeWaiter` for each waiter
and `EraseWaiters`) to its loop (`AcceptGet`, `AcceptAttach`,
`AcceptSetMonitor`, `Recv`) and down. `cpc` walks each client through
`socket_t::connect` (`ConnectNow`, or `ConnectWait` and then `ConnectWoken` or
`ConnectTimeout`) and the two halves of a send (`SendSet`, `SendNotify`). A dial, too, puts
its socket in the acceptor's mailbox (`RequestSet`) and then notifies (`RequestNotify`), at
once, in `ConnectNow` followed by `ConnectNotify`, or in the walk of the waiting list, in
`ServeWaiter` followed by `WalkNotify`: the broker's `get()` takes no
mutex of the dialer and can run in between. One
step is what a thread does under one mutex. Two ghosts, `unheard` and `early`,
remember the clients whose signal was notified while no monitor was there.

### Broker

`signals` is the queue of the broker's monitor, `inbox[c]` the mailbox of its
socket for client `c`, `outbox[c]` and `notes[c]` the client's own mailbox and
monitor. A step of the broker is the handling of one signal, except that
`accept()` and the `set_monitor()` after it are two steps (`Accept`,
`Register`): in between a client can already send. `Push` is a client's send,
`Deliver` one of the broker's. Each refuses when the mailbox is full, and
`lost` remembers the transactions that lost a packet that way. `Owned` says whether any
`shared_ptr` keeps a broker-side socket alive: the table of transactions can,
after its client has disconnected.

A step takes a mailbox and the monitor behind it together, where the code takes
two mutexes one after the other. `Inproc` keeps them apart: it shows
(`SignalsMatchPackets`) that in between the packet is one ahead of
its signal, which the receiver, who starts from the signal, cannot see.

### BrokerClient

Adds to each client the uuids it has used, the executes it works on
(`worker`), the number of the next reply (`next`), and a ghost count of replies taken
(`got`). `ClientStep` lets a client do anything the class allows at any moment:
dial, send any request, listen, answer an execute it has received, be told to
stop, vanish. `Spec` is thus the strongest statement of what the broker must
bear, and the abstract specification that `Ailoy` is shown to implement.

A uuid has an `Issuer`, so that two clients never draw the same one: version-4
uuids are taken to be unique.

### VM

`vpc[v]` is the place in `vm_start`. A handler is taken when its execute is popped: it
changes `components`, fills `todo` with the (un)subscribes it will send and
`job` with the answer it owes. Then `VMSend` sends one packet a step, as it does in the
import of the modules and when the VM leaves, and
`VMReply` answers once `todo` is empty, the order the code has. A definition adds its
component to `components` only there, behind all its subscribes; until then its
name is in `job`. A deletion takes it out before the first unsubscribe. An operator
call yields any number of outputs up to `MaxSeq`, then a finish or an error.
`VMStop`, `VMSqueeze`, `VMSqueezeTimeout`, `VMSqueezed`, `VMSendDisconnect`,
`VMGoodbye`, `VMReturn` and `VMThrow` are the ways out. `retry` is one variable
for all VMs, because the code's counter is `static`.

### Runtime

A call is `RTCall` (the execute is sent), `RTListen` (`_sync_listen` files one
packet) and `RTTake` (the generator pops the number it waits for; a `define` or `delete` that
failed leaves its packet where it is). Because
listening and taking are separate and several calls may be open, the behaviours
include those of the synchronous `Runtime` (generators interleaved by their
user). `AsyncRuntime` adds what its coroutines do about listening.

### Ailoy

Each turn is a step of one thread with the others unchanged. `RTStopVM`,
`RTJoinVM` and `RTJoinBroker` are `stop_threads`. A `vm_start` that throws does
so on a `std::thread` with nobody to catch it, so the process ends:
`Terminated` disables everything.

### Streams and Service

`Streams` knows only what the VM has produced for a call (`made`, `ended`) and
what its caller has been `given`: values are handed over in order, one at a
time, and the call ends where the VM ended it or where the caller left it. It
says nothing of mailboxes, listeners or buffers. `Service` is the rest of the
system as a runtime sees it: any running call may produce its next reply, a
`connect` or `disconnect` that was requested is answered, everything arrives in
one mailbox, in order. `listen()` returns the first packet or, after its
time-out, nothing. That the rest of the system does behave so is the matter of
`MCAiloy` (order, finish, no loss below the limit of a mailbox).

### AsyncRuntime

`task[tx]` is the coroutine that iterates over the call `tx`: its user has a
value (`held`), it waits for somebody's event (`waiting`), that event was set
(`ready`), or it awaits its own thread (`listening`). A step runs a coroutine
to its next `await`: `Deliver` files the packet, sets the event, gives up the lock
and goes on into the generator (`Run`), which may take a value, end, wait or
listen again before anybody it woke has run. `lock` is `_listen_lock`, `pool`
the `to_thread(listen)` calls that have yet to run, `hand[tx]` a packet that is
back from its thread and not yet seen by the loop. `Cancel` leaves the lock
taken, because `_listen` has no `finally`. `stop()` is no coroutine: between
`Stop` and `Stopped` the loop runs nothing else, but threads do.

### NodeRuntime

`jobs` is the queue of continuations. A packet that comes in (`OnOK`, the step
of the main thread after `Execute` on a thread of the pool) resolves first the
promise of the user it is for and then the promise all loops await, so the
user's continuation (`UserGoesOn`, `UserIsTold`) runs before the loops
(`ExecLoop`, `ControlLoop`). User code runs between any two jobs: `callIter`,
`next`, `Leave`, `start` and `stop` are enabled then. A user never calls
`next()` before the last one is settled, nor after it was rejected, which is the
iterator protocol; `for await` keeps to it.

### Faiss, Chroma, VectorStore

A document stands for its text, metadata and embedding together; which documents
are similar to a query is left open, so `retrieve` may find any `k` of them.
`Faiss` has the two containers of the code apart, `index` (the library's) and
`documents`, and the counter that numbers what goes into both. `Chroma` has the
server's one collection and what each client remembers, `collectionId`. A client
sends one request a step: `create` is `PostCollection` and, when the collection
exists, `GetCollection`; `clear()` is `DeleteCollection` and then a `create`. The
server handles a request in one step, a request may not arrive (`NotServed`) and
an answer may not come back (`Answered`): the client dereferences the result it
did not get, so it throws. `overtaken` is a ghost that says another client has
deleted the collection a client still uses, `before` one that remembers what a
`clear()` found.

`VectorStore` has for each process the place of its user (`pc`: `defining` and
`deleting` are between the two requests of `define()` and `delete()`, `creating`
and `clearing` between those of a Chroma client) and the two components. An
exception on its way out of the VM (`thrown`) is caught by nobody, and the
process can only `Terminate`, as it can at any other moment; then one may be
started in its place. `CallRefused` stands for every call that is answered with an error
and changes nothing, and a store whose constructor throws (`DefineStore`: no dimension) ends
the process like any other exception. An id is a number the store has given or `Foreign`,
any text that is none; an answer is recorded under the id that was asked for, whatever the
store has made of it (`Strtoll`).

The refinement to `Store` maps `docs` to the FAISS documents of the one process
that has them, or to the rows on the server, and `given` to the numbers below the
counter. Crashes, lost answers, overtaken clients and failed requests must then be
steps of `Store` or leave it alone; an answer of a client that has been overtaken says
nothing about the store and is an `Idle` step.

### ModelCache

`pc[p]` walks `download_model`: `get` the manifest if there is none, `open` and
`write` it (two steps: opening empties the file), `read` it, `check` one file after
the other against its checksum, and for each that is missing or wrong (`next`)
`receive` it chunk by chunk. A chunk opens the file by its name, the first to
empty it and the others to append, so two processes can write one file together.
What comes for a file is what the server has (`Answers`) or, from something in the
server's place that answers everything with a status of 200, a page or nothing at all:
nobody compares it with the checksum. When a body is empty, the release's or not, the
receiver is never called and no file is opened (`ReceiveNothing`).
The manifest is that of a release, `Absent`, `Broken` (not JSON)
or `Other` (JSON, but without files: never removed by a download). A broken one is
read in one step (`ReadManifest`) and removed by its name in another (`DropManifest`),
whatever is there by then; one who has it open goes on writing to an unlinked file (`held`). `Publish` lets
the server move on to the next release. `Fail` covers the broken connection, the
interrupt and the kill, wherever the call is; `ReceivePage` writes the body of an
error. Three ghosts: `alone`, the processes that nobody has disturbed since their
call began; `wrong`, the files this call was sent by something else than
the server; and `calm`, the one process left from some moment on, after which
nothing fails any more and the server itself answers.

### LanguageModel and Agent

A generation is a sequence of pieces: a mark (`botc` and `eotc` around a tool call,
`think` and `unthink` around reasoning), a word, or a text that is JSON by itself.
`Parse` and `Delta` are the code's mode machine, whose `mode` and `tokens` belong to
the engine and outlive the request. `Reading` is the reference: it defines by
quantifiers over the whole text which pieces are inside a call, which are thoughts,
and so what deltas should come of it. `clean` says that no earlier generation broke
off in a call or in a thought.

`Agent` takes a query from one response to the next. `pc[q]` is where its generator
stands: `stream` (it waits for a delta), `ending` (the last response has been given), `calling`,
`tools`, `results`. The VM serves one call at a time, in order (`inbox`): an
inference is served over many steps (`Generate`), during which the rest waits.
What a query that was left has coming is dropped. In Python tools run one after the
other and what one throws ends the query; in JavaScript they run together, and one that
throws leaves its promise unsettled or ends the process. A text between the marks that is
JSON need not be a call of tools (`Malformed`): Python finds that out before anything of the
message is in the history, JavaScript after, with no calls in it. OpenAI never answers with an empty
list (`OpenAIAnswers`). `disturbed` is a ghost that
says the history was shared by two queries, or a tool call was left in the middle.
How packets get from the VM to the query is not repeated here: that is what the
runtimes' refinement of `Streams` is about.

### Merge and SplitText

A split is an interval of positions in the text, so documents and chunks are
intervals too and nothing depends on what the characters are. `Merge` has the loop's
variables; the `deque` of the code is the splits from `first` to `next - 1`.
`Push`, `CompleteDocument`, `Pop`, `PushAfter` and `CompleteLast` are its ways
through the loop. `SplitText` adds the conversion of sizes (modulo `Word`, which
stands for 2^64), the check that throws, the splitting at a separator and
the recursion over separators, as a stack. `utils::split_text` is a loop: `SplitOff` takes
one split from the left of what is `left`, and `SplitDone` hands all of them (`AllParts`)
to the merge or to the call that asked for them.

## 3. What the runs check

| Run | States | Shows |
|---|---|---|
| `MCBrokerClient` | 322,000 | the broker's safety with arbitrary clients |
| `MCInproc` | 75,000 | dialing and sending, three clients, safety and liveness |
| `MCAiloy` | 223,000 | the whole system's safety, and `SysSpec => Spec`: VM and runtime implement the arbitrary client |
| `MCAiloyLive` | 90,000 | calls end, also one that meets the deletion of its component on the way; `stop()` returns, a VM that left is forgotten |
| `MCAsyncRuntime` | 128,000 | two coroutines, one of which may be cancelled, and `stop()`: safety, liveness, and `AsyncSpec` implements `Streams` |
| `MCNodeRuntime` | 107,000 | two iterators, `start()` and `stop()`: safety, liveness, and `NodeSpec` implements `Streams` |
| `MCVectorStore` | 81,000 | two processes on one Chroma collection, or one on FAISS, with crashes and lost requests and answers: both stores implement `Store` |
| `MCModelCache` | 753,000 | two processes download and remove a model while a new release comes out, with every kind of failure and a proxy's wrong answers; then one tries again |
| `MCAgent` | 918,000 | agents of both bindings and both backends, two queries, tools that answer, throw or call the VM, every text of four pieces |
| `MCSplitText` | 2,954,000 | every text of seven characters, split by both operators with every size and overlap |
| `MCAiloyDefine`, `MCAgentLength` | | disagreements with the documentation, section 6 |

`MCAiloy` has the identity as its refinement mapping: the variables of
`BrokerClient` are those of `Ailoy`, and every step of a VM or a runtime must be
a step of `ClientStep` or leave those variables alone. The invariants checked
and proved of `Spec` therefore hold in the whole system. The mapping of the two
runtimes to `Streams` (`Promised` in `Service`) is the identity on `made`,
`ended` and `given`, and on `call` but for one thing: a caller who has the last
value in its hands counts as returned, though it has not yet asked again.
Whatever else the runtimes do must leave these alone or hand over the next value.

Properties, by the question they answer (several are conjunctions of named parts,
which their modules define just before them):

* *Is what was promised kept?* `ConnectionsAreKept`, `ConnectionsComeToBe`
  (sockets); `RoutesFollowComponents`, `RegistryAgrees` (VM against broker);
  `StoreKeepsPromise`, `ClearForgets` (stores); `SuccessIsWhole` (cache);
  `ComponentFollowsAgent`.
* *Are packets and signals in step?* `SignalsMatchPackets` in `Inproc` and in
  `BrokerClient`, and a part of `SystemIsSound` in `Ailoy`
  (there the code dereferences what it received unchecked).
* *Do streams arrive whole?* `RepliesReachTheIssuer`, `StreamsAreWhole`,
  `EndedIsOver`, `SentIsTaken`; `AsyncKeepsPromise`, `NodeKeepsPromise`;
  `AnswerIsParsed` for the text in them.
* *Is a packet where somebody will look for it?* `PacketsAreKept`,
  `PacketsFindResolvers`: a reply that has not been taken is in exactly one of the
  mailbox, a thread's hand and the buffer, and one that is awaited is not in
  the buffer.
* *Is there one who listens, and only one?* `SomebodyListens`, `OneListen`.
* *Who holds a channel?* `SubscriberIsConnected`, and `NoHijack`, an action
  property: a channel leaves its holder only by the holder's own request.
* *Does it end?* `CallsEnd`, `StopReturns`, `GoneIsForgotten`; `TasksReturn`;
  `NodeCallsSettle`; `QueryEnds`; `TryingAgainHeals`.
* *Does a failure do no more harm than it must?* `OnlyFaultsKill`, `NothingLeaks`,
  `GoodFilesStay`, `HistoryIsSound`.
* *Do the bounds of a calculation hold?* `TotalIsExtent`, `DocumentsFit`,
  `ChunksFit`, `NothingIsLost`.

A property says what holds of the code as it is, so some state an exception.
Each exception is a behaviour the model has and the code has:

| Property | Except | Because |
|---|---|---|
| `SignalsMatchPackets` of `Inproc` | one packet or socket per thread that is about to notify | `set` and `notify` are two critical sections (`inproc_socket.cpp:91,155`) |
| `SignalsMatchPackets`, `SentIsTaken` | clients in `early` | a signal is dropped that comes between `accept()` and `set_monitor()` (`broker.cpp:64`) |
| `ConnectionsComeToBe`, `SignalsMatchPackets` of `Inproc` | while somebody is `unheard` | one who dials between the acceptor's constructor and its `set_monitor()` gets `true` and is never accepted (`inproc_socket.cpp:132`) |
| `StreamsAreWhole`, `RegistryAgrees`, `RoutesFollowComponents`, `CallsEnd` | transactions in `lost` | the result of a send to a full mailbox is ignored (`broker.cpp:144`): a define whose subscribe was dropped still succeeds, the stream goes on behind the gap, and a runtime waits for the missing number for ever |
| `StopReturns` | a VM that is not yet in its loop | a stop that comes while the VM waits for the answer to its connect is taken for that answer (`vm.cpp:144`), and the join never ends |
| `TasksReturn` | an orphaned lock | a coroutine cancelled at its `await` leaves the event in place (`runtime.py:104`) |
| `TasksReturn` | `TakenFromStop` | the thread of a coroutine's `listen()` may take the response `stop()` waits for (`runtime.py:48`) |
| `NodeCallsSettle` | a `stop()` with nothing to stop | the continuation of `await start()` runs before the loop that sets `alive` (`runtime.ts:64`), and a `stop()` there resolves without stopping |
| `StoreKeepsPromise`, `OnlyFaultsKill` | answers to and exceptions of `overtaken` clients | `clear()` deletes a collection others still use by its id (`chromadb_vector_store.cpp:133`) |
| `StoreKeepsPromise` | in memory, an id that is no number | `strtoll` makes 0 of it, so item 0 is returned or removed (`faiss_vector_store.cpp:85,140`; section 6) |
| `OnlyFaultsKill` | `get_by_id` of an absent id at Chroma | the empty answer is indexed unchecked (`chromadb_vector_store.cpp:191`; section 6) |
| `NothingLeaks` | a store of unknown type | the embedding model is defined first and stays (`vector_store.py:133`, `vector_store.ts`) |
| `SuccessIsWhole`, `GoodFilesStay` | calls that have been disturbed | processes share the files without a lock |
| `SuccessIsWhole`, `TryingAgainHeals` | files a later release has replaced | files are requested by name, whatever the manifest's release; nothing is checked after the download |
| `SuccessIsWhole` | files in `wrong` | any body with a status of 200 is kept, and nothing is verified after the download (`model_cache.cpp:291-314`; section 6); the next call finds it |
| `SuccessIsWhole`, `TryingAgainHeals` | files without bytes (`Bare`) | the content receiver, which makes the file, is not called for an empty body (section 6) |
| `TryingAgainHeals` | an `Other` manifest | JSON without a list of files is never fetched again (`model_cache.cpp:488`); `remove_model` helps |
| `AnswerIsParsed` | after a generation that broke off (`clean`) | `mode_` and `tool_call_tokens_` belong to the engine (`mlc_llm_engine.cpp:309`), until an end of a call has cleared them |
| `HistoryIsSound` | when `disturbed` | a query left in a tool call, or one that runs beside another, leaves a call without its results in the shared history |
| `QueryEnds` | a VM that spins; a tool that throws in JavaScript | `language_model.cpp:256`; `agent.ts:652` |
| `ComponentFollowsAgent` | `delete()` of `agent.ts` | its test of the runtime is the wrong way round (`agent.ts:316`), so the component stays |
| `DocumentsFit` | a single split; one behind splits of no length | that is how far the inner loop pops |

Every property is accompanied by a *variant* (comments that begin with
"Variant:"): a definition with a plausible mistake in it, for instance a
notification only for the first packet of a mailbox. With the variant in place
of the original the run must report the property violated, so no property holds
merely by the shape of the model.

### Bounds

* `Limit` is 128 in the code (a mailbox). `MCBrokerClient` has 2, so that mailboxes do fill up. `MCAiloy` has 8, which its few
  calls never fill: its properties are about systems that do not overflow (or
  say so: `lost`). In `MCInproc` `Limit` equals the number of clients:
  `on_monitor_set` ignores a full acceptor mailbox, and with more waiters than
  that `ConnectedIsKept` fails.
* `MaxSeq = 1`: two replies, enough for a gap, a repetition or a swap.
* Two clients with three uuids between them: caller and subscriber, each in
  either role, and two overlapping transactions of one caller.
* `Args = {}` in `MCBrokerClient`: the broker never looks at an argument.
* `VMTx = 12`, `RTTx = 4`: the VM can import, define, delete and stop without
  running out; the runtime has its connect, its disconnect and two calls, which
  race each other and the definition they depend on. `MCAiloyLive` has `RTTx = 5`: a third
  call, so that a component is defined, then called and deleted. There every use is
  made once at most and the definition is sent first (`MCUsesInTurn`). The method and the
  deletion follow it in either order and before it is answered or after, so
  the call is refused by the broker, by the VM that no longer has the component, or
  served.
* `MaxRetry = 1` for the 3 attempts of the squeeze loop: no attempt differs
  from another but by the counter.
* One stop signal at a time on a monitor: the first ends the loop it is for.
* `MaxSend` packets per client in `Inproc`: 2, for two in a mailbox at a time.
* Symmetry is used in safety runs only, over client threads or over the uuids
  of one client, and there everything treats them alike.
* `MCAsyncRuntime` has two calls of up to two replies, `MCNodeRuntime` one of up
  to two and one of one (constant `Long` says which may have two). A call
  finishes or fails at any of its replies:
  one coroutine must at some time file a packet for the other while that one
  waits, has a value, or has left. Nothing depends on how many wait for an event: three
  coroutines, two of them with one reply, are 1.5 million states and show no more. `Cancellable` has one call, so that its
  neighbour shows what the cancellation does to it.
* `MCVectorStore`: two processes, three items ever added, so that a search finds
  fewer, as many and more than it asks for (`TopK` from -1 to 2), an insert of two
  meets a remove of one, and ids run on over a `clear()`. Three collections for two
  clients: one each remembers and one there is; what an id was before nobody can tell, so
  an id nobody holds is as good as a new one. Documents and collection ids are
  symmetric, which a safety run may use; `StoreKeepsPromise` has no fairness.
* `MCModelCache`: two processes, two files of two chunks and two releases, the second with
  another first file and a second one without bytes: a file is absent, cut off, whole, of
  the other release, doubled by two writers, a page or left over where none should be,
  and one file can be right while the other is wrong.
* `MCAgent`: texts of up to four pieces (a call takes three and one more can disturb
  it), five combinations of binding, backend and vocabulary, two queries where the history
  matters, two inferences with tool calls, which is one that follows another.
* `MCSplitText`: texts of up to seven of a letter, a space and a newline, sizes -1 and 1 to 5,
  overlaps from -1 to 2, `Word = 16`: texts longer than two chunks and an overlap, sizes and overlaps that are
  negative, zero, one and larger than the overlap, separators that overlap themselves,
  and lists without the empty separator or without any.
* `CHECK_DEADLOCK FALSE` in the runs of the threads and of the agent: clients may stop
  calling, and these runs end with the broker down, uuids used up or the process dead.
  In `MCVectorStore`, `MCModelCache` and `MCSplitText` deadlock is checked.

### Fairness

`Inproc` assumes that the broker's thread keeps running its loop, that
`wait_for` returns after a second at the latest, and that a send that has put
its packet in the mailbox goes on to notify. `Ailoy` assumes as much of each
thread: the broker, each VM, the runtime while it is being constructed, while
it has packets to file or a disconnect to wait for, and a generator whose next
packet is there. It does not assume that users call or stop anything, that
operators finish in any number of steps other than the bound on `MaxSeq`, or that a
time-out wins against a signal that is there. `AsyncRuntime` assumes that the
event loop runs what is ready, that the pool runs the threads it was given, and
that the service answers as long as its threads run; `NodeRuntime` that Node
runs its jobs and then its events, and the same of pool and service. Users may at any
time stop asking. `Agent` assumes that the VM's thread runs and that a user who has a
response takes the next one, or leaves: what a query waits for is then the VM or a tool. `ModelCache`
assumes nothing of the processes but that the one user of the calm period does not
give up: `TryingAgainHeals` says what becomes of that. `VectorStore` and `SplitText`
have safety only. All of it is weak fairness:
threads are scheduled by the operating system and no step waits for a
condition that others keep turning on and off.

## 4. What is proved

`BrokerProofs.tla`, first about `BrokerClient`'s `Spec`, for every set of clients,
channels, uuids and arguments, and every `Limit` and `MaxSeq`, from two
assumptions: `NoClient` is not a client, and every uuid has one issuer.

* `TypeCorrect`: `Spec => []TypeOK`. The type invariant is inductive by itself.
  `PushType`, `DeliverType` and `ReceiveType` say what the three ways of
  touching a mailbox preserve, and each action of the broker and of a client
  rests on one or two of them.
* `Connected`: `Spec => []SubscriberIsConnected`. Inductive together with
  `TypeOK`: the three handlers that write `subscriptions` or shrink `sockets`
  are the three cases that need work; `Receive` provides that the subscriber
  is connected when its subscribe is handled.
* `NobodyHijacks`: `Spec => NoHijack`, the action property, from `TypeOK` alone:
  a step that changes `subscriptions` is one of the three handlers, and each of them
  writes only what its caller holds or what nobody holds.
* `RepliesAreRouted`: `Spec => []RepliesReachTheIssuer`. A mailbox of the caller
  is filled by the broker with a reply to the packet at the head of the
  caller's inbox, or by way of `transactions`. So the invariant is strengthened
  to `RoutingInv`: requests in an inbox were issued by its client, and a
  transaction is recorded for nobody or for its issuer. It does not matter who
  sends a `respond_execute`, nor for which transaction.
* `SignalsAreTrue`: `Spec => []SignalsMatchPackets`. Signals are counted: what
  `signals` has for a client against its inbox, `notes` against its mailbox (`NotesInv`). A
  packet that arrived before the broker had set the monitor of its socket has no
  signal, and the invariant names the clients this can happen to (`DialInv`, `OwedInv`);
  the theorem claims the equality for all others.
* `StreamsArrive`: `Spec => []StreamsAreWhole`. `PlaceInv` says where the packets of a
  transaction can be: before its request was sent nowhere, then in one inbox,
  at the subscriber, in the subscriber's inbox, in the caller's mailbox. The numbers in
  `StreamInv` count on through these places, so a reply with the finish flag has
  nothing behind it, and what the caller has is what was sent with nothing left out,
  unless a packet of it was lost at a full mailbox.

Then about the whole system, `SysSpec` of `Ailoy`, for any number of VMs, runtimes,
components, operators and calls. The assumptions say that VMs and runtimes are different
clients, that there are channels for what they subscribe and call, that model values are not
the values they stand in for, that a VM has finitely many channels (`VMFinite`, so that it
can subscribe them in some order), and that `define` gives the component a name.

* `SystemIsBroker`: `SysSpec => Spec`. Each step of a VM or of a runtime is a
  `ClientStep` or leaves the broker's variables alone (`VMIsClient`, `RuntimeIsClient`).
  This needs the types of both, and those need to know what a VM can be asked: an
  execute, wherever `PlaceInv` has it, is what its issuer asked for (`AskedInv`), so that the
  argument of a define is the name of a component. All theorems about `Spec` now hold of the
  system.
* `SystemTypeCorrect` and `SystemSound`: the types, and `SystemIsSound`. A VM in the
  squeeze loop pops a signal and then dereferences what `recv()` gives it. `SqueezeInv`
  says that the one stop signal a VM is told finds its signals and packets even; only a VM that takes
  it for the signal of a reply has them odd from then on, and that one never
  comes to the squeeze loop.
* `EndedStaysOver`: `EndedIsOver`. That nothing is left when a call has returned must hold where
  packets were lost, so it cannot rest on the numbers being without a gap. `RiseInv` says they
  rise along the way a reply takes, whatever is dropped (`Flows`), and that this is kept when a
  packet moves on, a stream begins, or grows at its end (`Stays`, `Begins`, `Grows`).
  The reply that ends a call is the last of its transaction and the broker has
  forgotten the call by then (`StoreInv`); no VM works on it since the VM sent that reply
  last (`WorkInv`).

The last two are about a broker with one VM, which is what `start_threads` gives it
(hypothesis `VMs = {Machine}`), with any number of runtimes, components, methods and calls.
With two VMs both are false: the second's subscribes are refused unnoticed (`vm.cpp:355`).

* `RegistryHolds`: `RegistryAgrees`. That a subscribe is somewhere on its way is not
  inductive, because an unsubscribe of the same channel may be behind it. `Comes(ch, s, n)` says what
  the order of the VM's packets does: when the broker has come to the `n`-th, `ch` is held as
  the word `s` (subscribe or unsubscribe) leaves it, and every opposite word has such a
  word behind it that comes before the `n`-th packet. Lemmas say how this passes an `Append`, a
  `Tail` with the broker's handler, and a packet with the word itself (`ComesAppend`,
  `ComesTake`, `ComesPut`). `RegistryInv` is `RegistryAgrees` in these terms; it needs that
  nobody else subscribes and that the VM says goodbye last (`MailInv`), and that the list
  of a handler is about a component the handler is about to register or has just removed
  (`TodoInv`). Channels are held before their component is there, so the proof speaks of
  `Held`, the VM's components with the one its handler is about to register (`Known`): that set
  changes when an execute is taken, and no more when the component is registered with the
  answer (`HeldReply`).
* `RoutesHold`: `RoutesFollowComponents`. The answer to a define is followed from the
  handler through the inbox to the mailbox, the store and the caller (`StageOf`): while the handler
  runs the component is as it was asked for, at position `i` of the inbox its channels come to be
  right before `i`, and once the broker has passed the answer on they are right now. A
  component that is there was defined by an execute that is gone (`Gone`, `ComponentInv`), so that
  after a successful delete nothing can define it again if it was defined
  once (`Dead`). `DeletedIsUnrouted` therefore speaks of components that at most one
  define names, and `DefinedIsRouted` of those nobody has asked to delete.

What these proofs rest on about sequences (`QueueType`, `QueuesType`,
`QueueRange`, `QueuesRange`) is stated once: what is in a queue, or in a table of
queues, after an `Append` or a `Tail`.

`ServiceProofs.tla`, `AsyncProofs.tla` and `NodeProofs.tla`, about `AsyncSpec`
and `NodeSpec`, for every set of calls, every `Last` and every set of cancellable
calls. The assumptions are that `Last` gives natural numbers and that model
values differ from what they stand in for.

* `AsyncRuntimeKeepsPromise` and `NodeRuntimeKeepsPromise`: the runtimes
  implement `Streams`. Both rest on one idea, `Honest(p)`: a packet, wherever it
  is, names a reply that was made and says truly whether it is the last. A reply
  that is made later does not make it a liar (`ReplyKeeps`, `FlagsStay`), so it
  can be taken out of the mailbox, handed from thread to loop, filed and
  buffered in any order. `ServiceProofs` then shows once what a runtime must do
  at each end of a call to take a step of `Streams` (`BeginKeeps`,
  `ConsumeKeeps`, `ReturnKeeps`, `LeaveKeeps`).
  * For `AsyncRuntime` the invariant (`AsyncInv`) adds that packets are filed under their
    transaction, that a coroutine that still asks has an open call, and that a
    generator calls itself finished only when its caller has everything.
    `RunKeeps` proves the generator's step from an arbitrary store, lock and set
    of tasks, because `Deliver` runs it on ones it has just changed.
  * For `NodeRuntime` values are on their way in `jobs` after they have left the
    buffer and before their user has them. `NodeInv` says what a queued continuation
    will bring (`Brings`), that there is at most one for a call, and what a
    resolver waits for (`CallOK`); the number of values that were handed out is
    the number that is asked for, but for the one on its way.
* `ListenersExist`: `AsyncSpec => []SomebodyListens`. `ListenInv` says that whoever has
  the lock listens (or was cancelled, or the client is gone) and that nobody
  waits without a lock. It needs `AsyncInv` to know that a coroutine that runs
  is not the one that has the lock.
* `PacketsStay` and `PacketsMeetResolvers`: `PacketsAreKept` and `PacketsFindResolvers`. The places of a
  packet are a mailbox, the hand of a listener, a queued job and a store, and each is a
  disjunct of which exactly one must hold (`OneOf`): that a packet is in one place at
  most is what makes each hand-over keep it. For Node, `PacketInv` adds that a resolver
  that waits has no packet in the buffer and a loop that has yet to look. `NoPacketAssumption`: the
  absence of a packet is not a packet.
* `OneListenRuns`: `NodeSpec => []OneListen`, and `AsyncTypeCorrect`,
  `NodeTypeCorrect`, from the same invariants.

`NodeProofs.tla`, first part, about `Inproc`'s `Spec`, for any finite set of clients.

* `InprocTypeCorrect`: `TypeOK`, strengthened by one thing: what is being accepted is a client.
* `ConnectionsStay`: `ConnectionsAreKept`, if the acceptor's mailbox has room for all
  clients (`Cardinality(Clients) <= Limit`). The assumption is needed:
  `on_monitor_set` ignores a full mailbox (`inproc_socket.cpp:136`). `ConnInv` says what the
  place of the broker's thread tells of the dialer (`BrokerPlace`), where a promised connection
  is, and that it is there once; one who still waits is in the waiting list and nowhere else until the
  walk has come to it (`Hoped`), so a time-out on either side of that is harmless.
* `SignalsAgree`: `SignalsMatchPackets` for any `Limit`. `SignalInv` counts what is in a queue
  (`Count` of an `Append` and of a `Tail`) and says which signals are owed: by a client
  between the two halves of a send, by one between those of a dial, and by the broker's thread
  in the walk of the waiting list. Only one of the last two kinds is owed at a time, because both
  are under the dialer's mutex (`OneDialer`); the thread that accepts does not wait for it.

`StoreProofs.tla`, about `VectorStore`'s `Spec`, for any number of processes, documents
and ids. `ScenarioAssumption` says that a store in memory has a single user.

* `NothingIsLeaked`: where a user is tells what it has defined (`Defined`), whichever
  call failed.
* `ClearingForgets`: `ClearForgets`. What a `clear()` is to remove has numbers that were given
  before, and whatever is added later has later ones, so it does not matter who deletes
  and creates in between (`ClearInv`).
* `PromiseIsKept`: `StoreKeepsPromise`, that both stores implement `Store`. `ItemsInv` says
  that index and documents of a FAISS store are the same function, with numbers below the counter,
  and that the rows on the server have numbers that were given; each action is then mapped to
  one of `Store`'s, to a stutter, or to `TakenForZero`: a FAISS store asked for an id that is no
  number answers with item 0 under that id, or removes it, which is no step of `Store`.

* `OnlyFaultsEndProcesses`: `OnlyFaultsKill`. `HoldInv` says when a client is about to name its
  collection to the server, and that it is then the one there is unless another client has
  deleted that. A `get_by_id` at Chroma of an item that is not there is one of the ends the
  theorem admits: it is valid input, and section 6 has the promise it breaks.

`CacheProofs.tla`, about `ModelCache`'s `Spec`, for any number of processes, files,
chunks and releases; the two theorems beyond types assume that a manifest names no file twice.

* `CacheTypeCorrect`: `TypeOK`; a process that receives has a list, and one that does not yet go
  by a manifest has none (`Lists`).
* `SuccessHolds`, `GoodFilesHold`: `SuccessIsWhole` and `GoodFilesStay`. For a call that nobody
  has disturbed (`Knows`), every file is still to be looked at, on its list to download, being
  received, or as its manifest says, or one of the two exceptions; a file on its list is there
  once and was not good; and the chunks already received are those of one release the server
  has had since the manifest's, or else the file is in `wrong` (`Sent`, `SentIsCurrent`). A file the server
  itself sent is thus as the manifest has it, or it has no bytes, or the server has
  replaced it. Nothing is assumed of what was in the directory before.

`SplitProofs.tla`, first part, about `MergeSpec`, for every list of splits in the order of a text,
every separator and every `chunk_overlap` up to `chunk_size`.

* `TotalNeverWraps`: `TotalIsExtent`. The total is a sum that is kept by additions and
  subtractions; the invariant is that it is the extent of what is queued, and in the inner loop
  that `total_if_merge` is what it would become. It follows that what is subtracted was there.
* `SizesAreKept`: `DocumentsFit`. The documents end where the queue began and the
  queue fits, or has one split that is of any length (`CurrentFits`).
* `NoSplitIsLost`: when the loop is done each split that is not blank is in a document.

The invariant of all three is `LoopInv`.

`SplitProofs.tla`, second part, about `SplitText`'s `Spec`, for any texts, separators, white
space, sizes and overlaps. `SplitAssumption` says that they are sequences and integers and that
a text is shorter than half of `Word`, as every `std::string` is.

* `SplitInvariant`: `SplitInv`. The recursion works on one text from left to right, so everything
  that is still to become a chunk (`Pending`) is one set of parts: what is being split or
  merged, and the splits that each call on the stack has not come to (`Rest`, `Framed`). `StackInv`
  says that an inner call's parts come before an outer call's, `PartsInv` that
  the split so far and what is left are a `Chain`: neighbours with one separator between
  them. `MergeInv` is `LoopInv` while the loop runs, so that whatever the operators give it
  is what the theorems of the first part assume.
* `NoCharacterIsLost`: `NothingIsLost`. `KeptInv` says that each character is cast away (white space, or a
  separator's), in a chunk or in a pending part, and `ChunksInv` that chunks are in order and
  before all that is pending. Each step either keeps what pending parts cover
  (`PendingSame`, `PendingKeeps`) or replaces a part by its splits, between
  which is only the separator (`ChainSplit`, `Entering`), or a list of them by the
  documents merged from it, which are trimmed of white space only (`TrimmedIs`).
* `ChunksAlwaysFit`: `ChunksFit`. A call whose list of separators ends with the empty one
  ends with single characters (`EndsEmpty` in `FrameOK`), so a split that is too big is always
  split further. What the merge makes of the small ones fits, but for one case that
  `DocumentsFit` has to leave open: a split behind others of length zero, which the loop never
  pops when the total is zero. What is in front of it in the document is separators alone, which are white space,
  and trimming takes them away (`WholeFits`).
* `MergedSizesAreKept`: `TotalIsExtent` and `DocumentsFit` as `SplitText` runs the loop.

`AgentProofs.tla`, about `Agent`'s `Spec`, for any tools, pieces of text, scenarios and
`MaxQueries`. `JsonAssumption` says that a piece that is JSON is not a mark or a word, and
`AgentAssumption` what a scenario is.

* `AgentTypes`: `TypeOK`, of the queries, the VM and the engine.
* `AgentKeepsComponent`: `ComponentFollowsAgent`. `UserInv` says that the user waits for at most one of `define` and
  `delete`, and what `valid` and `defined` are while it waits for either and while it is free.
* `AgentHistoryIsSound`: `HistoryIsSound`. In an undisturbed history one query is live
  (`OneLive`), and the history is sound or becomes so with the results that this query
  still has to append (`Settled`): a sound history stays sound with a whole round of calls and results, however many.
  A query made while a `delete()` is on its way waits behind it in the VM's mailbox
  (`BehindDelete`) with nothing to take from its stream, so no call is half answered when `delete()`
  clears the history.
* `AgentAnswerIsParsed`: `AnswerIsParsed`, for texts of any length. `Reading` counts the pieces shown in the
  whole text; a piece appended to a text changes nothing about the ones before it, so the reading
  of the longer text is that of the shorter one and at most one delta more. `ModeInv` ties
  the machine to the text: unless an earlier generation broke off and no end of
  a call has come since (`Synced`), `mode` says what the end of the text is inside
  of, and `tokens` what the open call consists of.

Model-checked only:

* All liveness, for which the prover has no means.
* That the replies of the real broker and VM come to a runtime as `Service` has them (in
  order, ending once) is proved as `StreamsArrive` and `EndedStaysOver` of the system, but not
  that the system implements `Service`.

## 5. What is not modelled

* The damage concurrent access does to a container: `on_monitor_set` walks a
  multimap that a timed-out waiter may be erasing from, `vm_states` and `stops`
  are hash tables used without a lock. The models take each access as a step.
* `start_threads` waiting 100 ms, restarting threads, two VMs at one broker, and a
  second runtime. One VM and one runtime are already most of what TLC can do;
  what the broker does to several clients is in `BrokerClient`.
* In Node.js, a second `start()` or `stop()` of one runtime, and calls of `next()` that overlap
  or follow a rejection (the promise of such a `next()` never settles).
* The templates of `module.hpp` that make an operator out of a function: the VM sees a
  stream of outputs, and `Agent` has the one operator that keeps state between steps.
* Tensors, the key-value cache, sampling and the embedding model: numeric code. A model
  generates any pieces, any embedding may be similar to any other.
* MCP and REST tools: descriptions and a protocol of other programs. A tool is one
  that answers or throws.
* Rendering of chat templates (an external engine), HTTP, encoding of packets and values,
  logging, exceptions as objects, the command line, and the stateless operators of the
  other modules (arithmetic, clock, HTTP), which have no protocol to check.

## 6. Where code and documentation disagree

| Run | What it shows |
|---|---|
| `MCAiloyDefine` (`DuplicateDefineRefused`) | `handle_define_component` looks for the new name among the factories, so a second define of a name succeeds and replaces the component in use (`vm.cpp:340`), although the code has an answer "Component already exists" ready. |
| `MCAgentLength` (`InferenceFinishes`) | Only the finish reason "stop" ends an `infer` stream. A generation that is cut at its length is over in the engine, and the VM goes on stepping it and serves nobody else (`language_model.cpp:256`), although the documentation says that packets come until one has `finish: true`. |

Three more disagreements are exceptions of properties that otherwise hold, and are stated in
the properties and in the theorems about them:

* `get_by_id` promises "id, text, metadata and vector of found item, nullopt otherwise"
  (`vector_store.hpp:58-60`). `FAISSVectorStore` parses the id with `strtoll`
  (`faiss_vector_store.cpp:85`), which makes 0 of a text that is no number, and returns item 0 under
  the id that was asked for; `remove_vector` removes it (`faiss_vector_store.cpp:140`). `TakenForZero` in
  `StoreKeepsPromise`.
* Under the same promise, the Chroma store indexes the server's answer unchecked
  (`chromadb_vector_store.cpp:191-194`): an id that is not there throws in the VM, where nothing
  catches it, and the process ends. `absent` in `OnlyFaultsKill`.
* `download_model` has a checksum of every file and compares it only with what it finds before the
  download (`model_cache.cpp:494-501`). It reports success with whatever came with a status of
  200 (`model_cache.cpp:283-314`), and without a file whose body was empty, as the function that makes
  the file was not called. `wrong` and `Bare` in `SuccessIsWhole`.

The other exceptions in section 3 are flaws of the same kind, for which no document
was found that promises otherwise. Others that were met and are in the
models as they are in the code:

* `clean()` of `vector_store.py` calls an operator that does not exist (`CallRefused`).
* The Chroma store dereferences results it has not checked, and takes every status but 200
  for "no such item" (`ChromaGet`), so a client that was overtaken finds nothing.
* A chunk size below the default overlap throws in the VM, where nothing catches it, and a
  negative size becomes a huge one (`Convert`, `Check`).
* `stop()` of the Python runtime may listen for ever (`TakenFromStop`).

## 7. What could come next

* `Lifecycle`: `start_threads`, the registries `vm_states` and `stops`,
  a restart at the same url, two VMs on one broker (the second's subscribes
  are refused unnoticed), a second runtime that outlives the VM.
* The theorem that the system implements `Service`.
