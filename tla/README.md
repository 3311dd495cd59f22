# can-duck in TLA+

A verification project for `can-duck-core`, a C++ protocol stack over CAN: real-time
publish-subscribe messages, and a parameter server whose clients read and write the items of a
remote object dictionary. Paths below are relative to the repository root; `src/...` is its source
directory and `README.md:n` its own README.

The modules are TLA+ for TLC (`tlc -config ParamFaulty.cfg MCParamService`) and the eight proof modules
are checked by TLAPS (`tlapm ParamServiceProofs.tla`). `PROJECT.json` lists the runs, the lines each
definition models, the hazards and the theorems.

## 1. Inventory of the system

One process (an MCU, or a program on a PC) owns one `Context`: a `MessageContext`, a
`ServiceContext`, a CAN device and a receive thread. One physical node may hold several *virtual
nodes*: servers and clients are told apart by 6-bit addresses.

| Component | State it keeps | Operations | What makes it correct |
|---|---|---|---|
| Identifiers and frames (`Common.hpp`, `OpCode.hpp`; `toCanMsg`, `fromCanMsg` in `Service.cpp`; `fastMessageBuilder` in `Message.cpp`) | none | encode, decode | what fits the bit-fields comes back unchanged; one of the two contexts takes a message, never both |
| Object dictionary (`SerDesDict.hpp`) | item sizes and offsets, fixed by the constructor | `getObjBaseByIndex`, `serialize`, `deserialize`, `handleSerialize` | an index that is used is an index of the dictionary |
| Parameter server (`Service` in `Service.cpp/.hpp`) | `buffer`, `wr_access_table` | `onReadReq`, `onWriteReq`; `updateData`, `setWrAccess`, `resetWrAccess` | an item changes by a write it is open for and by nothing else; received data never stops the program; the acknowledgement tells what happened |
| Client and its requests (`ParamServerClient` in `Service.hpp`, `ClientRequestEv.*`) | `buffer`; per request `cached_req`, `retry_cnt`, a task in the event loop | `readAsync`, `writeAsync`; `evUpdate`, `matchNotifyMsg`, `evNotifyCallback`, `evTimeoutCallback`, `onRecv` | one call of the callback per request, at most `retry_max` retries, and an answer that is about *this* request |
| Dispatch (`ServiceContext`) | tables of servers and clients | `makeServer`, `bindServer`, `__handleRecv`, `__sendFrame` | a frame reaches the instance with its address and no other |
| Publish-subscribe (`Message.*`) | publishers with their local subscribers, subscribers with their callbacks, one shared buffer for each direction of a channel | `bindChannel`, `publish`, `subscribe`, `notify`, `readBuffer`, `__handleRecv` | a reader sees only published values, in the order of the bus, and ends up with the newest ones; a message touches its own item and no other |
| Context (`Context.*`) | the receive thread, its `stop_flag`, the tables it shares with the application | constructor (starts the thread), `recvPolling`, destructor (stops and joins it) | every frame is handled once; no handler outlives its context; the destructor returns |
| Frame dump (`DuckDebug.*`) | a text buffer and what remains of it | `frame2strbuf`, `frame2stdstr` | stays in its buffer |
| File transfer (`FileTransfer.*`) | none, the files declare nothing that runs | none | none |

**Interactions.** The application calls `readAsync`/`writeAsync`; these build a frame and add a
`ClientRequestEv` to the client's event loop. The event-loop thread runs `evUpdate`, which sends the
frame on the CAN device and registers the wait. The receive thread of the server's process runs
`ServiceContext::__handleRecv` to its end: handler, buffer, acknowledgement. The acknowledgement
looks for a client *of the same process* first, then goes to the bus. The receive thread of the
client's process notifies the event loop, which wakes a waiting task that matches. The user's
callback gets the event code and the frame.

For real-time messages the application binds a channel and gets a publisher and a subscriber. `publish`
copies the message into the shared buffer, calls the callbacks of the subscribers in its own process
(which may publish again), then encodes the message and gives it to the device. The receive thread
offers every CAN message to the `MessageContext` first, and to the `ServiceContext` if that answers 0.

**Where it is hard.** Three threads (application, event loop, receive) share tables without a lock.
Frames are lost, arrive twice or are too late; timeouts race answers; the acknowledgement may come
before the task waits; nothing in a frame names the request it belongs to; the pool, the event loop
and the device have limits; the range check of a received index is off by one; dictionaries of different
versions meet on one bus; a value is read, or its access revoked, while a handler copies it; the destructor runs
against the thread. `PROJECT.json` has
each of these under `hazards`, at its line, with the properties that watch it.

## 2. Modules

| Module | What it is |
|---|---|
| `CanFrame` | Pure operators: the bit-fields of `HeaderService` and `HeaderFastMsgExt` as arithmetic on the 29-bit identifier, `toCanMsg`, `fromCanMsg`, `fastMessageBuilder`, the receivers' tests and readers. |
| `FrameDump` | Pure operators: positions and remaining sizes of `frame2strbuf`, with unsigned wrap-around. |
| `FrameCodec`, `MCFrameCodec` | One frame goes through encoder, bus and decoder and is dumped; inputs on both sides of every field width. |
| `ParamService` | The request protocol, end to end, for any number of processes, servers and clients (section 3). |
| `RemoteParam` | The contract, without frames, acknowledgements or timeouts: a request is *called*, may be *performed* by its server (once or several times), and *returns* once, with success only if it was performed, and with what was read or written for it. A write needs a *grant*, given while the item was open, and may be performed after the item was closed again. |
| `ParamRefinement` | The refinement mapping `Contract == INSTANCE RemoteParam WITH ...`; `ImplementsRemoteParam`. |
| `ParamClaims` | What the repository's README and comments say and the code does not do. |
| `MCParamService` | Instances for TLC. |
| `ServiceThreads`, `MCServiceThreads` | One server's buffer and access table between the receive thread, which runs the handlers, and the application: one byte of a copy at a time (section 5). |
| `ServoDict` | Dictionaries as generated code lays them out: sizes, offsets, buffers as bytes; the three dictionaries of `unit_test/ServoDict.hpp`. |
| `PubSub` | Channels, publishers, subscribers, shared buffers and the bus, for any number of processes (section 4). |
| `Dissemination` | The contract of publish-subscribe: publications are announced and enter one log; a reader follows the log, may skip, never goes back. |
| `PubSubRefinement` | The refinement mapping from `PubSub` to `Dissemination`; `ImplementsDissemination`. |
| `ServoPrograms`, `MCPubSub` | What the programs of the tests bind and publish; the instance for TLC, composed of them. |
| `ContextThreads`, `MCContext` | One context: the receive thread against the application, one access of shared memory at a time (section 5). |
| `ParamServiceProofs`, `ParamAnswerProofs`, `FrameCodecProofs`, `LayoutProofs`, `ContextProofs`, `DisseminationProofs`, `PubSubProofs`, `PubSubRefinementProofs` | Theorems and their proofs (section 7). |

`PubSub` builds on `CanFrame` (what travels) and `ServoDict` (where bytes go); `ParamService` builds on
`CanFrame`. The granularity differs, so that each module stays within TLC's reach:

- `PubSub` takes the reception of a message as one step and `publish` as one step for each call it makes;
  `ContextThreads` takes the reception apart, byte by byte, against `readBuffer`.
- `ParamService` splits `onWriteReq` between its checks and its copy, where the application may change data and
  access, and takes each copy as one step; `ServiceThreads` takes the copies of both handlers and of the application
  apart, byte by byte.
- Both leave the tables of servers, clients and subscribers alone while a handler runs. `ContextThreads` lets them grow
  and shows what the others assume: one instance for an address (`OneInstancePerAddress`) and one handler for a frame
  (`HandledOnce`). It only counts the service handlers it calls.

## 3. `ParamService`: state, actions, code

A *packet* in `rx[n]` is a CAN message encoded by `toCanMsg`, with the name of its request as
history. No handler reads the name; besides the history variables only the assumption `Prompt`
(section 6) looks at it.

| Variable | In the code |
|---|---|
| `rx` | the messages that `can->read` of a process will return (external device) |
| `crashed` | processes stopped by a failed `USER_ASSERT` |
| `buffer`, `wr_access` | `Service::buffer`, `Service::wr_access_table` |
| `checked` | the `onWriteReq` calls that have judged the message (`Call`: their locals, with `ack_code`) and have not copied yet; at most one in each process, since one thread receives |
| `client_buffer` | `ParamServerClient::buffer` |
| `cached_req`, `retry_cnt` | the fields of `ClientRequestEv` |
| `phase` | the state of the task: `unused` (not started), `dropped` (no room), `ready` (to run `evUpdate`), `sending` (sent, `evWaitNotify` not yet reached), `waiting`, `finished` (`evExit`) |
| `answers` | the calls of the user's callback: event code and the value it stands for |
| `sent`, `served`, `applied` | history that no guard reads: attempts, what servers did, the newest write an item took of each client |

| Action | In the code |
|---|---|
| `readAsync`, `writeAsync` | the same functions with `addTask` and `operator new`: the request is dropped (with a log line only) if pool or loop is full |
| `updateData`, `setWrAccess`, `resetWrAccess` | the server's own application, also while a call is in `checked` |
| `checkWrite(n)` | the first half of `onWriteReq`: range, length and access are judged and `ack_code` is kept; the message keeps its place in `rx` until the handler returns |
| `evUpdate`, `evWaitNotify` | `ClientRequestEv::evUpdate`; the second is a step of its own when the loop does not hold `notify` off (`LoopLocked = FALSE`) |
| `evTimeoutCallback` | retry (`evRestart`) or report code 2 and leave |
| `handleRecv(n)` | `ServiceContext::__handleRecv` for one message of process `n`, the whole handler (of `onWriteReq` the second half, copy and acknowledgement): `HandleRequest` (`onReadReq`, `onWriteReq`, `reply`), `HandleBadIndex` (the assertion in `getObjBaseByIndex`), `HandleAck` (`notify`, `matchNotifyMsg`, `evNotifyCallback`, `onRecv`), `HandleUnmatched` |
| `Lose`, `Duplicate` | the bus |

`reply` first looks for a client of the *server's own* process with the destination's address, as
`__handleRecv(ServiceFrame*)` does when the acknowledgement is dispatched, and sends on the bus only
if there is none.

**The external library (emlib), modelled from how this code uses it.** Its source is a submodule that
the repository does not hold. Assumed:

- `notify` wakes only tasks that wait; whether the first match or every match wakes is left open
  (both are steps), and so is whether `notify` waits for a running `evUpdate` (`LoopLocked`).
- Callbacks of one event loop are not interrupted by callbacks of the same loop.
- `addTask` refuses a task when the loop is full; `LoopCap = 0` stands for no limit, as in the
  full-OS build, a positive one for `CLIENT_MAX_REQ_NUM` on an MCU. The pool returns null when it is
  empty; one pool is shared by all clients of a process.
- A device does not hear its own frames, and a full device loses a frame: nobody uses the result of
  `can->write`.
- A failed `USER_ASSERT` stops the process; its queue stays as it is.
- The format that a `CANMessage` has when it is constructed is a constant (`DefaultFormat`).
  `toCanMsg` does not set it, and the receivers' test depends on it; the runs use the extended one,
  without which no service frame would be accepted.

**Abstractions.** A value of an item is a model value, which one copy moves in one step; the lengths that the handlers
compare are kept as numbers. Longer items may be torn in the server's buffer, in an answer and in the client's
buffer, since no lock keeps the threads apart: `ServiceThreads` says what is true of such reads. The runs use items of
one byte wherever they speak of values. Addresses and indices are numbers, and go through
the header's bit-fields. Addresses are at most 63 (`ConfigAssumption`): a wider address is cut by
`toCanMsg`, which `FrameCodec` looks at by itself. `writeAsync` is restricted to items that fit the
frame's payload (`DATALINK_MTU`), since the code copies a longer one past its end; a dictionary has at
most 255 items, each of 1 to 255 bytes (`obj_idx_t`, `obj_size_t`); `RetryMax` fits the 16 bits of
`retry_cnt`. The tables of servers and clients are filled
before the start, with one instance for an address in each process (`ContextThreads` has it as the
theorem `RegistryUnique`).

## 4. `PubSub`: state, actions, code

Each item is a row of bytes in a buffer, so that offsets, sizes and received lengths do what they do in
the code.

| Variable | In the code |
|---|---|
| `publishers`, `subscribers` | `created_publishers` with `local_sub_ptr`, `created_subscribers` with the callbacks that are set |
| `shared_buffers` | `MessageContext::shared_buffers`, by node and direction |
| `call` | the stack of `publish` calls the application is in: a callback that publishes is a call on top |
| `rx` | what `can->read` will return (external device) |
| `crashed` | processes stopped by a failed `USER_ASSERT` |
| `log`, `since`, `seen`, `missed`, `started` | history, and the bound on publications |

| Action | In the code |
|---|---|
| `bindChannel` | the function, with `bindPublisherToChannel`, `bindSubscriberToChannel`, `getSharedBuffer` and both links |
| `subscribe` | `Subscriber::subscribe` |
| `publish` | the beginning of `publish`: the local copy (`handleSerialize`) |
| `notify` | one turn of the loop over `local_sub_ptr`; a callback that publishes begins a nested call |
| `ReturnLocally` | the return for `local_only` |
| `Send` | `fastMessageBuilder` and `__sendFrame`; a device without room loses the message |
| `SendAsserts` | the assertion of the builder on an item index above 7 |
| `HandleMessage` | `__handleRecv` with `MsgDictSingleWrite`, for one message to its end |

The application and the receive thread interleave between any two of these steps. A message is made by
copying an item (`"copy"` when it is then given as an lvalue, whose overload drops `local_only`;
`"moved"` when it is given as an rvalue) or by `DictItem::operator()` (`"built"`); which of these an
instance uses is the constant `Form`. Bytes of a message shorter than the item are whatever `buf` held
(`Junk`). Abstractions: the bytes of one published item are all equal, enough to tell items,
publications and lengths apart; a process binds each end once, so that a publisher is linked to at most one
subscriber (the code would take a second one for the same end, `src/Message.cpp:227`, and `ContextThreads` binds channels
repeatedly); a copy of an item is one step (`ContextThreads` has torn reads). `memcpy` is not stopped by the end of a
buffer, so that a copy that leaves it changes the buffer's domain and violates `TypeOK`. Items are at most
`DATALINK_MTU + 2` bytes (`FitsMessages`), what the message and `buf` hold. External, from how the code uses it: a
CAN bus delivers to all devices but the sender's, in one order.

## 5. `ServiceThreads` and `ContextThreads`: state, actions, code

**`ServiceThreads`** is one `Service` and the two threads that use it.

| Variable | In the code |
|---|---|
| `buffer` | `Service::buffer`, whose bytes are the number of the store they came from |
| `wr_access` | `Service::wr_access_table` |
| `call` | of each thread: the call it is in, the code it would answer, the bytes it has moved; and, as history, what was over or ran beside it |
| `stores`, `finished` | history: the `updateData` calls and write requests, and those that returned or were acknowledged with 1 |

| Action | In the code |
|---|---|
| `updateData`, `getData`, `setWrAccess`, `resetWrAccess` | the application's calls; the two on the table take one step |
| `onWriteReq`, `checkAccess` | the handler as far as the length, and its look at the access table |
| `onReadReq` | the handler as far as its copy |
| `copyByte` | a byte of the `memcpy` in either handler, or in `serialize` and `deserialize`, in any order |
| `return` | the end of a call; a write request is acknowledged |

Requests with a bad index, and reads of a wrong length, touch neither the buffer nor the table, and are left to
`ParamService`.

**`ContextThreads`** is one `Context`.

| Variable | In the code |
|---|---|
| `life`, `reading` | where the application is: running, in the destructor, out of it; a `readBuffer` call and the bytes it has |
| `stop_flag` | `Context::stop_flag` |
| `created_servers`, `created_clients`, `created_subscribers` | the tables of the two contexts |
| `buffer` | a shared buffer of one item per channel, whose bytes are the number of the message they came from |
| `pc`, `next`, `end`, `subscriber`, `copied` | the receive thread: what it does, its place in a table, the subscriber it found, the bytes copied |
| `frames`, `taken`, `due`, `handled`, `written` | the device, and history |

| Action | In the code |
|---|---|
| `makeServer`, `bindServer`, `bindChannel` | the functions, as far as they change the tables |
| `beginRead`, `readByte` | `readBuffer`, byte by byte in any order |
| `destroy`, `spin` | `~Context`: `stop`, then the join and the end of the tables |
| `exit`, `recvPolling`, `handleRecv` | the loop of the thread, `can->read`, the dispatch to the two contexts |
| `walkSubscribers`, `foundSubscriber`, `copyByte` | `MessageContext::__handleRecv` and its `memcpy`, byte by byte |
| `walkTable`, `walkEnds` | `ServiceContext::__handleRecv`, entry by entry |

Each step makes one access of shared memory. The range-for over a `Vector` takes its end once; the one
over a `LinkedList` sees entries that are added. Tables stop at the size they are made for
(`MAX_LOCAL_NODE_NUM`): what `push_back` does beyond it, while another thread walks the table, is in a
library whose source the repository does not hold. `can->read` returns when there is nothing to
read, as its use in the loop supposes; a context without a device is one where nothing arrives. A step
of registration is taken as a whole: the memory model below that (an entry seen half written) is not
modelled.

## 6. Runs

| Run | Instance | What it shows |
|---|---|---|
| `codec` | field values on both sides of each width, messages of 0 to 4, 10, 65 and 66 bytes, payloads of 0 to 64 bytes | round trips; one context takes each message, also when a field is too wide; `DumpFits` |
| `param_faulty` | one server, one client, 2 requests, 1 retry; frames lost and duplicated; a timeout at any moment; `evWaitNotify` late; `FairSpec` | `TypeOK`, `CallbackOnce`, `RetryBudget`; `AppliedInIssueOrder`: a late retransmission never brings an older value back; `EveryRequestAnswered` |
| `param_pipelined` | two items, one with a wrong length at the client; requests overlap; loss | `SuccessHasACause`, `TimeoutAfterLastAttempt` |
| `param_prompt` | a loop with room for one task, which drops a request made before the last has ended; timeouts outlast the round trip; loss; local changes of data and access rights between attempts, and between a handler's check and its copy | `AnswerIsTrue`, `NoStaleFrame`, and the contract `RemoteParam` |
| `param_no_loss` | perfect bus; the clients' dictionary is longer and has a wrong length; three clients with one request each: two on the host, and one in the server's process with the address of the first | `RetryHasCause`: only a refused read, an absent or stopped server, or an answer that ends at another client causes a retry; `ShadowedTimesOut`: the client whose answers end there is told of timeouts and of nothing else |
| `service_threads` | two items of two bytes, three stores | `WrittenOnlyWhileOpen`: a write request may land after the item was closed, but only if it was open at some moment of the handler, and a refused one changes nothing; `ReadRegular` and `TornReadHasCause`: what a read, or the answer to one, may mix |
| `pubsub` | the servo with a virtual ECU whose callback on the speed commands a target angle; a remote ECU that commands one too; a process with older dictionaries: two items, one shorter and one longer than sent, and a command with index 8; `FairSpec` | `LinkedOnce` in any order of binding; `CallbackReadsIt` and `WriterReadsLast` through nested calls; `CurrentWhenDrained` and `Converges` for readers that missed nothing; `OneItemAtATime` whatever lengths and indices arrive; the contract `Dissemination` |
| `context` | two servers and two clients of two addresses; two channels, bound in any order or one of them twice; 2 frames out of a request, an acknowledgement and a message; items of 2 bytes; `FairSpec` | `OneInstancePerAddress`, `HandledOnce`; `ReadRegular`: a read may be torn, but has nothing older than what was complete when it began; `WholeWhenAlone`; `NothingHalfDone`, `DestructorReturns`, `EveryRequestHandled` |
| `claim_*` | the smallest instance that shows the point | the findings of section 8 (expected violations) |

**Bounds of the parameter server.** `MaxReq = 2`: stale frames, reordering of writes and wrong answers
each need an earlier and a later request, and no third. `RetryMax = 1`: with one retry there are a first
attempt, a last one and both branches of `evTimeoutCallback`. One or two values, enough to tell an old
write from a new one. `QueueCap` 2 to 4: enough for an original, a retransmission and an acknowledgement
at once; in the lossy runs a full queue also loses frames, as the device does. `"reorder"` is a choice of
`Faults` that the runs leave out: a CAN bus delivers the frames of one sender in order, and with
reordering `AppliedInIssueOrder` is false.

**Bounds of publish-subscribe.** `MaxPublish = 2` calls by the applications, each of which may set off a
nested one: two publications of one item or of neighbours, in one process or in two, and a callback in
between. `QueueCap = 3` holds all but one of the messages these can send, so that a full device happens.

**Bounds of the server's buffer.** Two bytes, so that a copy has a middle; three stores, so that one is over, one
runs and one comes while a read goes on; two items, so that a write can reach, or be opened by, the wrong one.

**Bounds of the context.** Tables of two entries, each added at any moment: the entry a frame is for may be the first or the
second, may already be behind the thread when it is added, or come while the thread walks over the other one. Two
frames: one handled while the next waits, or a message that overlaps the read of an earlier one. Two subscribers, of one
channel or of two, added while the thread looks for one.

**Deadlock.** `codec`, `param_no_loss`, `pubsub`, `claim_operator` and `context` switch TLC's deadlock
check off: there the program really stops, because the one frame is through, because the processes of
interest have failed an assertion, because the bounded publications are done, or because the context is
destroyed. In the other runs the servers' application can always act, and in `service_threads` read.

**Fairness.** `ParamService!FairSpec`: weak fairness of the task of each request (`Task(r)`: `evUpdate`,
`evWaitNotify` or `evTimeoutCallback`), because the event loop runs its tasks and looks at their
deadlines on each turn; none of the application, of the servers or of the bus, which may lose every frame: a
request still ends, with code 2. `PubSub!FairSpec`: weak fairness of each process's call in progress or
message at hand, because a call of `publish` runs on, and the thread started by the constructor of
`Context` reads until the context is destroyed; none of the application, which need not publish.
`ContextThreads!FairSpec`: weak fairness of the receive thread and of the join, which the operating
system provides; none of the application or the bus.

**`Prompt`.** A timeout with `Prompt = TRUE` happens only when no frame of the request is in flight. It
is an assumption about the user's choice of the timeout, stated as a constant: with it the protocol
keeps its contract, and without it `claim_written` shows that it does not.

**Properties with a condition.** `CallbackReadsIt` and `WriterReadsLast` speak of channels that one
process writes: with several writers the receive thread may write an item between the local copy and the
callback. `CurrentWhenDrained`, `Converges` and the contract speak of readers whose dictionary is the one
the channel is written with, and the first two of those that no full device cut off. All of them are
about messages that are copies of an item; `claim_operator` shows what `operator()` does.

**Refinement of `Dissemination`.** `announced` is what calls have published that returned or still run,
`log` the publications that were sent, `position` the last one a reader applied, `view` what `readBuffer`
would return of each item. `publish` and `notify` map to `Announce`, seen at once by the readers of the
own process, `Send` to `Send`, `HandleMessage` to `Follow`, and every other step stutters. `Readers` are the
pairs of a process and a channel whose dictionary is the one the channel is written with; what a reader reads
first is the zeroed image of its own dictionary (`Zeroes`), since nobody need write the channel. `WritingReaders`
are those whose process publishes on the channel, also if only with items the bus does not carry.

## 7. Proofs

`ParamServiceProofs` proves, for every configuration that `ConfigAssumption` allows (any number of
processes, servers, clients and requests, any dictionaries, any queue lengths, every choice of
`Faults`, `Prompt`, `Pipelined` and `LoopLocked`):

- **`TypeCorrect`**: `Spec => []TypeOK`. `TypeOK` is inductive. The content is not in the shapes: the
  index of each frame in any queue is an index of the dictionaries after `toCanMsg` and
  `fromCanMsg` (the encoder cuts it to 10 bits, which loses nothing of a number below 256), so that
  every handler updates an item that exists; and a started request has a frame to send. The lemmas go
  from the fields of the identifier (`DecodedFields`, `ToCanMsgType`, `FromCanMsgType`) through the
  queues (`SendType`, `ReadType`) and the wake-up (`NotifyType`) to one lemma for each action.
- **`RequestsCorrect`** and **`RetriesBounded`**: `Spec => []CallbackOnce` and `Spec => []RetryBudget`. The
  inductive invariant is `TypeOK /\ RequestInv`, with `RequestInv == CallbackOnce /\ RetryBudget`: neither
  conjunct says enough of `phase` alone. An acknowledgement calls the callback of a task only if it waits
  (`NotifyRequests`), and a waiting task has not been answered (`CallbackOnce`) and has one attempt
  more than retries (`RetryBudget`); `TypeOK` bounds the retries.

`ParamAnswerProofs` builds on these two and says what an answer means. Each theorem has the
hypotheses it needs and no others:

| Theorem | Hypotheses besides `ConfigAssumption` | Inductive invariant |
|---|---|---|
| **`TimeoutsAreLast`**: `TimeoutAfterLastAttempt` | none | `CauseInv` |
| **`SuccessIsReal`**: `SuccessHasACause` | `ClientsApart` | `CauseInv` |
| **`WritesStayInOrder`**: `AppliedInIssueOrder` | requests one at a time, no reordering | `OrderInv` |
| **`NothingOutlives`**: `NoStaleFrame` | `OneAtATime` | `PromptInv`, with `CauseInv` and `InOrder` |
| **`AnswersAreTrue`**: `AnswerIsTrue` | `OneAtATime` | the same, with `DataInv` |
| **`KeepsContract`**: `ImplementsRemoteParam` | `OneAtATime` | the same |
| **`RetriesHaveACause`**: `RetryHasCause` | `LossFree`, `[]DevicesKeepUp` | `WaitInv`, with `CauseInv` and `InOrder` |

- `ClientsApart` and `ServersApart` say that addresses are distinct on the bus. Without the first,
  an acknowledgement may reach another client with the address (the run `param_no_loss` has such a pair).
  `OneAtATime` is `Prompt`, no pipelining, no duplicated frames and both of these, the
  conditions of the run `param_prompt`, whose loop with room for one task takes the place of the second; a user who picks a timeout above the round trip and waits for each
  callback has them. Without `Prompt`, `claim_written` is a counterexample. Loss and reordering are allowed
  everywhere except in `WritesStayInOrder`, which is false with reordering.
- `LossFree` names the conditions of the run `param_no_loss` without the shared address: a bus that loses nothing and uses the format the
  receivers accept, `Prompt`, no pipelining, a loop that waits before the answer comes (`LoopLocked`) and
  `ClientsApart`. `DevicesKeepUp` says that no device is ever full, and holds in every state of that run: a full
  device drops frames, which is a loss by another name.
- `CauseInv` traces an answer back. Each started request asks for what its client is bound to (`CachedInv`);
  each entry of `served` is an operation that its request asks for (`ServedInv`); each packet in any queue
  is the request it is named for or an acknowledgement of an entry in `served`, as the receiver will decode
  it (`PacketsInv`); each answer is a last timeout or comes from such an entry (`AnswersInv`). Without
  `PacketsInv` an acknowledgement might come from nowhere. The history variable only grows (`Grows`), so
  that packets keep their cause.
- `OrderInv`: a client starts a request only when its earlier ones have ended (`InOrder`), so the queues hold
  the requests of one client sorted (`QueuesSorted`; removing, losing and duplicating keep it, since the
  duplicate stands beside its original), and none of them is older than what an item took (`AppliedOld`).
- `PromptInv`: at most one frame of a request is anywhere in the queues and would be acted upon
  (`OneActs`), and a request that is about to be sent has none (`ReadyQuiet`). This is what makes
  `NoStaleFrame` inductive: the acknowledgement that ends a request was its only frame, and a retry starts
  from an empty bus because `Prompt` lets a timeout happen only then.
- `WaitInv`: a request that waits has a frame in the device of every running process that has the server, or an
  acknowledgement in its own (`OnTheWay`), unless the server refused the read (`Awaited`). It is inductive because
  a reception removes only the frame it handles (`ReceiveLeaves`), handling a request either leaves an
  acknowledgement behind or was a refusal (`RequestArrives`), and handling the acknowledgement ends the wait
  (`AnswerArrives`). With `Prompt` a timeout finds no such frame, so that `RetryHasCause` follows. With `ClientsApart` no client is `Shadowed`,
  so that the proof shows the first two causes of `RetryHasCause` only (`RetryExplained`). TLC finds
  `RetryHasCause` true with all three in `param_no_loss`.
- `KeepsContract` is the refinement, step by step: each action of `ParamService` maps to `Call`, `Grant` (a
  `checkWrite` that finds the item open), `Perform`, `Return`, a local change or a stutter of `RemoteParam`. The grants are
  the calls in `checked` with code 1 (`GrantedNow`). `PromptInv` gives that a server performs only what is still called,
  `CallsCorrect` (`OneCall`: one call in each process) that a grant is used up by the write it was given for, `AnswersAreTrue` that what is returned was performed. The application may change data and access at any
  moment of this, as it may in the code; the theorem does not say that a write only lands in an item that is open *then*,
  which is false, and it takes the copy of a value as one step.

`FrameCodecProofs` proves, for all arguments of the C++ types that fit the arrays (`InputAssumption`: payloads of up to
`DATALINK_MTU` bytes, real-time messages of up to `DATALINK_MTU + 2`; `toCanMsg`, `fromCanMsg` and `fastMessageBuilder` copy
longer ones past the end, of which nothing is said):

- **`ServiceFramesArrive`**, **`FastMessagesArrive`**: `ServiceRoundTrip` and `FastRoundTrip`. The bit-fields
  are quotients and remainders of one number; the lemmas take it apart field by field.
- **`TakenByOneContext`**: `OneContextTakesIt`, for fields that are too wide as well.
- **`DumpStaysInside`**: `DumpFits`. The inductive invariant bounds `top` by what the head and
  three characters for each byte take, so that no subtraction wraps below zero. The first attempt to prove it
  failed at a payload of 60 bytes and showed that an earlier form of `DumpFits`, checked with short payloads
  only, was wrong: the text of a payload without a zero is cut off, which the code intends. `DumpFits` now says
  what holds up to `DATALINK_MTU` bytes, and the run has such lengths.

`ContextProofs` proves, for any addresses, channels, frames and bounds that `ContextAssumption` allows:

- **`TypeCorrect`**: `Spec => []TypeOK`; its content is that the thread walks no table beyond its end and
  uses no subscriber that is not there, while tables grow.
- **`RegistryUnique`**: `Spec => []OneInstancePerAddress`.
- **`DispatchedOnce`**: `Spec => []HandledOnce`. `HandledOnce` is not inductive: it says nothing of a frame
  that is being handled. The invariant adds where the thread stands with it (`AtCurrent`: a handler has run
  exactly if one of the entries behind the thread has the frame's address; a frame that was due has its
  entry before the end that was taken) and that no later frame has been handled. The step that calls a
  handler is where uniqueness is needed: two entries with one address would run two. Registering
  (`RegisterFacts`, `TablesGrow`) keeps entries where they are, so that what the thread has behind it
  stays true.

Of the buffers it proves, under the same assumptions:

- **`ReadsRegular`** and **`ReadsWhole`**: `Spec => []ReadRegular` and `Spec => []WholeWhenAlone`. The
  invariant says what lies in a buffer at any time (`Contents`: the last complete message, up to the bytes
  that the thread has copied of the next), where that came from (`Origin`) and, of the read, that it began
  no later than what has been completed since (`Fresh`) and that nothing has been copied into the channel of
  a read that is still alone (`Undisturbed`); without the last, `WholeWhenAlone` is not inductive.
- **`NothingLeftHalfDone`**: `Spec => []NothingHalfDone`. `spin` waits for the thread, and a thread that has left
  its loop takes no step (`Order`), so that `Contents` and `DoneOnce` speak of complete messages and frames.

`DisseminationProofs` proves **`ReadersReadPublications`** about the contract: nothing is read
that was not published on that channel for that item. The invariant adds that the log has only
announced entries and that every value read is typed. That `PubSub` implements the contract is the theorem
`KeepsDissemination` below.

`PubSubProofs` proves, for any processes, ends, reactions, dictionaries, queue lengths and numbers of publications
that the assumptions of `PubSub` allow:

| Theorem | Hypotheses | Inductive invariant |
|---|---|---|
| **`TypeCorrect`**: `TypeOK` | none | `TypeInv` |
| **`LinksCorrect`**: `LinkedOnce` | none | `TablesInv`, the part of `TypeInv` about the tables |
| **`OneItemCorrect`**: `OneItemAtATime` | `Copies` | `TypeInv` |
| **`CallbackCorrect`**: `CallbackReadsIt` | `Copies`, `NoCircle` | `StackInv`, with `WritersInv` |
| **`WriterReadsCorrect`**: `WriterReadsLast` | `Copies`, `NoCircle` | `LastInv`, with these |
| **`CurrentCorrect`**: `CurrentWhenDrained` | `Copies` | `CurrentInv`, with `QueueInv` and `WritersInv` |

- `Copies` says that messages are made by copying an item, not by `DictItem::operator()`, which loses the item's
  offset: `claim_operator` is the counterexample. `NoCircle` says that some rank of what a program can
  publish (its ends and items) goes down whenever a callback publishes in reaction. Callbacks in a circle never
  return: each call of `publish` begins another until the thread's memory ends. The instance of the run `pubsub`
  satisfies both: its messages are copied or moved items, and its one reaction publishes what nobody reacts to.
- `TypeInv` says of the tables how they came about (`TablesInv`): a publisher is linked to the subscribers of
  the other direction that were bound before it, in their order, followed by those bound after it. `TakenFrom` is
  the recursive function that makes the first part; what it returns is proved by induction on the
  length of the table, as an argument about the least number that fails (`Least`, `ByInduction`), which needs no
  induction theorem with an operator as parameter. `BuffersInv`, `CallsInv`, `HistoryInv`, `PacketsInv` and
  `CountsInv` are about bytes, the stack, the publications, what lies in devices, and the bounds. That no copy leaves its
  buffer (`BuffersInv`) rests on the index that is checked before a reception copies, on the reception copying as many bytes as
  the receiver's own dictionary gives the item, and on a message being an item of its publisher's dictionary.
- Steps are proved once: `StepCases` says that each is a binding, the beginning of a call, the end of one, a reception
  or leaves buffers and stack alone (`Binds`, `Pushes`, `Returns`, `Receives`, `Rests`), and the invariants below
  only look at these.
- `CallbackReadsIt` is about the innermost call and does not survive a step: when that call returns, the one
  below it is innermost, and what it published must still be there. `StackInv` says it of every call on the
  stack, and that calls further in have lower ranks, so that a nested call publishes another item and
  `OtherItemsKept` applies.
- `LastInv` speaks of the last publication of each item, unless the item is in a call on the stack: an
  inner callback may write an item after it was recorded only if it records a later one.
- `QueueInv`: the packets in a device are in the order of the log, and what was sent to a process that missed nothing
  is either there or before all that is there. `CurrentInv` then says, of a process that still has messages to
  receive, that it holds the newest publication before those: without the second part of `QueueInv` an
  older message might still overtake.
- `WritersInv` says that publications and calls that may end are those of the processes that `Writers` names, which
  is a definition about programs, not about steps.

`PubSubRefinementProofs` proves, under `Copies`, that `PubSub` keeps its contract:

- **`KeepsDissemination`**: `Spec => ImplementsDissemination`. The contract's log is computed from the history by
  a recursive function (`Sent`); `SentSequences`, `SentBegins` and `SentPlace` say that it is a sequence, that
  what was sent up to an entry begins what was sent up to any later one, and that an entry that was sent is the
  last of what was sent up to it. With them a position is where the reader's last entry stands among those sent,
  and `FollowStep` needs that a packet is newer than anything its process has applied on that channel
  (`SeenInv`, inductive with `QueueInv`). The rest is one lemma for each step and each mapped variable: what
  it announces (`BindAnnounces`, `PushAnnounces`, `ReturnAnnounces`), what it does to the log (`ReturnLogs`,
  `OtherLogs`), and what readers see of it (`WriteViews`, `BindViews`: binding a channel shows zeros, which is what
  was mapped before there was a buffer). A message that arrives changes what a reader sees into what
  was published (`AppliedAgrees`), because reader and writer agree on the length of the item.
- **`ReadsPublishedBytes`**: `Spec => []BytesPublished`: each byte of what `readBuffer` returns to a reader is the initial zero
  or that byte of a value published for this item on this channel. It is stated of bytes because a read beside a copy may
  mix two values (`ReadRegular`), which this module leaves out. It follows from the contract's theorem, carried over
  by the refinement; the constants of the mapping are what the contract asks (`MappingTyped`).

`LayoutProofs` has the lemmas about what the other modules are built from: for every dictionary that is
well laid out, an item written into a buffer at its own offset is read back (**`ItemReadBack`**) and no other item
changes (**`OtherItemsKept`**); for every frame, what the bit-fields of the two headers hold (`ServiceFields`,
`FastFields`) and what decoding after encoding gives (`ServiceDecodes`, `FastDecodes`). `ServoLayouts`, an
assumption that TLC evaluates, says that the dictionaries of the tests are dictionaries (`IsDict`) and well laid out.

Model-checked only: `EveryRequestAnswered`, `Converges`, `DestructorReturns` and `EveryRequestHandled`
are liveness properties under fairness, which the proof system does not reach; the properties of `ServiceThreads` and
`ShadowedTimesOut` have no proof yet.

## 8. Findings

| Run | The repository says | The code does |
|---|---|---|
| `claim_operator` | `src/SerDesDict.hpp:51`: `operator()` copies the item and assigns to the copy; `src/Message.cpp:275`: the data are first copied into the shared memory; README.md:160 and `unit_test/Context.cpp:47` publish this way | the copy is built from the index alone, its `buffer_offset` is 0: a local publish writes the value at the start of the buffer, over the first item, and not at the item's own offset (of `angle`, whose four bytes reach from 0 into its place at 2, the first two bytes change too). The bus is not affected |
| `claim_no_crash` | `src/Service.cpp:55`: bad external input must not crash the program | `index > dictSize()` lets `index = dictSize()` through to `USER_ASSERT` in `SerDesDict.hpp:84`; `MsgDictSingleWrite` (`src/Message.cpp:20`) has the same comparison |
| `claim_written` | README.md:228: code 1 means written | a late acknowledgement of an earlier write answers a later write, which no server has seen |
| `claim_timeout` | README.md:229: code 2 is the timeout, and `unit_test/Service.cpp:97` logs it as one | `onWriteReq` answers 2 to a write of a wrong length (`src/Service.cpp:70`), and the code goes to the callback |

Observed while modelling, without a run of their own. The first four are also at odds with what the repository says:

- A request to a server of the same process is never served: `evUpdate` sends on the bus only, and `networkSendFrame`, which
  looks for a local server, is called by nobody (README.md:110: virtual nodes of one MCU reach each other by the same API).
- `publish` of an lvalue drops `local_only` (`src/Message.cpp:269`) and sends on the bus (`src/Message.cpp:283`: with it, the
  publication ends locally). `PassedLocalOnly` has it in the model.
- `MsgDictSingleWrite` never looks at the length of the message (`src/Message.cpp:34`; the comment at 13: the length must
  match). `OneItemAtATime` holds all the same.
- `onWriteReq` answers 3 to a write of an item that is not open and 4 to a bad index (README.md:227: code 0 is the
  refusal, which nothing answers).

- Reception from the bus never calls a subscriber's callback (`HandleMessage` has no such step), though
  README.md:179 offers callbacks for being told of a received command; they run for local publications.
- Callbacks that publish to each other recurse without a bound; a callback that publishes the item it was
  told of leaves the inner value in the local buffer and sends the outer one last.
- A write request may land in an item that the application closed while the handler ran (`src/Service.cpp:74-80`), and
  the answer to a read may be torn (`src/Service.cpp:153`); nothing in the repository promises otherwise.
- The handlers' copies of more than `DATALINK_MTU` bytes, in `toCanMsg`, `fromCanMsg` and `writeAsync`, are not bounded.
- `bindServer` for a second server with a client address that is taken returns the client of the first server.
- `frame2strbuf` returns a length that may exceed the buffer's size, since `snprintf` counts what it cut
  off; a `payload_len` above 64 is only warned about. `DumpFits` is about payloads that fit their array.
- `stop_flag` is a plain `bool` written and read by two threads.

## 9. Not modelled, and why

- `readSync`, `writeSync`, `onDataChanged`: stubs. `networkSendFrame`: dead code under `USE_REQUEST_EVLOOP`.
- `FileTransfer`: empty. Standard-format and segment headers: structs that no code uses.
- The library (event loop, pool, containers, CAN devices): a submodule whose source is not here; modelled
  from its use, as named above.
- `onReadAck` stores the value that was read with `updateData` in the client's buffer, as one step; a torn
  read of that buffer is the case that `ServiceThreads` has for the server's.
- A request that finds no room in the pool or the loop: `addTask` drops it in the model as the code logs it; that the
  external pool keeps to its capacity is not checked.
- Time: only whether a timeout comes before or after the round trip.
- A payload longer than `DATALINK_MTU` in `writeAsync` or on the way through the codec, and the growth of a `Vector` beyond its size: what
  they overwrite or move is undefined.
