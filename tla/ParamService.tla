---------------------------- MODULE ParamService ----------------------------
(***************************************************************************)
(* The parameter server of can-duck: servers (class Service), clients      *)
(* (class ParamServerClient), the requests a client's event loop runs      *)
(* (class ClientRequestEv) and the dispatch between them                   *)
(* (class ServiceContext), for several processes on one CAN bus.           *)
(*                                                                         *)
(* A process owns one ServiceContext.  Its receive thread takes one CAN    *)
(* message at a time and runs the handler to its end; the event loop runs  *)
(* evUpdate and evTimeoutCallback of its clients' tasks; the application   *)
(* starts requests and changes the servers' local data and access table,   *)
(* also while onWriteReq is between its checks and its copy.  A value is   *)
(* copied in one step here, ServiceThreads copies it byte by byte.  The    *)
(* event loop, the object pool and the CAN device belong to the emlib      *)
(* library, which is external: they are modelled from how this code uses   *)
(* them.                                                                   *)
(***************************************************************************)
EXTENDS CanFrame, FiniteSets, SequencesExt

CONSTANTS
    Node,       \* processes, each with one ServiceContext
    CanNode,    \* the processes whose LLCanBus* is not nullptr
    Server,     \* Service instances
    Client,     \* ParamServerClient instances
    Host,       \* [Server \cup Client -> Node]
    Address,    \* [Server \cup Client -> Nat]: server_addr, client_addr
    BoundTo,    \* [Client -> Nat]: ParamServerClient::server_addr
    Dict,       \* [Server \cup Client -> dictionary]: SerDesDict
    Index,      \* the dictionary indices in use
    Value,      \* the values an item can have
    InitValue,  \* what createBuffer leaves in every item
    LocalValue, \* the values the servers' own application stores
    DefaultFormat,  \* CANMessage::format as constructed by emlib
    MaxReq,     \* requests a client starts (bounds the model)
    RetryMax,   \* ClientRequestEv::retry_max
    LoopCap,    \* tasks one event loop accepts, 0 for no limit
    PoolCap,    \* tasks the pool of one process holds
    Faults,     \* what the bus may do: a subset of {"lose", "dup", "reorder"}
    QueueCap,   \* frames a device holds for its process
    LoopLocked, \* TRUE: ev_loop.notify waits for a running evUpdate to return
    Prompt,     \* TRUE: a request times out only with none of its frames in flight
    Pipelined   \* TRUE: a client may start a request before the last one ended

(* A dictionary: dictSize() and the data_size of each item, both of one    *)
(* byte; an item has at least one byte.                                    *)
Dictionary == [dictSize : 0 .. 255, data_size : [Index -> 1 .. 255]]

(* A request is named by its client and its number at that client. *)
Req == Client \X (1 .. MaxReq)

UINT16_MAX == 65535

ASSUME ConfigAssumption ==
    /\ CanNode \subseteq Node
    /\ Host \in [Server \cup Client -> Node]
    /\ Address \in [Server \cup Client -> 0 .. MAX_NODE_ID]
    /\ BoundTo \in [Client -> 0 .. MAX_NODE_ID]
    /\ Index \subseteq 0 .. 255
    /\ Dict \in [Server \cup Client -> Dictionary]
    /\ InitValue \in Value /\ LocalValue \subseteq Value
    /\ MaxReq \in Nat
    /\ RetryMax \in Nat /\ RetryMax <= UINT16_MAX   \* retry_cnt has 16 bits
    /\ LoopCap \in Nat /\ PoolCap \in Nat /\ QueueCap \in Nat
    /\ LoopLocked \in BOOLEAN /\ Prompt \in BOOLEAN /\ Pipelined \in BOOLEAN

(* makeServer and bindServer: one instance for an address of a context. *)
ASSUME OneInstancePerAddress ==
    /\ \A s, t \in Server :
         Host[s] = Host[t] /\ Address[s] = Address[t] => s = t
    /\ \A c, d \in Client :
         Host[c] = Host[d] /\ Address[c] = Address[d] => c = d

VARIABLES
    rx,         \* [Node -> Seq(packet)]: what can->read will return
    crashed,    \* the processes stopped by a failed USER_ASSERT
    buffer,     \* Service::buffer, by server and index
    wr_access,  \* Service::wr_access_table
    checked,    \* the onWriteReq calls between their checks and their copy
    client_buffer,  \* ParamServerClient::buffer
    phase,      \* state of a request's task in the event loop
    cached_req, \* ClientRequestEv::cached_req
    retry_cnt,  \* ClientRequestEv::retry_cnt
    answers,    \* the calls of a request's callback, in order
    sent,       \* history: how often evUpdate sent a request
    served,     \* history: what the servers' handlers did
    applied     \* history: by item and client, its last write the item took

serverVars  == <<buffer, wr_access, checked, served, applied>>
requestVars == <<cached_req, retry_cnt, sent>>
notifyVars  == <<phase, answers, client_buffer>>
vars == <<rx, crashed, serverVars, requestVars, notifyVars>>

-----------------------------------------------------------------------------
(* Frames.  A packet is a CAN message with the name of the request it      *)
(* belongs to, which is history that no handler reads.                     *)

ReadReqFrame(r, i) ==
    [src_id  |-> Address[r[1]] % 256, dest_id |-> BoundTo[r[1]] % 256,
     op_code |-> ReadReq, srv_id |-> i,
     payload_len |-> 1, payload |-> Dict[r[1]].data_size[i]]

WriteReqFrame(r, i, v) ==
    [src_id  |-> Address[r[1]] % 256, dest_id |-> BoundTo[r[1]] % 256,
     op_code |-> WriteReq, srv_id |-> i,
     payload_len |-> Dict[r[1]].data_size[i], payload |-> v]

AckFrame(frame, op, len, payload) ==
    [src_id |-> frame.dest_id, dest_id |-> frame.src_id,
     op_code |-> op, srv_id |-> frame.srv_id,
     payload_len |-> len, payload |-> payload]

NoFrame == [op_code |-> 0]

Packet(r, msg) == [rid |-> r, msg |-> msg]

(* __sendFrame: nothing without a device, otherwise the bus takes the      *)
(* message to every other process with a device.  A frame that finds no    *)
(* room is gone: the result of can->write is used by nobody.               *)
sendFrame(queues, n, packet) ==
    [p \in Node |-> IF n \in CanNode /\ p \in CanNode \ {n} /\ Len(queues[p]) < QueueCap
                    THEN Append(queues[p], packet)
                    ELSE queues[p]]

InFlight(r) == \E n \in Node : \E k \in DOMAIN rx[n] : rx[n][k].rid = r

-----------------------------------------------------------------------------
(* The application: requests and local data.                               *)

Up(x) == Host[x] \notin crashed

Live(r) == phase[r] \in {"ready", "sending", "waiting"}

(* A task is allocated from the pool of the process and accepted by the    *)
(* client's event loop; one that finds no room is dropped with a log line. *)
HasRoom(c) ==
    /\ LoopCap = 0 \/ Cardinality({r \in Req : Live(r) /\ r[1] = c}) < LoopCap
    /\ Cardinality({r \in Req : Live(r) /\ Host[r[1]] = Host[c]}) < PoolCap

(* Requests are numbered in the order they are started. *)
MayStart(r) ==
    /\ Up(r[1])
    /\ phase[r] = "unused"
    /\ \A k \in 1 .. (r[2] - 1) :
         \/ phase[<<r[1], k>>] = "dropped"
         \/ answers[<<r[1], k>>] # <<>>
         \/ Pipelined /\ phase[<<r[1], k>>] # "unused"

addTask(r, frame) ==
    /\ MayStart(r)
    /\ cached_req' = [cached_req EXCEPT ![r] = frame]
    /\ phase' = [phase EXCEPT ![r] = IF HasRoom(r[1]) THEN "ready" ELSE "dropped"]
    /\ UNCHANGED <<rx, crashed, serverVars, retry_cnt, sent, answers, client_buffer>>

readAsync(r, i) ==
    i < Dict[r[1]].dictSize /\ addTask(r, ReadReqFrame(r, i))

(* A longer value would be copied past the end of the frame's payload.     *)
writeAsync(r, i, v) ==
    /\ i < Dict[r[1]].dictSize
    /\ Dict[r[1]].data_size[i] <= DATALINK_MTU
    /\ addTask(r, WriteReqFrame(r, i, v))

updateData(s, i, v) ==
    /\ Up(s) /\ i < Dict[s].dictSize
    /\ buffer' = [buffer EXCEPT ![s][i] = v]
    /\ UNCHANGED <<rx, crashed, wr_access, checked, served, applied, requestVars, notifyVars>>

setWrAccess(s, i) ==
    /\ Up(s) /\ i < Dict[s].dictSize
    /\ wr_access' = [wr_access EXCEPT ![s] = @ \cup {i}]
    /\ UNCHANGED <<rx, crashed, buffer, checked, served, applied, requestVars, notifyVars>>

resetWrAccess(s, i) ==
    /\ Up(s)
    /\ wr_access' = [wr_access EXCEPT ![s] = @ \ {i}]
    /\ UNCHANGED <<rx, crashed, buffer, checked, served, applied, requestVars, notifyVars>>

-----------------------------------------------------------------------------
(* The event loop: ClientRequestEv.                                        *)

(* Sends the cached request on the bus, never to a server of the same      *)
(* process, and then waits.  When the loop does not hold notify off, the   *)
(* receive thread may run between the two calls.                           *)
evUpdate(r) ==
    /\ Up(r[1])
    /\ phase[r] = "ready"
    /\ rx' = sendFrame(rx, Host[r[1]], Packet(r, toCanMsg(cached_req[r], DefaultFormat)))
    /\ phase' = [phase EXCEPT ![r] = IF LoopLocked THEN "waiting" ELSE "sending"]
    /\ sent' = [sent EXCEPT ![r] = @ + 1]
    /\ UNCHANGED <<crashed, serverVars, cached_req, retry_cnt, answers, client_buffer>>

evWaitNotify(r) ==
    /\ Up(r[1])
    /\ phase[r] = "sending"
    /\ phase' = [phase EXCEPT ![r] = "waiting"]
    /\ UNCHANGED <<rx, crashed, serverVars, requestVars, answers, client_buffer>>

(* The callback's event code and the value it stands for. *)
Answer(code, val) == [code |-> code, val |-> val]

MayRetryOnceMore(r) == retry_cnt[r] <= RetryMax   \* mutant: off by one

MayRetryOnceLess(r) == retry_cnt[r] + 1 < RetryMax   \* mutant: off by one

MayRetry(r) == retry_cnt[r] < RetryMax

(* Mutant: the retry is also sent at once. *)
evTimeoutCallbackSendsToo(r) ==
    /\ Up(r[1]) /\ phase[r] = "waiting"
    /\ Prompt => ~ InFlight(r)
    /\ MayRetry(r)
    /\ retry_cnt' = [retry_cnt EXCEPT ![r] = @ + 1]
    /\ phase' = [phase EXCEPT ![r] = "ready"]
    /\ rx' = sendFrame(rx, Host[r[1]], Packet(r, toCanMsg(cached_req[r], DefaultFormat)))
    /\ UNCHANGED <<crashed, serverVars, cached_req, sent, answers, client_buffer>>

(* Mutant: the last timeout is forgotten. *)
evTimeoutCallbackNeverGivesUp(r) ==
    /\ Up(r[1]) /\ phase[r] = "waiting"
    /\ Prompt => ~ InFlight(r)
    /\ MayRetry(r)
    /\ retry_cnt' = [retry_cnt EXCEPT ![r] = @ + 1]
    /\ phase' = [phase EXCEPT ![r] = "ready"]
    /\ UNCHANGED <<rx, crashed, serverVars, cached_req, sent, answers, client_buffer>>

evTimeoutCallback(r) ==
    /\ Up(r[1])
    /\ phase[r] = "waiting"
    /\ Prompt => ~ InFlight(r)
    /\ \/ /\ MayRetry(r)
          /\ retry_cnt' = [retry_cnt EXCEPT ![r] = @ + 1]
          /\ phase' = [phase EXCEPT ![r] = "ready"]
          /\ UNCHANGED answers
       \/ /\ ~ MayRetry(r)
          /\ phase' = [phase EXCEPT ![r] = "finished"]
          /\ answers' = [answers EXCEPT ![r] = Append(@, Answer(2, InitValue))]
          /\ UNCHANGED retry_cnt
    /\ UNCHANGED <<rx, crashed, serverVars, cached_req, sent, client_buffer>>

AckOf(op) == IF op = ReadReq THEN ReadAck ELSE WriteAck

matchNotifyMsgAnyItem(req, frame) ==   \* mutant: srv_id is not compared
    frame.src_id = req.dest_id /\ frame.op_code = AckOf(req.op_code)

matchNotifyMsg(req, frame) ==
    /\ frame.src_id = req.dest_id
    /\ frame.op_code = AckOf(req.op_code)
    /\ frame.srv_id = req.srv_id

(* deserialize refuses an index that the client's dictionary has not. *)
Deserializes(c, frame) == frame.op_code = ReadAck /\ frame.srv_id < Dict[c].dictSize

(* onRecv: 1 or 3 for a read, the server's code for a write. *)
onRecv(r, frame) ==
    IF frame.op_code = ReadAck
    THEN Answer(IF Deserializes(r[1], frame) THEN 1 ELSE 3, frame.payload)
    ELSE Answer(frame.payload, cached_req[r].payload)

(* Mutant: evExit is missing. *)
evNotifyCallbackStays(woken, frame) ==
    /\ answers' = [r \in Req |-> IF r \in woken THEN Append(answers[r], onRecv(r, frame))
                                 ELSE answers[r]]
    /\ UNCHANGED <<phase, client_buffer>>

(* evNotifyCallback: the answer is reported and the task leaves the loop. *)
evNotifyCallback(woken, frame) ==
    /\ answers' = [r \in Req |-> IF r \in woken THEN Append(answers[r], onRecv(r, frame))
                                 ELSE answers[r]]
    /\ phase' = [r \in Req |-> IF r \in woken THEN "finished" ELSE phase[r]]
    /\ client_buffer' =
         [c \in Client |->
            IF Deserializes(c, frame) /\ (\E r \in woken : r[1] = c)
            THEN [client_buffer[c] EXCEPT ![frame.srv_id] = frame.payload]
            ELSE client_buffer[c]]

(* ev_loop.notify of client c.  Whether the external loop wakes the first  *)
(* waiting task that matches or all of them is left open.                  *)
notify(c, frame) ==
    LET hits == {r \in Req : /\ r[1] = c
                             /\ phase[r] = "waiting"
                             /\ matchNotifyMsg(cached_req[r], frame)}
    IN  \E woken \in {hits} \cup {{r} : r \in hits} : evNotifyCallback(woken, frame)

-----------------------------------------------------------------------------
(* Reception: ServiceContext::__handleRecv and the handlers of Service.    *)

(* recvPolling takes a message from the device: what it leaves for n. *)
Read(n, k) == [rx EXCEPT ![n] = RemoveAt(@, k)]

ClientsAt(n, addr) == {c \in Client : Host[c] = n /\ Address[c] = addr}
ServersAt(n, addr) == {s \in Server : Host[s] = n /\ Address[s] = addr}

(* Mutant: the answer goes out on the bus also when a client took it.      *)
replyEverywhere(n, queues, ack, r) ==
    /\ rx' = sendFrame(queues, n, Packet(r, toCanMsg(ack, DefaultFormat)))
    /\ \/ \E c \in ClientsAt(n, ack.dest_id) : notify(c, ack)
       \/ ClientsAt(n, ack.dest_id) = {} /\ UNCHANGED notifyVars

(* An answer goes to a client of the same process if one has the address,  *)
(* and to the bus otherwise.                                               *)
reply(n, queues, ack, r) ==
    \/ /\ \E c \in ClientsAt(n, ack.dest_id) : notify(c, ack)
       /\ rx' = queues
    \/ /\ ClientsAt(n, ack.dest_id) = {}
       /\ rx' = sendFrame(queues, n, Packet(r, toCanMsg(ack, DefaultFormat)))
       /\ UNCHANGED notifyVars

(* index > dictSize() is refused, but index = dictSize() goes on to        *)
(* getObjBaseByIndex, whose USER_ASSERT(index < size) stops the program.   *)
PassesRangeCheck(s, frame) == frame.srv_id <= Dict[s].dictSize
AssertFails(s, frame) ==
    PassesRangeCheck(s, frame) /\ ~ (frame.srv_id < Dict[s].dictSize)

(* The history entry of a handler that ran to its end: val is the value    *)
(* it read or wrote.                                                       *)
Entry(r, s, frame, ret, val) ==
    [rid |-> r, srv |-> s, op |-> frame.op_code, idx |-> frame.srv_id,
     ret |-> ret, val |-> val]

WriteCodeNoAccess(s, frame) ==   \* mutant: the access table is not read
    IF ~ PassesRangeCheck(s, frame) THEN 4
    ELSE IF Dict[s].data_size[frame.srv_id] # frame.payload_len THEN 2
    ELSE 1

WriteCode(s, frame) ==
    IF ~ PassesRangeCheck(s, frame) THEN 4
    ELSE IF frame.srv_id \notin wr_access[s] THEN 3
    ELSE IF Dict[s].data_size[frame.srv_id] # frame.payload_len THEN 2
    ELSE 1

(* The first half of onWriteReq, up to the copy: what it finds out about   *)
(* the message is kept in locals while others go on.  The message keeps    *)
(* its place in rx until the handler has returned.                         *)
Call(s, r, k, code) == [srv |-> s, rid |-> r, at |-> k, code |-> code]

InProgress(n) == {w \in checked : Host[w.srv] = n}

checkWrite(n) ==
    /\ n \notin crashed
    /\ InProgress(n) = {}
    /\ \E k \in DOMAIN rx[n] :
         LET msg   == rx[n][k].msg
             frame == fromCanMsg(msg)
         IN  /\ k = 1 \/ "reorder" \in Faults
             /\ IsServiceMsg(msg)
             /\ frame.op_code = WriteReq
             /\ \E s \in ServersAt(n, frame.dest_id) :
                  /\ ~ AssertFails(s, frame)
                  /\ checked' = checked \cup
                                  {Call(s, rx[n][k].rid, k, WriteCode(s, frame))}
    /\ UNCHANGED <<rx, crashed, buffer, wr_access, served, applied, requestVars, notifyVars>>

(* Mutant: every acknowledgement says 1. *)
onWriteReqAcksAll(s, queues, frame, r, code) ==
    /\ buffer' = IF code = 1
                 THEN [buffer EXCEPT ![s][frame.srv_id] = frame.payload]
                 ELSE buffer
    /\ served' = served \cup {Entry(r, s, frame, code,
                                   IF code = 1 THEN frame.payload ELSE InitValue)}
    /\ UNCHANGED applied
    /\ reply(Host[s], queues, AckFrame(frame, WriteAck, 1, 1), r)

(* The second half: copy and acknowledgement, by the code found before.    *)
onWriteReq(s, queues, frame, r, code) ==
    /\ buffer' = IF code = 1
                 THEN [buffer EXCEPT ![s][frame.srv_id] = frame.payload]
                 ELSE buffer
    /\ served' = served \cup
         {Entry(r, s, frame, code,
                IF code = 1 THEN frame.payload ELSE InitValue)}
    /\ applied' = IF code = 1
                  THEN [applied EXCEPT ![s][frame.srv_id][r[1]] = r[2]]
                  ELSE applied
    /\ reply(Host[s], queues, AckFrame(frame, WriteAck, 1, code), r)

(* A read that does not fit is not answered at all. *)
ReadCode(s, frame) ==
    IF ~ PassesRangeCheck(s, frame) THEN 2
    ELSE IF Dict[s].data_size[frame.srv_id] # frame.payload THEN 3
    ELSE IF Dict[s].data_size[frame.srv_id] > DATALINK_MTU THEN 4
    ELSE 0

onReadReq(s, queues, frame, r) ==
    LET code == ReadCode(s, frame)
        val  == IF code = 0 THEN buffer[s][frame.srv_id] ELSE InitValue
    IN  /\ served' = served \cup {Entry(r, s, frame, code, val)}
        /\ UNCHANGED <<buffer, applied>>
        /\ \/ /\ code = 0
              /\ reply(Host[s], queues,
                       AckFrame(frame, ReadAck, Dict[s].data_size[frame.srv_id], val), r)
           \/ /\ code # 0
              /\ rx' = queues
              /\ UNCHANGED notifyVars

HandleRequest(s, queues, frame, r) ==
    /\ ~ AssertFails(s, frame)
    /\ \/ /\ frame.op_code = ReadReq
          /\ onReadReq(s, queues, frame, r)
          /\ UNCHANGED checked
       \/ /\ frame.op_code = WriteReq
          /\ \E w \in checked : /\ w.srv = s /\ w.rid = r
                               /\ onWriteReq(s, queues, frame, r, w.code)
                               /\ checked' = checked \ {w}
    /\ UNCHANGED <<crashed, wr_access, requestVars>>

HandleBadIndex(s, queues, frame) ==
    /\ frame.op_code \in {ReadReq, WriteReq}
    /\ AssertFails(s, frame)
    /\ crashed' = crashed \cup {Host[s]}
    /\ rx' = queues
    /\ UNCHANGED <<serverVars, requestVars, notifyVars>>

HandleAck(c, queues, frame) ==
    /\ frame.op_code \in {ReadAck, WriteAck}
    /\ notify(c, frame)
    /\ rx' = queues
    /\ UNCHANGED <<crashed, serverVars, requestVars>>

(* No instance of this context has the destination, or the message is not  *)
(* a service frame.                                                        *)
Unmatched(n, msg) ==
    LET frame == fromCanMsg(msg) IN
    ~ IsServiceMsg(msg)
    \/ CASE frame.op_code \in {ReadReq, WriteReq} -> ServersAt(n, frame.dest_id) = {}
         [] frame.op_code \in {ReadAck, WriteAck} -> ClientsAt(n, frame.dest_id) = {}
         [] OTHER -> TRUE

HandleUnmatched(n, queues, msg) ==
    /\ Unmatched(n, msg)
    /\ rx' = queues
    /\ UNCHANGED <<crashed, serverVars, requestVars, notifyVars>>

(* One message of process n, the oldest unless the bus reorders; a write   *)
(* that is in progress is finished first.                                  *)
handleRecv(n) ==
    /\ n \notin crashed
    /\ \E k \in DOMAIN rx[n] :
         LET msg   == rx[n][k].msg
             rid   == rx[n][k].rid
             frame == fromCanMsg(msg)
             left  == Read(n, k)
         IN  /\ k = 1 \/ "reorder" \in Faults
             /\ \A w \in InProgress(n) : w.at = k
             /\ \/ HandleUnmatched(n, left, msg)
                \/ /\ IsServiceMsg(msg)
                   /\ \/ \E s \in ServersAt(n, frame.dest_id) :
                           \/ HandleRequest(s, left, frame, rid)
                           \/ HandleBadIndex(s, left, frame)
                      \/ \E c \in ClientsAt(n, frame.dest_id) :
                           HandleAck(c, left, frame)

-----------------------------------------------------------------------------
(* The bus.  What it does to a queue commutes with a check in progress.    *)

Lose(n) ==
    /\ "lose" \in Faults
    /\ InProgress(n) = {}
    /\ \E k \in DOMAIN rx[n] : rx' = Read(n, k)
    /\ UNCHANGED <<crashed, serverVars, requestVars, notifyVars>>

Duplicate(n) ==
    /\ "dup" \in Faults
    /\ InProgress(n) = {}
    /\ Len(rx[n]) < QueueCap
    /\ \E k \in DOMAIN rx[n] : rx' = [rx EXCEPT ![n] = InsertAt(@, k, rx[n][k])]
    /\ UNCHANGED <<crashed, serverVars, requestVars, notifyVars>>

-----------------------------------------------------------------------------
Init ==
    /\ rx = [n \in Node |-> <<>>]
    /\ crashed = {}
    /\ buffer = [s \in Server |-> [i \in Index |-> InitValue]]
    /\ wr_access = [s \in Server |-> {}]
    /\ checked = {}
    /\ client_buffer = [c \in Client |-> [i \in Index |-> InitValue]]
    /\ phase = [r \in Req |-> "unused"]
    /\ cached_req = [r \in Req |-> NoFrame]
    /\ retry_cnt = [r \in Req |-> 0]
    /\ answers = [r \in Req |-> <<>>]
    /\ sent = [r \in Req |-> 0]
    /\ served = {}
    /\ applied = [s \in Server |-> [i \in Index |-> [c \in Client |-> 0]]]

Application ==
    \/ \E r \in Req, i \in Index :
         readAsync(r, i) \/ \E v \in Value : writeAsync(r, i, v)
    \/ \E s \in Server, i \in Index :
         setWrAccess(s, i) \/ resetWrAccess(s, i) \/ \E v \in LocalValue : updateData(s, i, v)

Task(r) == evUpdate(r) \/ evWaitNotify(r) \/ evTimeoutCallback(r)

EventLoop == \E r \in Req : Task(r)

Bus == \E n \in Node : Lose(n) \/ Duplicate(n)

Receiver == \E n \in Node : checkWrite(n) \/ handleRecv(n)

Next == Application \/ EventLoop \/ Receiver \/ Bus

Spec == Init /\ [][Next]_vars

(* The event loop keeps running its tasks and looking at their deadlines.  *)
(* Nothing is asked of the application, of the bus and even of the receive *)
(* thread.                                                                 *)
Fairness == \A r \in Req : WF_vars(Task(r))

FairSpec == Spec /\ Fairness

-----------------------------------------------------------------------------
(* Types.                                                                  *)

Codes   == 0 .. 255
Payload == Value \cup Codes

RequestFrame == [src_id : 0 .. 255, dest_id : 0 .. 255, op_code : {ReadReq, WriteReq},
                 srv_id : Index, payload_len : 0 .. 255, payload : Payload]

ServiceMessage ==
    {m \in [format : {DefaultFormat}, id : Nat, len : 0 .. 255, data : Payload] :
       service_id(m.id) \in Index}

Packets == [rid : Req, msg : ServiceMessage]

Calls == [srv : Server, rid : Req, at : Nat, code : 1 .. 4]

ServedEntry == [rid : Req, srv : Server, op : {ReadReq, WriteReq}, idx : Index,
                ret : 0 .. 4, val : Payload]

Phases == {"unused", "dropped", "ready", "sending", "waiting", "finished"}

(* The state has the types its declarations say, and a request that was    *)
(* started has a frame to send.                                            *)
TypeOK ==
    /\ rx \in [Node -> Seq(Packets)]
    /\ crashed \subseteq Node
    /\ buffer \in [Server -> [Index -> Payload]]
    /\ wr_access \in [Server -> SUBSET Index]
    /\ checked \subseteq Calls
    /\ client_buffer \in [Client -> [Index -> Payload]]
    /\ phase \in [Req -> Phases]
    /\ cached_req \in [Req -> RequestFrame \cup {NoFrame}]
    /\ \A r \in Req : phase[r] # "unused" => cached_req[r] \in RequestFrame
    /\ retry_cnt \in [Req -> 0 .. RetryMax]
    /\ answers \in [Req -> Seq([code : Payload, val : Payload])]
    /\ sent \in [Req -> Nat]
    /\ served \subseteq ServedEntry
    /\ applied \in [Server -> [Index -> [Client -> 0 .. MaxReq]]]

-----------------------------------------------------------------------------
(* Properties of the request protocol.                                     *)

(* The callback of a request is called once and only once: it has been     *)
(* called exactly when the task has left the event loop, however often the *)
(* request was sent and however many acknowledgements arrive.  Code:       *)
(* evNotifyCallback, evTimeoutCallback.                                    *)
CallbackOnce ==
    \A r \in Req : Len(answers[r]) = IF phase[r] = "finished" THEN 1 ELSE 0

(* A request goes on the bus once more than it was retried, and so never   *)
(* more than RetryMax + 1 times.  Code: evUpdate, evTimeoutCallback.       *)
RetryBudget ==
    \A r \in Req :
      /\ sent[r] <= RetryMax + 1
      /\ sent[r] = retry_cnt[r] + (IF phase[r] \in {"sending", "waiting", "finished"}
                                   THEN 1 ELSE 0)

(* Code 2 reports a timeout only after the last attempt.  Apart from that  *)
(* it is what a server answered to a write of this address for its length, *)
(* which has the same code (CodeTwoIsTimeout of ParamClaims).  Code:       *)
(* evTimeoutCallback, onWriteReq.                                          *)
TimeoutAfterLastAttempt ==
    \A r \in Req : \A k \in DOMAIN answers[r] :
      answers[r][k].code = 2 =>
        \/ sent[r] = RetryMax + 1
        \/ \E e \in served : /\ e.op = WriteReq /\ e.ret = 2
                             /\ Address[e.rid[1]] = Address[r[1]]

Succeeded(e) == IF e.op = ReadReq THEN e.ret = 0 ELSE e.ret = 1

(* A request reported as successful has a cause: the server it is bound to *)
(* really did the operation on that item for one of the requests of this   *)
(* client (an acknowledgement does not say for which).  Code:              *)
(* matchNotifyMsg, onRecv, onReadReq, onWriteReq.                          *)
SuccessHasACause ==
    \A r \in Req : \A k \in DOMAIN answers[r] :
      answers[r][k].code = 1 =>
        \E e \in served :
          /\ e.rid[1] = r[1]
          /\ Address[e.srv] = BoundTo[r[1]]
          /\ e.op = cached_req[r].op_code /\ e.idx = cached_req[r].srv_id
          /\ Succeeded(e)

(* The writes of a client that waits for each answer are applied to an     *)
(* item in the order they were started, although requests are repeated,    *)
(* lost and duplicated: a late retransmission never brings an older value  *)
(* back over a newer one.  Code: evExit in both callbacks, onWriteReq.     *)
AppliedInIssueOrder ==
    [][\A s \in Server, i \in Index, c \in Client :
         applied[s][i][c] <= applied'[s][i][c]]_vars

(* A frame that a process would act upon belongs to a request that is      *)
(* still in the event loop, when timeouts outlast the round trip: nothing  *)
(* of a request survives its callback.  Code: evTimeoutCallback, evExit.   *)
NoStaleFrame ==
    \A n \in Node : \A k \in DOMAIN rx[n] :
      Live(rx[n][k].rid) \/ Unmatched(n, rx[n][k].msg)

(* When timeouts outlast the round trip, a successful answer is about this *)
(* very request: the server did it, and the value is the one read or       *)
(* written then.  Code: onReadReq, onWriteReq, onRecv.                     *)
AnswerIsTrue ==
    \A r \in Req : \A k \in DOMAIN answers[r] :
      answers[r][k].code = 1 =>
        \E e \in served : /\ e.rid = r /\ Succeeded(e)
                          /\ Address[e.srv] = BoundTo[r[1]]
                          /\ e.val = answers[r][k].val

(* Another client has the address in the process of each server that the   *)
(* client asks. *)
Shadowed(c) ==
    \A s \in Server : Address[s] = BoundTo[c] =>
      \E d \in Client \ {c} : Host[d] = Host[s] /\ Address[d] = Address[c]

(* On a bus that loses nothing a request is repeated only for a reason the *)
(* code has: no running process but the client's own has the server, the   *)
(* server refused the read, which it does without an answer, or its answer *)
(* ends at another client of its process.  Code: evUpdate, matchNotifyMsg, *)
(* onReadReq, the local search of reply.                                   *)
RetryHasCause ==
    \A r \in Req : retry_cnt[r] > 0 =>
      \/ ~ \E s \in Server : /\ Address[s] = BoundTo[r[1]]
                             /\ Host[s] # Host[r[1]] /\ Up(s)
                             /\ {Host[s], Host[r[1]]} \subseteq CanNode
      \/ \E e \in served : e.rid = r /\ e.op = ReadReq /\ e.ret # 0
      \/ Shadowed(r[1])

(* Such a client is never answered, although the server serves it: all it  *)
(* is told of any request is the timeout.  Code: the local search of       *)
(* onReadReq and onWriteReq, evTimeoutCallback.                            *)
ShadowedTimesOut ==
    \A r \in Req : Shadowed(r[1]) =>
      \A k \in DOMAIN answers[r] : answers[r][k] = Answer(2, InitValue)

(* Every request that the event loop took is answered in the end, whatever *)
(* the bus does, unless the process stops.  Code: evUpdate,                *)
(* evTimeoutCallback.                                                      *)
EveryRequestAnswered ==
    \A r \in Req : Live(r) ~> answers[r] # <<>> \/ ~ Up(r[1])

=============================================================================
