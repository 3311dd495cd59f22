------------------------- MODULE ParamServiceProofs -------------------------
(***************************************************************************)
(* Theorems of ParamService, for every configuration its assumptions       *)
(* allow.                                                                  *)
(***************************************************************************)
EXTENDS ParamService, SequenceTheorems, TLAPS

(* The decoders stay within the widths of the fields. *)
LEMMA DecodedFields ==
    ASSUME NEW id \in Nat
    PROVE  /\ service_id(id) \in 0 .. 1023
           /\ op_code(id) \in 0 .. 31
           /\ dest_id(id) \in 0 .. 63
           /\ src_id(id) \in 0 .. 63
  BY DEF service_id, op_code, dest_id, src_id

LEMMA RemoveAtType ==
    ASSUME NEW S, NEW q \in Seq(S), NEW k \in DOMAIN q
    PROVE  RemoveAt(q, k) \in Seq(S)
  <1>1. k \in 1 .. Len(q)
    OBVIOUS
  <1>2. SubSeq(q, 1, k - 1) \in Seq(S) /\ SubSeq(q, k + 1, Len(q)) \in Seq(S)
    BY <1>1, SubSeqProperties
  <1>3. QED
    BY <1>2, ConcatProperties DEF RemoveAt

LEMMA InsertAtType ==
    ASSUME NEW S, NEW q \in Seq(S), NEW k \in DOMAIN q, NEW e \in S
    PROVE  InsertAt(q, k, e) \in Seq(S)
  <1>1. k \in 1 .. Len(q)
    OBVIOUS
  <1>2. SubSeq(q, 1, k - 1) \in Seq(S) /\ SubSeq(q, k, Len(q)) \in Seq(S)
    BY <1>1, SubSeqProperties
  <1>3. <<e>> \in Seq(S)
    OBVIOUS
  <1>4. QED
    BY <1>2, <1>3, ConcatProperties DEF InsertAt

-----------------------------------------------------------------------------
(* Frames and packets.                                                     *)

ReceivedFrame == [src_id : 0 .. 63, dest_id : 0 .. 63, op_code : 0 .. 31,
                  srv_id : Index, payload_len : 0 .. 255, payload : Payload]

LEMMA IndexRange == Index \subseteq 0 .. 255
  BY ConfigAssumption DEF ConfigAssumption

(* The fields that matter to the encoder. *)
Encodable(f) ==
    /\ f.src_id \in Nat /\ f.dest_id \in Nat /\ f.op_code \in Nat
    /\ f.srv_id \in Index /\ f.payload_len \in 0 .. 255 /\ f.payload \in Payload

LEMMA RequestFrameEncodable ==
    ASSUME NEW f \in RequestFrame
    PROVE  Encodable(f)
  BY DEF RequestFrame, Encodable, ReadReq, WriteReq

LEMMA ReceivedFrameEncodable ==
    ASSUME NEW f \in ReceivedFrame
    PROVE  Encodable(f)
  BY DEF ReceivedFrame, Encodable

LEMMA ToCanMsgType ==
    ASSUME NEW f, Encodable(f)
    PROVE  toCanMsg(f, DefaultFormat) \in ServiceMessage
  <1> DEFINE id == HeaderService(f.srv_id, f.op_code, f.dest_id, f.src_id)
  <1>0. \A i \in Index : i \in 0 .. 255 /\ i \in Nat
    BY IndexRange
  <1>1. f.srv_id \in Nat /\ f.srv_id \in 0 .. 255
    BY <1>0, Zenon DEF Encodable
  <1>2. f.op_code \in Nat /\ f.dest_id \in Nat /\ f.src_id \in Nat
    BY DEF Encodable
  <1>3. id \in Nat /\ service_id(id) = f.srv_id % 1024
    <2> DEFINE s == f.srv_id  o == f.op_code  d == f.dest_id  c == f.src_id
    <2>1. s \in Nat /\ o \in Nat /\ d \in Nat /\ c \in Nat
      BY <1>1, <1>2
    <2> HIDE DEF s, o, d, c
    <2>2. /\ HeaderService(s, o, d, c) \in Nat
          /\ service_id(HeaderService(s, o, d, c)) = s % 1024
      BY <2>1 DEF HeaderService, service_id
    <2>3. QED
      BY <2>2 DEF s, o, d, c
  <1>4. f.srv_id % 1024 = f.srv_id
    BY <1>1
  <1>5. service_id(id) \in Index
    BY <1>3, <1>4 DEF Encodable
  <1> HIDE DEF id
  <1>6. [format |-> DefaultFormat, id |-> id, len |-> f.payload_len, data |-> f.payload]
          \in ServiceMessage
    BY <1>3, <1>5 DEF Encodable, ServiceMessage
  <1>7. QED
    BY <1>6 DEF toCanMsg, id

LEMMA FromCanMsgType ==
    ASSUME NEW m \in ServiceMessage
    PROVE  fromCanMsg(m) \in ReceivedFrame
  <1>1. /\ m.id \in Nat /\ m.len \in 0 .. 255 /\ m.data \in Payload
        /\ service_id(m.id) \in Index
    BY DEF ServiceMessage
  <1>2. QED
    BY <1>1, DecodedFields DEF fromCanMsg, ReceivedFrame

LEMMA SendType ==
    ASSUME NEW queues \in [Node -> Seq(Packets)], NEW n \in Node, NEW p \in Packets
    PROVE  sendFrame(queues, n, p) \in [Node -> Seq(Packets)]
  BY DEF sendFrame

LEMMA ReadType ==
    ASSUME TypeOK, NEW n \in Node, NEW k \in DOMAIN rx[n]
    PROVE  /\ Read(n, k) \in [Node -> Seq(Packets)]
           /\ rx[n][k] \in Packets
  <1>1. rx[n] \in Seq(Packets)
    BY DEF TypeOK
  <1>2. RemoveAt(rx[n], k) \in Seq(Packets)
    BY <1>1, RemoveAtType
  <1>3. QED
    BY <1>1, <1>2 DEF Read, TypeOK

-----------------------------------------------------------------------------
(* What notify and reply may do to the state.                              *)

NotifyVarsOK ==
    /\ phase' \in [Req -> Phases]
    /\ \A r \in Req : phase'[r] # "unused" => phase[r] # "unused"
    /\ answers' \in [Req -> Seq([code : Payload, val : Payload])]
    /\ client_buffer' \in [Client -> [Index -> Payload]]

LEMMA NotifyType ==
    ASSUME TypeOK, NEW c \in Client, NEW f \in ReceivedFrame, notify(c, f)
    PROVE  NotifyVarsOK
  <1>1. PICK woken \in SUBSET Req :
          /\ \A r \in woken : phase[r] = "waiting"
          /\ evNotifyCallback(woken, f)
    BY DEF notify
  <1>2. \A r \in woken : onRecv(r, f) \in [code : Payload, val : Payload]
    <2> SUFFICES ASSUME NEW r \in woken
                 PROVE  onRecv(r, f) \in [code : Payload, val : Payload]
      OBVIOUS
    <2>1. cached_req[r].payload \in Payload
      BY <1>1 DEF TypeOK, RequestFrame
    <2>2. f.payload \in Payload
      BY DEF ReceivedFrame
    <2>3. 1 \in Payload /\ 3 \in Payload
      BY DEF Payload, Codes
    <2>4. QED
      BY <2>1, <2>2, <2>3 DEF onRecv, Answer
  <1>3. answers' \in [Req -> Seq([code : Payload, val : Payload])]
    <2> DEFINE A == [code : Payload, val : Payload]
    <2>1. \A r \in woken : Append(answers[r], onRecv(r, f)) \in Seq(A)
      <3> SUFFICES ASSUME NEW r \in woken
                   PROVE  Append(answers[r], onRecv(r, f)) \in Seq(A)
        OBVIOUS
      <3>1. answers[r] \in Seq(A) /\ onRecv(r, f) \in A
        BY <1>2 DEF TypeOK
      <3> HIDE DEF A
      <3>2. QED
        BY <3>1
    <2>2. \A r \in Req : answers[r] \in Seq(A)
      BY DEF TypeOK
    <2> HIDE DEF A
    <2>3. answers' \in [Req -> Seq(A)]
      BY <1>1, <2>1, <2>2 DEF evNotifyCallback
    <2>4. QED
      BY <2>3 DEF A
  <1>4. phase' \in [Req -> Phases] /\ \A r \in Req : phase'[r] # "unused" => phase[r] # "unused"
    BY <1>1 DEF evNotifyCallback, TypeOK, Phases
  <1>5. client_buffer' \in [Client -> [Index -> Payload]]
    BY <1>1 DEF evNotifyCallback, TypeOK, ReceivedFrame
  <1>6. QED
    BY <1>3, <1>4, <1>5 DEF NotifyVarsOK

LEMMA NotifyUnchanged ==
    ASSUME TypeOK, UNCHANGED notifyVars
    PROVE  NotifyVarsOK
  BY DEF TypeOK, notifyVars, NotifyVarsOK

LEMMA ReplyType ==
    ASSUME TypeOK, NEW n \in Node, NEW queues \in [Node -> Seq(Packets)],
           NEW ack \in ReceivedFrame, NEW r \in Req, reply(n, queues, ack, r)
    PROVE  NotifyVarsOK /\ rx' \in [Node -> Seq(Packets)]
  <1>1. CASE \E c \in ClientsAt(n, ack.dest_id) : notify(c, ack) /\ rx' = queues
    BY <1>1, NotifyType DEF ClientsAt
  <1>2. CASE /\ rx' = sendFrame(queues, n, Packet(r, toCanMsg(ack, DefaultFormat)))
             /\ UNCHANGED notifyVars
    <2>1. Packet(r, toCanMsg(ack, DefaultFormat)) \in Packets
      BY ToCanMsgType, ReceivedFrameEncodable DEF Packet, Packets
    <2>2. QED
      BY <1>2, <2>1, SendType, NotifyUnchanged
  <1>3. QED
    BY <1>1, <1>2 DEF reply

-----------------------------------------------------------------------------
(* Type correctness.                                                       *)

LEMMA NumbersArePayload == 0 .. 255 \subseteq Payload
  BY DEF Payload, Codes

LEMMA DictType ==
    ASSUME NEW x \in Server \cup Client
    PROVE  /\ Dict[x].dictSize \in Nat
           /\ \A i \in Index : Dict[x].data_size[i] \in 1 .. 255
  <1>1. Dict[x] \in Dictionary
    BY ConfigAssumption DEF ConfigAssumption
  <1>2. Dict[x].dictSize \in 0 .. 255 /\ Dict[x].data_size \in [Index -> 1 .. 255]
    BY <1>1, Zenon DEF Dictionary
  <1>3. QED
    BY <1>2

LEMMA HostType ==
    /\ \A s \in Server : Host[s] \in Node
    /\ \A c \in Client : Host[c] \in Node
    /\ \A c \in Client : Address[c] \in 0 .. 63 /\ BoundTo[c] \in 0 .. 63
  BY ConfigAssumption DEF ConfigAssumption, MAX_NODE_ID

LEMMA InitType == ASSUME Init PROVE TypeOK
  <1>1. InitValue \in Payload
    BY ConfigAssumption DEF ConfigAssumption, Payload
  <1>2. MaxReq \in Nat /\ RetryMax \in Nat
    BY ConfigAssumption DEF ConfigAssumption
  <1>3. QED
    BY <1>1, <1>2 DEF Init, TypeOK, Phases

LEMMA AddTaskType ==
    ASSUME TypeOK, NEW r \in Req, NEW f \in RequestFrame, addTask(r, f)
    PROVE  TypeOK'
  BY DEF addTask, TypeOK, Phases, serverVars

LEMMA RequestFrameTypes ==
    ASSUME NEW r \in Req, NEW i \in Index
    PROVE  /\ ReadReqFrame(r, i) \in RequestFrame
           /\ \A v \in Value : WriteReqFrame(r, i, v) \in RequestFrame
  <1>1. r[1] \in Client
    BY DEF Req
  <1>2. /\ Dict[r[1]].data_size[i] \in 0 .. 255
        /\ Address[r[1]] % 256 \in 0 .. 255 /\ BoundTo[r[1]] % 256 \in 0 .. 255
    <2>1. Dict[r[1]].data_size[i] \in 1 .. 255
      BY <1>1, DictType, Zenon
    <2>2. Address[r[1]] \in 0 .. 63 /\ BoundTo[r[1]] \in 0 .. 63
      BY <1>1, HostType, Zenon
    <2> DEFINE a == Address[r[1]]  b == BoundTo[r[1]]  d == Dict[r[1]].data_size[i]
    <2> HIDE DEF a, b, d
    <2>3. a \in 0 .. 63 /\ b \in 0 .. 63 /\ d \in 1 .. 255
      BY <2>1, <2>2 DEF a, b, d
    <2>4. d \in 0 .. 255 /\ a % 256 \in 0 .. 255 /\ b % 256 \in 0 .. 255
      BY <2>3
    <2>5. QED
      BY <2>4 DEF a, b, d
  <1>3. Dict[r[1]].data_size[i] \in Payload
    BY <1>2, NumbersArePayload, Zenon
  <1>8. 1 \in 0 .. 255
    OBVIOUS
  <1>4. ReadReq \in {ReadReq, WriteReq} /\ WriteReq \in {ReadReq, WriteReq}
    OBVIOUS
  <1>5. ReadReqFrame(r, i) \in RequestFrame
    BY <1>2, <1>3, <1>8, <1>4, Zenon DEF ReadReqFrame, RequestFrame
  <1>6. ASSUME NEW v \in Value PROVE WriteReqFrame(r, i, v) \in RequestFrame
    BY <1>2, <1>4, Zenon DEF WriteReqFrame, RequestFrame, Payload
  <1>7. QED
    BY <1>5, <1>6

LEMMA ServerDataType ==
    ASSUME TypeOK, NEW s \in Server, NEW i \in Index
    PROVE  /\ \A v \in Value : updateData(s, i, v) => TypeOK'
           /\ setWrAccess(s, i) => TypeOK'
           /\ resetWrAccess(s, i) => TypeOK'
  <1>1. ASSUME NEW v \in Value, updateData(s, i, v) PROVE TypeOK'
    BY <1>1 DEF updateData, TypeOK, requestVars, notifyVars, Payload
  <1>2. ASSUME setWrAccess(s, i) PROVE TypeOK'
    BY <1>2 DEF setWrAccess, TypeOK, requestVars, notifyVars
  <1>3. ASSUME resetWrAccess(s, i) PROVE TypeOK'
    BY <1>3 DEF resetWrAccess, TypeOK, requestVars, notifyVars
  <1>4. QED
    BY <1>1, <1>2, <1>3

(* The check leaves its result, and nothing else. *)
LEMMA CheckWriteType ==
    ASSUME TypeOK, NEW n \in Node, checkWrite(n)
    PROVE  TypeOK'
  <1>1. PICK k \in DOMAIN rx[n], s \in Server :
          checked' = checked \cup {Call(s, rx[n][k].rid, k,
                                        WriteCode(s, fromCanMsg(rx[n][k].msg)))}
    BY Zenon DEF checkWrite, ServersAt
  <1>2. rx[n] \in Seq(Packets)
    BY DEF TypeOK
  <1>3. k \in Nat /\ rx[n][k] \in Packets
    BY <1>2
  <1>4. rx[n][k].rid \in Req
    BY <1>3 DEF Packets
  <1> DEFINE code == WriteCode(s, fromCanMsg(rx[n][k].msg))
  <1>5. code \in 1 .. 4
    BY DEF WriteCode
  <1> HIDE DEF code
  <1>6. Call(s, rx[n][k].rid, k, code) \in Calls
    BY <1>3, <1>4, <1>5, Zenon DEF Call, Calls
  <1>7. checked' \subseteq Calls
    BY <1>1, <1>6, Zenon DEF TypeOK, code
  <1>8. UNCHANGED <<rx, crashed, buffer, wr_access, served, applied, requestVars, notifyVars>>
    BY Zenon DEF checkWrite
  <1> QED BY <1>7, <1>8 DEF TypeOK, requestVars, notifyVars

LEMMA EvUpdateType ==
    ASSUME TypeOK, NEW r \in Req, evUpdate(r)
    PROVE  TypeOK'
  <1>1. cached_req[r] \in RequestFrame
    BY DEF evUpdate, TypeOK
  <1>2. Packet(r, toCanMsg(cached_req[r], DefaultFormat)) \in Packets
    BY <1>1, ToCanMsgType, RequestFrameEncodable DEF Packet, Packets
  <1>3. Host[r[1]] \in Node
    BY HostType DEF Req
  <1>4. rx' \in [Node -> Seq(Packets)]
    BY <1>2, <1>3, SendType DEF evUpdate, TypeOK
  <1>5. QED
    <2>1. /\ phase' \in [Req -> Phases] /\ sent' \in [Req -> Nat]
          /\ \A q \in Req : phase'[q] # "unused" => phase[q] # "unused"
      BY DEF evUpdate, TypeOK, Phases
    <2>2. QED
      BY <1>4, <2>1 DEF evUpdate, TypeOK, serverVars

LEMMA EvWaitNotifyType ==
    ASSUME TypeOK, NEW r \in Req, evWaitNotify(r)
    PROVE  TypeOK'
  <1>1. phase' \in [Req -> Phases] /\ \A q \in Req : phase'[q] # "unused" => phase[q] # "unused"
    BY DEF evWaitNotify, TypeOK, Phases
  <1>2. QED
    BY <1>1 DEF evWaitNotify, TypeOK, serverVars, requestVars

LEMMA EvTimeoutCallbackType ==
    ASSUME TypeOK, NEW r \in Req, evTimeoutCallback(r)
    PROVE  TypeOK'
  <1>1. /\ UNCHANGED <<rx, crashed, serverVars, cached_req, sent, client_buffer>>
        /\ phase[r] = "waiting"
    BY DEF evTimeoutCallback
  <1>2. CASE /\ MayRetry(r) /\ UNCHANGED answers
             /\ retry_cnt' = [retry_cnt EXCEPT ![r] = @ + 1]
             /\ phase' = [phase EXCEPT ![r] = "ready"]
    <2>1. RetryMax \in Nat
      BY ConfigAssumption DEF ConfigAssumption
    <2>2. retry_cnt' \in [Req -> 0 .. RetryMax]
      BY <1>2, <2>1 DEF TypeOK, MayRetry
    <2>3. QED
      BY <1>1, <1>2, <2>2 DEF TypeOK, serverVars, Phases
  <1>3. CASE /\ UNCHANGED retry_cnt
             /\ phase' = [phase EXCEPT ![r] = "finished"]
             /\ answers' = [answers EXCEPT ![r] = Append(@, Answer(2, InitValue))]
    <2>1. Answer(2, InitValue) \in [code : Payload, val : Payload]
      BY ConfigAssumption, NumbersArePayload DEF ConfigAssumption, Answer, Payload
    <2>2. answers' \in [Req -> Seq([code : Payload, val : Payload])]
      <3> DEFINE A == [code : Payload, val : Payload]
      <3>1. answers \in [Req -> Seq(A)] /\ Answer(2, InitValue) \in A
        BY <2>1 DEF TypeOK
      <3> HIDE DEF A
      <3>2. Append(answers[r], Answer(2, InitValue)) \in Seq(A)
        BY <3>1
      <3>3. answers' \in [Req -> Seq(A)]
        BY <1>3, <3>1, <3>2
      <3>4. QED
        BY <3>3 DEF A
    <2>3. QED
      BY <1>1, <1>3, <2>2 DEF TypeOK, serverVars, Phases
  <1>4. QED
    BY <1>2, <1>3 DEF evTimeoutCallback

LEMMA BusType ==
    ASSUME TypeOK, NEW n \in Node, Lose(n) \/ Duplicate(n)
    PROVE  TypeOK'
  <1>1. /\ UNCHANGED <<crashed, serverVars, requestVars, notifyVars>>
        /\ rx' \in [Node -> Seq(Packets)]
    <2>1. CASE Lose(n)
      BY <2>1, ReadType DEF Lose
    <2>2. CASE Duplicate(n)
      <3>1. PICK k \in DOMAIN rx[n] :
              rx' = [rx EXCEPT ![n] = InsertAt(@, k, rx[n][k])]
        BY <2>2 DEF Duplicate
      <3>2. rx[n] \in Seq(Packets) /\ rx[n][k] \in Packets
        BY ReadType DEF TypeOK
      <3>3. InsertAt(rx[n], k, rx[n][k]) \in Seq(Packets)
        BY <3>2, InsertAtType
      <3>4. QED
        BY <2>2, <3>1, <3>3 DEF TypeOK, Duplicate
    <2>3. QED
      BY <2>1, <2>2
  <1>2. QED
    BY <1>1 DEF TypeOK, serverVars, requestVars, notifyVars

-----------------------------------------------------------------------------
(* Reception.                                                              *)

LEMMA CombineType ==
    ASSUME TypeOK, NotifyVarsOK, rx' \in [Node -> Seq(Packets)],
           crashed' \subseteq Node, UNCHANGED <<wr_access, requestVars>>,
           buffer' \in [Server -> [Index -> Payload]],
           checked' \subseteq Calls, served' \subseteq ServedEntry,
           applied' \in [Server -> [Index -> [Client -> 0 .. MaxReq]]]
    PROVE  TypeOK'
  BY DEF TypeOK, NotifyVarsOK, requestVars

LEMMA AckType ==
    ASSUME NEW f \in ReceivedFrame, NEW op \in {ReadAck, WriteAck},
           NEW len \in 0 .. 255, NEW payload \in Payload
    PROVE  AckFrame(f, op, len, payload) \in ReceivedFrame
  <1>1. op \in 0 .. 31
    BY DEF ReadAck, WriteAck
  <1>2. /\ f.src_id \in 0 .. 63 /\ f.dest_id \in 0 .. 63 /\ f.srv_id \in Index
    BY DEF ReceivedFrame
  <1>3. QED
    BY <1>1, <1>2, Zenon DEF AckFrame, ReceivedFrame

LEMMA OnWriteReqType ==
    ASSUME TypeOK, NEW s \in Server, NEW queues \in [Node -> Seq(Packets)],
           NEW f \in ReceivedFrame, f.op_code = WriteReq, NEW r \in Req, NEW w \in checked,
           onWriteReq(s, queues, f, r, w.code), checked' = checked \ {w},
           UNCHANGED <<crashed, wr_access, requestVars>>
    PROVE  TypeOK'
  <1> DEFINE code == w.code
  <1>1. code \in 1 .. 4
    BY DEF TypeOK, Calls
  <1>2. f.srv_id \in Index /\ f.payload \in Payload /\ InitValue \in Payload
    BY ConfigAssumption DEF ReceivedFrame, ConfigAssumption, Payload
  <1>3. r[1] \in Client /\ r[2] \in 0 .. MaxReq
    BY ConfigAssumption DEF Req, ConfigAssumption
  <1>4. /\ buffer' = IF code = 1 THEN [buffer EXCEPT ![s][f.srv_id] = f.payload] ELSE buffer
        /\ served' = served \cup
             {Entry(r, s, f, code, IF code = 1 THEN f.payload ELSE InitValue)}
        /\ applied' = IF code = 1 THEN [applied EXCEPT ![s][f.srv_id][r[1]] = r[2]]
                      ELSE applied
        /\ reply(Host[s], queues, AckFrame(f, WriteAck, 1, code), r)
    BY Zenon DEF onWriteReq
  <1> HIDE DEF code
  <1>5. buffer' \in [Server -> [Index -> Payload]]
    BY <1>2, <1>4 DEF TypeOK
  <1>6. applied' \in [Server -> [Index -> [Client -> 0 .. MaxReq]]]
    BY <1>2, <1>3, <1>4 DEF TypeOK
  <1>7. Entry(r, s, f, code, IF code = 1 THEN f.payload ELSE InitValue) \in ServedEntry
    <2>1. code \in 0 .. 4 /\ (IF code = 1 THEN f.payload ELSE InitValue) \in Payload
      BY <1>1, <1>2
    <2>2. QED
      BY <1>2, <2>1, Zenon DEF Entry, ServedEntry
  <1>8. AckFrame(f, WriteAck, 1, code) \in ReceivedFrame
    <2>0. code \in 0 .. 255 /\ 1 \in 0 .. 255
      BY <1>1
    <2>1. code \in Payload /\ 1 \in 0 .. 255
      BY <2>0, NumbersArePayload, Zenon
    <2>2. QED
      BY <2>1, AckType, Zenon
  <1>9. NotifyVarsOK /\ rx' \in [Node -> Seq(Packets)]
    BY <1>4, <1>8, ReplyType, HostType, Zenon
  <1>10. served' \subseteq ServedEntry /\ crashed' \subseteq Node /\ checked' \subseteq Calls
    BY <1>4, <1>7 DEF TypeOK
  <1>11. QED
    BY <1>5, <1>6, <1>9, <1>10, CombineType

LEMMA OnReadReqType ==
    ASSUME TypeOK, NEW s \in Server, NEW queues \in [Node -> Seq(Packets)],
           NEW f \in ReceivedFrame, f.op_code = ReadReq, NEW r \in Req,
           onReadReq(s, queues, f, r), UNCHANGED <<crashed, wr_access, checked, requestVars>>
    PROVE  TypeOK'
  <1> DEFINE code == ReadCode(s, f)
             val  == IF code = 0 THEN buffer[s][f.srv_id] ELSE InitValue
             len  == Dict[s].data_size[f.srv_id]
  <1>1. code \in 0 .. 4
    BY DEF ReadCode
  <1>2. f.srv_id \in Index /\ InitValue \in Payload
    BY ConfigAssumption DEF ReceivedFrame, ConfigAssumption, Payload
  <1>3. val \in Payload
    BY <1>2 DEF TypeOK
  <1>4. len \in 0 .. 255
    <2>1. len \in 1 .. 255
      BY <1>2, DictType, Zenon
    <2> HIDE DEF len
    <2>2. QED
      BY <2>1
  <1>5. /\ served' = served \cup {Entry(r, s, f, code, val)}
        /\ UNCHANGED <<buffer, applied>>
        /\ \/ reply(Host[s], queues, AckFrame(f, ReadAck, len, val), r)
           \/ rx' = queues /\ UNCHANGED notifyVars
    BY Zenon DEF onReadReq
  <1> HIDE DEF code, val, len
  <1>6. Entry(r, s, f, code, val) \in ServedEntry
    BY <1>1, <1>2, <1>3, Zenon DEF Entry, ServedEntry
  <1>7. AckFrame(f, ReadAck, len, val) \in ReceivedFrame
    BY <1>3, <1>4, AckType, Zenon
  <1>8. NotifyVarsOK /\ rx' \in [Node -> Seq(Packets)]
    <2>1. CASE reply(Host[s], queues, AckFrame(f, ReadAck, len, val), r)
      BY <2>1, <1>7, ReplyType, HostType, Zenon
    <2>2. CASE rx' = queues /\ UNCHANGED notifyVars
      BY <2>2, NotifyUnchanged
    <2>3. QED
      BY <1>5, <2>1, <2>2
  <1>9. /\ served' \subseteq ServedEntry /\ crashed' \subseteq Node
        /\ checked' \subseteq Calls
        /\ buffer' \in [Server -> [Index -> Payload]]
        /\ applied' \in [Server -> [Index -> [Client -> 0 .. MaxReq]]]
    BY <1>5, <1>6 DEF TypeOK
  <1>10. QED
    BY <1>8, <1>9, CombineType

LEMMA HandleRecvType ==
    ASSUME TypeOK, NEW n \in Node, handleRecv(n)
    PROVE  TypeOK'
  <1>1. PICK k \in DOMAIN rx[n] :
          LET msg   == rx[n][k].msg
              frame == fromCanMsg(msg)
              left  == Read(n, k)
          IN  \/ HandleUnmatched(n, left, msg)
              \/ \E s \in ServersAt(n, frame.dest_id) :
                   HandleRequest(s, left, frame, rx[n][k].rid) \/ HandleBadIndex(s, left, frame)
              \/ \E c \in ClientsAt(n, frame.dest_id) : HandleAck(c, left, frame)
    BY Zenon DEF handleRecv
  <1> DEFINE frame == fromCanMsg(rx[n][k].msg)
             left  == Read(n, k)
             r     == rx[n][k].rid
  <1>2. left \in [Node -> Seq(Packets)] /\ rx[n][k] \in Packets
    BY ReadType
  <1>3. frame \in ReceivedFrame /\ r \in Req
    BY <1>2, FromCanMsgType DEF Packets
  <1>4. CASE HandleUnmatched(n, left, rx[n][k].msg)
    BY <1>2, <1>4, NotifyUnchanged, CombineType DEF HandleUnmatched, TypeOK, serverVars
  <1>5. CASE \E s \in Server : HandleRequest(s, left, frame, r)
    <2>1. PICK s \in Server : HandleRequest(s, left, frame, r)
      BY <1>5
    <2> HIDE DEF frame, left, r
    <2>2. UNCHANGED <<crashed, wr_access, requestVars>>
      BY <2>1 DEF HandleRequest
    <2>3. CASE frame.op_code = ReadReq /\ onReadReq(s, left, frame, r) /\ UNCHANGED checked
      BY <1>2, <1>3, <2>2, <2>3, OnReadReqType
    <2>4. ASSUME NEW w \in checked, frame.op_code = WriteReq,
                 onWriteReq(s, left, frame, r, w.code), checked' = checked \ {w}
          PROVE  TypeOK'
      BY <1>2, <1>3, <2>2, <2>4, OnWriteReqType
    <2>5. QED
      BY <2>1, <2>3, <2>4, Zenon DEF HandleRequest
  <1>6. CASE \E s \in Server : HandleBadIndex(s, left, frame)
    <2>1. PICK s \in Server : HandleBadIndex(s, left, frame)
      BY <1>6
    <2>2. crashed' \subseteq Node
      BY <2>1, HostType DEF HandleBadIndex, TypeOK
    <2>3. QED
      BY <1>2, <2>1, <2>2, NotifyUnchanged, CombineType DEF HandleBadIndex, TypeOK, serverVars
  <1>7. CASE \E c \in Client : HandleAck(c, left, frame)
    <2>1. PICK c \in Client : HandleAck(c, left, frame)
      BY <1>7
    <2>2. NotifyVarsOK
      BY <1>3, <2>1, NotifyType DEF HandleAck
    <2>3. QED
      BY <1>2, <2>1, <2>2, CombineType DEF HandleAck, TypeOK, serverVars
  <1>8. QED
    BY <1>1, <1>4, <1>5, <1>6, <1>7 DEF ServersAt, ClientsAt

(* Every reachable state has its types.  Property: TypeOK. *)
THEOREM TypeCorrect == Spec => []TypeOK
  <1>1. Init => TypeOK
    BY InitType
  <1>2. TypeOK /\ [Next]_vars => TypeOK'
    <2> SUFFICES ASSUME TypeOK, [Next]_vars PROVE TypeOK'
      OBVIOUS
    <2>1. ASSUME NEW r \in Req, NEW i \in Index,
                 readAsync(r, i) \/ \E v \in Value : writeAsync(r, i, v)
          PROVE  TypeOK'
      BY <2>1, AddTaskType, RequestFrameTypes DEF readAsync, writeAsync
    <2>2. ASSUME NEW s \in Server, NEW i \in Index,
                 \/ setWrAccess(s, i) \/ resetWrAccess(s, i)
                 \/ \E v \in LocalValue : updateData(s, i, v)
          PROVE  TypeOK'
      BY <2>2, ServerDataType, ConfigAssumption DEF ConfigAssumption
    <2>3. ASSUME NEW r \in Req, evUpdate(r) \/ evWaitNotify(r) \/ evTimeoutCallback(r)
          PROVE  TypeOK'
      BY <2>3, EvUpdateType, EvWaitNotifyType, EvTimeoutCallbackType
    <2>4. ASSUME NEW n \in Node, handleRecv(n)
          PROVE  TypeOK'
      BY <2>4, HandleRecvType
    <2>8. ASSUME NEW n \in Node, checkWrite(n)
          PROVE  TypeOK'
      BY <2>8, CheckWriteType
    <2>5. ASSUME NEW n \in Node, Lose(n) \/ Duplicate(n)
          PROVE  TypeOK'
      BY <2>5, BusType
    <2>6. CASE UNCHANGED vars
      BY <2>6 DEF vars, TypeOK, serverVars, requestVars, notifyVars
    <2>7. QED
      BY <2>1, <2>2, <2>3, <2>4, <2>5, <2>6, <2>8
         DEF Next, Application, EventLoop, Task, Receiver, Bus
  <1>3. QED
    BY <1>1, <1>2, PTL DEF Spec

-----------------------------------------------------------------------------
(* The life of a request.  CallbackOnce and RetryBudget hold together:     *)
(* both say where a request is by its phase, for one request at a time.    *)

RequestInv == CallbackOnce /\ RetryBudget

Out(p) == IF p \in {"sending", "waiting", "finished"} THEN 1 ELSE 0
Called(p) == IF p = "finished" THEN 1 ELSE 0

(* The invariant of one request, now and in the next state. *)
LEMMA RequestInvByRequest ==
    ASSUME RequestInv, NEW r \in Req
    PROVE  Len(answers[r]) = Called(phase[r]) /\ sent[r] = retry_cnt[r] + Out(phase[r])
  BY DEF RequestInv, CallbackOnce, RetryBudget, Out, Called

LEMMA RequestInvNext ==
    ASSUME TypeOK',
           \A r \in Req : /\ Len(answers'[r]) = Called(phase'[r])
                          /\ sent'[r] = retry_cnt'[r] + Out(phase'[r])
    PROVE  RequestInv'
  <1>1. ASSUME NEW r \in Req PROVE sent'[r] <= RetryMax + 1
    <2>1. RetryMax \in Nat /\ retry_cnt'[r] \in 0 .. RetryMax
      BY ConfigAssumption DEF ConfigAssumption, TypeOK
    <2>2. Out(phase'[r]) \in {0, 1}
      BY DEF Out
    <2>3. sent'[r] = retry_cnt'[r] + Out(phase'[r])
      OBVIOUS
    <2>4. QED
      BY <2>1, <2>2, <2>3
  <1>2. QED
    BY <1>1 DEF RequestInv, CallbackOnce, RetryBudget, Out, Called

LEMMA KeepsRequests ==
    ASSUME RequestInv, UNCHANGED <<phase, answers, retry_cnt, sent>>
    PROVE  RequestInv'
  BY DEF RequestInv, CallbackOnce, RetryBudget

(* Only waiting tasks are woken, and a task that was woken has left the    *)
(* loop with one more call of its callback.                                *)
LEMMA NotifyRequests ==
    ASSUME TypeOK, TypeOK', RequestInv, NEW c \in Client, NEW f, notify(c, f),
           UNCHANGED <<retry_cnt, sent>>
    PROVE  RequestInv'
  <1>1. PICK woken \in SUBSET Req :
          /\ \A r \in woken : phase[r] = "waiting"
          /\ evNotifyCallback(woken, f)
    BY DEF notify
  <1>2. ASSUME NEW r \in Req
        PROVE  /\ Len(answers'[r]) = Called(phase'[r])
               /\ sent'[r] = retry_cnt'[r] + Out(phase'[r])
    <2>1. Len(answers[r]) = Called(phase[r]) /\ sent[r] = retry_cnt[r] + Out(phase[r])
      BY RequestInvByRequest
    <2>2. CASE r \in woken
      <3>1. phase[r] = "waiting" /\ phase'[r] = "finished"
        BY <1>1, <2>2 DEF evNotifyCallback
      <3>2. answers'[r] = Append(answers[r], onRecv(r, f))
        BY <1>1, <2>2 DEF evNotifyCallback
      <3>3. answers[r] \in Seq([code : Payload, val : Payload])
        BY DEF TypeOK
      <3>4. Len(answers'[r]) = Len(answers[r]) + 1
        BY <3>2, <3>3, AppendProperties
      <3>5. QED
        BY <2>1, <3>1, <3>4 DEF Called, Out
    <2>3. CASE r \notin woken
      BY <1>1, <2>1, <2>3 DEF evNotifyCallback
    <2>4. QED
      BY <2>2, <2>3
  <1>3. QED
    BY <1>2, RequestInvNext

LEMMA EvUpdateRequests ==
    ASSUME TypeOK, TypeOK', RequestInv, NEW q \in Req,
           evUpdate(q) \/ evWaitNotify(q)
    PROVE  RequestInv'
  <1>1. CASE evUpdate(q)
    <2>1. ASSUME NEW r \in Req
          PROVE  /\ Len(answers'[r]) = Called(phase'[r])
                 /\ sent'[r] = retry_cnt'[r] + Out(phase'[r])
      BY <1>1, RequestInvByRequest DEF evUpdate, TypeOK, Called, Out
    <2>2. QED
      BY <2>1, RequestInvNext
  <1>2. CASE evWaitNotify(q)
    <2>1. ASSUME NEW r \in Req
          PROVE  /\ Len(answers'[r]) = Called(phase'[r])
                 /\ sent'[r] = retry_cnt'[r] + Out(phase'[r])
      BY <1>2, RequestInvByRequest DEF evWaitNotify, TypeOK, Called, Out, requestVars
    <2>2. QED
      BY <2>1, RequestInvNext
  <1>3. QED
    BY <1>1, <1>2

LEMMA EvTimeoutCallbackRequests ==
    ASSUME TypeOK, TypeOK', RequestInv, NEW q \in Req, evTimeoutCallback(q)
    PROVE  RequestInv'
  <1>1. UNCHANGED sent /\ phase[q] = "waiting"
    BY DEF evTimeoutCallback
  <1>2. ASSUME NEW r \in Req
        PROVE  /\ Len(answers'[r]) = Called(phase'[r])
               /\ sent'[r] = retry_cnt'[r] + Out(phase'[r])
    <2>1. CASE /\ UNCHANGED answers
               /\ retry_cnt' = [retry_cnt EXCEPT ![q] = @ + 1]
               /\ phase' = [phase EXCEPT ![q] = "ready"]
      BY <1>1, <2>1, RequestInvByRequest DEF TypeOK, Called, Out
    <2>2. CASE /\ UNCHANGED retry_cnt
               /\ phase' = [phase EXCEPT ![q] = "finished"]
               /\ answers' = [answers EXCEPT ![q] = Append(@, Answer(2, InitValue))]
      <3>1. sent'[r] = retry_cnt'[r] + Out(phase'[r])
        BY <1>1, <2>2, RequestInvByRequest DEF TypeOK, Out
      <3>2. answers[q] \in Seq([code : Payload, val : Payload])
        BY DEF TypeOK
      <3>3. Len(Append(answers[q], Answer(2, InitValue))) = Len(answers[q]) + 1
        BY <3>2, AppendProperties
      <3>4. Len(answers'[r]) = Called(phase'[r])
        BY <1>1, <2>2, <3>3, RequestInvByRequest DEF TypeOK, Called
      <3>5. QED
        BY <3>1, <3>4
    <2>3. QED
      BY <2>1, <2>2 DEF evTimeoutCallback
  <1>3. QED
    BY <1>2, RequestInvNext

LEMMA ReplyRequests ==
    ASSUME TypeOK, TypeOK', RequestInv, NEW n, NEW queues, NEW ack, NEW r,
           reply(n, queues, ack, r), UNCHANGED <<retry_cnt, sent>>
    PROVE  RequestInv'
  <1>1. CASE \E c \in ClientsAt(n, ack.dest_id) : notify(c, ack)
    BY <1>1, NotifyRequests DEF ClientsAt
  <1>2. CASE UNCHANGED notifyVars
    BY <1>2, KeepsRequests DEF notifyVars
  <1>3. QED
    BY <1>1, <1>2 DEF reply

LEMMA HandleRecvRequests ==
    ASSUME TypeOK, TypeOK', RequestInv, NEW n \in Node, handleRecv(n)
    PROVE  RequestInv'
  <1>1. UNCHANGED <<retry_cnt, sent>>
    BY DEF handleRecv, HandleRequest, HandleBadIndex, HandleAck, HandleUnmatched, requestVars
  <1>2. CASE UNCHANGED notifyVars
    BY <1>1, <1>2, KeepsRequests DEF notifyVars
  <1>3. CASE \E c \in Client : \E f : notify(c, f)
    BY <1>1, <1>3, NotifyRequests
  <1>4. CASE \E m, queues, ack, r : reply(m, queues, ack, r)
    BY <1>1, <1>4, ReplyRequests
  <1>5. UNCHANGED notifyVars \/ (\E c \in Client : \E f : notify(c, f))
          \/ \E m, queues, ack, r : reply(m, queues, ack, r)
    <2>1. PICK k \in DOMAIN rx[n] :
            LET msg   == rx[n][k].msg
                frame == fromCanMsg(msg)
                left  == Read(n, k)
            IN  \/ HandleUnmatched(n, left, msg)
                \/ \E s \in ServersAt(n, frame.dest_id) :
                     \/ HandleRequest(s, left, frame, rx[n][k].rid)
                     \/ HandleBadIndex(s, left, frame)
                \/ \E c \in ClientsAt(n, frame.dest_id) : HandleAck(c, left, frame)
      BY Zenon DEF handleRecv
    <2> DEFINE frame == fromCanMsg(rx[n][k].msg)
               left  == Read(n, k)
    <2> HIDE DEF frame, left
    <2>2. CASE HandleUnmatched(n, left, rx[n][k].msg)
      BY <2>2, Zenon DEF HandleUnmatched
    <2>3. ASSUME NEW s \in Server, HandleRequest(s, left, frame, rx[n][k].rid)
          PROVE  UNCHANGED notifyVars \/ \E m, queues, ack, r : reply(m, queues, ack, r)
      BY <2>3, Zenon DEF HandleRequest, onReadReq, onWriteReq
    <2>4. ASSUME NEW s \in Server, HandleBadIndex(s, left, frame)
          PROVE  UNCHANGED notifyVars
      BY <2>4, Zenon DEF HandleBadIndex
    <2>5. ASSUME NEW c \in Client, HandleAck(c, left, frame)
          PROVE  \E f : notify(c, f)
      BY <2>5, Zenon DEF HandleAck
    <2>6. QED
      BY <2>1, <2>2, <2>3, <2>4, <2>5, Zenon DEF ServersAt, ClientsAt, frame, left
  <1>6. QED
    BY <1>2, <1>3, <1>4, <1>5

(* A callback is called once and only once, whatever the bus does.         *)
(* Property: CallbackOnce, proved together with RetryBudget.               *)
THEOREM RequestsCorrect == Spec => [](CallbackOnce /\ RetryBudget)
  <1>1. Init => RequestInv
    BY ConfigAssumption DEF ConfigAssumption, Init, RequestInv, CallbackOnce, RetryBudget
  <1>2. TypeOK /\ TypeOK' /\ RequestInv /\ [Next]_vars => RequestInv'
    <2> SUFFICES ASSUME TypeOK, TypeOK', RequestInv, [Next]_vars PROVE RequestInv'
      OBVIOUS
    <2>1. ASSUME NEW q \in Req, NEW f, addTask(q, f)
          PROVE  RequestInv'
      <3>1. ASSUME NEW r \in Req
            PROVE  /\ Len(answers'[r]) = Called(phase'[r])
                   /\ sent'[r] = retry_cnt'[r] + Out(phase'[r])
        BY <2>1, RequestInvByRequest DEF addTask, MayStart, TypeOK, Called, Out
      <3>2. QED
        BY <3>1, RequestInvNext
    <2>2. ASSUME NEW s \in Server, NEW i \in Index, NEW v,
                 setWrAccess(s, i) \/ resetWrAccess(s, i) \/ updateData(s, i, v)
          PROVE  RequestInv'
      BY <2>2, KeepsRequests
         DEF setWrAccess, resetWrAccess, updateData, requestVars, notifyVars
    <2>3. ASSUME NEW r \in Req, evUpdate(r) \/ evWaitNotify(r) \/ evTimeoutCallback(r)
          PROVE  RequestInv'
      BY <2>3, EvUpdateRequests, EvTimeoutCallbackRequests
    <2>4. ASSUME NEW n \in Node, handleRecv(n)
          PROVE  RequestInv'
      BY <2>4, HandleRecvRequests
    <2>8. ASSUME NEW n \in Node, checkWrite(n)
          PROVE  RequestInv'
      BY <2>8, KeepsRequests DEF checkWrite, requestVars, notifyVars
    <2>5. ASSUME NEW n \in Node, Lose(n) \/ Duplicate(n)
          PROVE  RequestInv'
      BY <2>5, KeepsRequests DEF Lose, Duplicate, requestVars, notifyVars
    <2>6. CASE UNCHANGED vars
      BY <2>6, KeepsRequests DEF vars, requestVars, notifyVars
    <2>7. QED
      BY <2>1, <2>2, <2>3, <2>4, <2>5, <2>6, <2>8
         DEF Next, Application, EventLoop, Task, Receiver, Bus, readAsync, writeAsync
  <1>3. RequestInv => CallbackOnce /\ RetryBudget
    BY DEF RequestInv
  <1>4. QED
    BY <1>1, <1>2, <1>3, TypeCorrect, PTL DEF Spec

(* A request goes on the bus at most RetryMax + 1 times, and once more     *)
(* than it was retried.  Property: RetryBudget.  Code: evUpdate,           *)
(* evTimeoutCallback.                                                      *)
THEOREM RetriesBounded == Spec => []RetryBudget
  BY RequestsCorrect, PTL

=============================================================================
