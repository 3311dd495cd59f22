-------------------------- MODULE ParamAnswerProofs --------------------------
(***************************************************************************)
(* What the answers of ParamService mean: every answer is traced back to   *)
(* what a server did, through the frames that carried it.                  *)
(***************************************************************************)
EXTENDS ParamRefinement, ParamServiceProofs, LayoutProofs, FiniteSetTheorems

-----------------------------------------------------------------------------
(* The frames in the queues.                                               *)

Carried(queues, n) == {queues[n][k] : k \in DOMAIN queues[n]}

LEMMA RemoveAtEntries ==
    ASSUME NEW S, NEW q \in Seq(S), NEW k \in 1 .. Len(q)
    PROVE  /\ Len(RemoveAt(q, k)) = Len(q) - 1
           /\ \A j \in 1 .. (Len(q) - 1) :
                RemoveAt(q, k)[j] = IF j < k THEN q[j] ELSE q[j + 1]
<1> DEFINE a == SubSeq(q, 1, k - 1)  b == SubSeq(q, k + 1, Len(q))
<1>1. /\ a \in Seq(S) /\ Len(a) = k - 1
      /\ \A j \in 1 .. (k - 1) : a[j] = q[j]
  BY SubSeqProperties
<1>2. /\ b \in Seq(S) /\ Len(b) = Len(q) - k
      /\ \A j \in 1 .. (Len(q) - k) : b[j] = q[k + j]
  BY SubSeqProperties
<1>3. Len(q) \in Nat /\ RemoveAt(q, k) = a \o b
  BY DEF RemoveAt
<1> HIDE DEF a, b
<1>4. /\ Len(a \o b) = Len(a) + Len(b)
      /\ \A j \in 1 .. (Len(a) + Len(b)) :
           (a \o b)[j] = IF j <= Len(a) THEN a[j] ELSE b[j - Len(a)]
  BY <1>1, <1>2, ConcatProperties
<1>5. ASSUME NEW j \in 1 .. (Len(q) - 1)
      PROVE  (a \o b)[j] = IF j < k THEN q[j] ELSE q[j + 1]
  <2>1. (a \o b)[j] = IF j <= k - 1 THEN a[j] ELSE b[j - (k - 1)]
    BY <1>1, <1>2, <1>3, <1>4
  <2>2. CASE j < k
    BY <2>1, <2>2, <1>1
  <2>3. CASE j >= k
    <3>1. j - (k - 1) \in 1 .. (Len(q) - k) /\ k + (j - (k - 1)) = j + 1 /\ ~ (j <= k - 1)
      BY <2>3, <1>3
    <3>2. b[j - (k - 1)] = q[k + (j - (k - 1))]
      BY <1>2, <3>1
    <3> QED BY <2>1, <2>3, <3>1, <3>2
  <2>4. j < k \/ j >= k
    BY <1>3
  <2> QED BY <2>2, <2>3, <2>4, Zenon
<1>6. Len(a) + Len(b) = Len(q) - 1
  BY <1>1, <1>2, <1>3
<1> QED BY <1>3, <1>4, <1>5, <1>6

LEMMA InsertAtEntries ==
    ASSUME NEW S, NEW q \in Seq(S), NEW k \in 1 .. Len(q), NEW e \in S
    PROVE  /\ Len(InsertAt(q, k, e)) = Len(q) + 1
           /\ \A j \in 1 .. (Len(q) + 1) :
                InsertAt(q, k, e)[j] = IF j < k THEN q[j] ELSE IF j = k THEN e ELSE q[j - 1]
<1> DEFINE a == SubSeq(q, 1, k - 1)  b == SubSeq(q, k, Len(q))
<1>1. /\ a \in Seq(S) /\ Len(a) = k - 1
      /\ \A j \in 1 .. (k - 1) : a[j] = q[j]
  BY SubSeqProperties
<1>2. /\ b \in Seq(S) /\ Len(b) = Len(q) - k + 1
      /\ \A j \in 1 .. (Len(q) - k + 1) : b[j] = q[k + j - 1]
  BY SubSeqProperties
<1>3. Len(q) \in Nat /\ InsertAt(q, k, e) = a \o <<e>> \o b
  BY DEF InsertAt
<1> HIDE DEF a, b
<1>4. a \o <<e>> \in Seq(S) /\ Len(a \o <<e>>) = k
      /\ (\A j \in 1 .. (k - 1) : (a \o <<e>>)[j] = q[j]) /\ (a \o <<e>>)[k] = e
  BY <1>1
<1> DEFINE c == a \o <<e>>
<1>5. /\ c \in Seq(S) /\ Len(c) = k
      /\ (\A j \in 1 .. (k - 1) : c[j] = q[j]) /\ c[k] = e
  BY <1>4
<1> HIDE DEF c
<1>8. /\ Len(c \o b) = Len(c) + Len(b)
      /\ \A j \in 1 .. (Len(c) + Len(b)) :
           (c \o b)[j] = IF j <= Len(c) THEN c[j] ELSE b[j - Len(c)]
  BY <1>2, <1>5, ConcatProperties
<1>6. Len(c) + Len(b) = Len(q) + 1
  BY <1>2, <1>3, <1>5
<1>7. ASSUME NEW j \in 1 .. (Len(q) + 1)
      PROVE  (c \o b)[j] = IF j < k THEN q[j] ELSE IF j = k THEN e ELSE q[j - 1]
  <2>1. (c \o b)[j] = IF j <= k THEN c[j] ELSE b[j - k]
    BY <1>5, <1>6, <1>8
  <2>2. CASE j <= k
    BY <2>1, <2>2, <1>5
  <2>3. CASE j > k
    <3>1. j - k \in 1 .. (Len(q) - k + 1) /\ k + (j - k) - 1 = j - 1 /\ ~ (j <= k) /\ j # k
      BY <2>3, <1>3
    <3>2. b[j - k] = q[k + (j - k) - 1]
      BY <1>2, <3>1
    <3> QED BY <2>1, <2>3, <3>1, <3>2
  <2>4. j <= k \/ j > k
    BY <1>3
  <2> QED BY <2>2, <2>3, <2>4, Zenon
<1> QED BY <1>3, <1>6, <1>7, <1>8 DEF c

LEMMA ReadCarries ==
    ASSUME TypeOK, NEW n \in Node, NEW k \in DOMAIN rx[n], NEW m \in Node
    PROVE  Carried(Read(n, k), m) \subseteq Carried(rx, m)
<1>1. rx[n] \in Seq(Packets) /\ k \in 1 .. Len(rx[n]) /\ rx \in [Node -> Seq(Packets)]
  BY DEF TypeOK
<1>2. CASE m # n
  BY <1>1, <1>2 DEF Read, Carried
<1>3. CASE m = n
  <2> DEFINE q == rx[n]  l == RemoveAt(q, k)
  <2>1. Read(n, k)[m] = l
    BY <1>1, <1>3 DEF Read
  <2>2. q \in Seq(Packets) /\ k \in 1 .. Len(q) /\ l \in Seq(Packets)
    BY <1>1, RemoveAtType
  <2>3. Len(l) = Len(q) - 1
        /\ \A j \in 1 .. (Len(q) - 1) : l[j] = IF j < k THEN q[j] ELSE q[j + 1]
    BY <2>2, RemoveAtEntries
  <2> HIDE DEF q, l
  <2>4. ASSUME NEW j \in DOMAIN l
        PROVE  \E i \in DOMAIN q : l[j] = q[i]
    <3>1. j \in 1 .. (Len(q) - 1) /\ Len(q) \in Nat /\ DOMAIN q = 1 .. Len(q)
      BY <2>2, <2>3
    <3>2. j \in DOMAIN q /\ j + 1 \in DOMAIN q
      BY <3>1
    <3> QED BY <3>1, <3>2, <2>3
  <2> QED BY <1>3, <2>1, <2>4 DEF Carried, q
<1> QED BY <1>2, <1>3

LEMMA InsertCarries ==
    ASSUME TypeOK, NEW n \in Node, NEW k \in DOMAIN rx[n], NEW m \in Node
    PROVE  Carried([rx EXCEPT ![n] = InsertAt(@, k, rx[n][k])], m) \subseteq Carried(rx, m)
<1>1. rx[n] \in Seq(Packets) /\ k \in 1 .. Len(rx[n]) /\ rx \in [Node -> Seq(Packets)]
  BY DEF TypeOK
<1>2. CASE m # n
  BY <1>1, <1>2 DEF Carried
<1>3. CASE m = n
  <2> DEFINE q == rx[n]  e == rx[n][k]  l == InsertAt(q, k, e)
  <2>1. [rx EXCEPT ![n] = InsertAt(@, k, rx[n][k])][m] = l
    BY <1>1, <1>3
  <2>2. q \in Seq(Packets) /\ k \in 1 .. Len(q) /\ l \in Seq(Packets) /\ e \in Packets
    BY <1>1, InsertAtType
  <2>3. Len(l) = Len(q) + 1
        /\ \A j \in 1 .. (Len(q) + 1) :
             l[j] = IF j < k THEN q[j] ELSE IF j = k THEN e ELSE q[j - 1]
    BY <2>2, InsertAtEntries, SMTT(40)
  <2>5. e = q[k]
    OBVIOUS
  <2> HIDE DEF q, e, l
  <2>4. ASSUME NEW j \in DOMAIN l
        PROVE  \E i \in DOMAIN q : l[j] = q[i]
    <3>1. j \in 1 .. (Len(q) + 1) /\ Len(q) \in Nat /\ DOMAIN q = 1 .. Len(q)
      BY <2>2, <2>3
    <3>2. CASE j < k
      BY <3>1, <3>2, <2>2, <2>3
    <3>3. CASE j = k
      BY <3>1, <3>3, <2>2, <2>3, <2>5
    <3>4. CASE j > k
      <4>1. j - 1 \in DOMAIN q /\ l[j] = q[j - 1]
        BY <3>1, <3>4, <2>2, <2>3
      <4> QED BY <4>1
    <3> QED BY <3>1, <3>2, <3>3, <3>4, <2>2
  <2> QED BY <1>3, <2>1, <2>4 DEF Carried, q
<1> QED BY <1>2, <1>3

LEMMA SendCarries ==
    ASSUME NEW queues \in [Node -> Seq(Packets)], NEW n \in Node, NEW p \in Packets,
           NEW m \in Node
    PROVE  /\ Carried(sendFrame(queues, n, p), m) \subseteq Carried(queues, m) \cup {p}
           /\ m = n => Carried(sendFrame(queues, n, p), m) = Carried(queues, m)
<1> DEFINE q == queues[m]
<1>1. q \in Seq(Packets)
  OBVIOUS
<1>2. CASE sendFrame(queues, n, p)[m] = q /\ m = n
  BY <1>2 DEF Carried
<1>3. CASE sendFrame(queues, n, p)[m] = Append(q, p) /\ m # n
  <2>1. \A j \in DOMAIN Append(q, p) : 
         Append(q, p)[j] = p \/ (j \in DOMAIN q /\ Append(q, p)[j] = q[j])
    <3> HIDE DEF q
    <3> QED BY <1>1
  <2> QED BY <1>3, <2>1 DEF Carried
<1>4. CASE sendFrame(queues, n, p)[m] = q /\ m # n
  BY <1>4 DEF Carried
<1> QED BY <1>2, <1>3, <1>4 DEF sendFrame

-----------------------------------------------------------------------------
(* Every frame in a queue and every answer has a cause in the history.     *)

CachedInv ==
    \A r \in Req : phase[r] # "unused" =>
      cached_req[r].src_id = Address[r[1]] /\ cached_req[r].dest_id = BoundTo[r[1]]

(* An entry of the history is the operation that r asks for, at a server   *)
(* with the address that its client is bound to.                           *)
DoneFor(r, e) ==
    /\ e.op = cached_req[r].op_code /\ e.idx = cached_req[r].srv_id
    /\ Address[e.srv] = BoundTo[r[1]]

ServedInv == \A e \in served : phase[e.rid] # "unused" /\ DoneFor(e.rid, e)

(* What an acknowledgement says of the operation. *)
AckTells(f, e) ==
    IF e.op = ReadReq THEN f.op_code = ReadAck /\ e.ret = 0 /\ f.payload = e.val
    ELSE f.op_code = WriteAck /\ f.payload = e.ret

RequestOf(r, f) == f = cached_req[r]

AckOfRequest(r, f) ==
    /\ f.src_id = BoundTo[r[1]] /\ f.dest_id = Address[r[1]]
    /\ f.srv_id = cached_req[r].srv_id
    /\ \E e \in served : e.rid = r /\ AckTells(f, e)

(* A request never comes to the process of its own client. *)
FrameOK(n, r, f) ==
    /\ phase[r] # "unused"
    /\ (RequestOf(r, f) /\ n # Host[r[1]]) \/ AckOfRequest(r, f)

PacketsInv ==
    \A n \in Node : \A p \in Carried(rx, n) : FrameOK(n, p.rid, fromCanMsg(p.msg))

AnswerCause(r, a) ==
    \/ a.code = 2 /\ retry_cnt[r] = RetryMax
    \/ \E e \in served :
         /\ Address[e.rid[1]] = Address[r[1]] /\ DoneFor(r, e)
         /\ IF e.op = ReadReq THEN e.ret = 0 /\ a.code \in {1, 3} ELSE a.code = e.ret

AnswersInv == \A r \in Req : \A k \in DOMAIN answers[r] : AnswerCause(r, answers[r][k])

CauseInv == CachedInv /\ ServedInv /\ PacketsInv /\ AnswersInv

(* The history grows, and what a started request asks for stays.           *)
Grows ==
    /\ served \subseteq served'
    /\ \A r \in Req : phase[r] # "unused" =>
         phase'[r] # "unused" /\ cached_req'[r] = cached_req[r]

LEMMA FrameDecodes ==
    ASSUME NEW f \in ReceivedFrame
    PROVE  fromCanMsg(toCanMsg(f, DefaultFormat)) = f
<1>1. /\ f.src_id \in 0 .. 63 /\ f.dest_id \in 0 .. 63 /\ f.op_code \in 0 .. 31
      /\ f.srv_id \in Index
  BY DEF ReceivedFrame
<1>2. f.srv_id \in 0 .. 1023
  <2> DEFINE i == f.srv_id
  <2> HIDE DEF i
  <2>0. i \in Index
    BY <1>1 DEF i
  <2>1. i \in 0 .. 255
    BY <2>0, IndexRange
  <2>2. i \in 0 .. 1023
    BY <2>1
  <2> QED BY <2>2 DEF i
<1>3. fromCanMsg(toCanMsg(f, DefaultFormat))
        = [src_id |-> f.src_id, dest_id |-> f.dest_id, op_code |-> f.op_code,
           srv_id |-> f.srv_id, payload_len |-> f.payload_len, payload |-> f.payload]
  BY <1>1, <1>2, ServiceDecodes, Zenon
<1>4. f = [src_id |-> f.src_id, dest_id |-> f.dest_id, op_code |-> f.op_code,
           srv_id |-> f.srv_id, payload_len |-> f.payload_len, payload |-> f.payload]
  BY DEF ReceivedFrame
<1> QED BY <1>3, <1>4, Zenon

LEMMA StartedFrame ==
    ASSUME TypeOK, CachedInv, NEW r \in Req, phase[r] # "unused"
    PROVE  /\ cached_req[r] \in ReceivedFrame /\ cached_req[r].op_code \in {ReadReq, WriteReq}
           /\ fromCanMsg(toCanMsg(cached_req[r], DefaultFormat)) = cached_req[r]
           /\ Packet(r, toCanMsg(cached_req[r], DefaultFormat)) \in Packets
<1> DEFINE f == cached_req[r]
<1>1. f \in RequestFrame /\ f.src_id = Address[r[1]] /\ f.dest_id = BoundTo[r[1]]
  BY DEF TypeOK, CachedInv
<1>2. f.src_id \in 0 .. 63 /\ f.dest_id \in 0 .. 63
  BY <1>1, HostType, Zenon DEF Req
<1>3. f.op_code \in {ReadReq, WriteReq} /\ f.op_code \in 0 .. 31
  BY <1>1 DEF RequestFrame, ReadReq, WriteReq
<1> HIDE DEF f
<1>4. f \in ReceivedFrame
  BY <1>1, <1>2, <1>3 DEF RequestFrame, ReceivedFrame
<1>5. toCanMsg(f, DefaultFormat) \in ServiceMessage
  BY <1>4, ReceivedFrameEncodable, ToCanMsgType
<1> QED BY <1>3, <1>4, <1>5, FrameDecodes DEF f, Packet, Packets

-----------------------------------------------------------------------------
(* One step of a receive thread.                                           *)

HandledAs(n, p, left) ==
    LET f == fromCanMsg(p.msg) IN
    \/ HandleUnmatched(n, left, p.msg)
    \/ /\ IsServiceMsg(p.msg)
       /\ \/ \E s \in Server : /\ Host[s] = n /\ Address[s] = f.dest_id
                               /\ \/ HandleRequest(s, left, f, p.rid)
                                  \/ HandleBadIndex(s, left, f)
          \/ \E c \in Client : /\ Host[c] = n /\ Address[c] = f.dest_id
                               /\ HandleAck(c, left, f)

(* What a step that only checks a write leaves alone. *)
OnlyChecks ==
    UNCHANGED <<rx, crashed, buffer, wr_access, served, applied, requestVars, notifyVars>>

LEMMA QuietSteps ==
    /\ UNCHANGED vars => OnlyChecks
    /\ \A n \in Node : checkWrite(n) => OnlyChecks
<1>1. UNCHANGED vars => OnlyChecks
  BY DEF vars, serverVars, OnlyChecks
<1>2. \A n \in Node : checkWrite(n) => OnlyChecks
  BY DEF checkWrite, OnlyChecks
<1> QED BY <1>1, <1>2

LEMMA ReceivesOne ==
    ASSUME TypeOK, NEW n \in Node, handleRecv(n)
    PROVE  \E k \in DOMAIN rx[n] :
             /\ k = 1 \/ "reorder" \in Faults
             /\ HandledAs(n, rx[n][k], Read(n, k))
             /\ rx[n][k] \in Packets /\ rx[n][k] \in Carried(rx, n)
             /\ rx[n][k].rid \in Req
             /\ fromCanMsg(rx[n][k].msg) \in ReceivedFrame
             /\ Read(n, k) \in [Node -> Seq(Packets)]
<1>1. PICK k \in DOMAIN rx[n] :
        /\ k = 1 \/ "reorder" \in Faults
        /\ HandledAs(n, rx[n][k], Read(n, k))
  BY Zenon DEF handleRecv, HandledAs, ServersAt, ClientsAt
<1>2. Read(n, k) \in [Node -> Seq(Packets)] /\ rx[n][k] \in Packets
  BY ReadType
<1>3. rx[n][k] \in Carried(rx, n)
  BY DEF Carried
<1>4. rx[n][k].rid \in Req /\ fromCanMsg(rx[n][k].msg) \in ReceivedFrame
  BY <1>2, FromCanMsgType DEF Packets
<1> QED BY <1>1, <1>2, <1>3, <1>4

(* What a handler of the server does: an entry in the history, and an      *)
(* acknowledgement that tells of it or none.                               *)
ServedBy(s, f, r, e) ==
    /\ e \in ServedEntry
    /\ e.rid = r /\ e.srv = s /\ e.op = f.op_code /\ e.idx = f.srv_id

Acknowledges(ack, f, e) ==
    /\ ack \in ReceivedFrame
    /\ ack.src_id = f.dest_id /\ ack.dest_id = f.src_id /\ ack.srv_id = f.srv_id
    /\ AckTells(ack, e)

(* It is the one that was checked, with the code found then. *)
Completes(s, e) ==
    \E w \in checked : /\ w.srv = s /\ w.rid = e.rid /\ w.code = e.ret
                      /\ checked' = checked \ {w}

(* What it does to the data, and the value it leaves in the history. *)
Effect(s, f, e) ==
    \/ /\ f.op_code = ReadReq /\ UNCHANGED <<buffer, checked>>
       /\ e.val = IF e.ret = 0 THEN buffer[s][f.srv_id] ELSE InitValue
    \/ /\ f.op_code = WriteReq /\ e.ret = 1 /\ Completes(s, e)
       /\ e.val = f.payload
       /\ buffer' = [buffer EXCEPT ![s][f.srv_id] = f.payload]
    \/ /\ f.op_code = WriteReq /\ e.ret # 1 /\ Completes(s, e)
       /\ UNCHANGED buffer /\ e.val = InitValue

LEMMA RequestIsServed ==
    ASSUME TypeOK, NEW s \in Server, NEW queues, NEW f \in ReceivedFrame, NEW r \in Req,
           HandleRequest(s, queues, f, r)
    PROVE  \E e : /\ ServedBy(s, f, r, e) /\ served' = served \cup {e}
                  /\ Effect(s, f, e)
                  /\ \/ /\ rx' = queues /\ UNCHANGED notifyVars
                        /\ e.op = ReadReq /\ e.ret # 0
                     \/ \E ack : /\ Acknowledges(ack, f, e)
                                 /\ reply(Host[s], queues, ack, r)
<1>0. f.srv_id \in Index /\ f.payload \in Payload /\ InitValue \in Payload
  BY ConfigAssumption DEF ReceivedFrame, ConfigAssumption, Payload
<1>1. CASE f.op_code = ReadReq /\ onReadReq(s, queues, f, r) /\ UNCHANGED checked
  <2> DEFINE code == ReadCode(s, f)
             val  == IF code = 0 THEN buffer[s][f.srv_id] ELSE InitValue
             len  == Dict[s].data_size[f.srv_id]
             e    == Entry(r, s, f, code, val)
             ack  == AckFrame(f, ReadAck, len, val)
  <2>1. code \in 0 .. 4
    BY DEF ReadCode
  <2>2. val \in Payload
    BY <1>0 DEF TypeOK
  <2>3. len \in 0 .. 255
    <3>1. len \in 1 .. 255
      BY <1>0, DictType, Zenon
    <3> HIDE DEF len
    <3> QED BY <3>1
  <2>4. /\ served' = served \cup {e} /\ UNCHANGED buffer
        /\ val = IF code = 0 THEN buffer[s][f.srv_id] ELSE InitValue
        /\ \/ code = 0 /\ reply(Host[s], queues, ack, r)
           \/ code # 0 /\ rx' = queues /\ UNCHANGED notifyVars
    BY <1>1, Zenon DEF onReadReq
  <2> HIDE DEF code, val, len
  <2>5. e \in ServedEntry /\ ack \in ReceivedFrame
    BY <1>0, <1>1, <2>1, <2>2, <2>3, AckType, Zenon DEF Entry, ServedEntry
  <2>6. /\ e.rid = r /\ e.srv = s /\ e.op = f.op_code /\ e.idx = f.srv_id
        /\ e.ret = code /\ e.val = val
    BY DEF Entry
  <2>7. /\ ack.src_id = f.dest_id /\ ack.dest_id = f.src_id /\ ack.srv_id = f.srv_id
        /\ ack.op_code = ReadAck /\ ack.payload = val
    BY DEF AckFrame
  <2> HIDE DEF e, ack
  <2>8. ServedBy(s, f, r, e) /\ (code = 0 => Acknowledges(ack, f, e))
    BY <1>1, <2>5, <2>6, <2>7 DEF ServedBy, Acknowledges, AckTells
  <2>9. Effect(s, f, e)
    BY <1>1, <2>4, <2>6 DEF Effect
  <2> QED BY <1>1, <2>4, <2>6, <2>8, <2>9, Zenon
<1>2. ASSUME NEW w \in checked, w.srv = s, w.rid = r, f.op_code = WriteReq,
             onWriteReq(s, queues, f, r, w.code), checked' = checked \ {w}
      PROVE  \E e : /\ ServedBy(s, f, r, e) /\ served' = served \cup {e}
                    /\ Effect(s, f, e)
                    /\ \E ack : /\ Acknowledges(ack, f, e)
                                /\ reply(Host[s], queues, ack, r)
  <2> DEFINE code == w.code
             val  == IF code = 1 THEN f.payload ELSE InitValue
             e    == Entry(r, s, f, code, val)
             ack  == AckFrame(f, WriteAck, 1, code)
  <2>1. code \in 1 .. 4
    BY DEF TypeOK, Calls
  <2>2. val \in Payload
    BY <1>0
  <2>4. served' = served \cup {e} /\ reply(Host[s], queues, ack, r)
    BY <1>2, Zenon DEF onWriteReq
  <2>9. /\ val = IF code = 1 THEN f.payload ELSE InitValue
        /\ buffer' = IF code = 1 THEN [buffer EXCEPT ![s][f.srv_id] = f.payload] ELSE buffer
    BY <1>2 DEF onWriteReq
  <2> HIDE DEF code, val
  <2>3. code \in 0 .. 4 /\ code \in 0 .. 255 /\ 1 \in 0 .. 255
    BY <2>1
  <2>5. e \in ServedEntry /\ ack \in ReceivedFrame
    BY <1>0, <1>2, <2>2, <2>3, AckType, NumbersArePayload, Zenon DEF Entry, ServedEntry
  <2>6. /\ e.rid = r /\ e.srv = s /\ e.op = f.op_code /\ e.idx = f.srv_id
        /\ e.ret = code /\ e.val = val
    BY DEF Entry
  <2>7. /\ ack.src_id = f.dest_id /\ ack.dest_id = f.src_id /\ ack.srv_id = f.srv_id
        /\ ack.op_code = WriteAck /\ ack.payload = code
    BY DEF AckFrame
  <2> HIDE DEF e, ack
  <2>8. ServedBy(s, f, r, e) /\ Acknowledges(ack, f, e)
    BY <1>2, <2>5, <2>6, <2>7 DEF ServedBy, Acknowledges, AckTells, ReadReq, WriteReq
  <2>10. Effect(s, f, e)
    <3>1. Completes(s, e)
      BY <1>2, <2>6 DEF Completes, code
    <3> QED BY <1>2, <2>6, <2>9, <3>1 DEF Effect
  <2> QED BY <2>4, <2>8, <2>10, Zenon
<1> QED BY <1>1, <1>2, Zenon DEF HandleRequest

-----------------------------------------------------------------------------
(* Causes stay.                                                            *)

NoneStarts == \A r \in Req : phase[r] = "unused" => phase'[r] = "unused"

LEMMA NotifyKeepsStarted ==
    ASSUME NEW c, NEW f, notify(c, f), TypeOK
    PROVE  NoneStarts /\ \A r \in Req : phase[r] # "unused" => phase'[r] # "unused"
<1>1. PICK woken \in SUBSET Req :
        evNotifyCallback(woken, f) /\ \A r \in woken : phase[r] = "waiting"
  BY DEF notify
<1> QED BY <1>1 DEF evNotifyCallback, NoneStarts

LEMMA ReceiveGrows ==
    ASSUME TypeOK, NEW n \in Node, handleRecv(n)
    PROVE  Grows /\ NoneStarts
<1>1. PICK k \in DOMAIN rx[n] :
        /\ HandledAs(n, rx[n][k], Read(n, k)) /\ rx[n][k].rid \in Req
        /\ fromCanMsg(rx[n][k].msg) \in ReceivedFrame
  BY ReceivesOne, Zenon
<1> DEFINE f == fromCanMsg(rx[n][k].msg)  left == Read(n, k)  r == rx[n][k].rid
<1>2. f \in ReceivedFrame /\ r \in Req
  BY <1>1
<1>3. \/ HandleUnmatched(n, left, rx[n][k].msg)
      \/ \E s \in Server : HandleRequest(s, left, f, r) \/ HandleBadIndex(s, left, f)
      \/ \E c \in Client : HandleAck(c, left, f)
  BY <1>1, Zenon DEF HandledAs
<1> HIDE DEF f, left, r
<1>4. CASE HandleUnmatched(n, left, rx[n][k].msg)
  BY <1>4 DEF HandleUnmatched, Grows, NoneStarts, serverVars, requestVars, notifyVars
<1>5. ASSUME NEW s \in Server, HandleBadIndex(s, left, f)
      PROVE  Grows /\ NoneStarts
  BY <1>5 DEF HandleBadIndex, Grows, NoneStarts, serverVars, requestVars, notifyVars
<1>6. ASSUME NEW c \in Client, HandleAck(c, left, f)
      PROVE  Grows /\ NoneStarts
  <2>1. notify(c, f) /\ UNCHANGED <<served, cached_req>>
    BY <1>6 DEF HandleAck, serverVars, requestVars
  <2> QED BY <2>1, NotifyKeepsStarted DEF Grows
<1>7. ASSUME NEW s \in Server, HandleRequest(s, left, f, r)
      PROVE  Grows /\ NoneStarts
  <2>1. PICK e : /\ served' = served \cup {e}
                 /\ \/ UNCHANGED notifyVars
                    \/ \E ack : reply(Host[s], left, ack, r)
    BY <1>2, <1>7, RequestIsServed
  <2>2. UNCHANGED cached_req
    BY <1>7 DEF HandleRequest, requestVars
  <2>3. NoneStarts /\ \A q \in Req : phase[q] # "unused" => phase'[q] # "unused"
    <3>1. CASE UNCHANGED notifyVars
      BY <3>1 DEF notifyVars, NoneStarts
    <3>2. CASE \E c, ack : notify(c, ack)
      BY <3>2, NotifyKeepsStarted
    <3> QED BY <2>1, <3>1, <3>2, Zenon DEF reply
  <2> QED BY <2>1, <2>2, <2>3 DEF Grows
<1> QED BY <1>3, <1>4, <1>5, <1>6, <1>7

LEMMA StepGrows ==
    ASSUME TypeOK, [Next]_vars
    PROVE  Grows
<1>1. ASSUME NEW q \in Req, NEW f, addTask(q, f)
      PROVE  Grows
  BY <1>1 DEF addTask, MayStart, Grows, TypeOK, serverVars
<1>2. ASSUME NEW s \in Server, NEW i \in Index, NEW v,
             setWrAccess(s, i) \/ resetWrAccess(s, i) \/ updateData(s, i, v)
      PROVE  Grows
  BY <1>2 DEF setWrAccess, resetWrAccess, updateData, Grows, requestVars, notifyVars
<1>3. ASSUME NEW q \in Req, evUpdate(q) \/ evWaitNotify(q) \/ evTimeoutCallback(q)
      PROVE  Grows
  BY <1>3 DEF evUpdate, evWaitNotify, evTimeoutCallback, Grows, TypeOK, serverVars, requestVars
<1>4. ASSUME NEW n \in Node, Lose(n) \/ Duplicate(n)
      PROVE  Grows
  BY <1>4 DEF Lose, Duplicate, Grows, serverVars, requestVars, notifyVars
<1>5. CASE OnlyChecks
  BY <1>5 DEF OnlyChecks, Grows, serverVars, requestVars, notifyVars
<1> QED BY <1>1, <1>2, <1>3, <1>4, <1>5, ReceiveGrows, QuietSteps
        DEF Next, Application, EventLoop, Task, Receiver, Bus, readAsync, writeAsync

LEMMA FrameStaysOK ==
    ASSUME Grows, NEW n, NEW r \in Req, NEW f, FrameOK(n, r, f)
    PROVE  FrameOK(n, r, f)'
<1>1. phase[r] # "unused" /\ phase'[r] # "unused" /\ cached_req'[r] = cached_req[r]
  BY DEF Grows, FrameOK
<1>2. served \subseteq served'
  BY DEF Grows
<1> QED BY <1>1, <1>2, Zenon DEF FrameOK, RequestOf, AckOfRequest, AckTells

(* The entries of the history belong to started requests. *)
LEMMA ServedStays ==
    ASSUME Grows, TypeOK, ServedInv, NEW e \in served
    PROVE  phase'[e.rid] # "unused" /\ DoneFor(e.rid, e)'
<1>1. e.rid \in Req
  BY DEF TypeOK, ServedEntry
<1>2. phase[e.rid] # "unused" /\ DoneFor(e.rid, e)
  BY DEF ServedInv
<1> QED BY <1>1, <1>2 DEF Grows, DoneFor

LEMMA CachedStays ==
    ASSUME Grows, CachedInv,
           \A r \in Req : phase[r] = "unused" /\ phase'[r] # "unused" =>
             cached_req'[r].src_id = Address[r[1]] /\ cached_req'[r].dest_id = BoundTo[r[1]]
    PROVE  CachedInv'
  BY DEF Grows, CachedInv

LEMMA ServedUnchanged ==
    ASSUME Grows, TypeOK, ServedInv, UNCHANGED served
    PROVE  ServedInv'
<1>1. \A e \in served' : e \in served
  OBVIOUS
<1> QED BY <1>1, ServedStays DEF ServedInv

LEMMA CarriedType ==
    ASSUME TypeOK, NEW n \in Node, NEW p \in Carried(rx, n)
    PROVE  p \in Packets
<1>1. PICK k \in DOMAIN rx[n] : p = rx[n][k]
  BY DEF Carried
<1>2. rx[n] \in Seq(Packets)
  BY DEF TypeOK
<1> QED BY <1>1, <1>2

(* The frames of the next state were there before, or are in order. *)
LEMMA PacketsFrom ==
    ASSUME Grows, TypeOK, PacketsInv,
           \A n \in Node : \A p \in Carried(rx', n) :
             p \in Carried(rx, n) \/ FrameOK(n, p.rid, fromCanMsg(p.msg))'
    PROVE  PacketsInv'
<1>1. ASSUME NEW n \in Node, NEW p \in Carried(rx, n)
      PROVE  FrameOK(n, p.rid, fromCanMsg(p.msg))'
  <2>1. p.rid \in Req
    BY CarriedType DEF Packets
  <2>2. FrameOK(n, p.rid, fromCanMsg(p.msg))
    BY DEF PacketsInv
  <2> QED BY <2>1, <2>2, FrameStaysOK
<1> QED BY <1>1, Zenon DEF PacketsInv, Carried

(* The answers of the next state were there before, or have a cause.  The  *)
(* callback of a request that has an answer has run, so its retries are    *)
(* over.                                                                   *)
LEMMA AnswersFrom ==
    ASSUME Grows, TypeOK, RequestInv, AnswersInv,
           \A r \in Req : phase[r] = "finished" => retry_cnt'[r] = retry_cnt[r],
           \A r \in Req : \/ answers'[r] = answers[r]
                          \/ \E a : answers'[r] = Append(answers[r], a) /\ AnswerCause(r, a)'
    PROVE  AnswersInv'
<1> SUFFICES ASSUME NEW r \in Req, NEW k \in DOMAIN answers'[r], NEW b, b = answers'[r][k]
             PROVE  AnswerCause(r, b)'
  BY DEF AnswersInv
<1>1. ASSUME k \in DOMAIN answers[r], answers[r][k] = b
      PROVE  AnswerCause(r, b)'
  <2>1. phase[r] = "finished"
    <3>1. Len(answers[r]) = Called(phase[r]) /\ answers[r] \in Seq([code : Payload, val : Payload])
      BY RequestInvByRequest DEF TypeOK
    <3> QED BY <1>1, <3>1 DEF Called
  <2>2. retry_cnt'[r] = retry_cnt[r] /\ cached_req'[r] = cached_req[r]
    BY <2>1 DEF Grows
  <2>3. served \subseteq served'
    BY DEF Grows
  <2>4. AnswerCause(r, b)
    BY <1>1 DEF AnswersInv
  <2> QED BY <2>2, <2>3, <2>4, ZenonT(40) DEF AnswerCause, DoneFor
<1>2. CASE answers'[r] = answers[r]
  BY <1>1, <1>2
<1>3. ASSUME NEW a, answers'[r] = Append(answers[r], a), AnswerCause(r, a)'
      PROVE  AnswerCause(r, b)'
  <2>1. (k \in DOMAIN answers[r] /\ answers[r][k] = b) \/ b = a
    <3>1. answers[r] \in Seq([code : Payload, val : Payload])
      BY DEF TypeOK
    <3> DEFINE q == answers[r]
    <3> HIDE DEF q
    <3>2. q \in Seq([code : Payload, val : Payload]) /\ k \in DOMAIN Append(q, a)
      BY <1>3, <3>1 DEF q
    <3>3. (k \in DOMAIN q /\ Append(q, a)[k] = q[k]) \/ Append(q, a)[k] = a
      BY <3>2
    <3> QED BY <1>3, <3>3 DEF q
  <2> QED BY <1>1, <1>3, <2>1
<1> QED BY <1>2, <1>3

(* An acknowledgement wakes only requests for which the server did the     *)
(* operation it tells of.                                                  *)
LEMMA NotifyHasCause ==
    ASSUME TypeOK, TypeOK', RequestInv, Grows, CachedInv, AnswersInv, ServedInv',
           NEW c \in Client, NEW f, NEW r \in Req, phase[r] # "unused",
           Address[c] = f.dest_id, AckOfRequest(r, f)', notify(c, f),
           UNCHANGED <<cached_req, retry_cnt>>
    PROVE  AnswersInv'
<1>1. PICK woken \in SUBSET Req :
        /\ \A q \in woken : /\ q[1] = c /\ phase[q] = "waiting"
                            /\ matchNotifyMsg(cached_req[q], f)
        /\ evNotifyCallback(woken, f)
  BY DEF notify
<1>2. PICK e \in served' : e.rid = r /\ AckTells(f, e)
  BY DEF AckOfRequest
<1>3. /\ f.src_id = BoundTo[r[1]] /\ f.dest_id = Address[r[1]]
      /\ f.srv_id = cached_req[r].srv_id
  BY DEF AckOfRequest
<1>4. e.op \in {ReadReq, WriteReq}
  BY DEF TypeOK, ServedEntry
<1>5. e.idx = cached_req[r].srv_id /\ Address[e.srv] = BoundTo[r[1]]
  BY <1>2 DEF ServedInv, DoneFor
<1>6. ASSUME NEW q \in woken
      PROVE  answers'[q] = Append(answers[q], onRecv(q, f)) /\ AnswerCause(q, onRecv(q, f))'
  <2>1. q[1] = c /\ phase[q] = "waiting" /\ matchNotifyMsg(cached_req[q], f)
    BY <1>1
  <2>2. cached_req[q].op_code \in {ReadReq, WriteReq} /\ cached_req[q].dest_id = BoundTo[q[1]]
    <3>1. cached_req[q] \in RequestFrame
      BY <2>1 DEF TypeOK
    <3>2. cached_req[q].dest_id = BoundTo[q[1]]
      BY <2>1 DEF CachedInv
    <3> QED BY <3>1, <3>2 DEF RequestFrame
  <2>3. /\ f.src_id = cached_req[q].dest_id /\ f.op_code = AckOf(cached_req[q].op_code)
        /\ f.srv_id = cached_req[q].srv_id
    BY <2>1 DEF matchNotifyMsg
  <2>4. e.op = cached_req[q].op_code
    BY <1>2, <1>4, <2>2, <2>3 DEF AckTells, AckOf, ReadReq, ReadAck, WriteReq, WriteAck
  <2>5. DoneFor(q, e)' /\ Address[e.rid[1]] = Address[q[1]]
    BY <1>2, <1>3, <1>5, <2>1, <2>2, <2>3, <2>4 DEF DoneFor
  <2>6. IF e.op = ReadReq THEN e.ret = 0 /\ onRecv(q, f).code \in {1, 3}
        ELSE onRecv(q, f).code = e.ret
    BY <1>2, <1>4 DEF AckTells, onRecv, Answer, ReadAck, WriteAck
  <2>7. UNCHANGED onRecv(q, f)
    BY DEF onRecv
  <2> DEFINE a == onRecv(q, f)
  <2>8. a' = a
    BY <2>7
  <2> HIDE DEF a
  <2>9. IF e.op = ReadReq THEN e.ret = 0 /\ a'.code \in {1, 3} ELSE a'.code = e.ret
    BY <2>6, <2>8 DEF a
  <2>10. AnswerCause(q, a)'
    BY <2>5, <2>9, Zenon DEF AnswerCause
  <2> QED BY <1>1, <2>10 DEF evNotifyCallback, a
<1>7. \A q \in Req : q \notin woken => answers'[q] = answers[q]
  BY <1>1 DEF evNotifyCallback
<1>8. ASSUME NEW q \in Req
      PROVE  \/ answers'[q] = answers[q]
             \/ \E a : answers'[q] = Append(answers[q], a) /\ AnswerCause(q, a)'
  <2>1. CASE q \in woken
    <3> DEFINE b == onRecv(q, f)
    <3>1. b' = b
      BY DEF onRecv
    <3>2. answers'[q] = Append(answers[q], b) /\ AnswerCause(q, b)'
      BY <1>6, <2>1
    <3> HIDE DEF b
    <3> QED BY <3>1, <3>2, Zenon
  <2> QED BY <1>7, <2>1
<1> QED BY <1>8, AnswersFrom

LEMMA AnswersUnchanged ==
    ASSUME Grows, TypeOK, RequestInv, AnswersInv, UNCHANGED <<answers, retry_cnt>>
    PROVE  AnswersInv'
  BY AnswersFrom

LEMMA AddTaskCauses ==
    ASSUME TypeOK, TypeOK', RequestInv, CauseInv, Grows, NEW r \in Req, NEW f,
           addTask(r, f), f.src_id = Address[r[1]], f.dest_id = BoundTo[r[1]]
    PROVE  CauseInv'
<1>1. /\ cached_req' = [cached_req EXCEPT ![r] = f]
      /\ \E x : phase' = [phase EXCEPT ![r] = x]
      /\ UNCHANGED <<rx, served, answers, retry_cnt>>
  BY DEF addTask, serverVars
<1>2. CachedInv'
  <2>1. ASSUME NEW q \in Req, phase[q] = "unused", phase'[q] # "unused"
        PROVE  cached_req'[q] = f /\ q = r
    BY <1>1, <2>1 DEF TypeOK
  <2> QED BY <2>1, CachedStays DEF CauseInv
<1>3. ServedInv'
  BY <1>1, ServedUnchanged DEF CauseInv
<1>4. PacketsInv'
  BY <1>1, PacketsFrom DEF CauseInv
<1>5. AnswersInv'
  BY <1>1, AnswersUnchanged DEF CauseInv
<1> QED BY <1>2, <1>3, <1>4, <1>5 DEF CauseInv

LEMMA QuietCauses ==
    ASSUME TypeOK, RequestInv, CauseInv, Grows,
           UNCHANGED <<cached_req, served, answers, retry_cnt>>,
           \A q \in Req : phase[q] = "unused" => phase'[q] = "unused",
           \A m \in Node : Carried(rx', m) \subseteq Carried(rx, m)
    PROVE  CauseInv'
<1>1. CachedInv'
  BY CachedStays DEF CauseInv
<1>2. ServedInv'
  BY ServedUnchanged DEF CauseInv
<1>3. PacketsInv'
  BY PacketsFrom DEF CauseInv
<1>4. AnswersInv'
  BY AnswersUnchanged DEF CauseInv
<1> QED BY <1>1, <1>2, <1>3, <1>4 DEF CauseInv

LEMMA EvUpdateCauses ==
    ASSUME TypeOK, RequestInv, CauseInv, Grows, NEW r \in Req, evUpdate(r)
    PROVE  CauseInv'
<1> DEFINE p == Packet(r, toCanMsg(cached_req[r], DefaultFormat))  n == Host[r[1]]
<1>1. /\ phase[r] = "ready" /\ rx' = sendFrame(rx, n, p)
      /\ \E x : phase' = [phase EXCEPT ![r] = x]
      /\ UNCHANGED <<cached_req, served, answers, retry_cnt>>
  BY DEF evUpdate, serverVars
<1>2. p \in Packets /\ fromCanMsg(p.msg) = cached_req[r] /\ p.rid = r /\ n \in Node
  BY <1>1, StartedFrame, HostType DEF CauseInv, Packet, Req
<1> HIDE DEF p
<1>3. ASSUME NEW m \in Node, NEW x \in Carried(rx', m)
      PROVE  x \in Carried(rx, m) \/ FrameOK(m, x.rid, fromCanMsg(x.msg))'
  <2>1. rx \in [Node -> Seq(Packets)]
    BY DEF TypeOK
  <2>2. x \in Carried(rx, m) \/ (x = p /\ m # n)
    BY <1>1, <1>2, <2>1, SendCarries
  <2>3. ASSUME x = p, m # n
        PROVE  FrameOK(m, x.rid, fromCanMsg(x.msg))'
    BY <1>1, <1>2, <2>3 DEF Grows, FrameOK, RequestOf
  <2> QED BY <2>2, <2>3
<1>4. PacketsInv'
  BY <1>3, PacketsFrom DEF CauseInv
<1>5. CachedInv'
  BY <1>1, CachedStays DEF CauseInv, TypeOK
<1>6. ServedInv'
  BY <1>1, ServedUnchanged DEF CauseInv
<1>7. AnswersInv'
  BY <1>1, AnswersUnchanged DEF CauseInv
<1> QED BY <1>4, <1>5, <1>6, <1>7 DEF CauseInv

LEMMA EvTimeoutCallbackCauses ==
    ASSUME TypeOK, RequestInv, CauseInv, Grows, NEW r \in Req, evTimeoutCallback(r)
    PROVE  CauseInv'
<1>1. /\ phase[r] = "waiting" /\ UNCHANGED <<rx, cached_req, served>>
      /\ \E x : phase' = [phase EXCEPT ![r] = x]
  BY DEF evTimeoutCallback, serverVars
<1>2. CachedInv' /\ ServedInv' /\ PacketsInv'
  <2>1. CachedInv'
    BY <1>1, CachedStays DEF CauseInv, TypeOK
  <2>2. ServedInv'
    BY <1>1, ServedUnchanged DEF CauseInv
  <2>3. PacketsInv'
    BY <1>1, PacketsFrom DEF CauseInv
  <2> QED BY <2>1, <2>2, <2>3
<1>3. AnswersInv'
  <2>1. CASE /\ MayRetry(r) /\ UNCHANGED answers
             /\ retry_cnt' = [retry_cnt EXCEPT ![r] = @ + 1]
    <3>1. \A q \in Req : phase[q] = "finished" => retry_cnt'[q] = retry_cnt[q]
      BY <1>1, <2>1 DEF TypeOK
    <3> QED BY <2>1, <3>1, AnswersFrom DEF CauseInv
  <2>2. CASE /\ ~ MayRetry(r) /\ UNCHANGED retry_cnt
             /\ answers' = [answers EXCEPT ![r] = Append(@, Answer(2, InitValue))]
    <3>1. retry_cnt[r] = RetryMax
      BY <2>2, ConfigAssumption DEF ConfigAssumption, MayRetry, TypeOK
    <3> DEFINE a == Answer(2, InitValue)
    <3>2. AnswerCause(r, a)'
      BY <2>2, <3>1 DEF AnswerCause, Answer
    <3> HIDE DEF a
    <3>3. \A q \in Req : IF q = r THEN answers'[q] = Append(answers[q], a)
                         ELSE answers'[q] = answers[q]
      BY <2>2 DEF TypeOK, a
    <3>4. \A q \in Req : \/ answers'[q] = answers[q]
                         \/ \E b : answers'[q] = Append(answers[q], b) /\ AnswerCause(q, b)'
      BY <3>2, <3>3, Zenon DEF a
    <3> QED BY <2>2, <3>4, AnswersFrom DEF CauseInv
  <2> QED BY <2>1, <2>2, Zenon DEF evTimeoutCallback
<1> QED BY <1>2, <1>3 DEF CauseInv

(* A handled request is the one of its name, and its acknowledgement tells *)
(* of the new entry of the history.                                        *)
LEMMA ServedHasCause ==
    ASSUME TypeOK, CauseInv, Grows, NEW r \in Req, NEW f, f = cached_req[r],
           phase[r] # "unused", NEW s \in Server, Address[s] = f.dest_id,
           NEW e, ServedBy(s, f, r, e), served' = served \cup {e}, UNCHANGED cached_req
    PROVE  /\ ServedInv'
           /\ \A ack : Acknowledges(ack, f, e) => AckOfRequest(r, ack)'
<1>1. f.src_id = Address[r[1]] /\ f.dest_id = BoundTo[r[1]]
  BY DEF CauseInv, CachedInv
<1>2. phase'[r] # "unused"
  BY DEF Grows
<1>3. DoneFor(r, e)'
  BY <1>1 DEF DoneFor, ServedBy
<1>4. \A x \in served : phase'[x.rid] # "unused" /\ DoneFor(x.rid, x)'
  BY ServedStays DEF CauseInv
<1>5. e.rid = r
  BY DEF ServedBy
<1>6. ServedInv'
  BY <1>2, <1>3, <1>4, <1>5 DEF ServedInv
<1>7. ASSUME NEW ack, Acknowledges(ack, f, e)
      PROVE  AckOfRequest(r, ack)'
  BY <1>1, <1>5, <1>7 DEF Acknowledges, AckOfRequest, AckTells
<1> QED BY <1>6, <1>7

LEMMA ReceiveCauses ==
    ASSUME TypeOK, TypeOK', RequestInv, CauseInv, Grows, NEW n \in Node, handleRecv(n)
    PROVE  CauseInv'
<1>1. PICK k \in DOMAIN rx[n] :
        /\ HandledAs(n, rx[n][k], Read(n, k))
        /\ rx[n][k] \in Carried(rx, n) /\ rx[n][k].rid \in Req
        /\ fromCanMsg(rx[n][k].msg) \in ReceivedFrame
        /\ Read(n, k) \in [Node -> Seq(Packets)]
  BY ReceivesOne, Zenon
<1>2. PICK f \in ReceivedFrame, r \in Req, left \in [Node -> Seq(Packets)] :
        f = fromCanMsg(rx[n][k].msg) /\ left = Read(n, k) /\ r = rx[n][k].rid
  BY <1>1
<1>3. FrameOK(n, r, f)
  BY <1>1, <1>2 DEF CauseInv, PacketsInv
<1>4. \A m \in Node : Carried(left, m) \subseteq Carried(rx, m)
  BY <1>2, ReadCarries
<1>5. \/ HandleUnmatched(n, left, rx[n][k].msg)
      \/ \E s \in Server : /\ Host[s] = n /\ Address[s] = f.dest_id
                           /\ HandleRequest(s, left, f, r) \/ HandleBadIndex(s, left, f)
      \/ \E c \in Client : /\ Host[c] = n /\ Address[c] = f.dest_id /\ HandleAck(c, left, f)
  BY <1>1, <1>2, Zenon DEF HandledAs
<1>6. phase[r] # "unused"
  BY <1>3 DEF FrameOK
<1>7. UNCHANGED <<cached_req, retry_cnt, sent>>
  BY <1>5 DEF HandleUnmatched, HandleRequest, HandleBadIndex, HandleAck, requestVars
<1>8. CachedInv' /\ (UNCHANGED served => ServedInv')
  BY <1>7, CachedStays, ServedUnchanged, ReceiveGrows DEF CauseInv, NoneStarts
<1>9. CASE /\ rx' = left /\ UNCHANGED <<served, notifyVars>>
  BY <1>4, <1>7, <1>9, QuietCauses, ReceiveGrows DEF notifyVars, NoneStarts
<1>10. ASSUME NEW c \in Client, Address[c] = f.dest_id, HandleAck(c, left, f)
       PROVE  CauseInv'
  <2>1. notify(c, f) /\ rx' = left /\ UNCHANGED served
    BY <1>10 DEF HandleAck, serverVars
  <2>2. ~ RequestOf(r, f)
    <3>1. f.op_code \in {ReadAck, WriteAck}
      BY <1>10 DEF HandleAck
    <3>2. cached_req[r].op_code \in {ReadReq, WriteReq}
      BY <1>2, <1>6, StartedFrame DEF CauseInv
    <3> QED BY <3>1, <3>2 DEF RequestOf, ReadReq, WriteReq, ReadAck, WriteAck
  <2>3. FrameOK(n, r, f)'
    BY <1>2, <1>3, FrameStaysOK
  <2>4. AckOfRequest(r, f)'
    BY <1>7, <2>2, <2>3 DEF FrameOK, RequestOf
  <2>5. AnswersInv'
    BY <1>2, <1>6, <1>7, <1>8, <1>10, <2>1, <2>4, NotifyHasCause DEF CauseInv
  <2>6. PacketsInv'
    BY <1>4, <2>1, PacketsFrom DEF CauseInv
  <2> QED BY <1>8, <2>1, <2>5, <2>6 DEF CauseInv
<1>11. ASSUME NEW s \in Server, Host[s] = n, Address[s] = f.dest_id,
              HandleRequest(s, left, f, r)
       PROVE  CauseInv'
  <2>1. PICK e : /\ ServedBy(s, f, r, e) /\ served' = served \cup {e}
                 /\ \/ rx' = left /\ UNCHANGED notifyVars
                    \/ \E ack : Acknowledges(ack, f, e) /\ reply(n, left, ack, r)
    BY <1>2, <1>11, RequestIsServed
  <2>2. RequestOf(r, f)
    <3>1. f.op_code \in {ReadReq, WriteReq}
      BY <1>11 DEF HandleRequest
    <3>2. ASSUME AckOfRequest(r, f) PROVE FALSE
      BY <3>1, <3>2 DEF AckOfRequest, AckTells, ReadReq, WriteReq, ReadAck, WriteAck
    <3> QED BY <1>3, <3>2 DEF FrameOK
  <2>3. ServedInv' /\ \A ack : Acknowledges(ack, f, e) => AckOfRequest(r, ack)'
    BY <1>2, <1>6, <1>7, <1>11, <2>1, <2>2, ServedHasCause DEF RequestOf
  <2>4. CASE rx' = left /\ UNCHANGED notifyVars
    <3>1. PacketsInv'
      BY <1>4, <2>4, PacketsFrom DEF CauseInv
    <3>2. AnswersInv'
      BY <1>7, <2>4, AnswersUnchanged DEF CauseInv, notifyVars
    <3> QED BY <1>8, <2>3, <3>1, <3>2 DEF CauseInv
  <2>5. ASSUME NEW ack, Acknowledges(ack, f, e), NEW c \in Client, Address[c] = ack.dest_id,
               notify(c, ack), rx' = left
        PROVE  CauseInv'
    <3>1. AnswersInv'
      BY <1>2, <1>6, <1>7, <2>3, <2>5, NotifyHasCause DEF CauseInv
    <3>2. PacketsInv'
      BY <1>4, <2>5, PacketsFrom DEF CauseInv
    <3> QED BY <1>8, <2>3, <3>1, <3>2 DEF CauseInv
  <2>6. ASSUME NEW ack, Acknowledges(ack, f, e), UNCHANGED notifyVars,
               rx' = sendFrame(left, n, Packet(r, toCanMsg(ack, DefaultFormat)))
        PROVE  CauseInv'
    <3>0. PICK p : p = Packet(r, toCanMsg(ack, DefaultFormat))
      OBVIOUS
    <3>1. ack \in ReceivedFrame
      BY <2>6 DEF Acknowledges
    <3>2. toCanMsg(ack, DefaultFormat) \in ServiceMessage
      BY <3>1, ToCanMsgType, ReceivedFrameEncodable
    <3>3. p \in Packets /\ p.rid = r /\ fromCanMsg(p.msg) = ack
      BY <3>0, <3>1, <3>2, FrameDecodes DEF Packet, Packets
    <3>4. rx' = sendFrame(left, n, p)
      BY <2>6, <3>0
    <3>5. \A m : FrameOK(m, p.rid, fromCanMsg(p.msg))'
      <4>1. phase'[r] # "unused" /\ AckOfRequest(r, ack)'
        BY <1>2, <1>6, <2>3, <2>6 DEF Grows
      <4> QED BY <3>3, <4>1 DEF FrameOK
    <3>6. PacketsInv'
      <4>1. ASSUME NEW m \in Node, NEW x \in Carried(rx', m)
            PROVE  x \in Carried(rx, m) \/ FrameOK(m, x.rid, fromCanMsg(x.msg))'
        <5>1. x \in Carried(left, m) \cup {p}
          BY <3>3, <3>4, SendCarries
        <5> QED BY <1>4, <3>5, <5>1
      <4>2. Grows /\ PacketsInv
        BY <1>2 DEF CauseInv
      <4> QED BY <4>1, <4>2, PacketsFrom
    <3>7. AnswersInv'
      BY <1>7, <2>6, AnswersUnchanged DEF CauseInv, notifyVars
    <3> QED BY <1>8, <2>3, <3>6, <3>7 DEF CauseInv
  <2> QED BY <2>1, <2>4, <2>5, <2>6, Zenon DEF reply, ClientsAt
<1> QED BY <1>5, <1>9, <1>10, <1>11, Zenon
        DEF HandleUnmatched, HandleBadIndex, serverVars

LEMMA CausesCorrect == Spec => []CauseInv
<1>1. Init => CauseInv
  BY DEF Init, CauseInv, CachedInv, ServedInv, PacketsInv, AnswersInv, Carried
<1>2. TypeOK /\ TypeOK' /\ RequestInv /\ CauseInv /\ [Next]_vars => CauseInv'
  <2> SUFFICES ASSUME TypeOK, TypeOK', RequestInv, CauseInv, [Next]_vars PROVE CauseInv'
    OBVIOUS
  <2>0. Grows
    BY StepGrows
  <2>1. ASSUME NEW r \in Req, NEW i \in Index,
               readAsync(r, i) \/ \E v \in Value : writeAsync(r, i, v)
        PROVE  CauseInv'
    <3>1. PICK f : addTask(r, f) /\ f.src_id = Address[r[1]] % 256
                                 /\ f.dest_id = BoundTo[r[1]] % 256
      <4>1. /\ ReadReqFrame(r, i).src_id = Address[r[1]] % 256
            /\ ReadReqFrame(r, i).dest_id = BoundTo[r[1]] % 256
        BY DEF ReadReqFrame
      <4>2. ASSUME NEW v
            PROVE  /\ WriteReqFrame(r, i, v).src_id = Address[r[1]] % 256
                   /\ WriteReqFrame(r, i, v).dest_id = BoundTo[r[1]] % 256
        BY DEF WriteReqFrame
      <4> QED BY <2>1, <4>1, <4>2, ZenonT(40) DEF readAsync, writeAsync
    <3>2. f.src_id = Address[r[1]] /\ f.dest_id = BoundTo[r[1]]
      <4> DEFINE a == Address[r[1]]  b == BoundTo[r[1]]
      <4>1. a \in 0 .. 63 /\ b \in 0 .. 63
        BY HostType, Zenon DEF Req
      <4>2. f.src_id = a % 256 /\ f.dest_id = b % 256
        BY <3>1
      <4> HIDE DEF a, b
      <4>3. f.src_id = a /\ f.dest_id = b
        BY <4>1, <4>2
      <4> QED BY <4>3 DEF a, b
    <3> QED BY <2>0, <3>1, <3>2, AddTaskCauses
  <2>2. ASSUME NEW s \in Server, NEW i \in Index, NEW v,
               setWrAccess(s, i) \/ resetWrAccess(s, i) \/ updateData(s, i, v)
        PROVE  CauseInv'
    BY <2>0, <2>2, QuietCauses
       DEF setWrAccess, resetWrAccess, updateData, requestVars, notifyVars
  <2>3. ASSUME NEW r \in Req, evUpdate(r) \/ evWaitNotify(r) \/ evTimeoutCallback(r)
        PROVE  CauseInv'
    <3>1. CASE evWaitNotify(r)
      BY <2>0, <3>1, QuietCauses DEF evWaitNotify, TypeOK, serverVars, requestVars
    <3> QED BY <2>0, <2>3, <3>1, EvUpdateCauses, EvTimeoutCallbackCauses
  <2>4. ASSUME NEW n \in Node, handleRecv(n)
        PROVE  CauseInv'
    BY <2>0, <2>4, ReceiveCauses
  <2>5. ASSUME NEW n \in Node, Lose(n) \/ Duplicate(n)
        PROVE  CauseInv'
    <3>1. \A m \in Node : Carried(rx', m) \subseteq Carried(rx, m)
      BY <2>5, ReadCarries, InsertCarries DEF Lose, Duplicate
    <3> QED BY <2>0, <2>5, <3>1, QuietCauses
            DEF Lose, Duplicate, serverVars, requestVars, notifyVars
  <2>6. CASE OnlyChecks
    BY <2>0, <2>6, QuietCauses DEF OnlyChecks, serverVars, requestVars, notifyVars
  <2> QED BY <2>1, <2>2, <2>3, <2>4, <2>5, <2>6, QuietSteps
          DEF Next, Application, EventLoop, Task, Receiver, Bus
<1>3. RequestInv <=> CallbackOnce /\ RetryBudget
  BY DEF RequestInv
<1> QED BY <1>1, <1>2, <1>3, TypeCorrect, RequestsCorrect, PTL DEF Spec

(* A timeout is reported only after RetryMax + 1 attempts; the other cause *)
(* of code 2 is a refused write.  Property: TimeoutAfterLastAttempt.       *)
(* Code: evTimeoutCallback, onRecv, onWriteReq.                            *)
THEOREM TimeoutsAreLast == Spec => []TimeoutAfterLastAttempt
<1>1. TypeOK /\ RequestInv /\ CauseInv => TimeoutAfterLastAttempt
  <2> SUFFICES ASSUME TypeOK, RequestInv, CauseInv, NEW r \in Req, NEW k \in DOMAIN answers[r],
                      answers[r][k].code = 2
               PROVE  \/ sent[r] = RetryMax + 1
                      \/ \E e \in served : /\ e.op = WriteReq /\ e.ret = 2
                                           /\ Address[e.rid[1]] = Address[r[1]]
    BY DEF TimeoutAfterLastAttempt
  <2>1. AnswerCause(r, answers[r][k])
    BY DEF CauseInv, AnswersInv
  <2>2. CASE retry_cnt[r] = RetryMax
    <3>1. Len(answers[r]) = Called(phase[r]) /\ answers[r] \in Seq([code : Payload, val : Payload])
      BY RequestInvByRequest DEF TypeOK
    <3>2. phase[r] = "finished"
      BY <3>1 DEF Called
    <3>3. sent[r] = retry_cnt[r] + 1
      BY <3>2, RequestInvByRequest DEF Out
    <3> QED BY <2>2, <3>3
  <2>3. ASSUME NEW e \in served, Address[e.rid[1]] = Address[r[1]],
               IF e.op = ReadReq THEN answers[r][k].code \in {1, 3} ELSE answers[r][k].code = e.ret
        PROVE  e.op = WriteReq /\ e.ret = 2
    <3>1. e.op \in {ReadReq, WriteReq}
      BY DEF TypeOK, ServedEntry
    <3> QED BY <2>3, <3>1
  <2> QED BY <2>1, <2>2, <2>3 DEF AnswerCause
<1>2. RequestInv <=> CallbackOnce /\ RetryBudget
  BY DEF RequestInv
<1> QED BY <1>1, <1>2, TypeCorrect, RequestsCorrect, CausesCorrect, PTL

(* No two clients on the bus have the same address. *)
ClientsApart == \A c, d \in Client : Address[c] = Address[d] => c = d

(* A request reported as successful was really done by the server, for a   *)
(* request of its client.  Property: SuccessHasACause.  Code:              *)
(* matchNotifyMsg, onRecv, onReadReq, onWriteReq.                          *)
THEOREM SuccessIsReal == ClientsApart /\ Spec => []SuccessHasACause
<1>1. ClientsApart /\ TypeOK /\ CauseInv => SuccessHasACause
  <2> SUFFICES ASSUME ClientsApart, TypeOK, CauseInv, NEW r \in Req,
                      NEW k \in DOMAIN answers[r], answers[r][k].code = 1
               PROVE  \E e \in served :
                        /\ e.rid[1] = r[1] /\ Address[e.srv] = BoundTo[r[1]]
                        /\ e.op = cached_req[r].op_code /\ e.idx = cached_req[r].srv_id
                        /\ Succeeded(e)
    BY DEF SuccessHasACause
  <2>1. AnswerCause(r, answers[r][k])
    BY DEF CauseInv, AnswersInv
  <2>2. PICK e \in served :
          /\ Address[e.rid[1]] = Address[r[1]] /\ DoneFor(r, e)
          /\ IF e.op = ReadReq THEN e.ret = 0 /\ answers[r][k].code \in {1, 3}
             ELSE answers[r][k].code = e.ret
    BY <2>1 DEF AnswerCause
  <2>3. e.rid[1] \in Client /\ r[1] \in Client
    BY DEF TypeOK, ServedEntry, Req
  <2>4. e.rid[1] = r[1]
    BY <2>2, <2>3 DEF ClientsApart
  <2> QED BY <2>2, <2>4 DEF DoneFor, Succeeded
<1>2. SUFFICES ASSUME ClientsApart PROVE Spec => []SuccessHasACause
  OBVIOUS
<1>3. TypeOK /\ CauseInv => SuccessHasACause
  BY <1>1, <1>2
<1> QED BY <1>3, TypeCorrect, CausesCorrect, PTL

-----------------------------------------------------------------------------
(* The order of the writes, for clients that wait for each answer, on a    *)
(* bus that keeps the order of the frames.                                 *)

Ended(p) == p \in {"dropped", "finished"}

(* When a request starts, the ones before it are over. *)
InOrder ==
    \A r \in Req : phase[r] # "unused" =>
      \A k \in 1 .. (r[2] - 1) : Ended(phase[<<r[1], k>>])

AsksFor(p, c) == fromCanMsg(p.msg).op_code \in {ReadReq, WriteReq} /\ p.rid[1] = c

Sorted(q) ==
    \A k, l \in DOMAIN q : \A c :
      k <= l /\ AsksFor(q[k], c) /\ AsksFor(q[l], c) => q[k].rid[2] <= q[l].rid[2]

QueuesSorted == \A n \in Node : Sorted(rx[n])

(* What an item took is not newer than what is still on its way to it. *)
AppliedOld ==
    \A s \in Server, i \in Index, c \in Client :
      /\ applied[s][i][c] # 0 => phase[<<c, applied[s][i][c]>>] # "unused"
      /\ \A p \in Carried(rx, Host[s]) : AsksFor(p, c) => applied[s][i][c] <= p.rid[2]

OrderInv == InOrder /\ QueuesSorted /\ AppliedOld

LEMMA SortedRemove ==
    ASSUME NEW q \in Seq(Packets), NEW k \in 1 .. Len(q), Sorted(q)
    PROVE  Sorted(RemoveAt(q, k))
<1> DEFINE t == RemoveAt(q, k)
<1>1. /\ t \in Seq(Packets) /\ Len(t) = Len(q) - 1
      /\ \A j \in 1 .. (Len(q) - 1) : t[j] = IF j < k THEN q[j] ELSE q[j + 1]
  BY RemoveAtEntries, RemoveAtType
<1> HIDE DEF t
<1> SUFFICES ASSUME NEW i \in DOMAIN t, NEW j \in DOMAIN t, NEW c, i <= j,
                    AsksFor(t[i], c), AsksFor(t[j], c)
             PROVE  t[i].rid[2] <= t[j].rid[2]
  BY DEF Sorted, t
<1>2. i \in 1 .. (Len(q) - 1) /\ j \in 1 .. (Len(q) - 1) /\ Len(q) \in Nat /\ k \in Int
      /\ DOMAIN q = 1 .. Len(q)
  BY <1>1
<1>3. \E x, y \in DOMAIN q : x <= y /\ t[i] = q[x] /\ t[j] = q[y]
  <2>1. i \in DOMAIN q /\ i + 1 \in DOMAIN q /\ j \in DOMAIN q /\ j + 1 \in DOMAIN q
        /\ i <= j + 1 /\ i + 1 <= j + 1
    BY <1>2
  <2>2. t[i] = (IF i < k THEN q[i] ELSE q[i + 1]) /\ t[j] = IF j < k THEN q[j] ELSE q[j + 1]
    BY <1>1, <1>2
  <2>3. CASE i < k /\ j < k
    BY <2>1, <2>2, <2>3
  <2>4. CASE i < k /\ ~ (j < k)
    BY <2>1, <2>2, <2>4
  <2>5. CASE ~ (i < k) /\ ~ (j < k)
    BY <2>1, <2>2, <2>5
  <2>6. ~ (i < k) => ~ (j < k)
    BY <1>2
  <2> QED BY <2>3, <2>4, <2>5, <2>6, Zenon
<1> QED BY <1>3 DEF Sorted

LEMMA SortedInsert ==
    ASSUME NEW q \in Seq(Packets), NEW k \in 1 .. Len(q), Sorted(q)
    PROVE  Sorted(InsertAt(q, k, q[k]))
<1> DEFINE t == InsertAt(q, k, q[k])
<1>0. q[k] \in Packets /\ k \in DOMAIN q
  OBVIOUS
<1>1. /\ t \in Seq(Packets) /\ Len(t) = Len(q) + 1
      /\ \A j \in 1 .. (Len(q) + 1) :
           t[j] = IF j < k THEN q[j] ELSE IF j = k THEN q[k] ELSE q[j - 1]
  <2>1. t \in Seq(Packets)
    BY <1>0, InsertAtType, Zenon
  <2>2. /\ Len(t) = Len(q) + 1
        /\ \A j \in 1 .. (Len(q) + 1) :
             t[j] = IF j < k THEN q[j] ELSE IF j = k THEN q[k] ELSE q[j - 1]
    <3>1. PICK e \in Packets : e = q[k]
      BY <1>0
    <3>2. /\ Len(InsertAt(q, k, e)) = Len(q) + 1
          /\ \A j \in 1 .. (Len(q) + 1) :
               InsertAt(q, k, e)[j] = IF j < k THEN q[j] ELSE IF j = k THEN e ELSE q[j - 1]
      BY InsertAtEntries
    <3> QED BY <3>1, <3>2
  <2> QED BY <2>1, <2>2
<1> HIDE DEF t
<1> SUFFICES ASSUME NEW i \in DOMAIN t, NEW j \in DOMAIN t, NEW c, i <= j,
                    AsksFor(t[i], c), AsksFor(t[j], c)
             PROVE  t[i].rid[2] <= t[j].rid[2]
  BY DEF Sorted, t
<1>2. i \in 1 .. (Len(q) + 1) /\ j \in 1 .. (Len(q) + 1) /\ Len(q) \in Nat /\ k \in Int
      /\ DOMAIN q = 1 .. Len(q) /\ k \in DOMAIN q
  BY <1>1
<1> DEFINE From(m) == IF m <= k THEN m ELSE m - 1
<1>3. \A m \in 1 .. (Len(q) + 1) : From(m) \in DOMAIN q /\ t[m] = q[From(m)]
  <2> SUFFICES ASSUME NEW m \in 1 .. (Len(q) + 1)
               PROVE  From(m) \in DOMAIN q /\ t[m] = q[From(m)]
    OBVIOUS
  <2>1. From(m) \in DOMAIN q
    BY <1>2
  <2>2. t[m] = IF m < k THEN q[m] ELSE IF m = k THEN q[k] ELSE q[m - 1]
    BY <1>1
  <2>3. CASE m <= k
    BY <1>2, <2>2, <2>3
  <2>4. CASE m > k
    <3>1. ~ (m < k) /\ m # k /\ ~ (m <= k)
      BY <1>2, <2>4
    <3> QED BY <2>2, <3>1
  <2>5. m <= k \/ m > k
    BY <1>2
  <2> QED BY <2>1, <2>3, <2>4, <2>5, Zenon
<1>4. From(i) <= From(j)
  BY <1>2
<1>5. From(i) \in DOMAIN q /\ From(j) \in DOMAIN q /\ t[i] = q[From(i)] /\ t[j] = q[From(j)]
  BY <1>2, <1>3
<1> HIDE DEF From
<1> QED BY <1>4, <1>5, Zenon DEF Sorted

LEMMA SortedAppend ==
    ASSUME NEW q \in Seq(Packets), NEW p \in Packets, Sorted(q),
           \A j \in DOMAIN q : \A c : AsksFor(q[j], c) /\ AsksFor(p, c) => q[j].rid[2] <= p.rid[2]
    PROVE  Sorted(Append(q, p))
<1> DEFINE t == Append(q, p)
<1>1. /\ t \in Seq(Packets) /\ Len(q) \in Nat /\ DOMAIN q = 1 .. Len(q)
      /\ DOMAIN t = 1 .. (Len(q) + 1)
      /\ \A j \in 1 .. Len(q) : t[j] = q[j]
      /\ t[Len(q) + 1] = p
  OBVIOUS
<1>2. p.rid[2] \in Int
  BY ConfigAssumption DEF Packets, Req, ConfigAssumption
<1> HIDE DEF t
<1> SUFFICES ASSUME NEW i \in DOMAIN t, NEW j \in DOMAIN t, NEW c, i <= j,
                    AsksFor(t[i], c), AsksFor(t[j], c)
             PROVE  t[i].rid[2] <= t[j].rid[2]
  BY DEF Sorted, t
<1>3. CASE j <= Len(q)
  <2>1. i \in DOMAIN q /\ j \in DOMAIN q /\ t[i] = q[i] /\ t[j] = q[j]
    BY <1>1, <1>3
  <2> QED BY <2>1, Zenon DEF Sorted
<1>4. CASE j = Len(q) + 1 /\ i <= Len(q)
  <2>1. i \in DOMAIN q /\ t[i] = q[i] /\ t[j] = p
    BY <1>1, <1>4
  <2> QED BY <2>1, Zenon
<1>5. CASE i = Len(q) + 1 /\ j = Len(q) + 1
  BY <1>1, <1>2, <1>5
<1>6. j <= Len(q) \/ (j = Len(q) + 1 /\ i <= Len(q)) \/ (i = Len(q) + 1 /\ j = Len(q) + 1)
  BY <1>1
<1> QED BY <1>3, <1>4, <1>5, <1>6, Zenon

LEMMA SortedSend ==
    ASSUME NEW queues \in [Node -> Seq(Packets)], NEW n \in Node, NEW p \in Packets,
           NEW m \in Node, Sorted(queues[m]),
           \A x \in Carried(queues, m) : \A c :
             AsksFor(x, c) /\ AsksFor(p, c) => x.rid[2] <= p.rid[2]
    PROVE  Sorted(sendFrame(queues, n, p)[m])
<1>1. CASE sendFrame(queues, n, p)[m] = queues[m]
  BY <1>1
<1>2. CASE sendFrame(queues, n, p)[m] = Append(queues[m], p)
  <2>1. \A j \in DOMAIN queues[m] : \A c :
          AsksFor(queues[m][j], c) /\ AsksFor(p, c) => queues[m][j].rid[2] <= p.rid[2]
    BY DEF Carried
  <2>2. Sorted(Append(queues[m], p))
    BY <2>1, SortedAppend
  <2> QED BY <1>2, <2>2
<1> QED BY <1>1, <1>2 DEF sendFrame

LEMMA SortedRead ==
    ASSUME TypeOK, QueuesSorted, NEW n \in Node, NEW k \in DOMAIN rx[n], NEW m \in Node
    PROVE  Sorted(Read(n, k)[m])
<1>1. rx[n] \in Seq(Packets) /\ k \in 1 .. Len(rx[n]) /\ rx \in [Node -> Seq(Packets)]
  BY DEF TypeOK
<1>2. Sorted(RemoveAt(rx[n], k)) /\ Sorted(rx[m])
  BY <1>1, SortedRemove DEF QueuesSorted
<1> QED BY <1>1, <1>2 DEF Read

(* Two started requests of a client: the one in the loop is the later.     *)
LEMMA LiveIsLast ==
    ASSUME InOrder, NEW q \in Req, NEW r \in Req, q[1] = r[1], phase[q] # "unused",
           ~ Ended(phase[r])
    PROVE  q[2] <= r[2]
<1>1. q[2] \in Nat /\ r[2] \in Nat /\ r[2] >= 1 /\ r = <<q[1], r[2]>>
  BY ConfigAssumption DEF Req, ConfigAssumption
<1>2. ASSUME r[2] < q[2]
      PROVE  FALSE
  <2>1. r[2] \in 1 .. (q[2] - 1)
    BY <1>1, <1>2
  <2>2. Ended(phase[<<q[1], r[2]>>])
    BY <2>1 DEF InOrder
  <2> QED BY <1>1, <2>2
<1> QED BY <1>1, <1>2

LEMMA InOrderStays ==
    ASSUME InOrder, \A r \in Req : Ended(phase[r]) => Ended(phase'[r]),
           NoneStarts
    PROVE  InOrder'
<1> SUFFICES ASSUME NEW r \in Req, phase'[r] # "unused", NEW k \in 1 .. (r[2] - 1)
             PROVE  Ended(phase'[<<r[1], k>>])
  BY DEF InOrder
<1>1. phase[r] # "unused"
  BY DEF NoneStarts
<1>2. Ended(phase[<<r[1], k>>])
  BY <1>1 DEF InOrder
<1>3. <<r[1], k>> \in Req
  BY ConfigAssumption DEF Req, ConfigAssumption
<1> QED BY <1>2, <1>3

LEMMA InOrderAdds ==
    ASSUME ~ Pipelined, TypeOK, RequestInv, InOrder, NEW r \in Req, NEW f, addTask(r, f)
    PROVE  InOrder'
<1>1. MayStart(r) /\ phase[r] = "unused" /\ \E x : phase' = [phase EXCEPT ![r] = x]
  BY DEF addTask, MayStart
<1>2. \A q \in Req : q # r => phase'[q] = phase[q]
  BY <1>1 DEF TypeOK
<1>3. \A q \in Req : Ended(phase[q]) => Ended(phase'[q])
  BY <1>1, <1>2 DEF Ended
<1>4. \A k \in 1 .. (r[2] - 1) : <<r[1], k>> \in Req
  BY ConfigAssumption DEF Req, ConfigAssumption
<1>5. \A k \in 1 .. (r[2] - 1) : Ended(phase[<<r[1], k>>])
  <2> SUFFICES ASSUME NEW k \in 1 .. (r[2] - 1), phase[<<r[1], k>>] # "dropped"
               PROVE  phase[<<r[1], k>>] = "finished"
    BY DEF Ended
  <2> DEFINE q == <<r[1], k>>
  <2>1. answers[q] # <<>> /\ q \in Req
    BY <1>1, <1>4 DEF MayStart
  <2> HIDE DEF q
  <2>2. Len(answers[q]) = Called(phase[q]) /\ answers[q] \in Seq([code : Payload, val : Payload])
    BY <2>1, RequestInvByRequest DEF TypeOK
  <2>3. Len(answers[q]) # 0
    BY <2>1, <2>2
  <2>4. phase[q] = "finished"
    BY <2>2, <2>3 DEF Called
  <2> QED BY <2>4 DEF q
<1> SUFFICES ASSUME NEW q \in Req, phase'[q] # "unused", NEW k \in 1 .. (q[2] - 1)
             PROVE  Ended(phase'[<<q[1], k>>])
  BY DEF InOrder
<1>6. <<q[1], k>> \in Req
  BY ConfigAssumption DEF Req, ConfigAssumption
<1>7. Ended(phase[<<q[1], k>>])
  BY <1>2, <1>5 DEF InOrder
<1> QED BY <1>3, <1>6, <1>7

(* Nothing new on the way, nothing new taken. *)
LEMMA AppliedStays ==
    ASSUME Grows, TypeOK, AppliedOld, UNCHANGED applied,
           \A n \in Node : \A p \in Carried(rx', n) :
             p \in Carried(rx, n) \/ \A c : ~ AsksFor(p, c)
    PROVE  AppliedOld'
<1> SUFFICES ASSUME NEW s \in Server, NEW i \in Index, NEW c \in Client
             PROVE  /\ applied[s][i][c] # 0 => phase'[<<c, applied[s][i][c]>>] # "unused"
                    /\ \A p \in Carried(rx', Host[s]) : AsksFor(p, c) => applied[s][i][c] <= p.rid[2]
  BY DEF AppliedOld, AsksFor
<1>1. applied[s][i][c] # 0 => <<c, applied[s][i][c]>> \in Req
  <2>1. applied[s][i][c] \in 0 .. MaxReq /\ MaxReq \in Nat
    BY ConfigAssumption DEF TypeOK, ConfigAssumption
  <2> DEFINE a == applied[s][i][c]
  <2> HIDE DEF a
  <2>2. a # 0 => a \in 1 .. MaxReq
    BY <2>1 DEF a
  <2>3. a # 0 => <<c, a>> \in Req
    BY <2>2 DEF Req
  <2> QED BY <2>3 DEF a
<1>2. applied[s][i][c] # 0 => phase'[<<c, applied[s][i][c]>>] # "unused"
  BY <1>1 DEF AppliedOld, Grows
<1>3. Host[s] \in Node
  BY HostType
<1> QED BY <1>2, <1>3 DEF AppliedOld

LEMMA EvUpdateOrder ==
    ASSUME TypeOK, CauseInv, OrderInv, Grows, NEW r \in Req, evUpdate(r)
    PROVE  QueuesSorted' /\ AppliedOld'
<1>1. PICK p \in Packets : p = Packet(r, toCanMsg(cached_req[r], DefaultFormat))
  BY StartedFrame DEF evUpdate, CauseInv
<1>2. /\ phase[r] = "ready" /\ rx' = sendFrame(rx, Host[r[1]], p) /\ UNCHANGED applied
      /\ p.rid = r /\ Host[r[1]] \in Node /\ rx \in [Node -> Seq(Packets)]
  BY <1>1, HostType DEF evUpdate, serverVars, Packet, Req, TypeOK
<1>3. r[2] \in Nat
  BY ConfigAssumption DEF Req, ConfigAssumption
<1>4. ASSUME NEW m \in Node, NEW x \in Carried(rx, m), NEW c, AsksFor(x, c), AsksFor(p, c)
      PROVE  x.rid[2] <= p.rid[2]
  <2>1. x.rid \in Req
    BY CarriedType DEF Packets
  <2>2. x.rid[1] = r[1] /\ phase[x.rid] # "unused"
    BY <1>2, <1>4 DEF AsksFor, CauseInv, PacketsInv, FrameOK
  <2> QED BY <1>2, <2>1, <2>2, LiveIsLast DEF OrderInv, Ended
<1>5. QueuesSorted'
  <2> SUFFICES ASSUME NEW m \in Node PROVE Sorted(rx'[m])
    BY DEF QueuesSorted, Sorted, AsksFor
  <2>1. Sorted(rx[m])
    BY DEF OrderInv, QueuesSorted
  <2>2. Sorted(sendFrame(rx, Host[r[1]], p)[m])
    BY <1>2, <1>4, <2>1, SortedSend
  <2> QED BY <1>2, <2>2
<1>6. AppliedOld'
  <2> SUFFICES ASSUME NEW s \in Server, NEW i \in Index, NEW c \in Client
               PROVE  /\ applied[s][i][c] # 0 => phase'[<<c, applied[s][i][c]>>] # "unused"
                      /\ \A x \in Carried(rx', Host[s]) :
                           AsksFor(x, c) => applied[s][i][c] <= x.rid[2]
    BY <1>2 DEF AppliedOld, AsksFor
  <2> DEFINE a == applied[s][i][c]
  <2>1. a \in 0 .. MaxReq /\ MaxReq \in Nat
    BY ConfigAssumption DEF TypeOK, ConfigAssumption
  <2>2. a # 0 => phase[<<c, a>>] # "unused"
    BY DEF OrderInv, AppliedOld
  <2>3. \A x \in Carried(rx, Host[s]) : AsksFor(x, c) => a <= x.rid[2]
    BY DEF OrderInv, AppliedOld
  <2> HIDE DEF a
  <2>4. a # 0 => <<c, a>> \in Req
    BY <2>1 DEF Req
  <2>5. a # 0 => phase'[<<c, a>>] # "unused"
    BY <2>2, <2>4 DEF Grows
  <2>6. ASSUME AsksFor(p, c) PROVE a <= p.rid[2]
    <3>1. CASE a = 0
      BY <1>2, <1>3, <3>1
    <3>2. CASE a # 0
      <4>1. <<c, a>>[1] = r[1] /\ <<c, a>>[2] = a
        BY <1>2, <2>6 DEF AsksFor
      <4>2. ~ Ended(phase[r])
        BY <1>2 DEF Ended
      <4>3. PICK q \in Req : q = <<c, a>>
        BY <2>4, <3>2
      <4>4. q[2] <= r[2]
        BY <2>2, <3>2, <4>1, <4>2, <4>3, LiveIsLast DEF OrderInv
      <4> QED BY <1>2, <4>1, <4>3, <4>4
    <3> QED BY <3>1, <3>2
  <2>7. Host[s] \in Node
    BY HostType
  <2>8. \A x \in Carried(rx', Host[s]) : x = p \/ x \in Carried(rx, Host[s])
    BY <1>2, <2>7, SendCarries
  <2> QED BY <2>3, <2>5, <2>6, <2>8 DEF a
<1> QED BY <1>5, <1>6

LEMMA AppliedByHandler ==
    ASSUME NEW s, NEW queues, NEW f, NEW r, HandleRequest(s, queues, f, r)
    PROVE  \/ UNCHANGED applied
           \/ /\ applied' = [applied EXCEPT ![s][f.srv_id][r[1]] = r[2]]
              /\ f.op_code = WriteReq
<1>1. CASE onReadReq(s, queues, f, r)
  BY <1>1, Zenon DEF onReadReq
<1>2. ASSUME NEW w, f.op_code = WriteReq, onWriteReq(s, queues, f, r, w.code)
      PROVE  \/ UNCHANGED applied
             \/ /\ applied' = [applied EXCEPT ![s][f.srv_id][r[1]] = r[2]]
                /\ f.op_code = WriteReq
  BY <1>2, Zenon DEF onWriteReq
<1> QED BY <1>1, <1>2, Zenon DEF HandleRequest

(* What a received frame leaves in the queues: the others, and at most an  *)
(* acknowledgement for other processes.                                    *)
LEMMA ReceiveQueues ==
    ASSUME TypeOK, NEW n \in Node, NEW s \in Server, Host[s] = n,
           NEW f \in ReceivedFrame, NEW r \in Req, NEW left \in [Node -> Seq(Packets)],
           HandleRequest(s, left, f, r)
    PROVE  \/ rx' = left
           \/ \E p \in Packets : /\ rx' = sendFrame(left, n, p) /\ p.rid = r
                                 /\ fromCanMsg(p.msg).op_code \in {ReadAck, WriteAck}
<1>1. PICK e : \/ rx' = left
               \/ \E ack : Acknowledges(ack, f, e) /\ reply(n, left, ack, r)
  BY RequestIsServed
<1>2. ASSUME NEW ack, Acknowledges(ack, f, e),
             rx' = sendFrame(left, n, Packet(r, toCanMsg(ack, DefaultFormat)))
      PROVE  \E p \in Packets : /\ rx' = sendFrame(left, n, p) /\ p.rid = r
                                /\ fromCanMsg(p.msg).op_code \in {ReadAck, WriteAck}
  <2>0. PICK p : p = Packet(r, toCanMsg(ack, DefaultFormat))
    OBVIOUS
  <2>1. ack \in ReceivedFrame /\ ack.op_code \in {ReadAck, WriteAck}
    BY <1>2 DEF Acknowledges, AckTells
  <2>2. toCanMsg(ack, DefaultFormat) \in ServiceMessage
    BY <2>1, ToCanMsgType, ReceivedFrameEncodable
  <2>3. p \in Packets /\ p.rid = r /\ fromCanMsg(p.msg) = ack
    BY <2>0, <2>1, <2>2, FrameDecodes DEF Packet, Packets
  <2> QED BY <1>2, <2>0, <2>1, <2>3
<1> QED BY <1>1, <1>2, Zenon DEF reply

LEMMA ReceiveOrder ==
    ASSUME "reorder" \notin Faults, TypeOK, CauseInv, OrderInv, Grows,
           NEW n \in Node, handleRecv(n)
    PROVE  /\ QueuesSorted' /\ AppliedOld'
           /\ \A s \in Server, i \in Index, c \in Client : applied[s][i][c] <= applied'[s][i][c]
<1>1. PICK k \in DOMAIN rx[n] :
        /\ k = 1 \/ "reorder" \in Faults
        /\ HandledAs(n, rx[n][k], Read(n, k))
        /\ rx[n][k] \in Carried(rx, n) /\ rx[n][k].rid \in Req
        /\ fromCanMsg(rx[n][k].msg) \in ReceivedFrame
        /\ Read(n, k) \in [Node -> Seq(Packets)]
  BY ReceivesOne, Zenon
<1>2. PICK f \in ReceivedFrame, r \in Req, left \in [Node -> Seq(Packets)] :
        f = fromCanMsg(rx[n][k].msg) /\ left = Read(n, k) /\ r = rx[n][k].rid
  BY <1>1
<1>3. \A m \in Node : Carried(left, m) \subseteq Carried(rx, m) /\ Sorted(left[m])
  BY <1>2, ReadCarries, SortedRead DEF OrderInv
<1>4. \/ HandleUnmatched(n, left, rx[n][k].msg)
      \/ \E s \in Server : /\ Host[s] = n /\ Address[s] = f.dest_id
                           /\ HandleRequest(s, left, f, r) \/ HandleBadIndex(s, left, f)
      \/ \E c \in Client : /\ Host[c] = n /\ Address[c] = f.dest_id /\ HandleAck(c, left, f)
  BY <1>1, <1>2, Zenon DEF HandledAs
<1>5. \A s \in Server, i \in Index, c \in Client :
        applied[s][i][c] \in 0 .. MaxReq /\ MaxReq \in Nat
  BY ConfigAssumption DEF TypeOK, ConfigAssumption
<1>6. CASE rx' = left /\ UNCHANGED applied
  <2>1. QueuesSorted'
    BY <1>3, <1>6 DEF QueuesSorted, Sorted, AsksFor
  <2>2. AppliedOld'
    BY <1>3, <1>6, AppliedStays DEF OrderInv
  <2> QED BY <1>5, <1>6, <2>1, <2>2
<1>7. ASSUME NEW s \in Server, Host[s] = n, HandleRequest(s, left, f, r)
      PROVE  /\ QueuesSorted' /\ AppliedOld'
             /\ \A t \in Server, i \in Index, c \in Client :
                  applied[t][i][c] <= applied'[t][i][c]
  <2>1. /\ \A m \in Node : \A x \in Carried(rx', m) :
             x \in Carried(left, m) \/ \A c : ~ AsksFor(x, c)
        /\ Carried(rx', n) \subseteq Carried(left, n)
        /\ \A m \in Node : Sorted(rx'[m])
    <3>1. CASE rx' = left
      BY <1>3, <3>1
    <3>2. ASSUME NEW p \in Packets, rx' = sendFrame(left, n, p),
                 fromCanMsg(p.msg).op_code \in {ReadAck, WriteAck}
          PROVE  /\ \A m \in Node : \A x \in Carried(rx', m) :
                      x \in Carried(left, m) \/ \A c : ~ AsksFor(x, c)
                 /\ Carried(rx', n) \subseteq Carried(left, n)
                 /\ \A m \in Node : Sorted(rx'[m])
      <4>1. \A c : ~ AsksFor(p, c)
        BY <3>2 DEF AsksFor, ReadReq, WriteReq, ReadAck, WriteAck
      <4>2. \A m \in Node : Carried(rx', m) \subseteq Carried(left, m) \cup {p}
        BY <3>2, SendCarries
      <4>3. Carried(rx', n) \subseteq Carried(left, n)
        BY <3>2, SendCarries
      <4>4. \A m \in Node : Sorted(rx'[m])
        BY <1>3, <3>2, <4>1, SortedSend
      <4> QED BY <4>1, <4>2, <4>3, <4>4
    <3> QED BY <1>7, <3>1, <3>2, ReceiveQueues
  <2>2. QueuesSorted'
    BY <2>1 DEF QueuesSorted, Sorted, AsksFor
  <2>3. CASE UNCHANGED applied
    BY <1>3, <1>5, <2>1, <2>2, <2>3, AppliedStays DEF OrderInv
  <2>4. CASE /\ applied' = [applied EXCEPT ![s][f.srv_id][r[1]] = r[2]]
             /\ f.op_code = WriteReq
    <3>1. f.srv_id \in Index /\ r[1] \in Client /\ r = <<r[1], r[2]>> /\ r[2] \in Nat
      BY ConfigAssumption DEF ReceivedFrame, Req, ConfigAssumption
    <3>2. AsksFor(rx[n][k], r[1])
      BY <1>2, <2>4 DEF AsksFor
    <3>3. applied[s][f.srv_id][r[1]] <= r[2]
      BY <1>1, <1>2, <1>7, <3>1, <3>2 DEF OrderInv, AppliedOld
    <3>4. phase'[r] # "unused"
      BY <1>1, <1>2 DEF CauseInv, PacketsInv, FrameOK, Grows
    <3>5. ASSUME NEW x \in Carried(left, n), AsksFor(x, r[1])
          PROVE  r[2] <= x.rid[2]
      <4>1. k = 1 /\ rx[n] \in Seq(Packets)
        BY <1>1 DEF TypeOK
      <4>2. PICK j \in DOMAIN left[n] : x = left[n][j]
        BY DEF Carried
      <4>3. left[n] = RemoveAt(rx[n], 1)
        BY <1>2, <4>1 DEF Read, TypeOK
      <4> DEFINE q == rx[n]
      <4>4. q \in Seq(Packets) /\ 1 \in 1 .. Len(q) /\ Len(q) \in Nat
        BY <1>1, <4>1
      <4>5. /\ Len(RemoveAt(q, 1)) = Len(q) - 1
            /\ \A i \in 1 .. (Len(q) - 1) :
                 RemoveAt(q, 1)[i] = IF i < 1 THEN q[i] ELSE q[i + 1]
        BY <4>4, RemoveAtEntries
      <4>6. RemoveAt(q, 1) \in Seq(Packets)
        BY <4>4, RemoveAtType
      <4>7. j \in 1 .. (Len(q) - 1) /\ x = RemoveAt(q, 1)[j]
        BY <4>2, <4>3, <4>5, <4>6
      <4> HIDE DEF q
      <4>8. x = q[j + 1] /\ j + 1 \in DOMAIN q /\ 1 <= j + 1 /\ 1 \in DOMAIN q
        BY <4>4, <4>5, <4>7
      <4>9. Sorted(q)
        BY DEF OrderInv, QueuesSorted, q
      <4>10. AsksFor(q[1], r[1]) /\ q[1].rid = r
        BY <1>2, <3>2, <4>1 DEF q
      <4> QED BY <3>5, <4>8, <4>9, <4>10, Zenon DEF Sorted
    <3>6. ASSUME NEW t \in Server, NEW i \in Index, NEW c \in Client
          PROVE  \/ applied'[t][i][c] = applied[t][i][c]
                 \/ t = s /\ i = f.srv_id /\ c = r[1] /\ applied'[t][i][c] = r[2]
      BY <2>4, <3>1 DEF TypeOK
    <3>7. \A t \in Server, i \in Index, c \in Client :
            applied[t][i][c] <= applied'[t][i][c]
      BY <1>5, <3>3, <3>6
    <3>8. ASSUME NEW t \in Server, NEW i \in Index, NEW c \in Client
          PROVE  /\ applied'[t][i][c] # 0 => phase'[<<c, applied'[t][i][c]>>] # "unused"
                 /\ \A x \in Carried(rx', Host[t]) : AsksFor(x, c) => applied'[t][i][c] <= x.rid[2]
      <4>1. CASE t = s /\ i = f.srv_id /\ c = r[1] /\ applied'[t][i][c] = r[2]
        <5>1. Host[t] = n
          BY <1>7, <4>1
        <5> QED BY <2>1, <3>1, <3>4, <3>5, <4>1, <5>1
      <4>2. CASE applied'[t][i][c] = applied[t][i][c]
        <5> DEFINE a == applied[t][i][c]
        <5>1. a \in 0 .. MaxReq /\ MaxReq \in Nat
          BY <1>5
        <5>2. a # 0 => phase[<<c, a>>] # "unused"
          BY DEF OrderInv, AppliedOld
        <5>3. \A x \in Carried(rx, Host[t]) : AsksFor(x, c) => a <= x.rid[2]
          BY DEF OrderInv, AppliedOld
        <5>6. applied'[t][i][c] = a
          BY <4>2
        <5> HIDE DEF a
        <5>4. a # 0 => phase'[<<c, a>>] # "unused"
          <6>1. a # 0 => <<c, a>> \in Req
            BY <5>1 DEF Req
          <6> QED BY <5>2, <6>1 DEF Grows
        <5>5. Host[t] \in Node
          BY HostType
        <5>7. \A x \in Carried(rx', Host[t]) : AsksFor(x, c) => x \in Carried(rx, Host[t])
          BY <1>3, <2>1, <5>5
        <5> QED BY <5>3, <5>4, <5>6, <5>7
      <4> QED BY <3>6, <4>1, <4>2
    <3>9. AppliedOld'
      BY <3>8 DEF AppliedOld, AsksFor
    <3> QED BY <2>2, <3>7, <3>9
  <2>5. \/ UNCHANGED applied
        \/ /\ applied' = [applied EXCEPT ![s][f.srv_id][r[1]] = r[2]]
           /\ f.op_code = WriteReq
    BY <1>7, AppliedByHandler
  <2> QED BY <2>3, <2>4, <2>5, Zenon
<1> QED BY <1>4, <1>6, <1>7, Zenon
        DEF HandleUnmatched, HandleBadIndex, HandleAck, serverVars

LEMMA StepEnds ==
    ASSUME TypeOK, [Next]_vars
    PROVE  \A r \in Req : Ended(phase[r]) => Ended(phase'[r])
<1>1. ASSUME NEW q \in Req, NEW f, addTask(q, f)
      PROVE  \A r \in Req : Ended(phase[r]) => Ended(phase'[r])
  BY <1>1 DEF addTask, MayStart, TypeOK, Ended
<1>2. CASE UNCHANGED phase
  BY <1>2
<1>3. ASSUME NEW q \in Req, evUpdate(q) \/ evWaitNotify(q) \/ evTimeoutCallback(q)
      PROVE  \A r \in Req : Ended(phase[r]) => Ended(phase'[r])
  BY <1>3 DEF evUpdate, evWaitNotify, evTimeoutCallback, TypeOK, Ended
<1>4. ASSUME NEW c, NEW f, notify(c, f)
      PROVE  \A r \in Req : Ended(phase[r]) => Ended(phase'[r])
  <2>1. PICK woken : evNotifyCallback(woken, f)
    BY <1>4 DEF notify
  <2> QED BY <2>1 DEF evNotifyCallback, Ended
<1>5. ASSUME NEW n \in Node, handleRecv(n)
      PROVE  UNCHANGED phase \/ \E c, f : notify(c, f)
  <2>1. PICK k \in DOMAIN rx[n] :
          /\ HandledAs(n, rx[n][k], Read(n, k)) /\ rx[n][k].rid \in Req
          /\ fromCanMsg(rx[n][k].msg) \in ReceivedFrame
    BY <1>5, ReceivesOne, Zenon
  <2>2. ASSUME NEW s \in Server, NEW f \in ReceivedFrame, NEW left, NEW r \in Req,
               HandleRequest(s, left, f, r)
        PROVE  UNCHANGED phase \/ \E c, g : notify(c, g)
    BY <2>2, RequestIsServed DEF reply, notifyVars
  <2>3. UNCHANGED notifyVars => UNCHANGED phase
    BY DEF notifyVars
  <2> QED BY <2>1, <2>2, <2>3, Zenon
          DEF HandledAs, HandleUnmatched, HandleBadIndex, HandleAck
<1>6. ASSUME NEW s \in Server, NEW i \in Index, NEW v,
             setWrAccess(s, i) \/ resetWrAccess(s, i) \/ updateData(s, i, v)
      PROVE  UNCHANGED phase
  BY <1>6 DEF setWrAccess, resetWrAccess, updateData, notifyVars
<1>7. ASSUME NEW n \in Node, Lose(n) \/ Duplicate(n)
      PROVE  UNCHANGED phase
  BY <1>7 DEF Lose, Duplicate, notifyVars
<1>8. OnlyChecks => UNCHANGED phase
  BY DEF OnlyChecks, notifyVars
<1> QED BY <1>1, <1>2, <1>3, <1>4, <1>5, <1>6, <1>7, <1>8, QuietSteps
        DEF Next, Application, EventLoop, Task, Receiver, Bus, readAsync, writeAsync

NeverOlder ==
    \A s \in Server, i \in Index, c \in Client : applied[s][i][c] <= applied'[s][i][c]

LEMMA AppliedSame ==
    ASSUME TypeOK, UNCHANGED applied
    PROVE  NeverOlder
<1>1. MaxReq \in Nat
  BY ConfigAssumption DEF ConfigAssumption
<1>2. ASSUME NEW s \in Server, NEW i \in Index, NEW c \in Client
      PROVE  applied[s][i][c] <= applied'[s][i][c]
  <2>1. applied[s][i][c] \in 0 .. MaxReq
    BY DEF TypeOK
  <2> DEFINE a == applied[s][i][c]
  <2>2. applied'[s][i][c] = a /\ a \in 0 .. MaxReq
    BY <2>1
  <2> HIDE DEF a
  <2>3. a <= a
    BY <1>1, <2>2
  <2> QED BY <2>2, <2>3 DEF a
<1> QED BY <1>2 DEF NeverOlder

LEMMA OrderNext ==
    ASSUME ~ Pipelined, "reorder" \notin Faults, TypeOK, RequestInv, CauseInv, OrderInv,
           [Next]_vars
    PROVE  OrderInv' /\ NeverOlder
<1>0. Grows /\ \A r \in Req : Ended(phase[r]) => Ended(phase'[r])
  BY StepGrows, StepEnds
<1>1. ASSUME NEW r \in Req, NEW f, addTask(r, f)
      PROVE  OrderInv' /\ NeverOlder
  <2>1. UNCHANGED <<rx, applied>>
    BY <1>1 DEF addTask, serverVars
  <2>2. InOrder'
    BY <1>1, InOrderAdds DEF OrderInv
  <2>3. QueuesSorted'
    BY <2>1 DEF OrderInv, QueuesSorted, Sorted, AsksFor
  <2>4. AppliedOld'
    BY <1>0, <2>1, AppliedStays DEF OrderInv
  <2> QED BY <2>1, <2>2, <2>3, <2>4, AppliedSame DEF OrderInv
<1>2. CASE NoneStarts /\ UNCHANGED <<rx, applied>>
  <2>2. InOrder'
    BY <1>0, <1>2, InOrderStays DEF OrderInv
  <2>3. QueuesSorted'
    BY <1>2 DEF OrderInv, QueuesSorted, Sorted, AsksFor
  <2>4. AppliedOld'
    BY <1>0, <1>2, AppliedStays DEF OrderInv
  <2> QED BY <1>2, <2>2, <2>3, <2>4, AppliedSame DEF OrderInv
<1>3. ASSUME NEW r \in Req, evUpdate(r)
      PROVE  OrderInv' /\ NeverOlder
  <2>1. NoneStarts /\ UNCHANGED applied
    BY <1>3 DEF evUpdate, NoneStarts, TypeOK, serverVars
  <2>2. InOrder'
    BY <1>0, <2>1, InOrderStays DEF OrderInv
  <2> QED BY <1>0, <1>3, <2>1, <2>2, EvUpdateOrder, AppliedSame DEF OrderInv
<1>4. ASSUME NEW n \in Node, handleRecv(n)
      PROVE  OrderInv' /\ NeverOlder
  <2>1. InOrder'
    BY <1>0, <1>4, ReceiveGrows, InOrderStays DEF OrderInv
  <2> QED BY <1>0, <1>4, <2>1, ReceiveOrder DEF OrderInv, NeverOlder
<1>5. ASSUME NEW n \in Node, NEW k \in DOMAIN rx[n], NoneStarts, UNCHANGED applied,
             rx' = Read(n, k) \/ rx' = [rx EXCEPT ![n] = InsertAt(@, k, rx[n][k])]
      PROVE  OrderInv' /\ NeverOlder
  <2>1. InOrder'
    BY <1>0, <1>5, InOrderStays DEF OrderInv
  <2>2. \A m \in Node : Carried(rx', m) \subseteq Carried(rx, m)
    BY <1>5, ReadCarries, InsertCarries
  <2>3. AppliedOld'
    BY <1>0, <1>5, <2>2, AppliedStays DEF OrderInv
  <2>4. \A m \in Node : Sorted(rx'[m])
    <3>1. CASE rx' = Read(n, k)
      BY <3>1, SortedRead DEF OrderInv
    <3>2. CASE rx' = [rx EXCEPT ![n] = InsertAt(@, k, rx[n][k])]
      <4>1. rx[n] \in Seq(Packets) /\ k \in 1 .. Len(rx[n]) /\ rx \in [Node -> Seq(Packets)]
        BY DEF TypeOK
      <4>2. Sorted(InsertAt(rx[n], k, rx[n][k])) /\ \A m \in Node : Sorted(rx[m])
        BY <4>1, SortedInsert DEF OrderInv, QueuesSorted
      <4> QED BY <3>2, <4>1, <4>2
    <3> QED BY <1>5, <3>1, <3>2
  <2>5. QueuesSorted'
    BY <2>4 DEF QueuesSorted, Sorted, AsksFor
  <2> QED BY <1>5, <2>1, <2>3, <2>5, AppliedSame DEF OrderInv
<1>6. ASSUME NEW s \in Server, NEW i \in Index, NEW v,
             setWrAccess(s, i) \/ resetWrAccess(s, i) \/ updateData(s, i, v)
      PROVE  NoneStarts /\ UNCHANGED <<rx, applied>>
  BY <1>6 DEF setWrAccess, resetWrAccess, updateData, notifyVars, NoneStarts
<1>7. ASSUME NEW r \in Req, evWaitNotify(r) \/ evTimeoutCallback(r)
      PROVE  NoneStarts /\ UNCHANGED <<rx, applied>>
  BY <1>7 DEF evWaitNotify, evTimeoutCallback, NoneStarts, TypeOK, serverVars
<1>8. ASSUME NEW n \in Node, Lose(n) \/ Duplicate(n)
      PROVE  OrderInv' /\ NeverOlder
  <2>1. NoneStarts /\ UNCHANGED applied
    BY <1>8 DEF Lose, Duplicate, notifyVars, serverVars, NoneStarts
  <2> QED BY <1>5, <1>8, <2>1 DEF Lose, Duplicate
<1>9. OnlyChecks => NoneStarts /\ UNCHANGED <<rx, applied>>
  BY DEF OnlyChecks, notifyVars, serverVars, NoneStarts
<1> QED BY <1>1, <1>2, <1>3, <1>4, <1>6, <1>7, <1>8, <1>9, QuietSteps
        DEF Next, Application, EventLoop, Task, Receiver, Bus, readAsync, writeAsync

(* When clients wait for each answer and the bus keeps its order, an item  *)
(* never takes an older write of a client after a newer one, whatever is   *)
(* lost, duplicated or sent again.  Property: AppliedInIssueOrder.  Code:  *)
(* evExit in both callbacks, onWriteReq.                                   *)
THEOREM WritesStayInOrder ==
    ~ Pipelined /\ "reorder" \notin Faults /\ Spec => AppliedInIssueOrder
<1> SUFFICES ASSUME ~ Pipelined, "reorder" \notin Faults PROVE Spec => AppliedInIssueOrder
  OBVIOUS
<1>1. Init => OrderInv
  <2> SUFFICES ASSUME Init PROVE OrderInv
    OBVIOUS
  <2>1. InOrder
    BY DEF Init, InOrder
  <2>2. QueuesSorted
    BY DEF Init, QueuesSorted, Sorted
  <2>3. AppliedOld
    BY HostType DEF Init, AppliedOld, Carried
  <2> QED BY <2>1, <2>2, <2>3 DEF OrderInv
<1>2. TypeOK /\ RequestInv /\ CauseInv /\ OrderInv /\ [Next]_vars => OrderInv' /\ NeverOlder
  BY OrderNext
<1>3. RequestInv <=> CallbackOnce /\ RetryBudget
  BY DEF RequestInv
<1>4. NeverOlder <=>
        \A s \in Server, i \in Index, c \in Client : applied[s][i][c] <= applied'[s][i][c]
  BY DEF NeverOlder
<1> QED BY <1>1, <1>2, <1>3, <1>4, TypeCorrect, RequestsCorrect, CausesCorrect, PTL
        DEF Spec, AppliedInIssueOrder

-----------------------------------------------------------------------------
(* Timeouts that outlast the round trip.  At most one frame of a request   *)
(* can still do something.                                                 *)

ServersApart == \A s, t \in Server : Address[s] = Address[t] => s = t

(* Clients that wait for each answer, timeouts that outlast the round trip,*)
(* a bus that duplicates nothing, and one instance for an address.         *)
OneAtATime ==
    Prompt /\ ~ Pipelined /\ "dup" \notin Faults /\ ClientsApart /\ ServersApart

Acts(n, p) == ~ Unmatched(n, p.msg)

OneActs(queues) ==
    \A m, n \in Node : \A k \in DOMAIN queues[m], l \in DOMAIN queues[n] :
      /\ queues[m][k].rid = queues[n][l].rid
      /\ Acts(m, queues[m][k]) /\ Acts(n, queues[n][l])
      => m = n /\ k = l

NoneActs(queues, r) ==
    \A m \in Node : \A p \in Carried(queues, m) : p.rid = r => ~ Acts(m, p)

(* A request that is about to be sent has no frame on the bus.             *)
ReadyQuiet == \A r \in Req : phase[r] = "ready" => ~ InFlight(r)

PromptInv == OneActs(rx) /\ NoStaleFrame /\ ReadyQuiet

(* A frame is for one process. *)
LEMMA ActsAtOne ==
    ASSUME ClientsApart, ServersApart, NEW m, NEW n, NEW p, Acts(m, p), Acts(n, p)
    PROVE  m = n
<1> DEFINE f == fromCanMsg(p.msg)
<1>1. CASE f.op_code \in {ReadReq, WriteReq}
  <2>1. ServersAt(m, f.dest_id) # {} /\ ServersAt(n, f.dest_id) # {}
    BY <1>1 DEF Acts, Unmatched, ReadReq, WriteReq, ReadAck, WriteAck
  <2> HIDE DEF f
  <2> QED BY <2>1 DEF ServersAt, ServersApart
<1>2. CASE f.op_code \in {ReadAck, WriteAck}
  <2>1. ClientsAt(m, f.dest_id) # {} /\ ClientsAt(n, f.dest_id) # {}
    BY <1>2 DEF Acts, Unmatched, ReadReq, WriteReq, ReadAck, WriteAck
  <2> HIDE DEF f
  <2> QED BY <2>1 DEF ClientsAt, ClientsApart
<1>3. f.op_code \in {ReadReq, WriteReq} \/ f.op_code \in {ReadAck, WriteAck}
  BY DEF Acts, Unmatched
<1> QED BY <1>1, <1>2, <1>3

LEMMA HandledActs ==
    ASSUME NEW n, NEW p, IsServiceMsg(p.msg),
           \/ /\ fromCanMsg(p.msg).op_code \in {ReadReq, WriteReq}
              /\ ServersAt(n, fromCanMsg(p.msg).dest_id) # {}
           \/ /\ fromCanMsg(p.msg).op_code \in {ReadAck, WriteAck}
              /\ ClientsAt(n, fromCanMsg(p.msg).dest_id) # {}
    PROVE  Acts(n, p)
  BY DEF Acts, Unmatched, ReadReq, WriteReq, ReadAck, WriteAck

(* Where a frame that Read leaves was before. *)
Before(m, n, k, j) == IF m = n /\ k <= j THEN j + 1 ELSE j

LEMMA ReadPlaces ==
    ASSUME TypeOK, NEW n \in Node, NEW k \in DOMAIN rx[n], NEW m \in Node,
           NEW j \in DOMAIN Read(n, k)[m]
    PROVE  /\ Before(m, n, k, j) \in DOMAIN rx[m]
           /\ Read(n, k)[m][j] = rx[m][Before(m, n, k, j)]
           /\ ~ (m = n /\ Before(m, n, k, j) = k)
           /\ j \in Nat /\ k \in Nat
<1>1. rx[n] \in Seq(Packets) /\ k \in 1 .. Len(rx[n]) /\ rx \in [Node -> Seq(Packets)]
  BY DEF TypeOK
<1>2. CASE m # n
  <2>1. Read(n, k)[m] = rx[m]
    BY <1>1, <1>2 DEF Read
  <2> QED BY <1>1, <1>2, <2>1 DEF Before
<1>3. CASE m = n
  <2> DEFINE q == rx[n]  l == RemoveAt(q, k)
  <2>1. Read(n, k)[m] = l /\ rx[m] = q
    BY <1>1, <1>3 DEF Read
  <2>2. q \in Seq(Packets) /\ k \in 1 .. Len(q) /\ l \in Seq(Packets)
    BY <1>1, RemoveAtType
  <2>3. Len(l) = Len(q) - 1
        /\ \A i \in 1 .. (Len(q) - 1) : l[i] = IF i < k THEN q[i] ELSE q[i + 1]
    BY <2>2, RemoveAtEntries
  <2>4. j \in DOMAIN l
    BY <2>1
  <2> HIDE DEF q, l
  <2>5. /\ j \in 1 .. (Len(q) - 1) /\ Len(q) \in Nat /\ DOMAIN q = 1 .. Len(q) /\ k \in Nat
    BY <2>2, <2>3, <2>4
  <2>6. CASE j < k
    <3>1. l[j] = q[j] /\ j \in DOMAIN q /\ ~ (k <= j) /\ j # k
      BY <2>3, <2>5, <2>6
    <3> QED BY <1>3, <2>1, <2>5, <3>1 DEF Before
  <2>7. CASE k <= j
    <3>1. l[j] = q[j + 1] /\ j + 1 \in DOMAIN q /\ j + 1 # k
      BY <2>3, <2>5, <2>7
    <3> QED BY <1>3, <2>1, <2>5, <2>7, <3>1 DEF Before
  <2>8. j < k \/ k <= j
    BY <2>5
  <2> QED BY <2>6, <2>7, <2>8
<1> QED BY <1>2, <1>3

LEMMA ReadOneActs ==
    ASSUME TypeOK, OneActs(rx), NEW n \in Node, NEW k \in DOMAIN rx[n]
    PROVE  OneActs(Read(n, k))
<1> DEFINE q == Read(n, k)
<1> SUFFICES ASSUME NEW m \in Node, NEW o \in Node, NEW i \in DOMAIN q[m], NEW j \in DOMAIN q[o],
                    q[m][i].rid = q[o][j].rid, Acts(m, q[m][i]), Acts(o, q[o][j])
             PROVE  m = o /\ i = j
  BY DEF OneActs
<1>1. PICK x \in DOMAIN rx[m] : x = Before(m, n, k, i) /\ q[m][i] = rx[m][x] /\ i \in Nat
  BY ReadPlaces
<1>2. PICK y \in DOMAIN rx[o] : y = Before(o, n, k, j) /\ q[o][j] = rx[o][y] /\ j \in Nat
  BY ReadPlaces
<1>3. k \in Nat
  BY ReadPlaces
<1> HIDE DEF q
<1>4. m = o /\ x = y
  BY <1>1, <1>2 DEF OneActs
<1>5. Before(m, n, k, i) = Before(m, n, k, j)
  BY <1>1, <1>2, <1>4
<1>6. i = j
  BY <1>1, <1>2, <1>3, <1>5 DEF Before
<1> QED BY <1>4, <1>6

LEMMA ReadNoneActs ==
    ASSUME TypeOK, OneActs(rx), NEW n \in Node, NEW k \in DOMAIN rx[n], Acts(n, rx[n][k])
    PROVE  NoneActs(Read(n, k), rx[n][k].rid)
<1> DEFINE q == Read(n, k)
<1> SUFFICES ASSUME NEW m \in Node, NEW j \in DOMAIN q[m], q[m][j].rid = rx[n][k].rid,
                    Acts(m, q[m][j])
             PROVE  FALSE
  BY DEF NoneActs, Carried
<1>1. PICK x \in DOMAIN rx[m] : q[m][j] = rx[m][x] /\ ~ (m = n /\ x = k)
  BY ReadPlaces
<1> HIDE DEF q
<1> QED BY <1>1 DEF OneActs

LEMMA SendPlaces ==
    ASSUME NEW queues \in [Node -> Seq(Packets)], NEW n \in Node, NEW p \in Packets,
           NEW m \in Node, NEW j \in DOMAIN sendFrame(queues, n, p)[m]
    PROVE  \/ j \in DOMAIN queues[m] /\ sendFrame(queues, n, p)[m][j] = queues[m][j]
           \/ sendFrame(queues, n, p)[m][j] = p /\ j = Len(queues[m]) + 1
<1> DEFINE q == queues[m]  t == sendFrame(queues, n, p)[m]
<1>1. t = q \/ t = Append(q, p)
  BY DEF sendFrame
<1>2. q \in Seq(Packets) /\ j \in DOMAIN t
  OBVIOUS
<1> HIDE DEF q, t
<1>3. (j \in DOMAIN q /\ t[j] = q[j]) \/ (t[j] = p /\ j = Len(q) + 1)
  <2>1. CASE t = q
    BY <1>2, <2>1
  <2>2. CASE t = Append(q, p)
    <3>1. Len(t) = Len(q) + 1 /\ t[Len(q) + 1] = p /\ \A x \in 1 .. Len(q) : t[x] = q[x]
      BY <1>2, <2>2
    <3>2. DOMAIN t = 1 .. Len(t) /\ DOMAIN q = 1 .. Len(q) /\ Len(q) \in Nat
      BY <1>2, <2>2
    <3>3. j \in 1 .. Len(q) \/ j = Len(q) + 1
      BY <1>2, <3>1, <3>2
    <3> QED BY <3>1, <3>2, <3>3
  <2> QED BY <1>1, <2>1, <2>2
<1> QED BY <1>3 DEF q, t

LEMMA SendOneActs ==
    ASSUME NEW queues \in [Node -> Seq(Packets)], NEW n \in Node, NEW p \in Packets,
           ClientsApart, ServersApart, OneActs(queues), NoneActs(queues, p.rid)
    PROVE  OneActs(sendFrame(queues, n, p))
<1> DEFINE q == sendFrame(queues, n, p)
<1> SUFFICES ASSUME NEW m \in Node, NEW o \in Node, NEW i \in DOMAIN q[m], NEW j \in DOMAIN q[o],
                    q[m][i].rid = q[o][j].rid, Acts(m, q[m][i]), Acts(o, q[o][j])
             PROVE  m = o /\ i = j
  BY DEF OneActs
<1>1. \/ i \in DOMAIN queues[m] /\ q[m][i] = queues[m][i]
      \/ q[m][i] = p /\ i = Len(queues[m]) + 1
  BY SendPlaces, SMTT(40)
<1>2. \/ j \in DOMAIN queues[o] /\ q[o][j] = queues[o][j]
      \/ q[o][j] = p /\ j = Len(queues[o]) + 1
  BY SendPlaces
<1> HIDE DEF q
<1>3. CASE i \in DOMAIN queues[m] /\ q[m][i] = queues[m][i] /\ q[o][j] = p
  BY <1>3 DEF NoneActs, Carried
<1>4. CASE j \in DOMAIN queues[o] /\ q[o][j] = queues[o][j] /\ q[m][i] = p
  BY <1>4 DEF NoneActs, Carried
<1>5. CASE /\ i \in DOMAIN queues[m] /\ q[m][i] = queues[m][i]
           /\ j \in DOMAIN queues[o] /\ q[o][j] = queues[o][j]
  BY <1>5 DEF OneActs
<1>6. CASE q[m][i] = p /\ i = Len(queues[m]) + 1 /\ q[o][j] = p /\ j = Len(queues[o]) + 1
  BY <1>6, ActsAtOne
<1> QED BY <1>1, <1>2, <1>3, <1>4, <1>5, <1>6

LEMMA InFlightCarried ==
    ASSUME NEW r
    PROVE  InFlight(r) <=> \E m \in Node : \E p \in Carried(rx, m) : p.rid = r
  BY DEF InFlight, Carried

LEMMA StaleCarried ==
    NoStaleFrame <=> \A m \in Node : \A p \in Carried(rx, m) : Acts(m, p) => Live(p.rid)
  BY DEF NoStaleFrame, Carried, Acts


(* Requests start one after the other whatever the bus does. *)
LEMMA StartsInOrder == ~ Pipelined /\ Spec => []InOrder
<1> SUFFICES ASSUME ~ Pipelined PROVE Spec => []InOrder
  OBVIOUS
<1>1. Init => InOrder
  BY DEF Init, InOrder
<1>2. ASSUME TypeOK, RequestInv, InOrder, [Next]_vars
      PROVE  InOrder'
  <2>1. \A r \in Req : Ended(phase[r]) => Ended(phase'[r])
    BY <1>2, StepEnds
  <2>2. ASSUME NEW r \in Req, NEW f, addTask(r, f)
        PROVE  InOrder'
    BY <1>2, <2>2, InOrderAdds
  <2>3. NoneStarts => InOrder'
    BY <1>2, <2>1, InOrderStays
  <2>4. ASSUME NEW n \in Node, handleRecv(n)
        PROVE  NoneStarts
    BY <1>2, <2>4, ReceiveGrows
  <2>5. ASSUME NEW r \in Req, Task(r)
        PROVE  NoneStarts
    BY <1>2, <2>5 DEF Task, evUpdate, evWaitNotify, evTimeoutCallback, NoneStarts, TypeOK
  <2>6. ASSUME NEW s \in Server, NEW i \in Index, NEW v,
               setWrAccess(s, i) \/ resetWrAccess(s, i) \/ updateData(s, i, v)
        PROVE  NoneStarts
    BY <2>6 DEF setWrAccess, resetWrAccess, updateData, notifyVars, NoneStarts
  <2>7. ASSUME NEW n \in Node, Lose(n) \/ Duplicate(n)
        PROVE  NoneStarts
    BY <2>7 DEF Lose, Duplicate, notifyVars, NoneStarts
  <2>8. OnlyChecks => NoneStarts
    BY DEF OnlyChecks, notifyVars, NoneStarts
  <2> QED BY <1>2, <2>2, <2>3, <2>4, <2>5, <2>6, <2>7, <2>8, QuietSteps
          DEF Next, Application, EventLoop, Receiver, Bus, readAsync, writeAsync
<1>3. RequestInv <=> CallbackOnce /\ RetryBudget
  BY DEF RequestInv
<1> QED BY <1>1, <1>2, <1>3, TypeCorrect, RequestsCorrect, PTL DEF Spec

(* An acknowledgement of a request in the loop ends that request, if any.  *)
LEMMA NotifyWakesOne ==
    ASSUME ClientsApart, TypeOK, InOrder, NEW r \in Req, Live(r),
           NEW c \in Client, NEW f, Address[c] = Address[r[1]], notify(c, f)
    PROVE  /\ \A q \in Req : q # r => phase'[q] = phase[q] /\ answers'[q] = answers[q]
           /\ \/ phase'[r] = phase[r] /\ answers'[r] = answers[r]
              \/ phase'[r] = "finished" /\ answers'[r] = Append(answers[r], onRecv(r, f))
<1>1. c = r[1] /\ r[1] \in Client
  BY DEF ClientsApart, Req
<1>2. ASSUME NEW q \in Req, q[1] = c, phase[q] = "waiting"
      PROVE  q = r
  <2>1. phase[q] # "unused" /\ ~ Ended(phase[q]) /\ phase[r] # "unused" /\ ~ Ended(phase[r])
    BY <1>2 DEF Ended, Live
  <2>2. q[2] <= r[2] /\ r[2] <= q[2]
    BY <1>1, <1>2, <2>1, LiveIsLast
  <2>3. q = <<q[1], q[2]>> /\ r = <<r[1], r[2]>> /\ q[2] \in Nat /\ r[2] \in Nat
    BY DEF Req
  <2> QED BY <1>1, <1>2, <2>2, <2>3
<1>3. PICK woken :
        /\ evNotifyCallback(woken, f)
        /\ woken \subseteq {q \in Req : q[1] = c /\ phase[q] = "waiting"
                                        /\ matchNotifyMsg(cached_req[q], f)}
  BY DEF notify
<1>4. woken \subseteq {r}
  BY <1>2, <1>3
<1>5. \A q \in Req :
        /\ phase'[q] = IF q \in woken THEN "finished" ELSE phase[q]
        /\ answers'[q] = IF q \in woken THEN Append(answers[q], onRecv(q, f)) ELSE answers[q]
  BY <1>3 DEF evNotifyCallback
<1> QED BY <1>4, <1>5

(* What one reception does: nothing but taking the frame, or one           *)
(* acknowledgement for the frame's request, or one call of its callback.   *)
Performs(s, f, r) ==
    /\ RequestOf(r, f) /\ Address[s] = f.dest_id
    /\ \E e : ServedBy(s, f, r, e) /\ Effect(s, f, e) /\ served' = served \cup {e}

LEMMA ReceiveOne ==
    ASSUME OneAtATime, TypeOK, CauseInv, NEW n \in Node, handleRecv(n)
    PROVE  \E k \in DOMAIN rx[n], r \in Req, f \in ReceivedFrame :
             /\ r = rx[n][k].rid /\ f = fromCanMsg(rx[n][k].msg)
             /\ UNCHANGED <<cached_req, wr_access>>
             /\ \/ rx' = Read(n, k) /\ UNCHANGED <<notifyVars, served, buffer, checked>>
                \/ /\ Acts(n, rx[n][k]) /\ UNCHANGED notifyVars
                   /\ \E s \in Server : Performs(s, f, r)
                   /\ \/ rx' = Read(n, k)
                      \/ \E p \in Packets : p.rid = r /\ rx' = sendFrame(Read(n, k), n, p)
                \/ /\ Acts(n, rx[n][k]) /\ rx' = Read(n, k) /\ UNCHANGED <<served, buffer, checked>>
                   /\ AckOfRequest(r, f)
                   /\ \E c \in Client : Address[c] = Address[r[1]] /\ notify(c, f)
<1>1. PICK k \in DOMAIN rx[n] :
        /\ HandledAs(n, rx[n][k], Read(n, k))
        /\ rx[n][k] \in Packets /\ rx[n][k] \in Carried(rx, n) /\ rx[n][k].rid \in Req
        /\ fromCanMsg(rx[n][k].msg) \in ReceivedFrame
        /\ Read(n, k) \in [Node -> Seq(Packets)]
  BY ReceivesOne, Zenon
<1>2. PICK b \in Packets, f \in ReceivedFrame, r \in Req, left \in [Node -> Seq(Packets)] :
        /\ b = rx[n][k] /\ f = fromCanMsg(b.msg) /\ left = Read(n, k) /\ r = b.rid
  BY <1>1
<1>3. FrameOK(n, r, f)
  BY <1>1, <1>2 DEF CauseInv, PacketsInv
<1>4. \/ HandleUnmatched(n, left, b.msg)
      \/ /\ IsServiceMsg(b.msg)
         /\ \/ \E s \in Server : /\ Host[s] = n /\ Address[s] = f.dest_id
                                 /\ HandleRequest(s, left, f, r) \/ HandleBadIndex(s, left, f)
            \/ \E c \in Client : /\ Host[c] = n /\ Address[c] = f.dest_id
                                 /\ HandleAck(c, left, f)
  BY <1>1, <1>2, Zenon DEF HandledAs
<1>5. phase[r] # "unused"
  BY <1>3 DEF FrameOK
<1>8. UNCHANGED <<cached_req, wr_access>>
  BY <1>4 DEF HandleUnmatched, HandleRequest, HandleBadIndex, HandleAck, requestVars, serverVars
<1> SUFFICES \/ rx' = left /\ UNCHANGED <<notifyVars, served, buffer, checked>>
             \/ /\ Acts(n, b) /\ UNCHANGED notifyVars
                /\ \E s \in Server : Performs(s, f, r)
                /\ rx' = left \/ \E p \in Packets : p.rid = r /\ rx' = sendFrame(left, n, p)
             \/ /\ Acts(n, b) /\ rx' = left /\ UNCHANGED <<served, buffer, checked>> /\ AckOfRequest(r, f)
                /\ \E c \in Client : Address[c] = Address[r[1]] /\ notify(c, f)
  BY <1>2, <1>8, Zenon
<1>6. ASSUME IsServiceMsg(b.msg), NEW c \in Client, Host[c] = n, Address[c] = f.dest_id,
             HandleAck(c, left, f)
      PROVE  /\ Acts(n, b) /\ rx' = left /\ UNCHANGED <<served, buffer, checked>> /\ AckOfRequest(r, f)
             /\ Address[c] = Address[r[1]] /\ notify(c, f)
  <2>1. notify(c, f) /\ rx' = left /\ UNCHANGED <<served, buffer, checked>> /\ f.op_code \in {ReadAck, WriteAck}
    BY <1>6 DEF HandleAck, serverVars
  <2>2. cached_req[r].op_code \in {ReadReq, WriteReq}
    BY <1>5, StartedFrame DEF CauseInv
  <2>3. ~ RequestOf(r, f)
    BY <2>1, <2>2 DEF RequestOf, ReadReq, WriteReq, ReadAck, WriteAck
  <2>4. AckOfRequest(r, f)
    BY <1>3, <2>3 DEF FrameOK
  <2>5. Address[c] = Address[r[1]]
    BY <1>6, <2>4 DEF AckOfRequest
  <2>6. ClientsAt(n, f.dest_id) # {}
    BY <1>6 DEF ClientsAt
  <2>7. Acts(n, b)
    BY <1>2, <1>6, <2>1, <2>6, HandledActs
  <2> QED BY <2>1, <2>4, <2>5, <2>7
<1>7. ASSUME IsServiceMsg(b.msg), NEW s \in Server, Host[s] = n, Address[s] = f.dest_id,
             HandleRequest(s, left, f, r)
      PROVE  /\ Acts(n, b) /\ UNCHANGED notifyVars /\ Performs(s, f, r)
             /\ rx' = left \/ \E p \in Packets : p.rid = r /\ rx' = sendFrame(left, n, p)
  <2>1. PICK e : /\ ServedBy(s, f, r, e) /\ served' = served \cup {e} /\ Effect(s, f, e)
                 /\ \/ rx' = left /\ UNCHANGED notifyVars
                    \/ \E ack : Acknowledges(ack, f, e) /\ reply(n, left, ack, r)
    BY <1>7, RequestIsServed
  <2>2. f.op_code \in {ReadReq, WriteReq}
    BY <1>7 DEF HandleRequest
  <2>3. RequestOf(r, f) /\ n # Host[r[1]]
    <3>1. ASSUME AckOfRequest(r, f) PROVE FALSE
      BY <2>2, <3>1 DEF AckOfRequest, AckTells, ReadReq, WriteReq, ReadAck, WriteAck
    <3> QED BY <1>3, <3>1 DEF FrameOK
  <2>4. ServersAt(n, f.dest_id) # {}
    BY <1>7 DEF ServersAt
  <2>5. Acts(n, b)
    BY <1>2, <1>7, <2>2, <2>4, HandledActs
  <2>6. ASSUME NEW ack, Acknowledges(ack, f, e), reply(n, left, ack, r)
        PROVE  UNCHANGED notifyVars /\ \E p \in Packets : p.rid = r /\ rx' = sendFrame(left, n, p)
    <3>1. ack.dest_id = Address[r[1]] /\ ack \in ReceivedFrame
      BY <1>5, <2>3, <2>6 DEF Acknowledges, RequestOf, CauseInv, CachedInv
    <3>2. r[1] \in Client
      BY DEF Req
    <3>3. ClientsAt(n, ack.dest_id) = {}
      BY <2>3, <3>1, <3>2 DEF ClientsAt, OneAtATime, ClientsApart
    <3>4. /\ rx' = sendFrame(left, n, Packet(r, toCanMsg(ack, DefaultFormat)))
          /\ UNCHANGED notifyVars
      BY <2>6, <3>3 DEF reply
    <3>5. toCanMsg(ack, DefaultFormat) \in ServiceMessage
      BY <3>1, ToCanMsgType, ReceivedFrameEncodable
    <3>6. /\ Packet(r, toCanMsg(ack, DefaultFormat)) \in Packets
          /\ Packet(r, toCanMsg(ack, DefaultFormat)).rid = r
      BY <3>5 DEF Packet, Packets
    <3> QED BY <3>4, <3>6
  <2>7. Performs(s, f, r)
    BY <1>7, <2>1, <2>3 DEF Performs
  <2> QED BY <2>1, <2>5, <2>6, <2>7
<1> QED BY <1>4, <1>6, <1>7, Zenon DEF HandleUnmatched, HandleBadIndex, serverVars

(* What keeps the promptness: frames that were there, or of a request that *)
(* is in its loop.                                                         *)
LEMMA TakenKeepsPrompt ==
    ASSUME TypeOK, PromptInv, NEW n \in Node, NEW k \in DOMAIN rx[n], rx' = Read(n, k),
           \A q \in Req : Live(q) => Live(q)' \/ NoneActs(rx', q),
           \A q \in Req : phase'[q] = "ready" => phase[q] = "ready"
    PROVE  PromptInv'
<1>1. \A m \in Node : Carried(rx', m) \subseteq Carried(rx, m)
  BY ReadCarries
<1>2. OneActs(rx)'
  BY ReadOneActs DEF PromptInv, OneActs, Acts
<1>3. ASSUME NEW m \in Node, NEW p \in Carried(rx', m), Acts(m, p)
      PROVE  Live(p.rid)'
  <2>1. p \in Carried(rx, m) /\ p.rid \in Req
    BY <1>1, CarriedType DEF Packets
  <2>2. Live(p.rid)
    BY <1>3, <2>1, StaleCarried DEF PromptInv
  <2>3. ~ NoneActs(rx', p.rid)
    BY <1>3 DEF NoneActs
  <2> QED BY <2>1, <2>2, <2>3
<1>4. NoStaleFrame'
  BY <1>3 DEF NoStaleFrame, Carried, Acts
<1>5. ASSUME NEW r \in Req, phase'[r] = "ready"
      PROVE  ~ InFlight(r)'
  <2>1. ~ \E m \in Node : \E p \in Carried(rx, m) : p.rid = r
    BY <1>5, InFlightCarried DEF PromptInv, ReadyQuiet
  <2> QED BY <1>1, <2>1 DEF InFlight, Carried
<1> QED BY <1>2, <1>4, <1>5 DEF PromptInv, ReadyQuiet

LEMMA SentKeepsPrompt ==
    ASSUME OneAtATime, TypeOK, PromptInv, NEW queues \in [Node -> Seq(Packets)],
           \A m \in Node : Carried(queues, m) \subseteq Carried(rx, m),
           OneActs(queues), NEW n \in Node, NEW p \in Packets, NoneActs(queues, p.rid),
           rx' = sendFrame(queues, n, p),
           Live(p.rid)', phase'[p.rid] # "ready",
           \A q \in Req : Live(q) => Live(q)',
           \A q \in Req : phase'[q] = "ready" => phase[q] = "ready"
    PROVE  PromptInv'
<1>1. \A m \in Node : Carried(rx', m) \subseteq Carried(rx, m) \cup {p}
  BY SendCarries
<1>2. OneActs(rx')
  BY SendOneActs DEF OneAtATime
<1>3. OneActs(rx)'
  BY <1>2 DEF OneActs, Acts
<1>4. ASSUME NEW m \in Node, NEW x \in Carried(rx', m), Acts(m, x)
      PROVE  Live(x.rid)'
  <2>1. CASE x = p
    BY <2>1
  <2>2. CASE x \in Carried(rx, m)
    <3>1. Live(x.rid) /\ x.rid \in Req
      BY <1>4, <2>2, StaleCarried, CarriedType DEF PromptInv, Packets
    <3> QED BY <3>1
  <2> QED BY <1>1, <2>1, <2>2
<1>5. NoStaleFrame'
  BY <1>4 DEF NoStaleFrame, Carried, Acts
<1>6. ASSUME NEW r \in Req, phase'[r] = "ready"
      PROVE  ~ InFlight(r)'
  <2>1. ~ \E m \in Node : \E x \in Carried(rx, m) : x.rid = r
    BY <1>6, InFlightCarried DEF PromptInv, ReadyQuiet
  <2>2. p.rid # r
    BY <1>6
  <2> QED BY <1>1, <2>1, <2>2 DEF InFlight, Carried
<1> QED BY <1>3, <1>5, <1>6 DEF PromptInv, ReadyQuiet

LEMMA QuietKeepsPrompt ==
    ASSUME TypeOK, PromptInv, UNCHANGED rx,
           \A q \in Req : Live(q) /\ InFlight(q) => Live(q)',
           \A q \in Req : phase'[q] = "ready" => phase[q] = "ready" \/ ~ InFlight(q)
    PROVE  PromptInv'
<1>1. OneActs(rx)'
  BY DEF PromptInv, OneActs, Acts
<1>2. ASSUME NEW m \in Node, NEW p \in Carried(rx, m), Acts(m, p)
      PROVE  Live(p.rid)'
  <2>1. Live(p.rid) /\ p.rid \in Req
    BY <1>2, StaleCarried, CarriedType DEF PromptInv, Packets
  <2>2. InFlight(p.rid)
    BY InFlightCarried
  <2> QED BY <2>1, <2>2
<1>3. NoStaleFrame'
  BY <1>2 DEF NoStaleFrame, Carried, Acts
<1>4. ReadyQuiet'
  BY DEF PromptInv, ReadyQuiet, InFlight
<1> QED BY <1>1, <1>3, <1>4 DEF PromptInv

LEMMA ReceiveKeepsPrompt ==
    ASSUME OneAtATime, TypeOK, CauseInv, InOrder, PromptInv, NEW n \in Node, handleRecv(n)
    PROVE  PromptInv'
<1>1. PICK k \in DOMAIN rx[n], r \in Req, f \in ReceivedFrame :
        /\ r = rx[n][k].rid /\ f = fromCanMsg(rx[n][k].msg)
        /\ \/ rx' = Read(n, k) /\ UNCHANGED notifyVars
           \/ /\ Acts(n, rx[n][k]) /\ UNCHANGED notifyVars
              /\ \E p \in Packets : p.rid = r /\ rx' = sendFrame(Read(n, k), n, p)
           \/ /\ Acts(n, rx[n][k]) /\ rx' = Read(n, k)
              /\ \E c \in Client : Address[c] = Address[r[1]] /\ notify(c, f)
  BY ReceiveOne, Zenon
<1>2. ASSUME Acts(n, rx[n][k])
      PROVE  Live(r) /\ InFlight(r) /\ NoneActs(Read(n, k), r)
  <2>1. rx[n][k] \in Carried(rx, n)
    BY DEF Carried
  <2>2. Live(r)
    BY <1>1, <1>2, <2>1, StaleCarried DEF PromptInv
  <2>3. InFlight(r)
    BY <1>1, <2>1, InFlightCarried
  <2>4. NoneActs(Read(n, k), r)
    BY <1>1, <1>2, ReadNoneActs DEF PromptInv
  <2> QED BY <2>2, <2>3, <2>4
<1>3. CASE rx' = Read(n, k) /\ UNCHANGED notifyVars
  BY <1>3, TakenKeepsPrompt DEF notifyVars, Live
<1>4. ASSUME Acts(n, rx[n][k]), UNCHANGED notifyVars,
             NEW p \in Packets, p.rid = r, rx' = sendFrame(Read(n, k), n, p)
      PROVE  PromptInv'
  <2>1. UNCHANGED phase
    BY <1>4 DEF notifyVars
  <2>2. Live(r) /\ phase[r] # "ready" /\ NoneActs(Read(n, k), r)
    BY <1>2, <1>4 DEF PromptInv, ReadyQuiet
  <2>3. PICK left \in [Node -> Seq(Packets)] : left = Read(n, k)
    BY ReadType
  <2>4. OneActs(left) /\ \A m \in Node : Carried(left, m) \subseteq Carried(rx, m)
    BY <2>3, ReadCarries, ReadOneActs DEF PromptInv
  <2>5. \A q \in Req : (Live(q) => Live(q)') /\ (phase'[q] = "ready" => phase[q] = "ready")
    BY <2>1 DEF Live
  <2>6. Live(p.rid)' /\ phase'[p.rid] # "ready" /\ NoneActs(left, p.rid)
        /\ rx' = sendFrame(left, n, p)
    BY <1>4, <2>1, <2>2, <2>3 DEF Live
  <2> QED BY <2>4, <2>5, <2>6, SentKeepsPrompt
<1>5. ASSUME Acts(n, rx[n][k]), rx' = Read(n, k),
             NEW c \in Client, Address[c] = Address[r[1]], notify(c, f)
      PROVE  PromptInv'
  <2>1. Live(r) /\ NoneActs(rx', r)
    BY <1>2, <1>5
  <2>2. /\ \A q \in Req : q # r => phase'[q] = phase[q]
        /\ phase'[r] = phase[r] \/ phase'[r] = "finished"
    BY <1>5, <2>1, NotifyWakesOne DEF OneAtATime
  <2>3. \A q \in Req : Live(q) => Live(q)' \/ NoneActs(rx', q)
    BY <2>1, <2>2 DEF Live
  <2>4. \A q \in Req : phase'[q] = "ready" => phase[q] = "ready"
    BY <2>2
  <2> QED BY <1>5, <2>3, <2>4, TakenKeepsPrompt
<1> QED BY <1>1, <1>3, <1>4, <1>5, Zenon

LEMMA PromptNext ==
    ASSUME OneAtATime, TypeOK, CauseInv, InOrder, PromptInv, [Next]_vars
    PROVE  PromptInv'
<1>1. ASSUME NEW r \in Req, NEW f, addTask(r, f)
      PROVE  PromptInv'
  <2>1. UNCHANGED rx /\ phase[r] = "unused"
    BY <1>1 DEF addTask, MayStart
  <2>2. ~ InFlight(r)
    <3>1. ASSUME NEW m \in Node, NEW p \in Carried(rx, m), p.rid = r
          PROVE  FALSE
      BY <2>1, <3>1 DEF CauseInv, PacketsInv, FrameOK
    <3> QED BY <3>1, InFlightCarried
  <2>3. \A q \in Req : q # r => phase'[q] = phase[q]
    BY <1>1 DEF addTask, TypeOK
  <2>4. \A q \in Req : Live(q) /\ InFlight(q) => Live(q)'
    BY <2>2, <2>3 DEF Live
  <2> QED BY <2>1, <2>2, <2>3, <2>4, QuietKeepsPrompt
<1>2. ASSUME NEW r \in Req, evUpdate(r)
      PROVE  PromptInv'
  <2>1. PICK p \in Packets : p = Packet(r, toCanMsg(cached_req[r], DefaultFormat))
    BY <1>2, StartedFrame DEF evUpdate, CauseInv
  <2>2. p.rid = r /\ Host[r[1]] \in Node
    BY <2>1, HostType DEF Packet, Req
  <2>3. /\ rx' = sendFrame(rx, Host[r[1]], p) /\ phase[r] = "ready"
        /\ phase' = [phase EXCEPT ![r] = IF LoopLocked THEN "waiting" ELSE "sending"]
    BY <1>2, <2>1 DEF evUpdate
  <2>4. ~ \E m \in Node : \E x \in Carried(rx, m) : x.rid = r
    BY <2>3, InFlightCarried DEF PromptInv, ReadyQuiet
  <2>5. NoneActs(rx, r) /\ OneActs(rx)
    BY <2>4 DEF NoneActs, PromptInv
  <2>6. rx \in [Node -> Seq(Packets)] /\ phase \in [Req -> Phases]
    BY DEF TypeOK
  <2>7. /\ phase'[r] \in {"waiting", "sending"}
        /\ \A q \in Req : q # r => phase'[q] = phase[q]
    BY <2>3, <2>6
  <2>8. /\ Live(r)' /\ phase'[r] # "ready"
        /\ \A q \in Req : (Live(q) => Live(q)') /\ (phase'[q] = "ready" => phase[q] = "ready")
    BY <2>7 DEF Live
  <2> QED BY <2>2, <2>3, <2>5, <2>6, <2>8, SentKeepsPrompt
<1>3. ASSUME NEW r \in Req, evWaitNotify(r)
      PROVE  PromptInv'
  <2>1. UNCHANGED rx /\ phase' = [phase EXCEPT ![r] = "waiting"] /\ phase \in [Req -> Phases]
    BY <1>3 DEF evWaitNotify, TypeOK
  <2>2. \A q \in Req : (Live(q) => Live(q)') /\ (phase'[q] = "ready" => phase[q] = "ready")
    BY <2>1 DEF Live
  <2> QED BY <2>1, <2>2, QuietKeepsPrompt
<1>4. ASSUME NEW r \in Req, evTimeoutCallback(r)
      PROVE  PromptInv'
  <2>1. UNCHANGED rx /\ ~ InFlight(r)
    BY <1>4 DEF evTimeoutCallback, OneAtATime
  <2>2. \A q \in Req : q # r => phase'[q] = phase[q]
    BY <1>4 DEF evTimeoutCallback, TypeOK
  <2>3. \A q \in Req : Live(q) /\ InFlight(q) => Live(q)'
    BY <2>1, <2>2 DEF Live
  <2> QED BY <2>1, <2>2, <2>3, QuietKeepsPrompt
<1>5. ASSUME UNCHANGED <<rx, phase>>
      PROVE  PromptInv'
  BY <1>5, QuietKeepsPrompt DEF Live
<1>6. ASSUME NEW n \in Node, handleRecv(n)
      PROVE  PromptInv'
  BY <1>6, ReceiveKeepsPrompt
<1>7. ASSUME NEW n \in Node, Lose(n) \/ Duplicate(n)
      PROVE  PromptInv'
  <2>1. PICK k \in DOMAIN rx[n] : rx' = Read(n, k) /\ UNCHANGED phase
    BY <1>7 DEF Lose, Duplicate, notifyVars, OneAtATime
  <2> QED BY <2>1, TakenKeepsPrompt DEF Live
<1>8. ASSUME NEW s \in Server, NEW i \in Index, NEW v,
             setWrAccess(s, i) \/ resetWrAccess(s, i) \/ updateData(s, i, v)
      PROVE  UNCHANGED <<rx, phase>>
  BY <1>8 DEF setWrAccess, resetWrAccess, updateData, notifyVars
<1>9. OnlyChecks => UNCHANGED <<rx, phase>>
  BY DEF OnlyChecks, notifyVars
<1> QED BY <1>1, <1>2, <1>3, <1>4, <1>5, <1>6, <1>7, <1>8, <1>9, QuietSteps, Zenon
        DEF Next, Application, EventLoop, Task, Receiver, Bus, readAsync, writeAsync

LEMMA PromptCorrect == OneAtATime /\ Spec => []PromptInv
<1> SUFFICES ASSUME OneAtATime PROVE Spec => []PromptInv
  OBVIOUS
<1>1. Init => PromptInv
  BY DEF Init, PromptInv, OneActs, NoStaleFrame, ReadyQuiet
<1>2. TypeOK /\ CauseInv /\ InOrder /\ PromptInv /\ [Next]_vars => PromptInv'
  BY PromptNext
<1>3. Spec => []InOrder
  BY StartsInOrder DEF OneAtATime
<1> QED BY <1>1, <1>2, <1>3, TypeCorrect, CausesCorrect, PTL DEF Spec

(* Nothing of a request that a process would act upon survives the         *)
(* request's callback, when timeouts outlast the round trip.  Property:    *)
(* NoStaleFrame.  Code: evTimeoutCallback, evExit.                         *)
THEOREM NothingOutlives == OneAtATime /\ Spec => []NoStaleFrame
<1>1. PromptInv => NoStaleFrame
  BY DEF PromptInv
<1> QED BY <1>1, PromptCorrect, PTL


-----------------------------------------------------------------------------
(* The values that travel.                                                 *)

DataInv ==
    /\ \A s \in Server, i \in Index : buffer[s][i] \in Value
    /\ \A r \in Req : phase[r] # "unused" /\ cached_req[r].op_code = WriteReq =>
         cached_req[r].payload \in Value
    /\ \A e \in served : /\ e.val \in Value
                         /\ e.op = WriteReq /\ e.ret = 1 => e.val = cached_req[e.rid].payload

LEMMA DataStays ==
    ASSUME TypeOK, Grows, ServedInv, DataInv, UNCHANGED served,
           \A s \in Server, i \in Index : buffer'[s][i] \in Value,
           \A r \in Req : phase[r] = "unused" /\ phase'[r] # "unused"
                          /\ cached_req'[r].op_code = WriteReq => cached_req'[r].payload \in Value
    PROVE  DataInv'
<1>1. \A e \in served : e.rid \in Req /\ cached_req'[e.rid] = cached_req[e.rid]
  BY DEF TypeOK, ServedEntry, Grows, ServedInv
<1>2. \A r \in Req : phase'[r] # "unused" /\ cached_req'[r].op_code = WriteReq =>
        cached_req'[r].payload \in Value
  BY DEF Grows, DataInv
<1> QED BY <1>1, <1>2 DEF DataInv

LEMMA PerformedData ==
    ASSUME TypeOK, Grows, ServedInv, DataInv, NEW s \in Server, NEW f \in ReceivedFrame,
           NEW r \in Req, phase[r] # "unused", NoneStarts, UNCHANGED cached_req,
           Performs(s, f, r)
    PROVE  DataInv'
<1>1. PICK e : ServedBy(s, f, r, e) /\ Effect(s, f, e) /\ served' = served \cup {e}
  BY DEF Performs
<1>2. /\ f = cached_req[r] /\ f.srv_id \in Index /\ InitValue \in Value
      /\ f.op_code = WriteReq => f.payload \in Value
  BY ConfigAssumption DEF Performs, RequestOf, DataInv, ReceivedFrame, ConfigAssumption
<1>3. e.rid = r /\ e.op = f.op_code
  BY <1>1 DEF ServedBy
<1>4. buffer[s][f.srv_id] \in Value
  BY <1>2 DEF DataInv
<1>5. e.val \in Value /\ (e.op = WriteReq /\ e.ret = 1 => e.val = f.payload)
  BY <1>1, <1>2, <1>3, <1>4 DEF Effect, ReadReq, WriteReq
<1>6. ASSUME NEW x \in Server, NEW i \in Index
      PROVE  buffer'[x][i] \in Value
  <2>1. UNCHANGED buffer \/ (f.payload \in Value
                             /\ buffer' = [buffer EXCEPT ![s][f.srv_id] = f.payload])
    BY <1>1, <1>2 DEF Effect
  <2>2. buffer \in [Server -> [Index -> Payload]] /\ buffer[x][i] \in Value
    BY DEF TypeOK, DataInv
  <2>3. CASE buffer' = [buffer EXCEPT ![s][f.srv_id] = f.payload] /\ f.payload \in Value
    BY <1>2, <2>2, <2>3
  <2> QED BY <2>1, <2>2, <2>3
<1>7. \A x \in served' : /\ x.val \in Value
                         /\ x.op = WriteReq /\ x.ret = 1 => x.val = cached_req'[x.rid].payload
  BY <1>1, <1>2, <1>3, <1>5 DEF DataInv
<1>8. \A q \in Req : phase'[q] # "unused" /\ cached_req'[q].op_code = WriteReq =>
        cached_req'[q].payload \in Value
  BY DEF DataInv, NoneStarts
<1> QED BY <1>6, <1>7, <1>8 DEF DataInv

(* One reception on any bus: a request served, or no change of the data.   *)
LEMMA ReceivePerforms ==
    ASSUME TypeOK, CauseInv, NEW n \in Node, handleRecv(n)
    PROVE  \/ UNCHANGED <<served, buffer>>
           \/ \E s \in Server, f \in ReceivedFrame, r \in Req :
                phase[r] # "unused" /\ Performs(s, f, r)
<1>1. PICK k \in DOMAIN rx[n] :
        /\ HandledAs(n, rx[n][k], Read(n, k))
        /\ rx[n][k] \in Carried(rx, n) /\ rx[n][k].rid \in Req
        /\ fromCanMsg(rx[n][k].msg) \in ReceivedFrame
        /\ Read(n, k) \in [Node -> Seq(Packets)]
  BY ReceivesOne, Zenon
<1>2. PICK f \in ReceivedFrame, r \in Req, left \in [Node -> Seq(Packets)] :
        f = fromCanMsg(rx[n][k].msg) /\ left = Read(n, k) /\ r = rx[n][k].rid
  BY <1>1
<1>3. FrameOK(n, r, f)
  BY <1>1, <1>2 DEF CauseInv, PacketsInv
<1>4. \/ HandleUnmatched(n, left, rx[n][k].msg)
      \/ \E s \in Server : /\ Host[s] = n /\ Address[s] = f.dest_id
                           /\ HandleRequest(s, left, f, r) \/ HandleBadIndex(s, left, f)
      \/ \E c \in Client : HandleAck(c, left, f)
  BY <1>1, <1>2, Zenon DEF HandledAs
<1>5. ASSUME NEW s \in Server, Address[s] = f.dest_id, HandleRequest(s, left, f, r)
      PROVE  phase[r] # "unused" /\ Performs(s, f, r)
  <2>1. PICK e : ServedBy(s, f, r, e) /\ served' = served \cup {e} /\ Effect(s, f, e)
    BY <1>5, RequestIsServed
  <2>2. f.op_code \in {ReadReq, WriteReq}
    BY <1>5 DEF HandleRequest
  <2>3. ASSUME AckOfRequest(r, f) PROVE FALSE
    BY <2>2, <2>3 DEF AckOfRequest, AckTells, ReadReq, WriteReq, ReadAck, WriteAck
  <2> QED BY <1>3, <1>5, <2>1, <2>3 DEF FrameOK, Performs
<1> QED BY <1>4, <1>5 DEF HandleUnmatched, HandleBadIndex, HandleAck, serverVars

LEMMA ReceiveKeepsCached ==
    ASSUME TypeOK, NEW n \in Node, handleRecv(n)
    PROVE  UNCHANGED <<cached_req, wr_access>>
<1>1. PICK k \in DOMAIN rx[n] : HandledAs(n, rx[n][k], Read(n, k))
  BY ReceivesOne, Zenon
<1> QED BY <1>1 DEF HandledAs, HandleUnmatched, HandleRequest, HandleBadIndex, HandleAck,
                    requestVars, serverVars

LEMMA ReceiveData ==
    ASSUME TypeOK, CauseInv, Grows, DataInv, NEW n \in Node, handleRecv(n)
    PROVE  DataInv'
<1>1. NoneStarts /\ UNCHANGED cached_req
  BY ReceiveGrows, ReceiveKeepsCached
<1>2. CASE UNCHANGED <<served, buffer>>
  BY <1>1, <1>2, DataStays DEF CauseInv, NoneStarts, DataInv
<1>3. ASSUME NEW s \in Server, NEW f \in ReceivedFrame, NEW r \in Req,
             phase[r] # "unused", Performs(s, f, r)
      PROVE  DataInv'
  BY <1>1, <1>3, PerformedData DEF CauseInv
<1> QED BY <1>2, <1>3, ReceivePerforms

LEMMA DataCorrect == Spec => []DataInv
<1>1. Init => DataInv
  BY ConfigAssumption DEF Init, DataInv, ConfigAssumption
<1>2. TypeOK /\ CauseInv /\ DataInv /\ [Next]_vars => DataInv'
  <2> SUFFICES ASSUME TypeOK, CauseInv, DataInv, [Next]_vars PROVE DataInv'
    OBVIOUS
  <2>0. Grows /\ ServedInv
    BY StepGrows DEF CauseInv
  <2>1. ASSUME NEW r \in Req, NEW f, addTask(r, f), f.op_code = WriteReq => f.payload \in Value
        PROVE  DataInv'
    <3>1. UNCHANGED <<served, buffer>> /\ cached_req' = [cached_req EXCEPT ![r] = f]
          /\ \A q \in Req : q # r => phase'[q] = phase[q]
      BY <2>1 DEF addTask, serverVars, TypeOK
    <3>2. \A q \in Req : phase[q] = "unused" /\ phase'[q] # "unused"
                         /\ cached_req'[q].op_code = WriteReq => cached_req'[q].payload \in Value
      BY <2>1, <3>1 DEF TypeOK
    <3> QED BY <2>0, <3>1, <3>2, DataStays DEF DataInv
  <2>2. ASSUME UNCHANGED <<served, buffer>>, NoneStarts
        PROVE  DataInv'
    BY <2>0, <2>2, DataStays DEF DataInv, NoneStarts
  <2>3. ASSUME NEW r \in Req, NEW i \in Index, NEW v \in Value,
               readAsync(r, i) \/ writeAsync(r, i, v)
        PROVE  DataInv'
    <3>1. ReadReqFrame(r, i).op_code # WriteReq /\ WriteReqFrame(r, i, v).payload \in Value
      BY DEF ReadReqFrame, WriteReqFrame, ReadReq, WriteReq
    <3> QED BY <2>1, <2>3, <3>1 DEF readAsync, writeAsync
  <2>4. ASSUME NEW s \in Server, NEW i \in Index, NEW v \in LocalValue, updateData(s, i, v)
        PROVE  DataInv'
    <3>1. v \in Value
      BY ConfigAssumption DEF ConfigAssumption
    <3>2. buffer' = [buffer EXCEPT ![s][i] = v] /\ UNCHANGED served /\ UNCHANGED phase
      BY <2>4 DEF updateData, notifyVars
    <3>3. \A x \in Server, j \in Index : buffer'[x][j] \in Value
      BY <3>1, <3>2 DEF DataInv, TypeOK
    <3> QED BY <2>0, <3>2, <3>3, DataStays
  <2>5. ASSUME NEW s \in Server, NEW i \in Index, setWrAccess(s, i) \/ resetWrAccess(s, i)
        PROVE  DataInv'
    BY <2>2, <2>5 DEF setWrAccess, resetWrAccess, notifyVars, NoneStarts
  <2>6. ASSUME NEW r \in Req, Task(r)
        PROVE  DataInv'
    BY <2>2, <2>6 DEF Task, evUpdate, evWaitNotify, evTimeoutCallback, NoneStarts, TypeOK,
                      serverVars
  <2>7. ASSUME NEW n \in Node, handleRecv(n)
        PROVE  DataInv'
    BY <2>0, <2>7, ReceiveData
  <2>8. ASSUME NEW n \in Node, Lose(n) \/ Duplicate(n)
        PROVE  DataInv'
    BY <2>2, <2>8 DEF Lose, Duplicate, notifyVars, serverVars, NoneStarts
  <2>9. CASE OnlyChecks
    BY <2>2, <2>9 DEF OnlyChecks, notifyVars, requestVars, serverVars, NoneStarts
  <2>10. ASSUME NEW r \in Req, NEW i \in Index, readAsync(r, i)
         PROVE  DataInv'
    BY <2>3, <2>10, ConfigAssumption DEF ConfigAssumption
  <2> QED BY <2>3, <2>4, <2>5, <2>6, <2>7, <2>8, <2>9, <2>10, QuietSteps
          DEF Next, Application, EventLoop, Receiver, Bus
<1> QED BY <1>1, <1>2, TypeCorrect, CausesCorrect, PTL DEF Spec


-----------------------------------------------------------------------------
(* The successful answers are true.                                        *)

TrueFor(r, a) ==
    \E e \in served : /\ e.rid = r /\ Succeeded(e)
                      /\ Address[e.srv] = BoundTo[r[1]] /\ e.val = a.val

(* What the callback is told of an acknowledgement of its own request.     *)
LEMMA ToldTruly ==
    ASSUME TypeOK, CauseInv, DataInv, NEW r \in Req, phase[r] # "unused",
           NEW f, AckOfRequest(r, f)
    PROVE  /\ onRecv(r, f).code \in 0 .. 255 /\ onRecv(r, f).val \in Value
           /\ onRecv(r, f).code = 1 => TrueFor(r, onRecv(r, f))
<1> DEFINE a == onRecv(r, f)
<1>1. PICK e \in served : e.rid = r /\ AckTells(f, e)
  BY DEF AckOfRequest
<1>2. /\ e.op = cached_req[r].op_code /\ Address[e.srv] = BoundTo[r[1]] /\ e.val \in Value
      /\ e.op = WriteReq /\ e.ret = 1 => e.val = cached_req[r].payload
      /\ e.op \in {ReadReq, WriteReq} /\ e.ret \in 0 .. 4
  BY <1>1 DEF CauseInv, ServedInv, DoneFor, DataInv, TypeOK, ServedEntry
<1>3. CASE e.op = ReadReq
  <2>1. f.op_code = ReadAck /\ e.ret = 0 /\ f.payload = e.val
    BY <1>1, <1>3 DEF AckTells
  <2>2. a.code \in {1, 3} /\ a.val = e.val
    BY <2>1 DEF onRecv, Answer
  <2> HIDE DEF a
  <2>3. Succeeded(e)
    BY <1>3, <2>1 DEF Succeeded
  <2>4. a.code \in 0 .. 255 /\ a.val \in Value /\ TrueFor(r, a)
    BY <1>1, <1>2, <2>2, <2>3 DEF TrueFor
  <2> QED BY <2>4 DEF a
<1>4. CASE e.op = WriteReq
  <2>1. f.op_code = WriteAck /\ f.payload = e.ret
    BY <1>1, <1>4 DEF AckTells, ReadReq, WriteReq
  <2>2. a.code = e.ret /\ a.val = cached_req[r].payload
    BY <2>1 DEF onRecv, Answer, ReadAck, WriteAck
  <2> HIDE DEF a
  <2>3. a.val \in Value
    BY <1>2, <1>4, <2>2 DEF DataInv
  <2>4. ASSUME a.code = 1 PROVE TrueFor(r, a)
    <3>1. Succeeded(e) /\ e.val = a.val
      BY <1>2, <1>4, <2>2, <2>4 DEF Succeeded, ReadReq, WriteReq
    <3> QED BY <1>1, <1>2, <3>1 DEF TrueFor
  <2>5. a.code \in 0 .. 255
    BY <1>2, <2>2
  <2> QED BY <2>3, <2>4, <2>5 DEF a
<1> QED BY <1>2, <1>3, <1>4

LEMMA AnswersStayTrue ==
    ASSUME Grows, TypeOK, AnswerIsTrue,
           \A r \in Req : \/ answers'[r] = answers[r]
                          \/ \E a : /\ answers'[r] = Append(answers[r], a)
                                    /\ a.code = 1 => TrueFor(r, a)
    PROVE  AnswerIsTrue'
<1> SUFFICES ASSUME NEW r \in Req, NEW k \in DOMAIN answers'[r], answers'[r][k].code = 1
             PROVE  TrueFor(r, answers'[r][k])
  BY DEF AnswerIsTrue, TrueFor, Grows
<1>1. answers[r] \in Seq([code : Payload, val : Payload])
  BY DEF TypeOK
<1>2. CASE k \in DOMAIN answers[r] /\ answers'[r][k] = answers[r][k]
  BY <1>2 DEF AnswerIsTrue, TrueFor
<1>3. ASSUME NEW a, answers'[r] = Append(answers[r], a), a.code = 1 => TrueFor(r, a)
      PROVE  TrueFor(r, answers'[r][k])
  <2> DEFINE q == answers[r]
  <2>1. Len(q) \in Nat /\ DOMAIN q = 1 .. Len(q)
    BY <1>1
  <2>2. /\ k \in 1 .. (Len(q) + 1) /\ answers'[r][Len(q) + 1] = a
        /\ \A j \in 1 .. Len(q) : answers'[r][j] = q[j]
    BY <1>1, <1>3
  <2>3. k \in DOMAIN q \/ k = Len(q) + 1
    BY <2>1, <2>2
  <2> QED BY <1>2, <1>3, <2>1, <2>2, <2>3
<1> QED BY <1>2, <1>3

LEMMA TruthNext ==
    ASSUME OneAtATime, TypeOK, CauseInv, InOrder, PromptInv, DataInv, AnswerIsTrue,
           [Next]_vars
    PROVE  AnswerIsTrue'
<1>0. Grows
  BY StepGrows
<1>1. UNCHANGED answers => AnswerIsTrue'
  BY <1>0, AnswersStayTrue
<1>2. ASSUME NEW r \in Req, evTimeoutCallback(r)
      PROVE  AnswerIsTrue'
  <2>1. /\ \A q \in Req : q # r => answers'[q] = answers[q]
        /\ answers'[r] = answers[r] \/ answers'[r] = Append(answers[r], Answer(2, InitValue))
    BY <1>2 DEF evTimeoutCallback, TypeOK
  <2>2. Answer(2, InitValue).code # 1
    BY DEF Answer
  <2> QED BY <1>0, <2>1, <2>2, AnswersStayTrue
<1>3. ASSUME NEW n \in Node, handleRecv(n)
      PROVE  AnswerIsTrue'
  <2>1. PICK k \in DOMAIN rx[n], r \in Req, f \in ReceivedFrame :
          /\ r = rx[n][k].rid
          /\ \/ UNCHANGED notifyVars
             \/ /\ Acts(n, rx[n][k]) /\ AckOfRequest(r, f)
                /\ \E c \in Client : Address[c] = Address[r[1]] /\ notify(c, f)
    BY <1>3, ReceiveOne, Zenon
  <2>2. CASE UNCHANGED notifyVars
    BY <1>1, <2>2 DEF notifyVars
  <2>3. ASSUME Acts(n, rx[n][k]), AckOfRequest(r, f),
               NEW c \in Client, Address[c] = Address[r[1]], notify(c, f)
        PROVE  AnswerIsTrue'
    <3>1. rx[n][k] \in Carried(rx, n)
      BY DEF Carried
    <3>2. Live(r)
      BY <2>1, <2>3, <3>1, StaleCarried DEF PromptInv
    <3>3. /\ \A q \in Req : q # r => answers'[q] = answers[q]
          /\ answers'[r] = answers[r] \/ answers'[r] = Append(answers[r], onRecv(r, f))
      BY <2>3, <3>2, NotifyWakesOne DEF OneAtATime
    <3>4. onRecv(r, f).code = 1 => TrueFor(r, onRecv(r, f))
      BY <2>3, <3>2, ToldTruly DEF Live
    <3> QED BY <1>0, <3>3, <3>4, AnswersStayTrue
  <2> QED BY <2>1, <2>2, <2>3
<1>4. ASSUME NEW r \in Req, NEW f, addTask(r, f)
      PROVE  UNCHANGED answers
  BY <1>4 DEF addTask
<1>5. ASSUME NEW r \in Req, evUpdate(r) \/ evWaitNotify(r)
      PROVE  UNCHANGED answers
  BY <1>5 DEF evUpdate, evWaitNotify
<1>6. ASSUME NEW s \in Server, NEW i \in Index, NEW v,
             setWrAccess(s, i) \/ resetWrAccess(s, i) \/ updateData(s, i, v)
      PROVE  UNCHANGED answers
  BY <1>6 DEF setWrAccess, resetWrAccess, updateData, notifyVars
<1>7. ASSUME NEW n \in Node, Lose(n) \/ Duplicate(n)
      PROVE  UNCHANGED answers
  BY <1>7 DEF Lose, Duplicate, notifyVars
<1>8. OnlyChecks => UNCHANGED answers
  BY DEF OnlyChecks, notifyVars
<1> QED BY <1>1, <1>2, <1>3, <1>4, <1>5, <1>6, <1>7, <1>8, QuietSteps
        DEF Next, Application, EventLoop, Task, Receiver, Bus, readAsync, writeAsync

(* When timeouts outlast the round trip, a successful answer is about its  *)
(* own request, and tells the value the server read or wrote for it.       *)
(* Property: AnswerIsTrue.  Code: onReadReq, onWriteReq, onRecv.           *)
THEOREM AnswersAreTrue == OneAtATime /\ Spec => []AnswerIsTrue
<1> SUFFICES ASSUME OneAtATime PROVE Spec => []AnswerIsTrue
  OBVIOUS
<1>1. Init => AnswerIsTrue
  BY DEF Init, AnswerIsTrue
<1>2. /\ TypeOK /\ CauseInv /\ InOrder /\ PromptInv /\ DataInv /\ AnswerIsTrue /\ [Next]_vars
      => AnswerIsTrue'
  BY TruthNext
<1>3. Spec => []InOrder /\ []PromptInv
  BY StartsInOrder, PromptCorrect DEF OneAtATime
<1> QED BY <1>1, <1>2, <1>3, TypeCorrect, CausesCorrect, DataCorrect, PTL DEF Spec


-----------------------------------------------------------------------------
(* The protocol keeps its contract: every step is a step of RemoteParam    *)
(* under the mapping of ParamRefinement, or changes nothing it tells of.   *)

NowVars == <<buffer, wr_access, GrantedNow, StatusNow, OperationNow, ResultsNow, answers>>

LEMMA NoResultsLost == UNCHANGED served => UNCHANGED ResultsNow
  BY DEF ResultsNow, Succeeded

LEMMA SameGrants == UNCHANGED checked => UNCHANGED GrantedNow
  BY DEF GrantedNow

(* A process is in one handler at a time. *)
OneCall == \A v, w \in checked : Host[v.srv] = Host[w.srv] => v = w

LEMMA CallsCorrect == Spec => []OneCall
<1>1. Init => OneCall
  BY DEF Init, OneCall
<1>2. TypeOK /\ OneCall /\ [Next]_vars => OneCall'
  <2> SUFFICES ASSUME TypeOK, OneCall, [Next]_vars PROVE OneCall'
    OBVIOUS
  <2>1. ASSUME checked' \subseteq checked PROVE OneCall'
    BY <2>1 DEF OneCall
  <2>2. ASSUME NEW n \in Node, checkWrite(n) PROVE OneCall'
    <3>1. PICK s \in Server : Host[s] = n /\ \E r, k, c : checked' = checked \cup {Call(s, r, k, c)}
      BY <2>2, Zenon DEF checkWrite, ServersAt
    <3>5. PICK r, k, c : checked' = checked \cup {Call(s, r, k, c)}
      BY <3>1
    <3>2. Call(s, r, k, c).srv = s
      BY DEF Call
    <3>3. \A w \in checked : Host[w.srv] # n
      BY <2>2 DEF checkWrite, InProgress
    <3> HIDE DEF Call
    <3>4. \A v, w \in checked' : Host[v.srv] = Host[w.srv] => v = w
      BY <3>1, <3>2, <3>3, <3>5 DEF OneCall
    <3> QED BY <3>4 DEF OneCall
  <2>3. ASSUME NEW n \in Node, handleRecv(n) PROVE checked' \subseteq checked
    <3>1. PICK k \in DOMAIN rx[n] : HandledAs(n, rx[n][k], Read(n, k))
      BY <2>3, ReceivesOne, Zenon
    <3>2. ASSUME NEW s, NEW queues, NEW f, NEW r, HandleRequest(s, queues, f, r)
          PROVE  UNCHANGED checked \/ \E w : checked' = checked \ {w}
      BY <3>2, Zenon DEF HandleRequest
    <3>3. UNCHANGED checked \/ \E w : checked' = checked \ {w}
      BY <3>1, <3>2, Zenon DEF HandledAs, HandleUnmatched, HandleBadIndex, HandleAck, serverVars
    <3> QED BY <3>3
  <2>4. ASSUME NEW r \in Req, NEW i \in Index,
               readAsync(r, i) \/ \E v \in Value : writeAsync(r, i, v)
        PROVE  UNCHANGED checked
    BY <2>4 DEF readAsync, writeAsync, addTask, serverVars
  <2>5. ASSUME NEW s \in Server, NEW i \in Index, NEW v,
               setWrAccess(s, i) \/ resetWrAccess(s, i) \/ updateData(s, i, v)
        PROVE  UNCHANGED checked
    BY <2>5 DEF setWrAccess, resetWrAccess, updateData
  <2>6. ASSUME NEW r \in Req, evUpdate(r) \/ evWaitNotify(r) \/ evTimeoutCallback(r)
        PROVE  UNCHANGED checked
    BY <2>6 DEF evUpdate, evWaitNotify, evTimeoutCallback, serverVars
  <2>7. ASSUME NEW n \in Node, Lose(n) \/ Duplicate(n)
        PROVE  UNCHANGED checked
    BY <2>7 DEF Lose, Duplicate, serverVars
  <2>8. UNCHANGED vars => UNCHANGED checked
    BY DEF vars, serverVars
  <2>9. UNCHANGED checked => checked' \subseteq checked
    OBVIOUS
  <2> QED BY <2>1, <2>2, <2>3, <2>4, <2>5, <2>6, <2>7, <2>8, <2>9
          DEF Next, Application, EventLoop, Task, Receiver, Bus
<1> QED BY <1>1, <1>2, TypeCorrect, PTL DEF Spec

LEMMA SameTasks ==
    ASSUME UNCHANGED <<phase, cached_req>>
    PROVE  UNCHANGED <<StatusNow, OperationNow>>
  BY DEF StatusNow, OperationNow, InLoopOrDone, Live, OperationOf

(* A task that stays in its loop. *)
LEMMA StayingTasks ==
    ASSUME UNCHANGED cached_req,
           \A r \in Req : phase'[r] = phase[r] \/ (Live(r) /\ Live(r)')
    PROVE  UNCHANGED <<StatusNow, OperationNow>>
<1>1. \A r \in Req : /\ Live(r)' <=> Live(r)
                     /\ phase'[r] = "finished" <=> phase[r] = "finished"
  BY DEF Live
<1> QED BY <1>1 DEF StatusNow, OperationNow, InLoopOrDone, OperationOf

(* A task that leaves its loop. *)
LEMMA ReturningTask ==
    ASSUME TypeOK, UNCHANGED cached_req, NEW r \in Req, Live(r), phase'[r] = "finished",
           \A q \in Req : q # r => phase'[q] = phase[q]
    PROVE  /\ StatusNow[r] = "called" /\ StatusNow' = [StatusNow EXCEPT ![r] = "returned"]
           /\ UNCHANGED OperationNow
<1>1. \A q \in Req : q # r => /\ Live(q)' <=> Live(q)
                              /\ phase'[q] = "finished" <=> phase[q] = "finished"
  BY DEF Live
<1>2. ~ Live(r)'
  BY DEF Live
<1> QED BY <1>1, <1>2 DEF StatusNow, OperationNow, InLoopOrDone, OperationOf

LEMMA ReturnStep ==
    ASSUME TypeOK, TypeOK', NEW r \in Req, Live(r), phase'[r] = "finished",
           UNCHANGED <<cached_req, served, buffer, wr_access, checked>>,
           \A q \in Req : q # r => phase'[q] = phase[q] /\ answers'[q] = answers[q],
           NEW c \in 0 .. 255, NEW d \in Value,
           answers'[r] = Append(answers[r], [code |-> c, val |-> d]),
           c = 1 => d \in ResultsNow[r]
    PROVE  Contract!Return(r)
<1>1. /\ StatusNow[r] = "called" /\ StatusNow' = [StatusNow EXCEPT ![r] = "returned"]
      /\ UNCHANGED OperationNow
  BY ReturningTask
<1>2. answers' = [answers EXCEPT ![r] = Append(@, [code |-> c, val |-> d])]
  BY DEF TypeOK
<1>3. UNCHANGED <<ResultsNow, GrantedNow>>
  BY NoResultsLost, SameGrants
<1> QED BY <1>1, <1>2, <1>3 DEF Contract!Return

LEMMA CallStep ==
    ASSUME TypeOK, TypeOK', CauseInv, DataInv, NEW r \in Req, NEW f \in RequestFrame,
           addTask(r, f), HasRoom(r[1]), f.dest_id \in 0 .. 63,
           f.op_code = WriteReq => f.payload \in Value
    PROVE  Contract!Call(r)
<1>1. /\ phase[r] = "unused" /\ phase' = [phase EXCEPT ![r] = "ready"]
      /\ cached_req' = [cached_req EXCEPT ![r] = f]
      /\ UNCHANGED <<served, buffer, wr_access, checked, answers>>
  BY DEF addTask, MayStart, serverVars
<1>2. /\ phase'[r] = "ready" /\ cached_req'[r] = f
      /\ \A q \in Req : q # r => phase'[q] = phase[q] /\ cached_req'[q] = cached_req[q]
  BY <1>1 DEF TypeOK
<1>3. StatusNow[r] = "idle" /\ StatusNow' = [StatusNow EXCEPT ![r] = "called"]
  BY <1>1, <1>2 DEF StatusNow, Live
<1> DEFINE w == f.op_code = WriteReq
           d == IF w THEN f.payload ELSE InitValue
           op == [write |-> w, to |-> f.dest_id, item |-> f.srv_id, datum |-> d]
<1>4. OperationOf(r)' = op
  BY <1>2 DEF OperationOf
<1>5. \A q \in Req : q # r => OperationOf(q)' = OperationOf(q)
                              /\ (InLoopOrDone(q)' <=> InLoopOrDone(q))
  BY <1>2 DEF OperationOf, InLoopOrDone, Live
<1>6. InLoopOrDone(r)'
  BY <1>2 DEF InLoopOrDone, Live
<1>7. OperationNow' = [OperationNow EXCEPT ![r] = op]
  <2> HIDE DEF op
  <2> QED BY <1>4, <1>5, <1>6 DEF OperationNow
<1>8. f.dest_id \in 0 .. 63 /\ f.srv_id \in Index /\ d \in Value /\ w \in BOOLEAN
  BY ConfigAssumption DEF RequestFrame, ConfigAssumption
<1>9. UNCHANGED <<ResultsNow, GrantedNow>>
  BY <1>1, NoResultsLost, SameGrants
<1> HIDE DEF w, d
<1> QED BY <1>1, <1>3, <1>7, <1>8, <1>9 DEF Contract!Call

LEMMA DroppedStep ==
    ASSUME TypeOK, NEW r \in Req, NEW f, addTask(r, f), ~ HasRoom(r[1])
    PROVE  UNCHANGED NowVars
<1>1. /\ phase[r] = "unused" /\ phase' = [phase EXCEPT ![r] = "dropped"]
      /\ cached_req' = [cached_req EXCEPT ![r] = f]
      /\ UNCHANGED <<served, buffer, wr_access, checked, answers>>
  BY DEF addTask, MayStart, serverVars
<1>2. \A q \in Req : /\ Live(q)' <=> Live(q)
                     /\ phase'[q] = "finished" <=> phase[q] = "finished"
                     /\ InLoopOrDone(q) => cached_req'[q] = cached_req[q]
  BY <1>1 DEF TypeOK, Live, InLoopOrDone
<1>3. UNCHANGED StatusNow
  BY <1>2 DEF StatusNow
<1>4. UNCHANGED OperationNow
  BY <1>2 DEF OperationNow, InLoopOrDone, OperationOf
<1> QED BY <1>1, <1>3, <1>4, NoResultsLost, SameGrants DEF NowVars

(* A handler that ends gives back the grant it had. *)
LEMMA GrantEnds ==
    ASSUME TypeOK, OneCall, NEW w \in checked, checked' = checked \ {w}
    PROVE  /\ w.code = 1 => /\ <<w.rid, w.srv>> \in GrantedNow
                            /\ GrantedNow' = GrantedNow \ {<<w.rid, w.srv>>}
           /\ w.code # 1 => UNCHANGED GrantedNow
<1>1. \A v \in checked : v.srv = w.srv => v = w
  BY DEF OneCall
<1>2. \A x : x \in GrantedNow <=> \E v \in checked : v.code = 1 /\ x = <<v.rid, v.srv>>
  BY DEF GrantedNow
<1>3. \A x : x \in GrantedNow' <=>
              \E v \in checked : v # w /\ v.code = 1 /\ x = <<v.rid, v.srv>>
  BY DEF GrantedNow
<1>4. \A v \in checked : <<v.rid, v.srv>> = <<w.rid, w.srv>> => v = w
  BY <1>1
<1>5. ASSUME w.code # 1 PROVE GrantedNow' = GrantedNow
  BY <1>2, <1>3, <1>5
<1>6. ASSUME w.code = 1 PROVE GrantedNow' = GrantedNow \ {<<w.rid, w.srv>>}
  BY <1>2, <1>3, <1>4, <1>6
<1> QED BY <1>2, <1>5, <1>6

LEMMA PerformStep ==
    ASSUME TypeOK, OneCall, NEW s \in Server, NEW f, NEW r \in Req, Live(r), f.srv_id \in Index,
           Performs(s, f, r), UNCHANGED <<phase, cached_req, wr_access, answers>>
    PROVE  Contract!Perform(r, s) \/ UNCHANGED NowVars
<1>1. PICK e : ServedBy(s, f, r, e) /\ Effect(s, f, e) /\ served' = served \cup {e}
  BY DEF Performs
<1>2. f = cached_req[r] /\ Address[s] = f.dest_id /\ e.rid = r /\ e.op = f.op_code
  BY <1>1 DEF Performs, RequestOf, ServedBy
<1>3. UNCHANGED <<StatusNow, OperationNow>>
  BY SameTasks
<1>6. ASSUME Completes(s, e)
      PROVE  /\ e.ret = 1 => /\ <<r, s>> \in GrantedNow
                             /\ GrantedNow' = GrantedNow \ {<<r, s>>}
             /\ e.ret # 1 => UNCHANGED GrantedNow
  BY <1>2, <1>6, GrantEnds DEF Completes
<1>7. f.op_code = ReadReq => UNCHANGED GrantedNow
  BY <1>1, SameGrants DEF Effect, ReadReq, WriteReq
<1>4. CASE ~ Succeeded(e)
  <2>1. UNCHANGED buffer
    BY <1>1, <1>2, <1>4 DEF Effect, Succeeded, ReadReq, WriteReq
  <2>2. UNCHANGED ResultsNow
    BY <1>1, <1>4 DEF ResultsNow, Succeeded
  <2>3. UNCHANGED GrantedNow
    BY <1>1, <1>2, <1>4, <1>6, <1>7 DEF Effect, Succeeded, ReadReq, WriteReq
  <2> QED BY <1>3, <2>1, <2>2, <2>3 DEF NowVars
<1>5. CASE Succeeded(e)
  <2>1. ResultsNow' = [ResultsNow EXCEPT ![r] = @ \cup {e.val}]
    <3>1. \A q \in Req : \A v :
            v \in ResultsNow[q] <=> \E x \in served : x.rid = q /\ Succeeded(x) /\ x.val = v
      BY DEF ResultsNow
    <3>2. \A q \in Req : \A v :
            v \in ResultsNow'[q] <=> \E x \in served' : x.rid = q /\ Succeeded(x) /\ x.val = v
      BY DEF ResultsNow, Succeeded
    <3>3. \A x : x \in served' <=> x \in served \/ x = e
      BY <1>1
    <3>4. \A q \in Req : \A v :
            v \in ResultsNow'[q] <=> v \in ResultsNow[q] \/ (q = r /\ v = e.val)
      BY <1>2, <1>5, <3>1, <3>2, <3>3
    <3>5. \A q \in Req : ResultsNow'[q] = IF q = r THEN ResultsNow[r] \cup {e.val}
                                          ELSE ResultsNow[q]
      BY <3>4
    <3>6. /\ ResultsNow' = [q \in Req |-> ResultsNow'[q]]
          /\ ResultsNow = [q \in Req |-> ResultsNow[q]]
      BY DEF ResultsNow
    <3> QED BY <3>5, <3>6
  <2>2. StatusNow[r] = "called"
    BY DEF StatusNow
  <2> DEFINE op == OperationNow[r]
  <2>3. /\ op.write = (f.op_code = WriteReq) /\ op.to = f.dest_id /\ op.item = f.srv_id
        /\ f.op_code = WriteReq => op.datum = f.payload
    BY <1>2 DEF OperationNow, InLoopOrDone, OperationOf
  <2> HIDE DEF op
  <2>4. buffer[s] \in [Index -> Payload] /\ buffer \in [Server -> [Index -> Payload]]
    BY DEF TypeOK
  <2>5. CASE f.op_code = WriteReq
    <3>1. /\ Completes(s, e) /\ e.ret = 1 /\ e.val = f.payload
          /\ buffer' = [buffer EXCEPT ![s][f.srv_id] = f.payload]
      BY <1>1, <1>2, <1>5, <2>5 DEF Effect, Succeeded, ReadReq, WriteReq
    <3>3. <<r, s>> \in GrantedNow /\ GrantedNow' = GrantedNow \ {<<r, s>>}
      BY <1>6, <3>1
    <3>2. buffer'[s][op.item] = e.val
      BY <2>3, <2>4, <3>1
    <3> QED BY <1>2, <1>3, <2>1, <2>2, <2>3, <2>5, <3>1, <3>2, <3>3 DEF Contract!Perform, op
  <2>6. CASE f.op_code # WriteReq
    <3>1. UNCHANGED buffer /\ e.val = buffer[s][f.srv_id] /\ UNCHANGED GrantedNow
      BY <1>1, <1>2, <1>5, <1>7, <2>6 DEF Effect, Succeeded
    <3>2. buffer'[s][op.item] = e.val
      BY <2>3, <3>1
    <3> QED BY <1>2, <1>3, <2>1, <2>2, <2>3, <2>6, <3>1, <3>2 DEF Contract!Perform, op
  <2> QED BY <2>5, <2>6
<1> QED BY <1>4, <1>5

LEMMA ReceiveStep ==
    ASSUME OneAtATime, TypeOK, TypeOK', CauseInv, InOrder, PromptInv, DataInv, OneCall,
           NEW n \in Node, handleRecv(n)
    PROVE  \/ UNCHANGED NowVars
           \/ \E r \in Req : Contract!Return(r) \/ \E s \in Server : Contract!Perform(r, s)
<1>0. PICK k \in DOMAIN rx[n], r \in Req, f \in ReceivedFrame :
        /\ r = rx[n][k].rid /\ f = fromCanMsg(rx[n][k].msg)
        /\ UNCHANGED <<cached_req, wr_access>>
        /\ \/ rx' = Read(n, k) /\ UNCHANGED <<notifyVars, served, buffer, checked>>
           \/ /\ Acts(n, rx[n][k]) /\ UNCHANGED notifyVars
              /\ \E s \in Server : Performs(s, f, r)
              /\ \/ rx' = Read(n, k)
                 \/ \E p \in Packets : p.rid = r /\ rx' = sendFrame(Read(n, k), n, p)
           \/ /\ Acts(n, rx[n][k]) /\ rx' = Read(n, k) /\ UNCHANGED <<served, buffer, checked>>
              /\ AckOfRequest(r, f)
              /\ \E c \in Client : Address[c] = Address[r[1]] /\ notify(c, f)
  BY ReceiveOne, Zenon
<1>1. /\ r = rx[n][k].rid /\ f = fromCanMsg(rx[n][k].msg)
      /\ UNCHANGED <<cached_req, wr_access>>
      /\ \/ UNCHANGED <<notifyVars, served, buffer, checked>>
         \/ /\ Acts(n, rx[n][k]) /\ UNCHANGED notifyVars
            /\ \E s \in Server : Performs(s, f, r)
         \/ /\ Acts(n, rx[n][k]) /\ UNCHANGED <<served, buffer, checked>> /\ AckOfRequest(r, f)
            /\ \E c \in Client : Address[c] = Address[r[1]] /\ notify(c, f)
  BY <1>0, Zenon
<1>2. ASSUME Acts(n, rx[n][k])
      PROVE  Live(r)
  <2>1. rx[n][k] \in Carried(rx, n)
    BY DEF Carried
  <2> QED BY <1>1, <1>2, <2>1, StaleCarried DEF PromptInv
<1>3. CASE UNCHANGED <<notifyVars, served, buffer, checked>>
  <2>1. UNCHANGED <<phase, cached_req, wr_access, answers, buffer, served, checked>>
    BY <1>1, <1>3 DEF notifyVars
  <2> QED BY <2>1, SameTasks, NoResultsLost, SameGrants DEF NowVars
<1>4. ASSUME Acts(n, rx[n][k]), UNCHANGED notifyVars, NEW s \in Server, Performs(s, f, r)
      PROVE  Contract!Perform(r, s) \/ UNCHANGED NowVars
  <2>1. Live(r) /\ UNCHANGED <<phase, cached_req, wr_access, answers>>
    BY <1>1, <1>2, <1>4 DEF notifyVars
  <2>2. f.srv_id \in Index
    <3>1. f = cached_req[r] /\ phase[r] # "unused"
      BY <1>4, <2>1 DEF Performs, RequestOf, Live
    <3>2. f \in RequestFrame
      BY <3>1 DEF TypeOK
    <3> QED BY <3>2 DEF RequestFrame
  <2> QED BY <1>4, <2>1, <2>2, PerformStep
<1>5. ASSUME Acts(n, rx[n][k]), UNCHANGED <<served, buffer, checked>>, AckOfRequest(r, f),
             NEW c \in Client, Address[c] = Address[r[1]], notify(c, f)
      PROVE  Contract!Return(r) \/ UNCHANGED NowVars
  <2>1. Live(r) /\ UNCHANGED <<cached_req, wr_access>>
    BY <1>1, <1>2, <1>5
  <2>2. /\ \A q \in Req : q # r => phase'[q] = phase[q] /\ answers'[q] = answers[q]
        /\ \/ phase'[r] = phase[r] /\ answers'[r] = answers[r]
           \/ phase'[r] = "finished" /\ answers'[r] = Append(answers[r], onRecv(r, f))
    BY <1>5, <2>1, NotifyWakesOne DEF OneAtATime
  <2>3. CASE phase'[r] = phase[r] /\ answers'[r] = answers[r]
    <3>1. answers' = answers
      BY <2>2, <2>3 DEF TypeOK
    <3>2. UNCHANGED <<StatusNow, OperationNow>>
      BY <2>1, <2>2, <2>3, StayingTasks
    <3> QED BY <1>5, <2>1, <3>1, <3>2, NoResultsLost, SameGrants DEF NowVars
  <2>4. CASE phase'[r] = "finished" /\ answers'[r] = Append(answers[r], onRecv(r, f))
    <3>1. /\ onRecv(r, f).code \in 0 .. 255 /\ onRecv(r, f).val \in Value
          /\ onRecv(r, f).code = 1 => TrueFor(r, onRecv(r, f))
      BY <1>5, <2>1, ToldTruly DEF Live
    <3>2. PICK d \in 0 .. 255, v \in Value : d = onRecv(r, f).code /\ v = onRecv(r, f).val
      BY <3>1
    <3>3. onRecv(r, f) = [code |-> d, val |-> v]
      BY <3>2 DEF onRecv, Answer
    <3>4. d = 1 => v \in ResultsNow[r]
      BY <3>1, <3>2 DEF TrueFor, ResultsNow
    <3>5. UNCHANGED <<cached_req, served, buffer, wr_access, checked>>
      BY <1>5, <2>1
    <3>6. answers'[r] = Append(answers[r], [code |-> d, val |-> v])
      BY <2>4, <3>3
    <3>7. \A q \in Req : q # r => phase'[q] = phase[q] /\ answers'[q] = answers[q]
      BY <2>2
    <3> QED BY <2>1, <2>4, <3>4, <3>5, <3>6, <3>7, ReturnStep
  <2> QED BY <2>2, <2>3, <2>4
<1> QED BY <1>1, <1>3, <1>4, <1>5, Zenon

(* A write that finds its item open is granted to the request it is for.   *)
LEMMA CheckStep ==
    ASSUME TypeOK, CauseInv, PromptInv, NEW n \in Node, checkWrite(n)
    PROVE  UNCHANGED NowVars \/ \E r \in Req, s \in Server : Contract!Grant(r, s)
<1>1. PICK k \in DOMAIN rx[n], s \in Server :
        /\ IsServiceMsg(rx[n][k].msg)
        /\ fromCanMsg(rx[n][k].msg).op_code = WriteReq
        /\ Host[s] = n /\ Address[s] = fromCanMsg(rx[n][k].msg).dest_id
        /\ checked' = checked \cup {Call(s, rx[n][k].rid, k,
                                        WriteCode(s, fromCanMsg(rx[n][k].msg)))}
  BY Zenon DEF checkWrite, ServersAt
<1>2. /\ rx[n][k] \in Packets /\ rx[n][k].rid \in Req /\ rx[n][k] \in Carried(rx, n)
      /\ fromCanMsg(rx[n][k].msg) \in ReceivedFrame
  <2>1. rx[n][k] \in Packets
    BY ReadType
  <2> QED BY <2>1, FromCanMsgType DEF Packets, Carried
<1>3. PICK r \in Req, f \in ReceivedFrame : r = rx[n][k].rid /\ f = fromCanMsg(rx[n][k].msg)
  BY <1>2
<1>4. FrameOK(n, r, f)
  BY <1>2, <1>3 DEF CauseInv, PacketsInv
<1>5. RequestOf(r, f)
  <2>1. ASSUME AckOfRequest(r, f) PROVE FALSE
    BY <1>1, <1>3, <2>1 DEF AckOfRequest, AckTells, WriteReq, ReadAck, WriteAck
  <2> QED BY <1>4, <2>1 DEF FrameOK
<1>6. Live(r)
  <2>1. ServersAt(n, f.dest_id) # {}
    BY <1>1, <1>3 DEF ServersAt
  <2>2. Acts(n, rx[n][k])
    BY <1>1, <1>2, <1>3, <2>1, HandledActs DEF WriteReq, ReadReq
  <2> QED BY <1>2, <1>3, <2>2, StaleCarried DEF PromptInv
<1>7. /\ UNCHANGED <<phase, cached_req, answers, buffer, wr_access, served>>
      /\ UNCHANGED <<StatusNow, OperationNow, ResultsNow>>
  <2>1. UNCHANGED <<phase, cached_req, answers, buffer, wr_access, served>>
    BY DEF checkWrite, requestVars, notifyVars
  <2> QED BY <2>1, SameTasks, NoResultsLost
<1> DEFINE code == WriteCode(s, f)
<1>8. /\ Call(s, r, k, code).rid = r /\ Call(s, r, k, code).srv = s
      /\ Call(s, r, k, code).code = code
  BY DEF Call
<1>9. checked' = checked \cup {Call(s, r, k, code)}
  BY <1>1, <1>3
<1>10. code = 1 => f.srv_id \in wr_access[s]
  BY DEF WriteCode
<1> HIDE DEF code, Call
<1>11. CASE code # 1
  <2>1. UNCHANGED GrantedNow
    BY <1>8, <1>9, <1>11 DEF GrantedNow
  <2> QED BY <1>7, <2>1 DEF NowVars
<1>12. CASE code = 1
  <2>1. GrantedNow' = GrantedNow \cup {<<r, s>>}
    BY <1>8, <1>9, <1>12 DEF GrantedNow
  <2>2. /\ StatusNow[r] = "called" /\ OperationNow[r].write = TRUE
        /\ OperationNow[r].to = f.dest_id /\ OperationNow[r].item = f.srv_id
    <3>1. f = cached_req[r] /\ f.op_code = WriteReq
      BY <1>1, <1>3, <1>5 DEF RequestOf
    <3> QED BY <1>6, <3>1 DEF StatusNow, OperationNow, InLoopOrDone, OperationOf
  <2>3. Contract!Grant(r, s)
    BY <1>1, <1>3, <1>7, <1>10, <1>12, <2>1, <2>2 DEF Contract!Grant
  <2> QED BY <2>3
<1> QED BY <1>11, <1>12

LEMMA ServerOwnStep ==
    ASSUME TypeOK, NEW s \in Server, NEW i \in Index, NEW v \in Value,
           setWrAccess(s, i) \/ resetWrAccess(s, i) \/ updateData(s, i, v)
    PROVE  Contract!ServerOwn(s)
<1>1. UNCHANGED <<phase, cached_req, served, checked, answers>>
  BY DEF setWrAccess, resetWrAccess, updateData, notifyVars, requestVars
<1>2. UNCHANGED <<StatusNow, OperationNow, ResultsNow, GrantedNow, answers>>
  BY <1>1, SameTasks, NoResultsLost, SameGrants
<1>3. \/ /\ UNCHANGED wr_access
         /\ \E j \in Index, d \in Value : buffer' = [buffer EXCEPT ![s][j] = d]
      \/ /\ UNCHANGED buffer
         /\ wr_access' \in {[wr_access EXCEPT ![s] = @ \cup {i}],
                            [wr_access EXCEPT ![s] = @ \ {i}]}
  BY <1>1 DEF setWrAccess, resetWrAccess, updateData
<1> QED BY <1>2, <1>3, Zenon DEF Contract!ServerOwn

LEMMA TimeoutStep ==
    ASSUME TypeOK, TypeOK', NEW r \in Req, evTimeoutCallback(r)
    PROVE  Contract!Return(r) \/ UNCHANGED NowVars
<1>1. /\ Live(r) /\ UNCHANGED <<cached_req, served, buffer, wr_access, checked>>
      /\ \A q \in Req : q # r => phase'[q] = phase[q] /\ answers'[q] = answers[q]
      /\ \/ phase'[r] = "ready" /\ UNCHANGED answers
         \/ phase'[r] = "finished" /\ answers'[r] = Append(answers[r], Answer(2, InitValue))
  BY DEF evTimeoutCallback, TypeOK, Live, serverVars
<1>2. CASE phase'[r] = "ready" /\ UNCHANGED answers
  <2>1. UNCHANGED <<StatusNow, OperationNow>>
    BY <1>1, <1>2, StayingTasks DEF Live
  <2> QED BY <1>1, <1>2, <2>1, NoResultsLost, SameGrants DEF NowVars
<1>3. CASE phase'[r] = "finished" /\ answers'[r] = Append(answers[r], Answer(2, InitValue))
  <2>1. Answer(2, InitValue) = [code |-> 2, val |-> InitValue] /\ InitValue \in Value
    BY ConfigAssumption DEF Answer, ConfigAssumption
  <2>2. PICK d \in 0 .. 255 : d = 2
    OBVIOUS
  <2>3. answers'[r] = Append(answers[r], [code |-> d, val |-> InitValue]) /\ d # 1
    BY <1>3, <2>1, <2>2
  <2> QED BY <1>1, <1>3, <2>1, <2>3, ReturnStep
<1> QED BY <1>1, <1>2, <1>3

LEMMA RequestCallStep ==
    ASSUME TypeOK, TypeOK', CauseInv, DataInv, NEW r \in Req, NEW i \in Index,
           readAsync(r, i) \/ \E v \in Value : writeAsync(r, i, v)
    PROVE  Contract!Call(r) \/ UNCHANGED NowVars
<1>1. PICK f \in RequestFrame : /\ addTask(r, f) /\ f.dest_id = BoundTo[r[1]] % 256
                                /\ f.op_code = WriteReq => f.payload \in Value
  <2>1. /\ ReadReqFrame(r, i) \in RequestFrame /\ ReadReqFrame(r, i).op_code # WriteReq
        /\ ReadReqFrame(r, i).dest_id = BoundTo[r[1]] % 256
    BY RequestFrameTypes DEF ReadReqFrame, ReadReq, WriteReq
  <2>2. ASSUME NEW v \in Value
        PROVE  /\ WriteReqFrame(r, i, v) \in RequestFrame
               /\ WriteReqFrame(r, i, v).payload = v
               /\ WriteReqFrame(r, i, v).dest_id = BoundTo[r[1]] % 256
    BY RequestFrameTypes DEF WriteReqFrame
  <2> QED BY <2>1, <2>2 DEF readAsync, writeAsync
<1>2. f.dest_id \in 0 .. 63
  <2>1. PICK b \in 0 .. 63 : b = BoundTo[r[1]]
    BY HostType DEF Req
  <2> QED BY <1>1, <2>1
<1> QED BY <1>1, <1>2, CallStep, DroppedStep

LEMMA ContractNext ==
    ASSUME OneAtATime, TypeOK, TypeOK', CauseInv, InOrder, PromptInv, DataInv, OneCall, [Next]_vars
    PROVE  [Contract!Next]_(Contract!vars)
<1>1. UNCHANGED NowVars => UNCHANGED Contract!vars
  BY DEF NowVars, Contract!vars
<1>2. ASSUME NEW r \in Req, NEW i \in Index,
             readAsync(r, i) \/ \E v \in Value : writeAsync(r, i, v)
      PROVE  Contract!Call(r) \/ UNCHANGED NowVars
  BY <1>2, RequestCallStep
<1>3. ASSUME NEW s \in Server, NEW i \in Index,
             setWrAccess(s, i) \/ resetWrAccess(s, i)
             \/ \E v \in LocalValue : updateData(s, i, v)
      PROVE  Contract!ServerOwn(s)
  <2>1. InitValue \in Value /\ LocalValue \subseteq Value
    BY ConfigAssumption DEF ConfigAssumption
  <2> QED BY <1>3, <2>1, ServerOwnStep
<1>4. ASSUME NEW r \in Req, evUpdate(r) \/ evWaitNotify(r)
      PROVE  UNCHANGED NowVars
  <2>1. /\ UNCHANGED <<cached_req, served, buffer, wr_access, checked, answers>>
        /\ \A q \in Req : phase'[q] = phase[q] \/ (Live(q) /\ Live(q)')
    BY <1>4 DEF evUpdate, evWaitNotify, TypeOK, Live, serverVars, requestVars
  <2> QED BY <2>1, StayingTasks, NoResultsLost, SameGrants DEF NowVars
<1>5. ASSUME NEW r \in Req, evTimeoutCallback(r)
      PROVE  Contract!Return(r) \/ UNCHANGED NowVars
  BY <1>5, TimeoutStep
<1>6. ASSUME NEW n \in Node, handleRecv(n)
      PROVE  \/ UNCHANGED NowVars
             \/ \E r \in Req : Contract!Return(r) \/ \E s \in Server : Contract!Perform(r, s)
  BY <1>6, ReceiveStep
<1>7. (\E n \in Node : Lose(n) \/ Duplicate(n)) \/ UNCHANGED vars => UNCHANGED NowVars
  <2>1. (\E n \in Node : Lose(n) \/ Duplicate(n)) \/ UNCHANGED vars =>
          UNCHANGED <<phase, cached_req, served, buffer, wr_access, checked, answers>>
    BY DEF Lose, Duplicate, vars, serverVars, requestVars, notifyVars
  <2> QED BY <2>1, SameTasks, NoResultsLost, SameGrants DEF NowVars
<1>9. ASSUME NEW n \in Node, checkWrite(n)
      PROVE  UNCHANGED NowVars \/ \E r \in Req, s \in Server : Contract!Grant(r, s)
  BY <1>9, CheckStep
<1>8. Contract!Next \/ UNCHANGED NowVars
  BY <1>2, <1>3, <1>4, <1>5, <1>6, <1>7, <1>9, Zenon
     DEF Next, Application, EventLoop, Task, Receiver, Bus, Contract!Next
<1> QED BY <1>1, <1>8

(* When timeouts outlast the round trip, the request protocol implements   *)
(* the contract of a remote parameter: the server acts only between the    *)
(* call and the return, on items found open for that request, and success  *)
(* is reported with the request's own value.  Property: ImplementsRemoteParam.  Code:  *)
(* the request path from readAsync and writeAsync to the callback.         *)
THEOREM KeepsContract == OneAtATime /\ Spec => ImplementsRemoteParam
<1> SUFFICES ASSUME OneAtATime PROVE Spec => ImplementsRemoteParam
  OBVIOUS
<1>1. Init => Contract!Init
  <2> SUFFICES ASSUME Init PROVE Contract!Init
    OBVIOUS
  <2>1. \A r \in Req : ~ Live(r) /\ ~ InLoopOrDone(r) /\ phase[r] = "unused"
    BY DEF Init, Live, InLoopOrDone
  <2>2. StatusNow = [r \in Req |-> "idle"]
    BY <2>1 DEF StatusNow
  <2>3. OperationNow = [r \in Req |-> Contract!NoOperation]
    BY <2>1 DEF OperationNow, NoOperation, Contract!NoOperation
  <2>4. ResultsNow = [r \in Req |-> {}]
    BY DEF Init, ResultsNow
  <2>5. GrantedNow = {}
    BY DEF Init, GrantedNow
  <2> QED BY <2>2, <2>3, <2>4, <2>5 DEF Init, Contract!Init
<1>2. /\ TypeOK /\ TypeOK' /\ CauseInv /\ InOrder /\ PromptInv /\ DataInv /\ OneCall
      /\ [Next]_vars
      => [Contract!Next]_(Contract!vars)
  BY ContractNext
<1>3. Spec => []InOrder /\ []PromptInv
  BY StartsInOrder, PromptCorrect DEF OneAtATime
<1> QED BY <1>1, <1>2, <1>3, TypeCorrect, CausesCorrect, DataCorrect, CallsCorrect, PTL
        DEF Spec, ImplementsRemoteParam, Contract!Spec

-----------------------------------------------------------------------------
(* A bus that loses nothing.  What waits is on the way.                    *)

(* A bus that delivers what it takes, timeouts that outlast the round      *)
(* trip, one request of a client at a time, a loop that is waiting when    *)
(* the answer comes, and one client for an address.                        *)
LossFree ==
    /\ DefaultFormat = "CANExtended" /\ "lose" \notin Faults
    /\ Prompt /\ LoopLocked /\ ~ Pipelined /\ ClientsApart

(* No device is full. *)
DevicesKeepUp == \A n \in Node : Len(rx[n]) < QueueCap

(* A running process on the bus, not the client's own, has the server.     *)
Reaches(r, s) ==
    /\ Address[s] = BoundTo[r[1]] /\ Host[s] # Host[r[1]] /\ Up(s)
    /\ {Host[s], Host[r[1]]} \subseteq CanNode

Refused(r) == \E e \in served : e.rid = r /\ e.op = ReadReq /\ e.ret # 0

Asks(r, p) == p.rid = r /\ IsServiceMsg(p.msg) /\ RequestOf(r, fromCanMsg(p.msg))

Answers(r, p) == p.rid = r /\ IsServiceMsg(p.msg) /\ AckOfRequest(r, fromCanMsg(p.msg))

OnTheWay(r, s) ==
    \/ \E p \in Carried(rx, Host[s]) : Asks(r, p)
    \/ \E p \in Carried(rx, Host[r[1]]) : Answers(r, p)

(* A request that waits for a server which did not refuse it has a frame   *)
(* on the way there or back.                                               *)
Awaited(r) ==
    phase[r] = "waiting" /\ ~ Refused(r) =>
      \A s \in Server : Reaches(r, s) => OnTheWay(r, s)

WaitInv == \A r \in Req : phase[r] # "sending" /\ Awaited(r)

(* Where no two clients have one address, two of the causes are left.      *)
RetryExplained ==
    \A r \in Req : retry_cnt[r] > 0 => Refused(r) \/ \A s \in Server : ~ Reaches(r, s)

LEMMA ExplainedHasCause == RetryExplained => RetryHasCause
  BY DEF RetryExplained, RetryHasCause, Refused, Reaches

LEMMA EncodedIsService ==
    ASSUME DefaultFormat = "CANExtended", NEW f \in ReceivedFrame
    PROVE  IsServiceMsg(toCanMsg(f, DefaultFormat)) /\ fromCanMsg(toCanMsg(f, DefaultFormat)) = f
<1>1. /\ f.src_id \in 0 .. 63 /\ f.dest_id \in 0 .. 63 /\ f.op_code \in 0 .. 31
      /\ f.srv_id \in Index
  BY DEF ReceivedFrame
<1>2. f.srv_id \in 0 .. 1023
  <2> DEFINE i == f.srv_id
  <2>0. i \in Index
    BY <1>1
  <2> HIDE DEF i
  <2>1. i \in 0 .. 255
    BY <2>0, IndexRange
  <2>2. i \in 0 .. 1023
    BY <2>1
  <2> QED BY <2>2 DEF i
<1>3. LET msg == toCanMsg(f, DefaultFormat)
      IN msg.format = DefaultFormat /\ is_msg(msg.id) = 0 /\ is_seg(msg.id) = 0
  BY <1>1, <1>2, ServiceDecodes, SMT
<1> QED BY <1>3, FrameDecodes, Zenon DEF IsServiceMsg

(* Only the frame that is read leaves the queues. *)
LEMMA ReadLeaves ==
    ASSUME TypeOK, NEW n \in Node, NEW k \in DOMAIN rx[n], NEW m \in Node, NEW p \in Carried(rx, m)
    PROVE  p \in Carried(Read(n, k), m) \/ (m = n /\ p = rx[n][k])
<1>1. rx[n] \in Seq(Packets) /\ k \in 1 .. Len(rx[n]) /\ rx \in [Node -> Seq(Packets)]
  BY DEF TypeOK
<1>2. CASE m # n
  BY <1>1, <1>2 DEF Read, Carried
<1>3. CASE m = n
  <2> DEFINE q == rx[n]  l == RemoveAt(q, k)
  <2>1. Read(n, k)[m] = l
    BY <1>1, <1>3 DEF Read
  <2>2. q \in Seq(Packets) /\ k \in 1 .. Len(q) /\ l \in Seq(Packets)
    BY <1>1, RemoveAtType
  <2>3. Len(l) = Len(q) - 1
        /\ \A j \in 1 .. (Len(q) - 1) : l[j] = IF j < k THEN q[j] ELSE q[j + 1]
    BY <2>2, RemoveAtEntries
  <2>4. PICK i \in DOMAIN q : p = q[i]
    BY <1>3 DEF Carried
  <2> HIDE DEF q, l
  <2>5. /\ i \in 1 .. Len(q) /\ Len(q) \in Nat /\ k \in Nat
        /\ DOMAIN l = 1 .. (Len(q) - 1)
    BY <2>2, <2>3, <2>4
  <2>6. CASE i < k
    <3>1. i \in DOMAIN l /\ l[i] = q[i]
      BY <2>2, <2>3, <2>5, <2>6
    <3> QED BY <2>1, <2>4, <3>1 DEF Carried
  <2>7. CASE i > k
    <3>1. i - 1 \in DOMAIN l /\ i - 1 \in 1 .. (Len(q) - 1) /\ ~ (i - 1 < k) /\ (i - 1) + 1 = i
      BY <2>2, <2>5, <2>7
    <3>2. l[i - 1] = q[i]
      BY <2>3, <3>1
    <3> QED BY <2>1, <2>4, <3>1, <3>2 DEF Carried
  <2>8. CASE i = k
    BY <1>3, <2>4, <2>8 DEF q
  <2> QED BY <2>5, <2>6, <2>7, <2>8
<1> QED BY <1>2, <1>3

LEMMA InsertKeeps ==
    ASSUME TypeOK, NEW n \in Node, NEW k \in DOMAIN rx[n], NEW m \in Node
    PROVE  Carried(rx, m) \subseteq Carried([rx EXCEPT ![n] = InsertAt(@, k, rx[n][k])], m)
<1>1. rx[n] \in Seq(Packets) /\ k \in 1 .. Len(rx[n]) /\ rx \in [Node -> Seq(Packets)]
  BY DEF TypeOK
<1>2. CASE m # n
  BY <1>1, <1>2 DEF Carried
<1>3. CASE m = n
  <2> DEFINE q == rx[n]  e == rx[n][k]  l == InsertAt(q, k, e)
  <2>1. [rx EXCEPT ![n] = InsertAt(@, k, rx[n][k])][m] = l
    BY <1>1, <1>3
  <2>2. q \in Seq(Packets) /\ k \in 1 .. Len(q) /\ l \in Seq(Packets) /\ e \in Packets
    BY <1>1, InsertAtType
  <2>3. Len(l) = Len(q) + 1
        /\ \A j \in 1 .. (Len(q) + 1) :
             l[j] = IF j < k THEN q[j] ELSE IF j = k THEN e ELSE q[j - 1]
    BY <2>2, InsertAtEntries, SMTT(40)
  <2> HIDE DEF q, e, l
  <2>4. ASSUME NEW i \in DOMAIN q
        PROVE  \E j \in DOMAIN l : l[j] = q[i]
    <3>1. i \in 1 .. Len(q) /\ Len(q) \in Nat /\ k \in Nat /\ DOMAIN l = 1 .. (Len(q) + 1)
      BY <2>2, <2>3
    <3>2. CASE i < k
      BY <3>1, <3>2, <2>3
    <3>3. CASE i >= k
      <4>1. i + 1 \in 1 .. (Len(q) + 1) /\ ~ (i + 1 < k) /\ i + 1 # k /\ (i + 1) - 1 = i
        BY <3>1, <3>3
      <4>2. l[i + 1] = q[i]
        BY <2>3, <4>1
      <4> QED BY <3>1, <4>1, <4>2
    <3> QED BY <3>1, <3>2, <3>3
  <2> QED BY <1>3, <2>1, <2>4 DEF Carried, q
<1> QED BY <1>2, <1>3

(* A device with room takes the frame; nothing that was there goes.        *)
LEMMA SendReaches ==
    ASSUME NEW queues \in [Node -> Seq(Packets)], NEW n \in Node, NEW p \in Packets, NEW m \in Node
    PROVE  /\ Carried(queues, m) \subseteq Carried(sendFrame(queues, n, p), m)
           /\ {n, m} \subseteq CanNode /\ m # n /\ Len(queues[m]) < QueueCap
                => p \in Carried(sendFrame(queues, n, p), m)
<1> DEFINE q == queues[m]  t == sendFrame(queues, n, p)[m]
<1>1. t = IF n \in CanNode /\ m \in CanNode \ {n} /\ Len(q) < QueueCap THEN Append(q, p) ELSE q
  BY DEF sendFrame
<1>2. q \in Seq(Packets)
  OBVIOUS
<1> HIDE DEF q, t
<1>3. /\ Len(q) + 1 \in DOMAIN Append(q, p) /\ Append(q, p)[Len(q) + 1] = p
      /\ \A i \in DOMAIN q : i \in DOMAIN Append(q, p) /\ Append(q, p)[i] = q[i]
  BY <1>2
<1>4. \A i \in DOMAIN q : i \in DOMAIN t /\ t[i] = q[i]
  BY <1>1, <1>3
<1>5. {n, m} \subseteq CanNode /\ m # n /\ Len(q) < QueueCap => Len(q) + 1 \in DOMAIN t /\ t[Len(q) + 1] = p
  BY <1>1, <1>3
<1> QED BY <1>4, <1>5 DEF Carried, q, t

-----------------------------------------------------------------------------
(* What is on the way stays there until it is received.                    *)

LEMMA AskStays ==
    ASSUME Grows, NEW r \in Req, phase[r] # "unused", NEW p
    PROVE  /\ Asks(r, p) => Asks(r, p)'
           /\ Answers(r, p) => Answers(r, p)'
<1>1. cached_req'[r] = cached_req[r] /\ served \subseteq served'
  BY DEF Grows
<1> QED BY <1>1, Zenon DEF Asks, Answers, RequestOf, AckOfRequest, AckTells

LEMMA StaysOnTheWay ==
    ASSUME Grows, NEW r \in Req, phase[r] # "unused", NEW s \in Server, OnTheWay(r, s),
           \A m \in Node : \A p \in Carried(rx, m) : p.rid = r => p \in Carried(rx', m)
    PROVE  OnTheWay(r, s)'
<1>1. Host[s] \in Node /\ Host[r[1]] \in Node
  BY HostType DEF Req
<1>2. CASE \E p \in Carried(rx, Host[s]) : Asks(r, p)
  <2>1. PICK p \in Carried(rx, Host[s]) : Asks(r, p)
    BY <1>2
  <2>2. p \in Carried(rx', Host[s]) /\ Asks(r, p)'
    BY <1>1, <2>1, AskStays DEF Asks
  <2> QED BY <2>2 DEF OnTheWay, Carried
<1>3. CASE \E p \in Carried(rx, Host[r[1]]) : Answers(r, p)
  <2>1. PICK p \in Carried(rx, Host[r[1]]) : Answers(r, p)
    BY <1>3
  <2>2. p \in Carried(rx', Host[r[1]]) /\ Answers(r, p)'
    BY <1>1, <2>1, AskStays DEF Answers
  <2> QED BY <2>2 DEF OnTheWay, Carried
<1> QED BY <1>2, <1>3 DEF OnTheWay

(* A request that waits on, while no frame of its own is received.         *)
LEMMA AwaitedStays ==
    ASSUME Grows, crashed \subseteq crashed', NEW r \in Req, Awaited(r),
           phase'[r] = "waiting" => phase[r] = "waiting",
           \A m \in Node : \A p \in Carried(rx, m) : p.rid = r => p \in Carried(rx', m)
    PROVE  Awaited(r)'
<1> SUFFICES ASSUME phase'[r] = "waiting", ~ Refused(r)', NEW s \in Server, Reaches(r, s)'
             PROVE  OnTheWay(r, s)'
  BY DEF Awaited
<1>1. phase[r] = "waiting" /\ phase[r] # "unused" /\ ~ Refused(r) /\ Reaches(r, s)
  BY DEF Grows, Refused, Reaches, Up
<1>2. OnTheWay(r, s)
  BY <1>1 DEF Awaited
<1> QED BY <1>1, <1>2, StaysOnTheWay

-----------------------------------------------------------------------------
(* The receive threads.                                                    *)

LEMMA RequestArrives ==
    ASSUME LossFree, DevicesKeepUp, TypeOK, CauseInv, NEW r \in Req, phase[r] # "unused",
           NEW s \in Server, Reaches(r, s), NEW k \in DOMAIN rx[Host[s]],
           NEW left \in [Node -> Seq(Packets)], left = Read(Host[s], k),
           NEW f \in ReceivedFrame, RequestOf(r, f), HandleRequest(s, left, f, r)
    PROVE  Refused(r)' \/ OnTheWay(r, s)'
<1> DEFINE n == Host[s]  m == Host[r[1]]
<1>1. n \in Node /\ m \in Node /\ r[1] \in Client
  BY HostType DEF Req
<1>2. PICK e : /\ ServedBy(s, f, r, e) /\ served' = served \cup {e}
               /\ \/ e.op = ReadReq /\ e.ret # 0
                  \/ \E ack : Acknowledges(ack, f, e) /\ reply(n, left, ack, r)
  BY RequestIsServed
<1>3. e.rid = r /\ e \in served'
  BY <1>2 DEF ServedBy
<1>4. CASE e.op = ReadReq /\ e.ret # 0
  BY <1>3, <1>4 DEF Refused
<1>5. ASSUME NEW ack, Acknowledges(ack, f, e), reply(n, left, ack, r)
      PROVE  OnTheWay(r, s)'
  <2>1. /\ cached_req[r].src_id = Address[r[1]] /\ cached_req[r].dest_id = BoundTo[r[1]]
        /\ cached_req' = cached_req
    BY DEF CauseInv, CachedInv, HandleRequest, requestVars
  <2>2. /\ ack \in ReceivedFrame /\ ack.dest_id = Address[r[1]] /\ ack.src_id = BoundTo[r[1]]
        /\ ack.srv_id = cached_req[r].srv_id
    BY <1>5, <2>1 DEF Acknowledges, RequestOf
  <2>3. n # m /\ {n, m} \subseteq CanNode
    BY DEF Reaches
  <2>4. ClientsAt(n, ack.dest_id) = {}
    BY <1>1, <2>2, <2>3 DEF ClientsAt, LossFree, ClientsApart
  <2>5. PICK p : p = Packet(r, toCanMsg(ack, DefaultFormat))
    OBVIOUS
  <2>6. rx' = sendFrame(left, n, p)
    BY <1>5, <2>4, <2>5 DEF reply
  <2>7. toCanMsg(ack, DefaultFormat) \in ServiceMessage
    BY <2>2, ToCanMsgType, ReceivedFrameEncodable
  <2>8. p \in Packets /\ p.rid = r /\ p.msg = toCanMsg(ack, DefaultFormat)
    BY <2>5, <2>7 DEF Packet, Packets
  <2>9. IsServiceMsg(p.msg) /\ fromCanMsg(p.msg) = ack
    BY <2>2, <2>8, EncodedIsService DEF LossFree
  <2>10. left[m] = rx[m]
    BY <1>1, <2>3 DEF Read, TypeOK
  <2>11. Len(left[m]) < QueueCap
    BY <1>1, <2>10 DEF DevicesKeepUp
  <2>12. p \in Carried(rx', m)
    BY <1>1, <2>3, <2>6, <2>8, <2>11, SendReaches
  <2>13. AckTells(ack, e)
    BY <1>5 DEF Acknowledges
  <2>14. AckOfRequest(r, ack)'
    BY <1>3, <2>1, <2>2, <2>13, Zenon DEF AckOfRequest, AckTells
  <2>15. Answers(r, p)'
    BY <2>8, <2>9, <2>14, Zenon DEF Answers, AckOfRequest, AckTells
  <2> QED BY <2>12, <2>15 DEF OnTheWay, Carried
<1> QED BY <1>2, <1>4, <1>5

(* The answer to the only request of the client that waits.                *)
LEMMA AnswerArrives ==
    ASSUME LossFree, TypeOK, CauseInv, InOrder, NEW r \in Req, phase[r] = "waiting",
           NEW f, AckOfRequest(r, f), notify(r[1], f)
    PROVE  phase'[r] = "finished"
<1>1. /\ cached_req[r].dest_id = BoundTo[r[1]] /\ f.src_id = BoundTo[r[1]]
      /\ f.srv_id = cached_req[r].srv_id
  BY DEF CauseInv, CachedInv, AckOfRequest
<1>2. f.op_code = AckOf(cached_req[r].op_code)
  <2>1. PICK e \in served : e.rid = r /\ AckTells(f, e)
    BY DEF AckOfRequest
  <2>2. e.op = cached_req[r].op_code /\ e.op \in {ReadReq, WriteReq}
    BY <2>1 DEF CauseInv, ServedInv, DoneFor, TypeOK, ServedEntry
  <2> QED BY <2>1, <2>2 DEF AckTells, AckOf
<1>3. matchNotifyMsg(cached_req[r], f)
  BY <1>1, <1>2 DEF matchNotifyMsg
<1>4. ASSUME NEW q \in Req, q[1] = r[1], phase[q] = "waiting"
      PROVE  q = r
  <2>1. phase[q] # "unused" /\ ~ Ended(phase[q]) /\ phase[r] # "unused" /\ ~ Ended(phase[r])
    BY <1>4 DEF Ended
  <2>2. q[2] <= r[2] /\ r[2] <= q[2]
    BY <1>4, <2>1, LiveIsLast
  <2>3. q = <<q[1], q[2]>> /\ r = <<r[1], r[2]>> /\ q[2] \in Nat /\ r[2] \in Nat
    BY DEF Req
  <2> QED BY <1>4, <2>2, <2>3
<1> DEFINE hits == {q \in Req : /\ q[1] = r[1] /\ phase[q] = "waiting"
                                /\ matchNotifyMsg(cached_req[q], f)}
<1>5. hits = {r}
  BY <1>3, <1>4
<1>6. PICK woken \in {hits} \cup {{q} : q \in hits} : evNotifyCallback(woken, f)
  BY DEF notify
<1> HIDE DEF hits
<1>7. woken = {r}
  BY <1>5, <1>6
<1> QED BY <1>6, <1>7 DEF evNotifyCallback

LEMMA ReceiveQuietly ==
    ASSUME TypeOK, NEW n \in Node, handleRecv(n)
    PROVE  /\ crashed \subseteq crashed'
           /\ \A r \in Req : phase'[r] # phase[r] => phase'[r] = "finished"
           /\ retry_cnt' = retry_cnt
<1>1. PICK k \in DOMAIN rx[n] :
        /\ HandledAs(n, rx[n][k], Read(n, k)) /\ rx[n][k].rid \in Req
        /\ fromCanMsg(rx[n][k].msg) \in ReceivedFrame
  BY ReceivesOne, Zenon
<1> DEFINE f == fromCanMsg(rx[n][k].msg)  left == Read(n, k)  q == rx[n][k].rid
           Quiet == /\ crashed \subseteq crashed'
                    /\ \A r \in Req : phase'[r] # phase[r] => phase'[r] = "finished"
                    /\ retry_cnt' = retry_cnt
<1>2. f \in ReceivedFrame /\ q \in Req
  BY <1>1
<1>3. \/ HandleUnmatched(n, left, rx[n][k].msg)
      \/ \E s \in Server : HandleRequest(s, left, f, q) \/ HandleBadIndex(s, left, f)
      \/ \E c \in Client : HandleAck(c, left, f)
  BY <1>1, Zenon DEF HandledAs
<1> HIDE DEF f, left, q
<1>4. ASSUME NEW c, NEW g, notify(c, g)
      PROVE  \A r \in Req : phase'[r] # phase[r] => phase'[r] = "finished"
  <2>1. PICK woken : phase' = [r \in Req |-> IF r \in woken THEN "finished" ELSE phase[r]]
    BY <1>4 DEF notify, evNotifyCallback
  <2> QED BY <2>1
<1>5. HandleUnmatched(n, left, rx[n][k].msg) => Quiet
  BY DEF HandleUnmatched, requestVars, notifyVars
<1>6. ASSUME NEW s \in Server, HandleBadIndex(s, left, f)
      PROVE  Quiet
  BY <1>6 DEF HandleBadIndex, requestVars, notifyVars
<1>7. ASSUME NEW c \in Client, HandleAck(c, left, f)
      PROVE  Quiet
  BY <1>4, <1>7 DEF HandleAck, requestVars
<1>8. ASSUME NEW s \in Server, HandleRequest(s, left, f, q)
      PROVE  Quiet
  <2>1. UNCHANGED crashed /\ UNCHANGED retry_cnt
    BY <1>8 DEF HandleRequest, requestVars
  <2>2. UNCHANGED notifyVars \/ \E ack : reply(Host[s], left, ack, q)
    BY <1>2, <1>8, RequestIsServed
  <2>3. CASE UNCHANGED notifyVars
    BY <2>1, <2>3 DEF notifyVars
  <2>4. CASE \E c, ack : notify(c, ack)
    BY <1>4, <2>1, <2>4
  <2> QED BY <2>2, <2>3, <2>4, Zenon DEF reply
<1> QED BY <1>3, <1>5, <1>6, <1>7, <1>8

(* The queues after a reception have what they had, but for the frame.     *)
LEMMA ReceiveLeaves ==
    ASSUME TypeOK, NEW n \in Node, NEW k \in DOMAIN rx[n], HandledAs(n, rx[n][k], Read(n, k)),
           rx[n][k].rid \in Req, fromCanMsg(rx[n][k].msg) \in ReceivedFrame,
           NEW m \in Node, NEW p \in Carried(rx, m)
    PROVE  p \in Carried(rx', m) \/ (m = n /\ p = rx[n][k])
<1> DEFINE f == fromCanMsg(rx[n][k].msg)  q == rx[n][k].rid
<1>1. PICK left \in [Node -> Seq(Packets)] : left = Read(n, k)
  BY ReadType
<1>2. p \in Carried(left, m) \/ (m = n /\ p = rx[n][k])
  BY <1>1, ReadLeaves
<1>3. \/ rx' = left
      \/ \E s \in Server : Host[s] = n /\ HandleRequest(s, left, f, q)
  BY <1>1, Zenon DEF HandledAs, HandleUnmatched, HandleBadIndex, HandleAck
<1>4. CASE rx' = left
  BY <1>2, <1>4
<1>5. ASSUME NEW s \in Server, Host[s] = n, HandleRequest(s, left, f, q)
      PROVE  p \in Carried(left, m) => p \in Carried(rx', m)
  <2>1. rx' = left \/ \E e, ack : Acknowledges(ack, f, e) /\ reply(n, left, ack, q)
    BY <1>5, RequestIsServed
  <2>2. ASSUME NEW e, NEW ack, Acknowledges(ack, f, e), reply(n, left, ack, q)
        PROVE  rx' = left \/ \E x \in Packets : rx' = sendFrame(left, n, x)
    <3>1. toCanMsg(ack, DefaultFormat) \in ServiceMessage
      BY <2>2, ToCanMsgType, ReceivedFrameEncodable DEF Acknowledges
    <3>2. Packet(q, toCanMsg(ack, DefaultFormat)) \in Packets
      BY <3>1 DEF Packet, Packets
    <3> QED BY <2>2, <3>2 DEF reply
  <2>3. ASSUME NEW x \in Packets, rx' = sendFrame(left, n, x)
        PROVE  p \in Carried(left, m) => p \in Carried(rx', m)
    BY <2>3, SendReaches
  <2> QED BY <2>1, <2>2, <2>3
<1> QED BY <1>2, <1>3, <1>4, <1>5

(* A request that still waits after a reception has a frame on the way, or *)
(* what was received says why not.                                         *)
LEMMA ReceiveAwaited ==
    ASSUME LossFree, DevicesKeepUp, TypeOK, CauseInv, InOrder, Grows,
           NEW n \in Node, handleRecv(n), NEW r \in Req, Awaited(r)
    PROVE  Awaited(r)'
<1> SUFFICES ASSUME phase'[r] = "waiting", NEW s \in Server, Reaches(r, s)'
             PROVE  Refused(r)' \/ OnTheWay(r, s)'
  BY DEF Awaited
<1>1. PICK k \in DOMAIN rx[n] :
        /\ HandledAs(n, rx[n][k], Read(n, k)) /\ rx[n][k].rid \in Req
        /\ fromCanMsg(rx[n][k].msg) \in ReceivedFrame
        /\ Read(n, k) \in [Node -> Seq(Packets)]
  BY ReceivesOne, Zenon
<1>2. PICK left \in [Node -> Seq(Packets)], f \in ReceivedFrame :
        left = Read(n, k) /\ f = fromCanMsg(rx[n][k].msg)
  BY <1>1
<1> DEFINE b == rx[n][k]
<1>2b. b = rx[n][k] /\ left = Read(n, k) /\ f = fromCanMsg(b.msg)
  BY <1>2
<1> HIDE DEF b
<1>3. phase[r] = "waiting" /\ crashed \subseteq crashed'
  BY ReceiveQuietly
<1>4. Reaches(r, s) /\ (Refused(r) => Refused(r)')
  BY <1>3 DEF Reaches, Up, Refused, Grows
<1>5. CASE Refused(r)
  BY <1>4, <1>5
<1>6. ASSUME OnTheWay(r, s)
      PROVE  Refused(r)' \/ OnTheWay(r, s)'
  <2>1. /\ Host[s] \in Node /\ Host[r[1]] \in Node /\ r[1] \in Client
        /\ Address[s] = BoundTo[r[1]]
    BY <1>4, HostType DEF Req, Reaches
  <2>2. \A m \in Node : \A p \in Carried(rx, m) : p \in Carried(rx', m) \/ (m = n /\ p = b)
    BY <1>1, <1>2b, ReceiveLeaves, Zenon
  <2>3. \/ HandleUnmatched(n, left, b.msg)
        \/ /\ IsServiceMsg(b.msg)
           /\ \/ \E t \in Server : /\ Host[t] = n /\ Address[t] = f.dest_id
                                   /\ HandleRequest(t, left, f, b.rid) \/ HandleBadIndex(t, left, f)
              \/ \E c \in Client : /\ Host[c] = n /\ Address[c] = f.dest_id
                                   /\ HandleAck(c, left, f)
    BY <1>1, <1>2b, Zenon DEF HandledAs
  <2>4. /\ cached_req[r].op_code \in {ReadReq, WriteReq}
        /\ cached_req[r].dest_id = BoundTo[r[1]]
    BY <1>3, StartedFrame DEF CauseInv, CachedInv
  <2>5. ASSUME n = Host[s], Asks(r, b)
        PROVE  Refused(r)' \/ OnTheWay(r, s)'
    <3>1. RequestOf(r, f) /\ b.rid = r /\ IsServiceMsg(b.msg)
      BY <1>2b, <2>5 DEF Asks
    <3>2. f.op_code \in {ReadReq, WriteReq} /\ f.dest_id = Address[s]
      BY <2>1, <2>4, <3>1 DEF RequestOf
    <3>3. s \in ServersAt(n, f.dest_id)
      BY <2>5, <3>2 DEF ServersAt
    <3>4. Acts(n, b)
      BY <1>2b, <3>1, <3>2, <3>3, HandledActs
    <3>5. ~ HandleUnmatched(n, left, b.msg)
      BY <3>4 DEF Acts, HandleUnmatched
    <3>6. \A c \in Client : ~ HandleAck(c, left, f)
      BY <3>2 DEF HandleAck, ReadReq, WriteReq, ReadAck, WriteAck
    <3>7. \A t \in Server : Host[t] = n /\ Address[t] = f.dest_id => t = s
      BY <2>5, <3>2, OneInstancePerAddress
    <3>8. HandleRequest(s, left, f, r) \/ HandleBadIndex(s, left, f)
      BY <2>3, <3>1, <3>5, <3>6, <3>7
    <3>9. ~ HandleBadIndex(s, left, f)
      BY DEF HandleBadIndex, Reaches, Up
    <3> QED BY <1>2b, <1>3, <1>4, <2>5, <3>1, <3>8, <3>9, RequestArrives
  <2>6. ASSUME n = Host[r[1]], Answers(r, b)
        PROVE  FALSE
    <3>1. AckOfRequest(r, f) /\ b.rid = r /\ IsServiceMsg(b.msg)
      BY <1>2b, <2>6 DEF Answers
    <3>2. f.op_code \in {ReadAck, WriteAck} /\ f.dest_id = Address[r[1]]
      BY <3>1 DEF AckOfRequest, AckTells
    <3>3. r[1] \in ClientsAt(n, f.dest_id)
      BY <2>1, <2>6, <3>2 DEF ClientsAt
    <3>4. Acts(n, b)
      BY <1>2b, <3>1, <3>2, <3>3, HandledActs
    <3>5. ~ HandleUnmatched(n, left, b.msg)
      BY <3>4 DEF Acts, HandleUnmatched
    <3>6. \A t \in Server : ~ HandleRequest(t, left, f, b.rid) /\ ~ HandleBadIndex(t, left, f)
      BY <3>2 DEF HandleRequest, HandleBadIndex, ReadReq, WriteReq, ReadAck, WriteAck
    <3>7. PICK c \in Client : Address[c] = f.dest_id /\ HandleAck(c, left, f)
      BY <2>3, <3>5, <3>6
    <3>8. c = r[1]
      BY <2>1, <3>2, <3>7 DEF LossFree, ClientsApart
    <3>9. notify(r[1], f)
      BY <3>7, <3>8 DEF HandleAck
    <3>10. phase'[r] = "finished"
      BY <1>3, <3>1, <3>9, AnswerArrives
    <3> QED BY <3>10
  <2>7. ASSUME NEW p, Asks(r, p) \/ Answers(r, p)
        PROVE  /\ Asks(r, p) => Asks(r, p)'
               /\ Answers(r, p) => Answers(r, p)'
    BY <1>3, AskStays
  <2>8. CASE \E p \in Carried(rx, Host[s]) : Asks(r, p)
    <3>1. PICK p \in Carried(rx, Host[s]) : Asks(r, p)
      BY <2>8
    <3>2. CASE p \in Carried(rx', Host[s])
      <4>1. Asks(r, p)'
        BY <2>7, <3>1
      <4> QED BY <3>2, <4>1 DEF OnTheWay, Carried
    <3>3. CASE Host[s] = n /\ p = b
      BY <2>5, <3>1, <3>3
    <3> QED BY <2>1, <2>2, <3>2, <3>3
  <2>9. CASE \E p \in Carried(rx, Host[r[1]]) : Answers(r, p)
    <3>1. PICK p \in Carried(rx, Host[r[1]]) : Answers(r, p)
      BY <2>9
    <3>2. CASE p \in Carried(rx', Host[r[1]])
      <4>1. Answers(r, p)'
        BY <2>7, <3>1
      <4> QED BY <3>2, <4>1 DEF OnTheWay, Carried
    <3>3. CASE Host[r[1]] = n /\ p = b
      BY <2>6, <3>1, <3>3
    <3> QED BY <2>1, <2>2, <3>2, <3>3
  <2> QED BY <1>6, <2>8, <2>9 DEF OnTheWay
<1> QED BY <1>3, <1>4, <1>5, <1>6 DEF Awaited

-----------------------------------------------------------------------------
(* The other steps.                                                        *)

LEMMA UpdateAwaited ==
    ASSUME LossFree, DevicesKeepUp, TypeOK, CauseInv, Grows, WaitInv, NEW r \in Req, evUpdate(r),
           NEW q \in Req
    PROVE  phase'[q] # "sending" /\ Awaited(q)'
<1>1. /\ crashed' = crashed /\ phase[r] = "ready" /\ phase' = [phase EXCEPT ![r] = "waiting"]
      /\ phase \in [Req -> Phases]
  BY DEF evUpdate, LossFree, TypeOK
<1>2. PICK p \in Packets : p = Packet(r, toCanMsg(cached_req[r], DefaultFormat))
  BY <1>1, StartedFrame DEF CauseInv
<1>3. rx' = sendFrame(rx, Host[r[1]], p) /\ rx \in [Node -> Seq(Packets)]
  BY <1>2 DEF evUpdate, TypeOK
<1>4. \A c \in Client : Host[c] \in Node
  BY HostType
<1>5. r[1] \in Client /\ Host[r[1]] \in Node
  BY <1>4 DEF Req
<1>6. \A m \in Node : Carried(rx, m) \subseteq Carried(rx', m)
  BY <1>3, <1>5, SendReaches
<1>7. CASE q # r
  <2>1. phase'[q] = phase[q]
    BY <1>1, <1>7
  <2>2. Awaited(q)'
    BY <1>1, <1>6, <2>1, AwaitedStays DEF WaitInv
  <2> QED BY <2>1, <2>2 DEF WaitInv
<1>8. CASE q = r
  <2>1. phase'[r] = "waiting"
    BY <1>1
  <2>2. ASSUME NEW s \in Server, Reaches(r, s)'
        PROVE  OnTheWay(r, s)'
    <3>1. Host[s] \in Node /\ Host[s] # Host[r[1]] /\ {Host[r[1]], Host[s]} \subseteq CanNode
      BY <2>2, HostType DEF Reaches
    <3>2. Len(rx[Host[s]]) < QueueCap
      BY <3>1 DEF DevicesKeepUp
    <3>3. p \in Carried(rx', Host[s])
      BY <1>3, <1>5, <3>1, <3>2, SendReaches
    <3>4. cached_req[r] \in ReceivedFrame
      BY <1>1, StartedFrame DEF CauseInv
    <3>5. p.rid = r /\ p.msg = toCanMsg(cached_req[r], DefaultFormat)
      BY <1>2 DEF Packet
    <3>6. IsServiceMsg(p.msg) /\ fromCanMsg(p.msg) = cached_req[r]
      BY <3>4, <3>5, EncodedIsService DEF LossFree
    <3>7. cached_req' = cached_req
      BY DEF evUpdate, requestVars
    <3>8. Asks(r, p)'
      BY <3>5, <3>6, <3>7 DEF Asks, RequestOf
    <3> QED BY <3>3, <3>8 DEF OnTheWay, Carried
  <2> QED BY <1>8, <2>1, <2>2 DEF Awaited
<1> QED BY <1>7, <1>8

(* Steps that take no frame away and let no request begin to wait.         *)
LEMMA QuietAwaited ==
    ASSUME Grows, WaitInv, UNCHANGED crashed,
           \A m \in Node : Carried(rx, m) \subseteq Carried(rx', m),
           \A q \in Req : phase'[q] \in {"sending", "waiting"} => phase[q] = phase'[q]
    PROVE  WaitInv'
<1>1. ASSUME NEW q \in Req
      PROVE  phase'[q] # "sending" /\ Awaited(q)'
  <2>1. Awaited(q)'
    BY AwaitedStays DEF WaitInv
  <2> QED BY <2>1 DEF WaitInv
<1> QED BY <1>1, Zenon DEF WaitInv

LEMMA WaitNext ==
    ASSUME LossFree, DevicesKeepUp, TypeOK, CauseInv, InOrder, WaitInv, [Next]_vars
    PROVE  WaitInv'
<1>0. Grows
  BY StepGrows
<1>1. ASSUME NEW r \in Req, NEW f, addTask(r, f)
      PROVE  WaitInv'
  <2>1. UNCHANGED crashed /\ rx' = rx
    BY <1>1 DEF addTask
  <2>2. \A q \in Req : phase'[q] \in {"sending", "waiting"} => phase[q] = phase'[q]
    BY <1>1 DEF addTask, TypeOK
  <2> QED BY <1>0, <2>1, <2>2, QuietAwaited
<1>2. ASSUME NEW r \in Req, evUpdate(r)
      PROVE  WaitInv'
  <2>1. \A q \in Req : phase'[q] # "sending" /\ Awaited(q)'
    BY <1>0, <1>2, UpdateAwaited
  <2> QED BY <2>1, Zenon DEF WaitInv
<1>3. ASSUME NEW r \in Req, evWaitNotify(r)
      PROVE  WaitInv'
  BY <1>3 DEF evWaitNotify, WaitInv
<1>4. ASSUME NEW r \in Req, evTimeoutCallback(r)
      PROVE  WaitInv'
  <2>1. UNCHANGED crashed /\ rx' = rx
    BY <1>4 DEF evTimeoutCallback
  <2>2. \A q \in Req : phase'[q] \in {"sending", "waiting"} => phase[q] = phase'[q]
    BY <1>4 DEF evTimeoutCallback, TypeOK
  <2> QED BY <1>0, <2>1, <2>2, QuietAwaited
<1>5. ASSUME NEW n \in Node, handleRecv(n)
      PROVE  WaitInv'
  <2>1. ASSUME NEW q \in Req
        PROVE  phase'[q] # "sending" /\ Awaited(q)'
    <3>1. phase'[q] # "sending"
      BY <1>5, ReceiveQuietly DEF WaitInv
    <3>2. Awaited(q)'
      BY <1>0, <1>5, ReceiveAwaited DEF WaitInv
    <3> QED BY <3>1, <3>2
  <2> QED BY <2>1, Zenon DEF WaitInv
<1>6. ASSUME NEW n \in Node, Lose(n) \/ Duplicate(n)
      PROVE  WaitInv'
  <2>1. PICK k \in DOMAIN rx[n] : rx' = [rx EXCEPT ![n] = InsertAt(@, k, rx[n][k])]
    BY <1>6 DEF Lose, Duplicate, LossFree
  <2>2. UNCHANGED crashed /\ UNCHANGED phase
    BY <1>6 DEF Lose, Duplicate, notifyVars
  <2>3. \A m \in Node : Carried(rx, m) \subseteq Carried(rx', m)
    BY <2>1, InsertKeeps
  <2> QED BY <1>0, <2>2, <2>3, QuietAwaited
<1>7. ASSUME UNCHANGED <<rx, crashed, phase>>
      PROVE  WaitInv'
  BY <1>0, <1>7, QuietAwaited
<1>8. ASSUME NEW s \in Server, NEW i \in Index, NEW v,
             setWrAccess(s, i) \/ resetWrAccess(s, i) \/ updateData(s, i, v)
      PROVE  UNCHANGED <<rx, crashed, phase>>
  BY <1>8 DEF setWrAccess, resetWrAccess, updateData, notifyVars
<1>9. OnlyChecks => UNCHANGED <<rx, crashed, phase>>
  BY DEF OnlyChecks, notifyVars
<1> QED BY <1>1, <1>2, <1>3, <1>4, <1>5, <1>6, <1>7, <1>8, <1>9, QuietSteps, Zenon
        DEF Next, Application, EventLoop, Task, Receiver, Bus, readAsync, writeAsync

LEMMA RetriesOnTimeout ==
    ASSUME TypeOK, [Next]_vars, NEW r \in Req, retry_cnt'[r] # retry_cnt[r]
    PROVE  evTimeoutCallback(r)
<1>1. ASSUME NEW q \in Req, NEW f, addTask(q, f)
      PROVE  FALSE
  BY <1>1 DEF addTask
<1>2. ASSUME NEW q \in Req, evUpdate(q) \/ evWaitNotify(q)
      PROVE  FALSE
  BY <1>2 DEF evUpdate, evWaitNotify, requestVars
<1>3. ASSUME NEW q \in Req, evTimeoutCallback(q)
      PROVE  q = r
  BY <1>3 DEF evTimeoutCallback, TypeOK
<1>4. ASSUME NEW n \in Node, handleRecv(n) \/ Lose(n) \/ Duplicate(n)
      PROVE  FALSE
  BY <1>4, ReceiveQuietly DEF Lose, Duplicate, requestVars
<1>5. ASSUME NEW s \in Server, NEW i \in Index, NEW v,
             setWrAccess(s, i) \/ resetWrAccess(s, i) \/ updateData(s, i, v)
      PROVE  FALSE
  BY <1>5 DEF setWrAccess, resetWrAccess, updateData, requestVars
<1>6. ~ OnlyChecks
  BY DEF OnlyChecks, requestVars
<1> QED BY <1>1, <1>2, <1>3, <1>4, <1>5, <1>6, QuietSteps
        DEF Next, Application, EventLoop, Task, Receiver, Bus, readAsync, writeAsync

LEMMA CrashesStay ==
    ASSUME TypeOK, [Next]_vars
    PROVE  crashed \subseteq crashed'
<1>1. ASSUME NEW n \in Node, handleRecv(n) PROVE crashed \subseteq crashed'
  BY <1>1, ReceiveQuietly
<1> QED BY <1>1, QuietSteps
        DEF Next, Application, EventLoop, Task, Receiver, Bus, readAsync, writeAsync, addTask, evUpdate,
            evWaitNotify, evTimeoutCallback, Lose, Duplicate, setWrAccess, resetWrAccess,
            updateData, OnlyChecks, vars

(* A retry that nothing explains would have found a frame in flight.       *)
LEMMA RetryNext ==
    ASSUME LossFree, TypeOK, CauseInv, WaitInv, RetryExplained, [Next]_vars, Grows,
           crashed \subseteq crashed'
    PROVE  RetryExplained'
<1> DEFINE Cause(r) == Refused(r) \/ \A s \in Server : ~ Reaches(r, s)
<1>1. ASSUME NEW r \in Req, Cause(r)
      PROVE  Cause(r)'
  BY <1>1 DEF Refused, Reaches, Up, Grows
<1>2. ASSUME NEW r \in Req, retry_cnt'[r] # retry_cnt[r]
      PROVE  Cause(r)
  <2>1. evTimeoutCallback(r)
    BY <1>2, RetriesOnTimeout
  <2>2. phase[r] = "waiting" /\ ~ InFlight(r)
    BY <2>1 DEF evTimeoutCallback, LossFree
  <2>3. ASSUME NEW s \in Server, OnTheWay(r, s)
        PROVE  FALSE
    <3>1. Host[s] \in Node /\ Host[r[1]] \in Node
      BY HostType DEF Req
    <3> QED BY <2>2, <2>3, <3>1, InFlightCarried DEF OnTheWay, Asks, Answers
  <2> QED BY <2>2, <2>3 DEF WaitInv, Awaited
<1>3. \A r \in Req : retry_cnt[r] > 0 => Cause(r)
  BY DEF RetryExplained
<1>4. \A r \in Req : retry_cnt'[r] > 0 => Cause(r)'
  BY <1>1, <1>2, <1>3
<1> QED BY <1>4 DEF RetryExplained

(* On a bus that loses nothing, and as long as no device is full, a        *)
(* request is repeated only if no running process but the client's own has *)
(* the server, or the server refused the read.  Property: RetryHasCause.   *)
(* Code: evUpdate, matchNotifyMsg, onReadReq, onWriteReq.                  *)
THEOREM RetriesHaveACause == LossFree /\ Spec /\ []DevicesKeepUp => []RetryHasCause
<1> SUFFICES ASSUME LossFree PROVE Spec /\ []DevicesKeepUp => []RetryHasCause
  OBVIOUS
<1>1. Init => WaitInv /\ RetryExplained
  <2>1. ASSUME Init PROVE WaitInv /\ RetryExplained
    BY <2>1 DEF Init, WaitInv, Awaited, RetryExplained
  <2> QED BY <2>1
<1>2. DevicesKeepUp /\ TypeOK /\ CauseInv /\ InOrder /\ WaitInv /\ RetryExplained /\ [Next]_vars
        => WaitInv' /\ RetryExplained'
  BY WaitNext, RetryNext, StepGrows, CrashesStay
<1>3. Spec => []InOrder
  BY StartsInOrder DEF LossFree
<1> QED BY <1>1, <1>2, <1>3, TypeCorrect, CausesCorrect, ExplainedHasCause, PTL DEF Spec

=============================================================================
