-------------------------- MODULE FrameCodecProofs --------------------------
(***************************************************************************)
(* Theorems of FrameCodec, for every frame and message of the C++ types    *)
(* that the arrays of the code can hold.                                   *)
(***************************************************************************)
EXTENDS FrameCodec, LayoutProofs

LEMMA InputTypes ==
    /\ \A f \in ServiceInput :
         /\ f.src_id \in 0 .. 255 /\ f.dest_id \in 0 .. 255 /\ f.op_code \in 0 .. 255
         /\ f.srv_id \in Nat /\ f.payload_len \in 0 .. 255 /\ f.payload_len <= DATALINK_MTU
         /\ f = [src_id |-> f.src_id, dest_id |-> f.dest_id, op_code |-> f.op_code,
                 srv_id |-> f.srv_id, payload_len |-> f.payload_len, payload |-> f.payload]
    /\ \A m \in FastInput :
         m.node \in Nat /\ m.dir \in Nat /\ m.msg_id \in Nat /\ m.bytes \in Bytes
    /\ ServiceInput \cap FastInput = {}
<1>0. uint8 = 0 .. 255 /\ uint8 \subseteq Nat /\ uint16 \subseteq Nat
  BY SMT DEF uint8, uint16
<1>1. ASSUME NEW f \in ServiceInput
      PROVE  /\ f.src_id \in 0 .. 255 /\ f.dest_id \in 0 .. 255 /\ f.op_code \in 0 .. 255
             /\ f.srv_id \in Nat /\ f.payload_len \in 0 .. 255 /\ f.payload_len <= DATALINK_MTU
             /\ f = [src_id |-> f.src_id, dest_id |-> f.dest_id, op_code |-> f.op_code,
                     srv_id |-> f.srv_id, payload_len |-> f.payload_len, payload |-> f.payload]
             /\ "src_id" \in DOMAIN f
  <2>1. f \in ServiceArgument(f.payload) /\ f.payload_len <= DATALINK_MTU
    BY InputAssumption DEF InputAssumption
  <2>2. /\ f.src_id \in uint8 /\ f.dest_id \in uint8 /\ f.op_code \in uint8
        /\ f.srv_id \in uint16 /\ f.payload_len \in uint8
    BY <2>1 DEF ServiceArgument
  <2>3. /\ f = [src_id |-> f.src_id, dest_id |-> f.dest_id, op_code |-> f.op_code,
                srv_id |-> f.srv_id, payload_len |-> f.payload_len, payload |-> f.payload]
        /\ "src_id" \in DOMAIN f
    BY <2>1 DEF ServiceArgument
  <2> QED BY <1>0, <2>1, <2>2, <2>3, Zenon
<1>2. ASSUME NEW m \in FastInput
      PROVE  /\ m.node \in Nat /\ m.dir \in Nat /\ m.msg_id \in Nat /\ m.bytes \in Bytes
             /\ DOMAIN m = {"node", "dir", "msg_id", "bytes"}
  <2>1. m \in FastArgument
    BY InputAssumption DEF InputAssumption
  <2>2. /\ m.node \in uint16 /\ m.dir \in uint8 /\ m.msg_id \in uint16 /\ m.bytes \in Bytes
        /\ DOMAIN m = {"node", "dir", "msg_id", "bytes"}
    BY <2>1 DEF FastArgument, Bytes
  <2> QED BY <1>0, <2>2, Zenon
<1>3. ASSUME NEW f \in ServiceInput \cap FastInput
      PROVE  FALSE
  BY <1>1, <1>2
<1> QED BY <1>1, <1>2, <1>3

-----------------------------------------------------------------------------
(* What is on the wire.                                                    *)

OnWire(msg) ==
    \/ /\ input \in ServiceInput
       /\ msg = toCanMsg(input, "CANExtended")
    \/ /\ input \in FastInput
       /\ BuilderAccepts(input.node, input.dir, input.msg_id, input.bytes)
       /\ msg = fastMessageBuilder(input.node, input.dir, input.msg_id, input.bytes)

WireInv ==
    /\ input \in ServiceInput \cup FastInput
    /\ wire = <<>> \/ \E msg : wire = <<msg>> /\ OnWire(msg)

LEMMA WireCorrect == Spec => []WireInv
<1>1. Init => WireInv
  BY Zenon DEF Init, WireInv
<1>2. WireInv /\ [Next]_<<input, wire, dump>> => WireInv'
  <2> SUFFICES ASSUME WireInv, [Next]_<<input, wire, dump>> PROVE WireInv'
    OBVIOUS
  <2>1. CASE UNCHANGED <<input, wire>>
    BY <2>1 DEF WireInv, OnWire
  <2>2. CASE SendService
    <3> DEFINE msg == toCanMsg(input, "CANExtended")
    <3>1. wire' = <<msg>> /\ UNCHANGED input /\ input \in ServiceInput
      BY <2>2 DEF SendService
    <3>2. OnWire(msg)'
      BY <3>1, Zenon DEF OnWire
    <3>3. wire' = <<msg'>>
      BY <3>1
    <3> HIDE DEF msg
    <3>4. (\E m : wire = <<m>> /\ OnWire(m))'
      BY <3>2, <3>3, Zenon
    <3>5. (input \in ServiceInput \cup FastInput)'
      BY <3>1
    <3> QED BY <3>4, <3>5, Zenon DEF WireInv
  <2>3. CASE SendFast
    <3> DEFINE msg == fastMessageBuilder(input.node, input.dir, input.msg_id, input.bytes)
    <3>1. wire' = <<msg>> /\ UNCHANGED input /\ input \in FastInput
      BY <2>3 DEF SendFast
    <3>2. OnWire(msg)'
      BY <2>3, <3>1, Zenon DEF OnWire, SendFast
    <3>3. wire' = <<msg'>>
      BY <3>1
    <3> HIDE DEF msg
    <3>4. (\E m : wire = <<m>> /\ OnWire(m))'
      BY <3>2, <3>3, Zenon
    <3>5. (input \in ServiceInput \cup FastInput)'
      BY <3>1
    <3> QED BY <3>4, <3>5, Zenon DEF WireInv
  <2> QED BY <2>1, <2>2, <2>3 DEF Next, StartDump, DumpByte, DumpText
<1> QED BY <1>1, <1>2, PTL DEF Spec

LEMMA ServiceOnWire ==
    ASSUME WireInv, wire # <<>>, input \in ServiceInput
    PROVE  /\ wire[1] = toCanMsg(input, "CANExtended")
           /\ IsServiceMsg(wire[1]) /\ ~ IsFastMsg(wire[1])
<1>1. wire[1] = toCanMsg(input, "CANExtended")
  BY InputTypes DEF WireInv, OnWire
<1> DEFINE s == input.srv_id  o == input.op_code  d == input.dest_id  c == input.src_id
           id == HeaderService(s, o, d, c)
<1>2. s \in Nat /\ o \in 0 .. 255 /\ d \in 0 .. 255 /\ c \in 0 .. 255
  BY InputTypes, ZenonT(40)
<1>3. wire[1].id = id /\ wire[1].format = "CANExtended"
  BY <1>1 DEF toCanMsg
<1> HIDE DEF s, o, d, c
<1>5. o \in Nat /\ d \in Nat /\ c \in Nat
  BY <1>2
<1>4. is_msg(id) = 0 /\ is_seg(id) = 0
  BY <1>2, <1>5, ServiceBits, Zenon
<1> QED BY <1>1, <1>3, <1>4 DEF IsServiceMsg, IsFastMsg

LEMMA FastOnWire ==
    ASSUME WireInv, wire # <<>>, input \in FastInput
    PROVE  /\ ReceivedBytes(wire[1]) = input.bytes
           /\ fast_msg_id(wire[1].id) = input.msg_id /\ node_id(wire[1].id) = input.node
           /\ is_tx(wire[1].id) = input.dir
           /\ IsFastMsg(wire[1]) /\ ~ IsServiceMsg(wire[1])
<1> DEFINE node == input.node  dir == input.dir  msg_id == input.msg_id  bytes == input.bytes
           msg == wire[1]
<1>1. msg = fastMessageBuilder(node, dir, msg_id, bytes) /\ BuilderAccepts(node, dir, msg_id, bytes)
  BY InputTypes DEF WireInv, OnWire
<1>2. node \in Nat /\ dir \in Nat /\ msg_id \in Nat /\ bytes \in Bytes
  BY InputTypes
<1> HIDE DEF node, dir, msg_id, bytes, msg
<1>3. FitsFastHeader(node, dir, msg_id) /\ Len(bytes) > 0
  BY <1>1, <1>2 DEF BuilderAccepts, MAX_NODE_ID, FitsFastHeader
<1>4. bytes \in Bytes
  BY <1>2
<1>5. /\ ReceivedBytes(msg) = bytes
      /\ fast_msg_id(msg.id) = msg_id /\ node_id(msg.id) = node /\ is_tx(msg.id) = dir
      /\ IsFastMsg(msg) /\ ~ IsServiceMsg(msg)
  BY <1>1, <1>3, <1>4, FastDecodes
<1> QED BY <1>5 DEF node, dir, msg_id, bytes, msg

(* Every service frame whose fields fit the header arrives unchanged, for  *)
(* payloads of up to DATALINK_MTU bytes.                                   *)
(* Property: ServiceRoundTrip.  Code: toCanMsg, fromCanMsg, HeaderService. *)
THEOREM ServiceFramesArrive == Spec => []ServiceRoundTrip
<1>1. WireInv => ServiceRoundTrip
  <2> SUFFICES ASSUME WireInv, wire # <<>>, input \in ServiceInput, FitsHeader(input)
               PROVE  fromCanMsg(wire[1]) = input
    BY DEF ServiceRoundTrip
  <2>1. wire[1] = toCanMsg(input, "CANExtended")
    BY ServiceOnWire
  <2>2. /\ input.srv_id \in 0 .. 1023 /\ input.op_code \in 0 .. 31
        /\ input.dest_id \in 0 .. 63 /\ input.src_id \in 0 .. 63
    <3> DEFINE s == input.srv_id  o == input.op_code  d == input.dest_id  c == input.src_id
    <3>1. s \in Nat /\ o \in 0 .. 255 /\ d \in 0 .. 255 /\ c \in 0 .. 255
      BY InputTypes, ZenonT(40)
    <3>2. s < 1024 /\ o < 32 /\ d < 64 /\ c < 64
      BY DEF FitsHeader
    <3> HIDE DEF s, o, d, c
    <3>3. s \in 0 .. 1023
      BY <3>1, <3>2
    <3>4. o \in Nat /\ d \in Nat /\ c \in Nat
      BY <3>1
    <3>5. o \in 0 .. 31 /\ d \in 0 .. 63 /\ c \in 0 .. 63
      BY <3>2, <3>4
    <3> QED BY <3>3, <3>5 DEF s, o, d, c
  <2>3. fromCanMsg(wire[1])
          = [src_id |-> input.src_id, dest_id |-> input.dest_id, op_code |-> input.op_code,
             srv_id |-> input.srv_id, payload_len |-> input.payload_len,
             payload |-> input.payload]
    BY <2>1, <2>2, ServiceDecodes
  <2> QED BY <2>3, InputTypes, Zenon
<1> QED BY <1>1, WireCorrect, PTL

(* Every real-time message that the builder accepts arrives with its       *)
(* bytes, its message, its node and its direction, for messages of up to   *)
(* DATALINK_MTU + 2 bytes, which buf and the data area hold.  Property:    *)
(* FastRoundTrip.  Code: fastMessageBuilder, MessageContext::__handleRecv. *)
THEOREM FastMessagesArrive == Spec => []FastRoundTrip
<1>1. WireInv => FastRoundTrip
  BY FastOnWire DEF FastRoundTrip
<1> QED BY <1>1, WireCorrect, PTL

(* One context takes a message, and only one, also when a field was cut.   *)
(* Property: OneContextTakesIt.  Code: the tests at the head of the two    *)
(* __handleRecv.                                                           *)
THEOREM TakenByOneContext == Spec => []OneContextTakesIt
<1>1. WireInv => OneContextTakesIt
  BY ServiceOnWire, FastOnWire, InputTypes DEF OneContextTakesIt, WireInv
<1> QED BY <1>1, WireCorrect, PTL

-----------------------------------------------------------------------------
(* The dump.  Until the text is printed, every printed byte has taken      *)
(* three characters behind a head of at most 98.                           *)

Dump == [at : Nat, remain : Int, top : Int, bytes : Nat, text : BOOLEAN]

DumpInv ==
    dump # <<>> =>
      /\ input \in ServiceInput /\ wire # <<>>
      /\ dump = <<dump[1]>> /\ dump[1] \in Dump
      /\ input.payload_len <= DATALINK_MTU =>
           /\ dump[1].at + dump[1].remain = BUFFER_SIZE
           /\ dump[1].bytes <= input.payload_len
           /\ ~ dump[1].text =>
                /\ dump[1].at <= 98 + 3 * dump[1].bytes
                /\ dump[1].top <= dump[1].at + 1
           /\ dump[1].top <= BUFFER_SIZE
      /\ dump[1].text => dump[1].bytes = input.payload_len

LEMMA HandledFields ==
    ASSUME WireInv, wire # <<>>, input \in ServiceInput
    PROVE  HandledFrame.payload_len = input.payload_len
  BY ServiceOnWire DEF HandledFrame, fromCanMsg, toCanMsg

(* There is room as long as the payload has not been printed as text. *)
LEMMA RoomBeforeText ==
    ASSUME DumpInv, dump # <<>>, input.payload_len <= DATALINK_MTU, ~ dump[1].text
    PROVE  /\ dump[1].remain >= 52 /\ dump[1].top <= BUFFER_SIZE /\ ~ Full(dump[1])
<1> DEFINE d == dump[1]  len == input.payload_len
<1>1. /\ d.at \in Nat /\ d.remain \in Int /\ d.top \in Int /\ d.bytes \in Nat
      /\ d.at + d.remain = 342 /\ d.bytes <= len /\ len <= 64
      /\ d.at <= 98 + 3 * d.bytes /\ d.top <= d.at + 1
  BY DEF DumpInv, Dump, BUFFER_SIZE, DATALINK_MTU
<1>2. len \in 0 .. 255
  BY InputTypes DEF DumpInv
<1> HIDE DEF d, len
<1>3. d.remain >= 52 /\ d.top <= 342
  BY SMTT(40), <1>1, <1>2
<1>4. ~ Below(d.remain, 3)
  BY <1>1, <1>3 DEF Below
<1> QED BY <1>3, <1>4 DEF Full, BUFFER_SIZE, DATALINK_MTU, d

LEMMA StartDumpInv ==
    ASSUME WireInv, StartDump
    PROVE  DumpInv'
<1> DEFINE f == HandledFrame  n == InfoLength(f)  d == printInfo(f)
<1>1. input \in ServiceInput
  BY FastOnWire DEF StartDump, WireInv
<1>2. f.payload_len = input.payload_len /\ f.payload_len \in 0 .. 255
  BY <1>1, HandledFields, InputTypes DEF StartDump
<1>3. f.op_code \in 4 .. 7
  BY DEF StartDump, ReadReq, ReadAck, WriteReq, WriteAck
<1>4. opcode_str(f.op_code) \in {19, 20}
  <2> DEFINE o == f.op_code
  <2> HIDE DEF o
  <2>1. o \in 4 .. 7
    BY <1>3 DEF o
  <2>2. opcode_str(o) \in {19, 20}
    BY <2>1 DEF opcode_str, mOpCodeStr
  <2> QED BY <2>2 DEF o
<1>5. n \in Nat /\ (f.payload_len <= 64 => n <= 98)
  <2> DEFINE t == opcode_str(f.op_code)  l == f.payload_len
  <2>1. n = 76 + t + (IF l > 99 THEN 3 ELSE 2)
    BY DEF InfoLength
  <2>2. t \in {19, 20} /\ l \in 0 .. 255
    BY <1>2, <1>4
  <2> HIDE DEF t, l, n
  <2>3. n \in Nat /\ (l <= 64 => n <= 98)
    BY <2>1, <2>2
  <2> QED BY <2>3 DEF l
<1>6. dump' = <<d>> /\ UNCHANGED <<input, wire>> /\ wire # <<>>
  BY DEF StartDump
<1> HIDE DEF n, f
<1>7. /\ d = [at |-> n, remain |-> 342 - n, top |-> Written(n, 340), bytes |-> 0, text |-> FALSE]
  BY DEF printInfo, BUFFER_SIZE, DATALINK_MTU, n
<1>8. Written(n, 340) \in Int /\ (n <= 98 => Written(n, 340) = n + 1)
  BY <1>5 DEF Written, Below
<1>9. d \in Dump
  BY <1>5, <1>7, <1>8 DEF Dump
<1> HIDE DEF d
<1>10. d.at = n /\ d.remain = 342 - n /\ d.bytes = 0 /\ ~ d.text /\ d.top = Written(n, 340)
  BY <1>7
<1>11. dump'[1] = d /\ dump' = <<dump'[1]>>
  BY <1>6
<1>12. n <= 98 => d.at + d.remain = 342 /\ d.at <= 98 /\ d.top <= d.at + 1 /\ d.top <= 342
  BY <1>5, <1>8, <1>10
<1>13. input.payload_len <= 64 => n <= 98
  BY <1>2, <1>5
<1>14. d.bytes <= input.payload_len
  BY <1>2, <1>10
<1> QED BY <1>1, <1>6, <1>9, <1>10, <1>11, <1>12, <1>13, <1>14
        DEF DumpInv, BUFFER_SIZE, DATALINK_MTU

LEMMA PrintByteFields ==
    ASSUME NEW d \in Dump
    PROVE  /\ printByte(d) \in Dump
           /\ printByte(d).at = d.at + 3 /\ printByte(d).remain = d.remain - 3
           /\ printByte(d).top = d.at + 4 /\ printByte(d).bytes = d.bytes + 1
           /\ printByte(d).text = d.text
<1>1. PICK a \in Nat, m \in Int, t \in Int, b \in Nat, x \in BOOLEAN :
        d = [at |-> a, remain |-> m, top |-> t, bytes |-> b, text |-> x]
  BY DEF Dump
<1>2. printByte(d) = [at |-> a + 3, remain |-> m - 3, top |-> a + 4, bytes |-> b + 1, text |-> x]
  BY <1>1 DEF printByte
<1>3. printByte(d) \in Dump
  BY <1>2 DEF Dump
<1> QED BY <1>1, <1>2, <1>3

LEMMA DumpByteInv ==
    ASSUME WireInv, DumpInv, DumpByte
    PROVE  DumpInv'
<1> DEFINE d == dump[1]  e == printByte(d)
<1>1. dump # <<>> /\ dump' = <<e>> /\ UNCHANGED <<input, wire>>
  BY DEF DumpByte
<1>2. d \in Dump /\ input \in ServiceInput /\ wire # <<>>
  BY <1>1 DEF DumpInv
<1>3. d.bytes < input.payload_len
  BY <1>1, <1>2, HandledFields DEF DumpByte
<1>4. ~ d.text
  <2>1. d.bytes \in Nat
    BY <1>2 DEF Dump
  <2>2. d.text => d.bytes = input.payload_len
    BY <1>1 DEF DumpInv
  <2> HIDE DEF d
  <2> QED BY <1>3, <2>1, <2>2
<1>5. input.payload_len <= 64 => d.at + d.remain = 342 /\ d.at <= 98 + 3 * d.bytes
  BY <1>1, <1>4 DEF DumpInv, BUFFER_SIZE, DATALINK_MTU
<1>6. /\ e \in Dump /\ e.at = d.at + 3 /\ e.remain = d.remain - 3 /\ e.top = d.at + 4
      /\ e.bytes = d.bytes + 1 /\ ~ e.text
  BY <1>2, <1>4, PrintByteFields
<1> HIDE DEF d, e
<1>7. input.payload_len \in 0 .. 255
  BY <1>2, InputTypes
<1>8. d.at \in Nat /\ d.remain \in Int /\ d.bytes \in Nat
  BY <1>2 DEF Dump
<1>9. e.bytes <= input.payload_len
  BY <1>3, <1>6, <1>7, <1>8
<1>10. input.payload_len <= 64 =>
         /\ e.at + e.remain = 342 /\ e.at <= 98 + 3 * e.bytes
         /\ e.top <= e.at + 1 /\ e.top <= 342
  BY <1>5, <1>6, <1>7, <1>8, <1>9
<1>11. dump'[1] = e /\ dump' = <<dump'[1]>>
  BY <1>1
<1> QED BY <1>1, <1>2, <1>6, <1>9, <1>10, <1>11 DEF DumpInv, BUFFER_SIZE, DATALINK_MTU

LEMMA PrintTextFields ==
    ASSUME NEW d \in Dump, NEW l \in Nat
    PROVE  /\ printText(d, l) \in Dump
           /\ printText(d, l).at = d.at + l /\ printText(d, l).remain = d.remain - l
           /\ printText(d, l).top = d.at + Written(l, d.remain - 1)
           /\ printText(d, l).bytes = d.bytes /\ printText(d, l).text
<1>1. PICK a \in Nat, m \in Int, t \in Int, b \in Nat, x \in BOOLEAN :
        d = [at |-> a, remain |-> m, top |-> t, bytes |-> b, text |-> x]
  BY DEF Dump
<1> DEFINE w == Written(l, m - 1)
<1>2. w \in Int
  BY DEF Written
<1>3. printText(d, l)
        = [at |-> a + l, remain |-> m - l, top |-> a + w, bytes |-> b, text |-> TRUE]
  BY <1>1 DEF printText
<1>4. w = Written(l, d.remain - 1)
  BY <1>1
<1> HIDE DEF w
<1>5. printText(d, l) \in Dump
  BY <1>2, <1>3 DEF Dump
<1> QED BY <1>1, <1>3, <1>4, <1>5

LEMMA DumpTextInv ==
    ASSUME WireInv, DumpInv, DumpText
    PROVE  DumpInv'
<1> DEFINE d == dump[1]
<1>1. PICK l \in TextLengths(HandledFrame) : dump' = <<printText(d, l)>>
  BY DEF DumpText
<1> DEFINE e == printText(d, l)  len == input.payload_len
<1>2. dump # <<>> /\ ~ d.text /\ UNCHANGED <<input, wire>> /\ d.bytes = HandledFrame.payload_len
  BY DEF DumpText
<1>3. d \in Dump /\ input \in ServiceInput /\ wire # <<>>
  BY <1>2 DEF DumpInv
<1>4. HandledFrame.payload_len = len /\ len \in 0 .. 255
  BY <1>3, HandledFields, InputTypes
<1>5. l \in Nat
  <2> HIDE DEF len
  <2> QED BY <1>4 DEF TextLengths, DATALINK_MTU
<1>6. /\ e \in Dump /\ e.at = d.at + l /\ e.remain = d.remain - l
      /\ e.top = d.at + Written(l, d.remain - 1) /\ e.bytes = d.bytes /\ e.text
  BY <1>3, <1>5, PrintTextFields
<1>7. len <= 64 => d.remain >= 52 /\ d.at + d.remain = 342
  BY <1>2, RoomBeforeText DEF DumpInv, BUFFER_SIZE, DATALINK_MTU
<1>8. d.at \in Nat /\ d.remain \in Int
  BY <1>3 DEF Dump
<1>9. dump' = <<e>>
  BY <1>1
<1> HIDE DEF d, e, len
<1>10. d.remain >= 52 => Written(l, d.remain - 1) <= d.remain - 1
  BY <1>5, <1>8 DEF Written, Below
<1>11. Written(l, d.remain - 1) \in Int
  BY <1>5, <1>8 DEF Written
<1>12. len <= 64 => e.at + e.remain = 342 /\ e.top <= 342
  <2> DEFINE w == Written(l, d.remain - 1)
  <2>1. w \in Int /\ (d.remain >= 52 => w <= d.remain - 1) /\ e.top = d.at + w
    BY <1>6, <1>10, <1>11
  <2> HIDE DEF w
  <2> QED BY <2>1, <1>5, <1>6, <1>7, <1>8
<1>13. e.bytes = len
  BY <1>2, <1>4, <1>6
<1>14. dump'[1] = e /\ dump' = <<dump'[1]>>
  BY <1>9
<1>15. e.bytes <= len
  BY <1>4, <1>13
<1> QED BY <1>2, <1>3, <1>6, <1>12, <1>13, <1>14, <1>15
        DEF DumpInv, BUFFER_SIZE, DATALINK_MTU, len

(* Printing a frame stays inside the buffer and leaves out no byte, for    *)
(* every frame whose payload fits its array.  Property: DumpFits.  Code:   *)
(* frame2strbuf, frame2stdstr.                                             *)
THEOREM DumpStaysInside == Spec => []DumpFits
<1>1. Init => DumpInv
  BY DEF Init, DumpInv
<1>2. WireInv /\ DumpInv /\ [Next]_<<input, wire, dump>> => DumpInv'
  <2> SUFFICES ASSUME WireInv, DumpInv, [Next]_<<input, wire, dump>> PROVE DumpInv'
    OBVIOUS
  <2>1. CASE SendService \/ SendFast
    <3>1. wire = <<>> /\ UNCHANGED dump
      BY <2>1 DEF SendService, SendFast
    <3> QED BY <3>1 DEF DumpInv
  <2>2. CASE UNCHANGED <<input, wire, dump>>
    BY <2>2 DEF DumpInv
  <2> QED BY <2>1, <2>2, StartDumpInv, DumpByteInv, DumpTextInv DEF Next
<1>3. DumpInv => DumpFits
  BY RoomBeforeText, InputTypes DEF DumpInv, DumpFits
<1> QED BY <1>1, <1>2, <1>3, WireCorrect, PTL DEF Spec

=============================================================================
