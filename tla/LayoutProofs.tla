---------------------------- MODULE LayoutProofs ----------------------------
(***************************************************************************)
(* What is read back from where it was written: the fields of the CAN      *)
(* identifiers, the bytes of real-time messages, and the items of          *)
(* dictionaries, for every input.                                          *)
(***************************************************************************)
EXTENDS ServoDict, CanFrame, SequenceTheorems, TLAPS

-----------------------------------------------------------------------------
(* Headers.                                                                *)

(* Whatever its fields, a service header is not taken for anything else. *)
LEMMA ServiceBits ==
    ASSUME NEW s \in Nat, NEW o \in Nat, NEW d \in Nat, NEW c \in Nat
    PROVE  LET id == HeaderService(s, o, d, c)
           IN id \in Nat /\ is_msg(id) = 0 /\ is_seg(id) = 0
<1> DEFINE a == s % 1024  b == o % 32  e == d % 64  f == c % 64
           id == HeaderService(s, o, d, c)
<1>1. a \in 0 .. 1023 /\ b \in 0 .. 31 /\ e \in 0 .. 63 /\ f \in 0 .. 63
  BY SMT
<1>2. id = a + 1024 * b + 32768 * e + 2097152 * f
  BY SMT DEF HeaderService
<1> HIDE DEF a, b, e, f, id
<1>3. id \in Nat /\ (id \div 134217728) % 2 = 0 /\ (id \div 268435456) % 2 = 0
  BY <1>1, <1>2, SMT
<1>4. id \in Nat /\ is_msg(id) = 0 /\ is_seg(id) = 0
  BY <1>3, SMT DEF is_msg, is_seg
<1> QED BY <1>4 DEF id

(* Fields that fit a service header are read back from it. *)
LEMMA ServiceFields ==
    ASSUME NEW s, NEW o, NEW d, NEW c,
           s \in 0 .. 1023, o \in 0 .. 31, d \in 0 .. 63, c \in 0 .. 63
    PROVE  LET id == HeaderService(s, o, d, c)
           IN service_id(id) = s /\ op_code(id) = o /\ dest_id(id) = d /\ src_id(id) = c
<1> DEFINE id == HeaderService(s, o, d, c)
           x3 == d + 64 * c
           x2 == o + 32 * x3
<1>1. s % 1024 = s /\ o % 32 = o /\ d % 64 = d /\ c % 64 = c
  BY SMT
<1>2. id = s + 1024 * o + 32768 * d + 2097152 * c
  BY <1>1, SMT DEF HeaderService
<1> HIDE DEF id
<1>3. x3 \in Nat /\ x2 \in Nat /\ id \in Nat
  BY <1>2, SMT
<1>4. id = s + 1024 * x2 /\ id = (s + 1024 * o) + 32768 * x3
  BY <1>2, SMT
<1>5. x3 % 64 = d /\ x2 % 32 = o
  BY <1>3, SMT
<1> HIDE DEF x2, x3
<1>6. id % 1024 = s /\ id \div 1024 = x2
  BY <1>3, <1>4, SMT
<1>7. id \div 32768 = x3
  BY <1>3, <1>4, SMT
<1>8. (id \div 2097152) % 64 = c
  BY <1>2, SMT
<1>9. service_id(id) = s /\ op_code(id) = o /\ dest_id(id) = d /\ src_id(id) = c
  BY <1>5, <1>6, <1>7, <1>8, SMT DEF service_id, op_code, dest_id, src_id
<1> QED BY <1>9 DEF id

(* The fields of a real-time header. *)
LEMMA FastFields ==
    ASSUME NEW d1, NEW d0, NEW empty, NEW m, NEW tx, NEW n,
           d1 \in Byte, d0 \in Byte, empty \in 0 .. 1, m \in 0 .. 7, tx \in 0 .. 1, n \in 0 .. 63
    PROVE  LET id == HeaderFastMsgExt(d1, d0, empty, m, tx, n)
           IN /\ id \in Nat
              /\ data_1(id) = d1 /\ data_0(id) = d0 /\ is_d1_empty(id) = empty
              /\ fast_msg_id(id) = m /\ is_tx(id) = tx /\ node_id(id) = n
              /\ is_msg(id) = 1 /\ is_seg(id) = 0
<1> DEFINE id == HeaderFastMsgExt(d1, d0, empty, m, tx, n)
           x6 == n + 64 * 1
           x5 == tx + 2 * x6
           x4 == m + 8 * x5
           x3 == empty + 2 * x4
           x2 == d0 + 256 * x3
<1>1. /\ d1 \in 0 .. 255 /\ d0 \in 0 .. 255 /\ empty \in 0 .. 1 /\ m \in 0 .. 7 /\ tx \in 0 .. 1
      /\ n \in 0 .. 63 /\ m % 8 = m /\ n % 64 = n
  BY SMT DEF Byte
<1>2. id = d1 + 256 * d0 + 65536 * empty + 131072 * m + 1048576 * tx + 2097152 * n + 134217728
  BY <1>1, SMT DEF HeaderFastMsgExt
<1> HIDE DEF id
<1>3. /\ x6 \in Nat /\ x5 \in Nat /\ x4 \in Nat /\ x3 \in Nat /\ x2 \in Nat /\ id \in Nat
  BY <1>1, <1>2, SMT
<1>4. /\ id = d1 + 256 * x2
      /\ id = (d1 + 256 * d0) + 65536 * x3
      /\ id = (d1 + 256 * d0 + 65536 * empty) + 131072 * x4
      /\ id = (d1 + 256 * d0 + 65536 * empty + 131072 * m) + 1048576 * x5
      /\ id = (d1 + 256 * d0 + 65536 * empty + 131072 * m + 1048576 * tx) + 2097152 * x6
  BY <1>1, <1>2, SMT
<1>5. /\ x2 = d0 + 256 * x3 /\ x3 = empty + 2 * x4 /\ x4 = m + 8 * x5 /\ x5 = tx + 2 * x6
      /\ x6 = n + 64
  OBVIOUS
<1> HIDE DEF x2, x3, x4, x5, x6
<1>6. /\ x2 % 256 = d0 /\ x3 % 2 = empty /\ x4 % 8 = m /\ x5 % 2 = tx /\ x6 % 64 = n
  BY <1>1, <1>3, <1>5, SMT
<1>7. id % 256 = d1 /\ id \div 256 = x2
  BY <1>1, <1>3, <1>4, SMT
<1>8. id \div 65536 = x3
  BY <1>1, <1>3, <1>4, SMT
<1>9. id \div 131072 = x4
  BY <1>1, <1>3, <1>4, SMT
<1>10. id \div 1048576 = x5
  BY <1>1, <1>3, <1>4, SMT
<1>11. id \div 2097152 = x6
  BY <1>1, <1>3, <1>4, SMT
<1>12. (id \div 134217728) % 2 = 1 /\ (id \div 268435456) % 2 = 0
  BY <1>1, <1>2, SMT
<1>13. /\ data_1(id) = d1 /\ data_0(id) = d0 /\ is_d1_empty(id) = empty
       /\ fast_msg_id(id) = m /\ is_tx(id) = tx /\ node_id(id) = n
       /\ is_msg(id) = 1 /\ is_seg(id) = 0
  BY <1>6, <1>7, <1>8, <1>9, <1>10, <1>11, <1>12, SMT
     DEF data_1, data_0, is_d1_empty, fast_msg_id, is_tx, node_id, is_msg, is_seg
<1> QED BY <1>3, <1>13 DEF id

(* A service frame whose fields fit the header arrives as it was sent. *)
LEMMA ServiceDecodes ==
    ASSUME NEW f, NEW format, f.srv_id \in 0 .. 1023, f.op_code \in 0 .. 31,
           f.dest_id \in 0 .. 63, f.src_id \in 0 .. 63
    PROVE  LET msg == toCanMsg(f, format)
           IN /\ fromCanMsg(msg) =
                   [src_id |-> f.src_id, dest_id |-> f.dest_id,
                    op_code |-> f.op_code, srv_id |-> f.srv_id,
                    payload_len |-> f.payload_len, payload |-> f.payload]
              /\ msg.format = format /\ is_msg(msg.id) = 0 /\ is_seg(msg.id) = 0
<1> DEFINE s == f.srv_id  o == f.op_code  d == f.dest_id  c == f.src_id
           id  == HeaderService(s, o, d, c)
           msg == toCanMsg(f, format)
<1>1. s \in 0 .. 1023 /\ o \in 0 .. 31 /\ d \in 0 .. 63 /\ c \in 0 .. 63
  OBVIOUS
<1>2. msg.id = id /\ msg.len = f.payload_len /\ msg.data = f.payload /\ msg.format = format
  BY DEF toCanMsg
<1> HIDE DEF s, o, d, c, msg
<1>3. /\ service_id(id) = s /\ op_code(id) = o /\ dest_id(id) = d /\ src_id(id) = c
      /\ is_msg(id) = 0 /\ is_seg(id) = 0
  <2>1. s \in Nat /\ o \in Nat /\ d \in Nat /\ c \in Nat
    BY <1>1
  <2>2. is_msg(id) = 0 /\ is_seg(id) = 0
    BY <2>1, ServiceBits, Zenon
  <2>3. service_id(id) = s /\ op_code(id) = o /\ dest_id(id) = d /\ src_id(id) = c
    BY <1>1, ServiceFields, SMTT(30)
  <2> QED BY <2>2, <2>3
<1> HIDE DEF id
<1>4. /\ fromCanMsg(msg) = [src_id |-> c, dest_id |-> d, op_code |-> o, srv_id |-> s,
                            payload_len |-> f.payload_len, payload |-> f.payload]
      /\ msg.format = format /\ is_msg(msg.id) = 0 /\ is_seg(msg.id) = 0
  BY <1>2, <1>3, Zenon DEF fromCanMsg
<1> QED BY <1>4, Zenon DEF s, o, d, c, msg

(* Arguments that fit a real-time header. *)
FitsFastHeader(node, dir, msg_id) == node \in 0 .. 63 /\ dir \in 0 .. 1 /\ msg_id \in 0 .. 7

(* The identifier that the builder makes. *)
LEMMA BuiltHeader ==
    ASSUME NEW node, NEW dir, NEW msg_id, NEW bytes,
           FitsFastHeader(node, dir, msg_id),
           bytes[1] \in Byte, Len(bytes) = 1 \/ bytes[2] \in Byte
    PROVE  LET id == fastMessageBuilder(node, dir, msg_id, bytes).id
           IN /\ data_0(id) = bytes[1]
              /\ Len(bytes) = 1 => is_d1_empty(id) = 1
              /\ Len(bytes) # 1 => is_d1_empty(id) = 0 /\ data_1(id) = bytes[2]
              /\ fast_msg_id(id) = msg_id /\ is_tx(id) = dir /\ node_id(id) = node
              /\ is_msg(id) = 1 /\ is_seg(id) = 0
<1> DEFINE single == Len(bytes) = 1
           first  == bytes[1]
           second == IF single THEN 0 ELSE bytes[2]
           empty  == IF single THEN 1 ELSE 0
           id     == HeaderFastMsgExt(second, first, empty, msg_id, dir, node)
<1>1. first \in Byte /\ second \in Byte /\ empty \in 0 .. 1
  BY DEF Byte
<1>2. fastMessageBuilder(node, dir, msg_id, bytes).id = id
  BY DEF fastMessageBuilder
<1>3. /\ single => empty = 1
      /\ ~ single => empty = 0 /\ second = bytes[2]
  OBVIOUS
<1>4. id = HeaderFastMsgExt(second, first, empty, msg_id, dir, node)
  OBVIOUS
<1> HIDE DEF first, second, empty, id
<1>5. /\ data_1(id) = second /\ data_0(id) = first /\ is_d1_empty(id) = empty
      /\ fast_msg_id(id) = msg_id /\ is_tx(id) = dir /\ node_id(id) = node
      /\ is_msg(id) = 1 /\ is_seg(id) = 0
  BY <1>1, <1>4, FastFields DEF FitsFastHeader
<1>6. first = bytes[1]
  BY DEF first
<1> HIDE DEF single
<1>7. /\ data_0(id) = bytes[1]
      /\ single => is_d1_empty(id) = 1
      /\ ~ single => is_d1_empty(id) = 0 /\ data_1(id) = bytes[2]
      /\ fast_msg_id(id) = msg_id /\ is_tx(id) = dir /\ node_id(id) = node
      /\ is_msg(id) = 1 /\ is_seg(id) = 0
  BY <1>3, <1>5, <1>6, Zenon
<1> QED BY <1>2, <1>7, Zenon DEF single

Bytes == Seq(Byte)

(* What a receiver makes of a real-time message that the builder accepts:  *)
(* everything that was put into it, the split into identifier and data     *)
(* area undone.                                                            *)
LEMMA FastDecodes ==
    ASSUME NEW node, NEW dir, NEW msg_id, NEW bytes \in Bytes,
           FitsFastHeader(node, dir, msg_id), Len(bytes) > 0
    PROVE  LET msg == fastMessageBuilder(node, dir, msg_id, bytes)
           IN /\ ReceivedBytes(msg) = bytes
              /\ fast_msg_id(msg.id) = msg_id /\ node_id(msg.id) = node
              /\ is_tx(msg.id) = dir
              /\ IsFastMsg(msg) /\ ~ IsServiceMsg(msg)
<1> DEFINE n    == Len(bytes)
           len  == IF n <= 2 THEN 0 ELSE n - 2
           data == SubSeq(bytes, 3, n)
           msg  == fastMessageBuilder(node, dir, msg_id, bytes)
           id   == msg.id
<1>1. n \in Nat \ {0} /\ DOMAIN bytes = 1 .. n
  BY DEF Bytes
<1>2. bytes[1] \in Byte /\ (n = 1 \/ bytes[2] \in Byte)
  <2> HIDE DEF n
  <2>1. 1 \in 1 .. n /\ (n # 1 => 2 \in 1 .. n)
    BY <1>1
  <2>2. \A k \in DOMAIN bytes : bytes[k] \in Byte
    BY DEF Bytes
  <2> QED BY <1>1, <2>1, <2>2, Zenon
<1>3. msg.format = "CANExtended" /\ msg.len = len /\ msg.data = data
  BY DEF fastMessageBuilder
<1>4. /\ data_0(id) = bytes[1]
      /\ n = 1 => is_d1_empty(id) = 1
      /\ n # 1 => is_d1_empty(id) = 0 /\ data_1(id) = bytes[2]
      /\ fast_msg_id(id) = msg_id /\ is_tx(id) = dir /\ node_id(id) = node
      /\ is_msg(id) = 1 /\ is_seg(id) = 0
  BY <1>2, BuiltHeader
<1>5. id = msg.id
  OBVIOUS
<1>6. ReceivedBytes(msg) = bytes
  <2>1. CASE n = 1
    <3>1. bytes = <<bytes[1]>>
      BY <2>1 DEF Bytes
    <3> HIDE DEF n, len, data, msg, id
    <3> QED BY <1>4, <1>5, <2>1, <3>1 DEF ReceivedBytes
  <2>2. CASE n # 1
    <3> HIDE DEF n
    <3>1. n >= 2
      BY <1>1, <2>2
    <3> USE DEF n
    <3>2. SubSeq(data, 1, len) = data
      BY <3>1 DEF Bytes
    <3>3. bytes = <<bytes[1], bytes[2]>> \o data
      BY <3>1 DEF Bytes
    <3> HIDE DEF n, len, data, msg, id
    <3>4. is_d1_empty(msg.id) # 1 /\ data_0(msg.id) = bytes[1] /\ data_1(msg.id) = bytes[2]
      BY <1>4, <1>5, <2>2
    <3>5. ReceivedBytes(msg) = <<bytes[1], bytes[2]>> \o SubSeq(data, 1, len)
      BY <1>3, <3>4, Zenon DEF ReceivedBytes
    <3> QED BY <3>2, <3>3, <3>5
  <2> QED BY <2>1, <2>2
<1> HIDE DEF msg, id
<1>7. IsFastMsg(msg) /\ ~ IsServiceMsg(msg)
  BY <1>3, <1>4, <1>5 DEF IsFastMsg, IsServiceMsg
<1> QED BY <1>4, <1>5, <1>6, <1>7 DEF msg

-----------------------------------------------------------------------------
(* Dictionaries.                                                           *)

(* An item that was published or received is read back with its bytes.     *)
(* Code: DictItem, handleSerialize, deserialize.                           *)
THEOREM ItemReadBack ==
    ASSUME NEW dict, IsDict(dict), WellLaidOut(dict), NEW i \in Indices(dict),
           NEW Data, NEW data \in Seq(Data), Len(data) = dict.data_size[i],
           NEW buffer \in [0 .. (dict.bytes - 1) -> Data]
    PROVE  deserialize(dict, i, handleSerialize(DictItem(dict, i, data), buffer)) = data
<1> DEFINE at    == dict.buffer_offset[i]
           bytes == dict.bytes
           new   == memcpy(buffer, at, data)
<1>1. at \in Nat /\ bytes \in Nat /\ at + Len(data) <= bytes
  BY DEF IsDict, WellLaidOut, Indices
<1>2. handleSerialize(DictItem(dict, i, data), buffer) = new
  BY DEF handleSerialize, DictItem
<1>3. deserialize(dict, i, new) = [k \in 1 .. Len(data) |-> new[at + k - 1]]
  BY DEF deserialize
<1>4. buffer \in [0 .. (bytes - 1) -> Data]
  OBVIOUS
<1> HIDE DEF at, bytes
<1>5. ASSUME NEW k \in 1 .. Len(data)
      PROVE  new[at + k - 1] = data[k]
  <2> DEFINE n == at + k - 1
  <2>1. n \in 0 .. (bytes - 1) /\ at <= n /\ n < at + Len(data) /\ n - at + 1 = k
    BY <1>1
  <2> HIDE DEF n
  <2>3. n \in DOMAIN buffer
    BY <1>4, <2>1
  <2>4. new[n] = IF at <= n /\ n < at + Len(data) THEN data[n - at + 1] ELSE buffer[n]
    BY <2>3 DEF memcpy
  <2> HIDE DEF new
  <2>2. new[n] = data[n - at + 1]
    BY <2>1, <2>4, Zenon
  <2> QED BY <2>1, <2>2 DEF n
<1>6. data = [k \in 1 .. Len(data) |-> data[k]]
  OBVIOUS
<1> HIDE DEF new
<1> QED BY <1>2, <1>3, <1>5, <1>6

(* Writing an item leaves every other item as it was.  Code:               *)
(* handleSerialize, MsgDictSingleWrite, deserialize, for the layouts that  *)
(* generated code makes.                                                   *)
THEOREM OtherItemsKept ==
    ASSUME NEW dict, IsDict(dict), WellLaidOut(dict),
           NEW i \in Indices(dict), NEW j \in Indices(dict), i # j,
           NEW Data, NEW data \in Seq(Data), Len(data) = dict.data_size[i],
           NEW buffer \in [0 .. (dict.bytes - 1) -> Data]
    PROVE  deserialize(dict, j, handleSerialize(DictItem(dict, i, data), buffer))
             = deserialize(dict, j, buffer)
<1> DEFINE at    == dict.buffer_offset[i]
           of    == dict.buffer_offset[j]
           size  == dict.data_size[j]
           bytes == dict.bytes
           new   == memcpy(buffer, at, data)
<1>1. /\ at \in Nat /\ of \in Nat /\ size \in Nat /\ bytes \in Nat
      /\ at + Len(data) <= bytes /\ of + size <= bytes
  BY DEF IsDict, WellLaidOut, Indices
<1>2. at + Len(data) <= of \/ of + size <= at
  <2>1. i < j \/ j < i
    BY DEF Indices, IsDict
  <2> QED BY <2>1 DEF WellLaidOut, Indices, IsDict
<1>3. handleSerialize(DictItem(dict, i, data), buffer) = new
  BY DEF handleSerialize, DictItem
<1>4. buffer \in [0 .. (bytes - 1) -> Data]
  OBVIOUS
<1>5. /\ deserialize(dict, j, new) = [k \in 1 .. size |-> new[of + k - 1]]
      /\ deserialize(dict, j, buffer) = [k \in 1 .. size |-> buffer[of + k - 1]]
  BY DEF deserialize
<1> HIDE DEF at, of, size, bytes
<1>6. ASSUME NEW k \in 1 .. size
      PROVE  new[of + k - 1] = buffer[of + k - 1]
  <2> DEFINE n == of + k - 1
  <2>1. n \in 0 .. (bytes - 1) /\ ~ (at <= n /\ n < at + Len(data))
    BY <1>1, <1>2
  <2> HIDE DEF n
  <2>3. n \in DOMAIN buffer
    BY <1>4, <2>1
  <2>4. new[n] = IF at <= n /\ n < at + Len(data) THEN data[n - at + 1] ELSE buffer[n]
    BY <2>3 DEF memcpy
  <2> HIDE DEF new
  <2>2. new[n] = buffer[n]
    BY <2>1, <2>4, Zenon
  <2> QED BY <2>2 DEF n
<1> HIDE DEF new
<1> QED BY <1>3, <1>5, <1>6

=============================================================================
