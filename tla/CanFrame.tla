------------------------------ MODULE CanFrame ------------------------------
(***************************************************************************)
(* The CAN identifiers of can-duck (Common.hpp) and the conversions        *)
(* between protocol frames and CAN messages.                               *)
(*                                                                         *)
(* A C++ bit-field is a number modulo its width; reading a header back     *)
(* from the identifier (the reinterpret casts of the code) is division and *)
(* remainder.  The fields stand in the order of the structs, first field   *)
(* in the least significant bits, as the comment at Common.hpp:20 says.    *)
(* The data area of a message is left abstract for service frames (one     *)
(* payload value) and is a sequence of bytes for real-time messages.       *)
(***************************************************************************)
EXTENDS Naturals, Sequences

(* OpCode.hpp: the single-frame parameter server operations. *)
ReadReq  == 4
ReadAck  == 5
WriteReq == 6
WriteAck == 7

DATALINK_MTU == 64
MAX_NODE_ID  == 63

(* Bits 27 and 28 mean the same in all header structs. *)
is_msg(id) == (id \div 134217728) % 2     \* 2^27
is_seg(id) == (id \div 268435456) % 2     \* 2^28

-----------------------------------------------------------------------------
(* Service frames: struct HeaderService.                                   *)

(* Mutants: the identifiers swapped, and the widths forgotten. *)
HeaderServiceSwapped(service_id, op_code, dest_id, src_id) ==
      (service_id % 1024) + 1024 * (op_code % 32)
    + 32768 * (src_id % 64) + 2097152 * (dest_id % 64)

HeaderServiceWide(service_id, op_code, dest_id, src_id) ==
    service_id + 1024 * op_code + 32768 * dest_id + 2097152 * src_id

(* service_id : 10, op_code : 5, dest_id : 6, src_id : 6, is_msg = is_seg = 0 *)
HeaderService(service_id, op_code, dest_id, src_id) ==
      (service_id % 1024)
    + 1024    * (op_code % 32)
    + 32768   * (dest_id % 64)
    + 2097152 * (src_id % 64)

service_id(id) == id % 1024
op_code(id)    == (id \div 1024) % 32
dest_id(id)    == (id \div 32768) % 64
src_id(id)     == (id \div 2097152) % 64

(* toCanMsg: it does not set CANMessage::format, so that the message keeps *)
(* the format it was constructed with.  The copies of the payload are for  *)
(* lengths up to DATALINK_MTU, the size of both arrays.                    *)
toCanMsg(frame, format) ==
    [format |-> format,
     id     |-> HeaderService(frame.srv_id, frame.op_code, frame.dest_id, frame.src_id),
     len    |-> frame.payload_len,
     data   |-> frame.payload]

fromCanMsg(msg) ==
    [src_id      |-> src_id(msg.id),
     dest_id     |-> dest_id(msg.id),
     op_code     |-> op_code(msg.id),
     srv_id      |-> service_id(msg.id),
     payload_len |-> msg.len,
     payload     |-> msg.data]

(* The test at the head of ServiceContext::__handleRecv(CANMessage).       *)
IsServiceMsg(msg) ==
    msg.format = "CANExtended" /\ is_msg(msg.id) = 0 /\ is_seg(msg.id) = 0

-----------------------------------------------------------------------------
(* Real-time messages: struct HeaderFastMsgExt.                            *)

Byte == 0 .. 255

(* data_1 : 8, data_0 : 8, is_d1_empty : 1, msg_id : 3, is_tx : 1,         *)
(* node_id : 6, is_msg = 1, is_seg = 0                                     *)
HeaderFastMsgExt(d1, d0, d1_empty, msg_id, is_tx, node_id) ==
      d1 + 256 * d0
    + 65536   * d1_empty
    + 131072  * (msg_id % 8)
    + 1048576 * is_tx
    + 2097152 * (node_id % 64)
    + 134217728

data_1(id)      == id % 256
data_0(id)      == (id \div 256) % 256
is_d1_empty(id) == (id \div 65536) % 2
fast_msg_id(id) == (id \div 131072) % 8
is_tx(id)       == (id \div 1048576) % 2
node_id(id)     == (id \div 2097152) % 64

(* The four USER_IASSERTs at the head of fastMessageBuilder. *)
BuilderAccepts(node, dir, msg_id, bytes) ==
    node <= MAX_NODE_ID /\ dir <= 1 /\ msg_id <= 7 /\ Len(bytes) > 0

(* Mutant: the flag of one-byte messages is never set. *)
fastMessageBuilderNoEmptyFlag(node, dir, msg_id, bytes) ==
    LET second == IF Len(bytes) = 1 THEN 0 ELSE bytes[2] IN
    [format |-> "CANExtended",
     id     |-> HeaderFastMsgExt(second, bytes[1], 0, msg_id, dir, node),
     len    |-> IF Len(bytes) <= 2 THEN 0 ELSE Len(bytes) - 2,
     data   |-> SubSeq(bytes, 3, Len(bytes))]

(* The first two bytes travel in the identifier, the rest in the data      *)
(* area, which has room for DATALINK_MTU of them.                          *)
fastMessageBuilder(node, dir, msg_id, bytes) ==
    LET single == Len(bytes) = 1 IN
    [format |-> "CANExtended",
     id     |-> HeaderFastMsgExt(IF single THEN 0 ELSE bytes[2], bytes[1],
                                 IF single THEN 1 ELSE 0, msg_id, dir, node),
     len    |-> IF Len(bytes) <= 2 THEN 0 ELSE Len(bytes) - 2,
     data   |-> SubSeq(bytes, 3, Len(bytes))]

(* The bytes that MessageContext::__handleRecv puts into buf, whose size   *)
(* is DATALINK_MTU + 2.                                                    *)
ReceivedBytes(msg) ==
    IF is_d1_empty(msg.id) = 1
    THEN <<data_0(msg.id)>>
    ELSE <<data_0(msg.id), data_1(msg.id)>> \o SubSeq(msg.data, 1, msg.len)

(* The tests at the head of MessageContext::__handleRecv. *)
IsFastMsg(msg) ==
    msg.format = "CANExtended" /\ is_msg(msg.id) = 1 /\ is_seg(msg.id) = 0

=============================================================================
