----------------------------- MODULE FrameCodec -----------------------------
(***************************************************************************)
(* One frame or real-time message at a time goes through the encoder of    *)
(* its sender, the bus and the decoder of its receiver.  The handlers of   *)
(* service frames print the frame into the log first.                      *)
(***************************************************************************)
EXTENDS FrameDump

CONSTANTS
    ServiceInput,   \* the service frames given to toCanMsg
    FastInput       \* the arguments given to fastMessageBuilder

uint8  == 0 .. 255
uint16 == 0 .. 65535

(* The C++ types of the arguments.  A payload may be anything.  The arrays *)
(* that hold it (ServiceFrame, CANMessage) have DATALINK_MTU bytes, and    *)
(* the buffer of a real-time message (Message.cpp:89) two more.  The       *)
(* copies do not look at the length: nothing is said of longer inputs.     *)
ServiceArgument(payload) ==
    [src_id : uint8, dest_id : uint8, op_code : uint8, srv_id : uint16,
     payload_len : uint8, payload : {payload}]

FastArgument == [node : uint16, dir : uint8, msg_id : uint16, bytes : Seq(Byte)]

ASSUME InputAssumption ==
    /\ \A f \in ServiceInput :
         f \in ServiceArgument(f.payload) /\ f.payload_len <= DATALINK_MTU
    /\ \A m \in FastInput : m \in FastArgument /\ Len(m.bytes) <= DATALINK_MTU + 2

VARIABLES
    input,  \* what the sender encodes
    wire,   \* the CAN message on the bus, <<>> before it is sent
    dump    \* the state of frame2strbuf, <<>> before it runs

Init == input \in ServiceInput \cup FastInput /\ wire = <<>> /\ dump = <<>>

SendService ==
    /\ wire = <<>> /\ input \in ServiceInput
    /\ wire' = <<toCanMsg(input, "CANExtended")>>
    /\ UNCHANGED <<input, dump>>

(* Nothing is sent when one of the builder's assertions fails. *)
SendFast ==
    /\ wire = <<>> /\ input \in FastInput
    /\ BuilderAccepts(input.node, input.dir, input.msg_id, input.bytes)
    /\ wire' = <<fastMessageBuilder(input.node, input.dir, input.msg_id, input.bytes)>>
    /\ UNCHANGED <<input, dump>>

(* The frame that a handler has: one of the four operations. *)
HandledFrame == fromCanMsg(wire[1])

(* frame2stdstr: the head, the bytes one by one, and the payload as text.  *)
StartDump ==
    /\ wire # <<>> /\ IsServiceMsg(wire[1]) /\ dump = <<>>
    /\ HandledFrame.op_code \in {ReadReq, ReadAck, WriteReq, WriteAck}
    /\ dump' = <<printInfo(HandledFrame)>>
    /\ UNCHANGED <<input, wire>>

DumpByte ==
    /\ dump # <<>> /\ ~ Full(dump[1])
    /\ dump[1].bytes < HandledFrame.payload_len
    /\ dump' = <<printByte(dump[1])>>
    /\ UNCHANGED <<input, wire>>

DumpText ==
    /\ dump # <<>> /\ ~ Full(dump[1]) /\ ~ dump[1].text
    /\ dump[1].bytes = HandledFrame.payload_len
    /\ \E length \in TextLengths(HandledFrame) : dump' = <<printText(dump[1], length)>>
    /\ UNCHANGED <<input, wire>>

Next == SendService \/ SendFast \/ StartDump \/ DumpByte \/ DumpText

Spec == Init /\ [][Next]_<<input, wire, dump>>

FitsHeader(f) == f.src_id < 64 /\ f.dest_id < 64 /\ f.op_code < 32 /\ f.srv_id < 1024

(* A service frame whose fields fit the header, and whose payload fits its *)
(* array, is read back unchanged.                                          *)
(* Code: toCanMsg, fromCanMsg and the bit-fields of HeaderService.         *)
ServiceRoundTrip ==
    wire # <<>> /\ input \in ServiceInput /\ FitsHeader(input)
      => fromCanMsg(wire[1]) = input

(* A real-time message of any length that the buffers hold, from one and   *)
(* two bytes to a full data area, is read back with its bytes, its         *)
(* message, its node and its direction.                                    *)
(* Code: fastMessageBuilder, MessageContext::__handleRecv.                 *)
FastRoundTrip ==
    wire # <<>> /\ input \in FastInput
      => /\ ReceivedBytes(wire[1]) = input.bytes
         /\ fast_msg_id(wire[1].id) = input.msg_id
         /\ node_id(wire[1].id) = input.node
         /\ is_tx(wire[1].id) = input.dir

(* A message is taken by one of the two contexts and by one only, also     *)
(* when a field of the frame is too wide for the header.  Code: the tests  *)
(* at the head of the two __handleRecv, Context::recvPolling.              *)
OneContextTakesIt ==
    wire # <<>> => /\ IsServiceMsg(wire[1]) <=> input \in ServiceInput
                   /\ IsFastMsg(wire[1]) <=> input \in FastInput

(* Printing a frame writes nothing beyond the buffer and leaves out none   *)
(* of its bytes, for a payload that fills its array as well.  Code:        *)
(* frame2strbuf, and frame2stdstr, which sizes the buffer.                 *)
DumpFits ==
    dump # <<>> =>
      /\ dump[1].top <= BUFFER_SIZE
      /\ dump[1].text \/ ~ Full(dump[1])

=============================================================================
