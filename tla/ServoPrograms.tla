--------------------------- MODULE ServoPrograms ---------------------------
(***************************************************************************)
(* The programs of the tests (Message.cpp, Context.cpp, Service.cpp): which *)
(* ends of the servo's channel they bind, what they publish, and where     *)
(* they have callbacks.  A publication is an owner flag, an index, a byte   *)
(* that fills the item, and the argument local_only.                       *)
(***************************************************************************)
EXTENDS ServoDict

SERVO_ADDR == 2
HOST_ADDR  == 5

Owner == <<SERVO_ADDR, TRUE>>
Other == <<SERVO_ADDR, FALSE>>

(* Indices of ServoMsgTx and of ServoMsgRx. *)
speed == 0
angle == 1
current == 2
target_angle == 0

(* TEST(PubSub, InProc): the servo and a virtual ECU in one process; the   *)
(* servo publishes its three items, the ECU has a callback on the speed.   *)
InProc(counts) ==
    [ends |-> {Owner, Other},
     publishes |-> {TRUE} \X {speed, angle, current} \X counts \X {FALSE},
     callbacks |-> {<<FALSE, speed>>}]

(* TEST(PubSub, NetworkHost): a host that only reads. *)
NetworkHost == [ends |-> {Other}, publishes |-> {}, callbacks |-> {}]

(* TEST(Node, ServoMsg): publishes its angle.  Both of the tests of Node   *)
(* make their messages with DictItem::operator().                          *)
ServoMsg(angles) ==
    [ends |-> {Owner}, publishes |-> {TRUE} \X {angle} \X angles \X {FALSE}, callbacks |-> {}]

(* TEST(Node, EcuMsg): commands a target angle, the one or the other.  The *)
(* offset of this item is zero, so that operator() does not lose it.       *)
EcuMsg(targets) ==
    [ends |-> {Other}, publishes |-> {FALSE} \X {target_angle} \X targets \X {FALSE}, callbacks |-> {}]

(* TEST(ParamServer, Server) and TEST(ParamServer, Client): what they make *)
(* while the receive thread of SrvNode runs.                               *)
ServerProgram == [servers |-> {SERVO_ADDR}, clients |-> {}]
ClientProgram == [servers |-> {}, clients |-> {<<SERVO_ADDR, HOST_ADDR>>}]

=============================================================================
