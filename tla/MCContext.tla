----------------------------- MODULE MCContext -----------------------------
(* An instance of ContextThreads for TLC. *)
EXTENDS ContextThreads, ServoPrograms

Programs == {ServerProgram, ClientProgram}

(* Two servers and two clients: those of the tests of the parameter server *)
(* in one context, and the same with their addresses exchanged.  The frame *)
(* of a request, or of an acknowledgement, may be for the first entry of   *)
(* its table, for the second, or for one that comes while the table is     *)
(* walked.  Messages come on one channel, which may be bound first, last,  *)
(* twice or not at all.                                                    *)
ServersMade  == UNION {p.servers : p \in Programs} \cup {HOST_ADDR}
ClientsBound == UNION {p.clients : p \in Programs} \cup {<<HOST_ADDR, SERVO_ADDR>>}
Frames ==
    {[kind |-> "req", to |-> HOST_ADDR], [kind |-> "ack", to |-> SERVO_ADDR]}
        \cup [kind : {"msg"}, to : {1}]

=============================================================================
