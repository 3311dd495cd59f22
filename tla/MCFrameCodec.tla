---------------------------- MODULE MCFrameCodec ----------------------------
(* Inputs on both sides of every field width. *)
EXTENDS FrameCodec

EdgeServiceInput ==
    [src_id : {0, 2, 63, 64, 255}, dest_id : {0, 5, 63, 64, 255},
     op_code : {4, 7, 31, 32}, srv_id : {0, 1, 1023, 1024},
     payload_len : {1, 64}, payload : {0, 255}]

(* Payloads up to the size of their array, for the four operations. *)
DumpInput ==
    [src_id : {2}, dest_id : {5}, op_code : 4 .. 7, srv_id : {1},
     payload_len : {0, 1, 8, 60, 63, 64}, payload : {255}]

AnyServiceInput == EdgeServiceInput \cup DumpInput

(* Up to the 64 bytes of the data area behind the two of the identifier.   *)
LongBytes == {[k \in 1 .. n |-> IF k \in {2, n} THEN 255 ELSE 0] : n \in {10, 65, 66}}

EdgeBytes == UNION {[1 .. n -> {0, 255}] : n \in 0 .. 4} \cup LongBytes

EdgeFastInput ==
    [node : {0, 2, 63, 64}, dir : 0 .. 2, msg_id : {0, 7, 8}, bytes : EdgeBytes]

=============================================================================
