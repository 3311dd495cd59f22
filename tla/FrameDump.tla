----------------------------- MODULE FrameDump -----------------------------
(***************************************************************************)
(* The text of a service frame in the log (DuckDebug.cpp), as far as it    *)
(* decides what is written where: frame2strbuf fills a buffer and counts   *)
(* what remains of it, with the lengths that snprintf returns, which are   *)
(* those of the text before it was cut.                                    *)
(*                                                                         *)
(* buffer_remain is a uint32_t that may pass below zero.  It is kept here  *)
(* as a signed number, and a negative one counts as the large number that  *)
(* it stands for.                                                          *)
(***************************************************************************)
EXTENDS CanFrame, Integers

(* BUFFER_RESERVE is 150. *)
BUFFER_SIZE == DATALINK_MTU * 3 + 150

(* Below(n, m): n < m for the unsigned numbers they stand for, m small. *)
Below(n, m) == 0 <= n /\ n < m

(* Lengths of the names in mOpCodeStr that sizeof(opcode_str) lets through:*)
(* it is the size of a pointer, 8.                                         *)
mOpCodeStr == <<9, 7, 11, 10, 19, 19, 20, 20>>

opcode_str(code) == IF code < Len(mOpCodeStr) THEN mOpCodeStr[code + 1] ELSE 7

(* The head of the text, up to the bytes of the payload. *)
InfoLength(frame) ==
    76 + opcode_str(frame.op_code) + (IF frame.payload_len > 99 THEN 3 ELSE 2)

(* snprintf(size): the characters it writes, with the zero at the end. *)
Written(length, size) == IF Below(length, size) \/ size < 0 THEN length + 1 ELSE size

(* at: p_buffer - buffer; remain: buffer_remain; top: the end of what has  *)
(* been written; bytes: the payload bytes in the text; text: it is done.   *)
printInfo(frame) ==
    LET n == InfoLength(frame)
    IN [at |-> n, remain |-> BUFFER_SIZE - n, top |-> Written(n, BUFFER_SIZE - 2), bytes |-> 0,
        text |-> FALSE]

(* sprintf "%.2X ": three characters and a zero. *)
printByte(d) ==
    [at |-> d.at + 3, remain |-> d.remain - 3, top |-> d.at + 4, bytes |-> d.bytes + 1,
     text |-> d.text]

(* After a byte: "buffer is not enough. stop." *)
Full(d) == d.bytes > 0 /\ Below(d.remain, 3)

(* Mutant: the payload is printed without a limit. *)
printTextUnlimited(d, length) ==
    [at |-> d.at + length, remain |-> d.remain - length, top |-> d.at + length + 1,
     bytes |-> d.bytes, text |-> TRUE]

(* The payload once more as a string of the given length, quotes and line  *)
(* ends included.                                                          *)
printText(d, length) ==
    [at |-> d.at + length, remain |-> d.remain - length,
     top |-> d.at + Written(length, d.remain - 1), bytes |-> d.bytes, text |-> TRUE]

(* A payload is a string up to its first zero.  The array is zero beyond   *)
(* payload_len; when it is full of other bytes, the string runs on into    *)
(* payload_len and what follows.                                           *)
TextLengths(frame) ==
    IF frame.payload_len < DATALINK_MTU THEN {4, 4 + frame.payload_len}
    ELSE {4, 4 + DATALINK_MTU + 1, 4 + 2 * DATALINK_MTU}

=============================================================================
