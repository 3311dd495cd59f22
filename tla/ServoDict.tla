----------------------------- MODULE ServoDict -----------------------------
(***************************************************************************)
(* Object dictionaries (SerDesDict.hpp) as generated code lays them out,   *)
(* and the three dictionaries of the servo that the tests and the README   *)
(* use (unit_test/ServoDict.hpp).                                          *)
(*                                                                         *)
(* A dictionary gives each item an index, a size and an offset in a buffer *)
(* of its own struct Buffer.  Items are written one after the other in the *)
(* order of their indices, so that val_offset_key_table leads from an      *)
(* index to the item of that index.                                        *)
(***************************************************************************)
EXTENDS Naturals, Sequences

(* A member of a struct Buffer and the item it belongs to: the size of the *)
(* member, its natural alignment, and sizeof(T) of DictItem<T>.            *)
Member(size, align, data_size) == [size |-> size, align |-> align, data_size |-> data_size]

int8   == Member(1, 1, 1)
int16  == Member(2, 2, 2)
int32  == Member(4, 4, 4)
float  == Member(4, 4, 4)
bytes8 == Member(8, 1, 8)
int16_in_int32 == Member(4, 4, 2)

(* #pragma pack(2): nothing is aligned to more than two bytes. *)
Aligned(offset, align) == IF align = 1 THEN offset ELSE offset + (offset % 2)

End(members) ==
    LET end[k \in 0 .. Len(members)] ==
          IF k = 0 THEN 0 ELSE Aligned(end[k - 1], members[k].align) + members[k].size
    IN end

(* dictSize(), and for each index getBufferDataSize and                    *)
(* getBufferDataOffest; bytes is sizeof(Buffer).                           *)
SerDesDict(members) ==
    LET end   == End(members)
        Index == 0 .. (Len(members) - 1)
    IN [dictSize  |-> Len(members),
        data_size |-> [i \in Index |-> members[i + 1].data_size],
        buffer_offset |-> [i \in Index |-> Aligned(end[i], members[i + 1].align)],
        bytes     |-> Aligned(end[Len(members)], 2)]

(* serial_num, mode, kp, kd *)
ServoSrv == SerDesDict(<<bytes8, int16, float, float>>)

(* target_angle, mode: the first item has two bytes in a member of four.   *)
ServoMsgRx == SerDesDict(<<int16_in_int32, int16>>)

(* speed, angle, current *)
ServoMsgTx == SerDesDict(<<int16, int32, int8>>)

(* createBuffer: all zero. *)
createBuffer(dict) == [k \in 0 .. (dict.bytes - 1) |-> 0]

(* emlib::memcpy of data into a buffer, from an offset on: nothing stops   *)
(* it at the end of the buffer.                                            *)
memcpy(buffer, offset, data) ==
    [k \in DOMAIN buffer \cup (offset .. (offset + Len(data) - 1)) |->
       IF offset <= k /\ k < offset + Len(data) THEN data[k - offset + 1] ELSE buffer[k]]

(* handleSerialize: the item's data go where the item's own buffer_offset  *)
(* says.                                                                   *)
handleSerialize(msg, buffer) == memcpy(buffer, msg.buffer_offset, msg.data)

(* deserialize(Prototype): the bytes of an item. *)
deserialize(dict, i, buffer) ==
    [k \in 1 .. dict.data_size[i] |-> buffer[dict.buffer_offset[i] + k - 1]]

(* Mutant: the copy forgets where the item belongs. *)
DictItemBare(dict, i, data) == [index |-> i, buffer_offset |-> 0, data |-> data]

(* auto msg = Dict.item; msg << value: a copy of the item, offset included.*)
DictItem(dict, i, data) ==
    [index |-> i, buffer_offset |-> dict.buffer_offset[i], data |-> data]

(* Dict.item(value): built from the index alone. *)
DictItemCall(i, data) == [index |-> i, buffer_offset |-> 0, data |-> data]

(* The indices of a dictionary. *)
Indices(dict) == 0 .. (dict.dictSize - 1)

(* A dictionary as generated code builds it, before its layout is judged.  *)
IsDict(dict) ==
    /\ dict.dictSize \in Nat /\ dict.bytes \in Nat
    /\ dict.data_size \in [Indices(dict) -> Nat]
    /\ dict.buffer_offset \in [Indices(dict) -> Nat]

(* What generated code guarantees: items do not overlap, and fit.          *)
WellLaidOut(dict) ==
    /\ \A i \in 0 .. (dict.dictSize - 1) :
         /\ dict.data_size[i] >= 1
         /\ dict.buffer_offset[i] + dict.data_size[i] <= dict.bytes
    /\ \A i, j \in 0 .. (dict.dictSize - 1) :
         i < j => dict.buffer_offset[i] + dict.data_size[i] <= dict.buffer_offset[j]

ASSUME ServoLayouts == \A d \in {ServoSrv, ServoMsgRx, ServoMsgTx} : IsDict(d) /\ WellLaidOut(d)

=============================================================================
