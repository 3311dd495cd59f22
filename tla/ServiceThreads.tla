--------------------------- MODULE ServiceThreads ---------------------------
(***************************************************************************)
(* One Service (Service.hpp, Service.cpp) between its two threads: the     *)
(* receive thread runs onWriteReq and onReadReq, the application runs      *)
(* updateData, getData, setWrAccess and resetWrAccess.  Nothing keeps one  *)
(* from the other; a copy moves one byte at a time, in any order.          *)
(*                                                                         *)
(* The requests are those with an index below dictSize(), and reads of the *)
(* item's length: the others touch neither the buffer nor the table.  They *)
(* are in ParamService, like the acknowledgements' way to the client.      *)
(***************************************************************************)
EXTENDS Naturals, Sequences

CONSTANTS
    Item,       \* indices of the dictionary
    ItemSize,   \* bytes of an item
    MaxStore    \* updateData calls and write requests (bounds the model)

ASSUME ServiceAssumption ==
    Item \subseteq Nat /\ ItemSize \in Nat \ {0} /\ MaxStore \in Nat

VARIABLES
    buffer,     \* Service::buffer: for each byte the store it comes from
    wr_access,  \* Service::wr_access_table
    call,       \* [Thread -> the call it is in]
    stores,     \* history: the updateData calls and the write requests, as they began
    finished    \* history: those that returned or were acknowledged with 1

vars == <<buffer, wr_access, call, stores, finished>>

Thread == {"receiver", "application"}
Bytes  == 1 .. ItemSize

Storing == {"updateData", "onWriteReq"}
Reading == {"getData", "onReadReq"}

(* A call: how far it is, its item, its number among the stores, the code  *)
(* it would answer, the bytes it has moved; and of its history, the stores *)
(* that were finished when it began, those that ran beside it, and whether *)
(* its item was open for writing at some moment since.                     *)
NoCall == [op |-> "none", pc |-> "copy", item |-> 0, no |-> 0, code |-> 1, got |-> <<>>,
           after |-> {}, beside |-> {}, opened |-> FALSE]

Idle(t) == call[t].op = "none"

RunningStores == {call[t].no : t \in {u \in Thread : call[u].op \in Storing}}

Begin(t, op, pc, i, code) ==
    LET no  == IF op \in Storing THEN Len(stores) + 1 ELSE 0
        new == [op |-> op, pc |-> pc, item |-> i, no |-> no, code |-> code, got |-> <<>>,
                after |-> finished, beside |-> RunningStores, opened |-> i \in wr_access]
    IN /\ Idle(t)
       /\ call' = [u \in Thread |->
                     IF u = t THEN new
                     ELSE [call[u] EXCEPT !.beside = IF no = 0 THEN @ ELSE @ \cup {no}]]
       /\ UNCHANGED <<buffer, wr_access, finished>>

BeginStore(t, op, pc, i, code) ==
    /\ Len(stores) < MaxStore
    /\ Begin(t, op, pc, i, code)
    /\ stores' = Append(stores, [item |-> i, after |-> finished])

BeginRead(t, op, i) == Begin(t, op, "copy", i, 1) /\ UNCHANGED stores

-----------------------------------------------------------------------------
(* The application.                                                        *)

updateData(i) == BeginStore("application", "updateData", "copy", i, 1)

getData(i) == BeginRead("application", "getData", i)

(* add and remove of the table, at any moment of the receive thread. *)
setWrAccess(i) ==
    /\ Idle("application")
    /\ wr_access' = wr_access \cup {i}
    /\ call' = [call EXCEPT !["receiver"].opened = @ \/ (call["receiver"].item = i)]
    /\ UNCHANGED <<buffer, stores, finished>>

resetWrAccess(i) ==
    /\ Idle("application")
    /\ wr_access' = wr_access \ {i}
    /\ UNCHANGED <<buffer, call, stores, finished>>

-----------------------------------------------------------------------------
(* The receive thread.                                                     *)

(* Mutant: the handler runs in the thread that calls. *)
onWriteReqHere(i, code) ==
    code \in {1, 2} /\ BeginStore("application", "onWriteReq", "access", i, code)

(* The length is judged first: 1 if it is the item's, otherwise 2. *)
onWriteReq(i, code) ==
    code \in {1, 2} /\ BeginStore("receiver", "onWriteReq", "access", i, code)

onReadReq(i) == BeginRead("receiver", "onReadReq", i)

(* Mutant: whether an item is open is asked of the table as a whole. *)
MayWriteIfAny(i) == wr_access # {}

MayWrite(i) == i \in wr_access

(* Then the table is read, whatever the length. *)
checkAccess ==
    LET c == call["receiver"] IN
    /\ c.op = "onWriteReq" /\ c.pc = "access"
    /\ call' = [call EXCEPT !["receiver"].pc = "copy",
                            !["receiver"].code = IF MayWrite(c.item) THEN @ ELSE 3]
    /\ UNCHANGED <<buffer, wr_access, stores, finished>>

-----------------------------------------------------------------------------
(* Copies of either thread.                                                *)

(* Mutants: the last byte is left out, and the copy need not be complete.  *)
InFullButOne(c) == DOMAIN c.got = 1 .. (ItemSize - 1)
InFullOrLess(c) == c.got # <<>>

InFull(c) == DOMAIN c.got = Bytes

(* memcpy into the buffer or out of it. *)
copyByte(t, k) ==
    LET c == call[t]
        b == IF c.op \in Storing THEN c.no ELSE buffer[c.item][k]
    IN /\ ~ Idle(t) /\ c.pc = "copy" /\ c.code = 1
       /\ ~ InFull(c) /\ k \notin DOMAIN c.got
       /\ buffer' = IF c.op \in Storing THEN [buffer EXCEPT ![c.item][k] = b] ELSE buffer
       /\ call' = [call EXCEPT ![t].got =
                     [j \in DOMAIN @ \cup {k} |-> IF j = k THEN b ELSE @[j]]]
       /\ UNCHANGED <<wr_access, stores, finished>>

(* The call returns: a write request is acknowledged with its code, which  *)
(* is 1 only when the copy is done.                                        *)
return(t) ==
    LET c == call[t] IN
    /\ ~ Idle(t) /\ c.pc = "copy"
    /\ InFull(c) \/ c.code # 1
    /\ call' = [call EXCEPT ![t] = NoCall]
    /\ finished' = IF c.op \in Storing /\ c.code = 1 THEN finished \cup {c.no} ELSE finished
    /\ UNCHANGED <<buffer, wr_access, stores>>

-----------------------------------------------------------------------------
(* The specification.                                                      *)

Init ==
    /\ buffer = [i \in Item |-> [k \in Bytes |-> 0]]
    /\ wr_access = {}
    /\ call = [t \in Thread |-> NoCall]
    /\ stores = <<>> /\ finished = {}

Application ==
    \E i \in Item : updateData(i) \/ getData(i) \/ setWrAccess(i) \/ resetWrAccess(i)

Receiver ==
    \/ \E i \in Item : onReadReq(i) \/ \E code \in {1, 2} : onWriteReq(i, code)
    \/ checkAccess

Copy(t) == return(t) \/ \E k \in Bytes : copyByte(t, k)

Next == Application \/ Receiver \/ \E t \in Thread : Copy(t)

Spec == Init /\ [][Next]_vars

-----------------------------------------------------------------------------
(* Properties.                                                             *)

StoreNo == 0 .. Len(stores)

(* Among the types: only a store that began is anywhere in the buffer, and *)
(* the application never runs a handler.                                   *)
TypeOK ==
    /\ buffer \in [Item -> [Bytes -> StoreNo]]
    /\ wr_access \subseteq Item
    /\ \A t \in Thread :
         LET c == call[t]
         IN /\ c.op \in Storing \cup Reading \cup {"none"} /\ c.pc \in {"access", "copy"}
            /\ c.op \in {"onWriteReq", "onReadReq"} => t = "receiver"
            /\ c.no \in StoreNo /\ c.code \in 1 .. 3
            /\ DOMAIN c.got \subseteq Bytes /\ \A k \in DOMAIN c.got : c.got[k] \in StoreNo
            /\ c.after \subseteq StoreNo /\ c.beside \subseteq StoreNo
    /\ Len(stores) <= MaxStore /\ finished \subseteq StoreNo

(* One store was over before the other began; 0 is createBuffer. *)
Precedes(n, m) == m # 0 /\ (n = 0 \/ n \in stores[m].after)

(* A write request changes an item only if the item was open for writing   *)
(* at some moment of the handler, and a refused one changes nothing; it    *)
(* may still change it after the application closed it.  Code: onWriteReq, *)
(* setWrAccess, resetWrAccess.                                             *)
WrittenOnlyWhileOpen ==
    LET c == call["receiver"]
    IN c.op = "onWriteReq" /\ (\E i \in Item, k \in Bytes : buffer[i][k] = c.no)
         => c.opened /\ c.code = 1

(* A read may mix the bytes of several stores, but each is of this item    *)
(* and none is older than a store that had returned or had been            *)
(* acknowledged with 1 when the read began.  Code: onReadReq, getData,     *)
(* onWriteReq, updateData.                                                 *)
ReadRegular ==
    \A t \in Thread : call[t].op \in Reading =>
      \A k \in DOMAIN call[t].got :
        LET n == call[t].got[k]
        IN /\ n # 0 => stores[n].item = call[t].item
           /\ \A m \in call[t].after : stores[m].item = call[t].item => ~ Precedes(n, m)

(* A read, or an answer, that mixes two stores has a cause: they ran at    *)
(* one time, or one of them ran beside the read.  Code: as above.          *)
TornReadHasCause ==
    \A t \in Thread : call[t].op \in Reading =>
      \A k, l \in DOMAIN call[t].got :
        LET n == call[t].got[k]
            m == call[t].got[l]
        IN n = m \/ {n, m} \cap call[t].beside # {} \/ ~ (Precedes(n, m) \/ Precedes(m, n))

=============================================================================
