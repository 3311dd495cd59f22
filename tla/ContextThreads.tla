--------------------------- MODULE ContextThreads ---------------------------
(***************************************************************************)
(* One Context (Context.hpp, Context.cpp): the receive thread that its     *)
(* constructor starts, and the application that meanwhile makes servers,   *)
(* binds clients and channels, reads buffers and destroys the context.     *)
(* They share the tables of ServiceContext and MessageContext, the buffers *)
(* and stop_flag, and there is no lock: each step below is one access.     *)
(*                                                                         *)
(* What the handlers of servers and clients do is in ParamService and, by  *)
(* the byte, in ServiceThreads, what a message does to a dictionary in     *)
(* PubSub; here a service handler is counted, and the item of a message is *)
(* ItemSize bytes that are copied one by one.                              *)
(***************************************************************************)
EXTENDS Integers, Sequences

CONSTANTS
    Servers,    \* the addresses the application gives to makeServer
    Clients,    \* the pairs <<server_addr, client_addr>> it gives to bindServer
    Channel,    \* what it gives to bindChannel: each stands for one buffer
    Frame,      \* what may arrive: [kind : {"msg", "req", "ack"}, to : address or channel]
    ItemSize,   \* bytes of an item
    MAX_LOCAL_NODE_NUM, \* the entries a table is made for
    MaxBind,    \* subscribers of the context (bounds the model)
    MaxFrame    \* frames that arrive (bounds the model)

ASSUME ContextAssumption ==
    /\ Frame \subseteq [kind : {"msg", "req", "ack"}, to : Int]
    /\ Clients \subseteq Int \X Int /\ Servers \subseteq Int
    /\ \A f \in Frame : f.kind = "msg" => f.to \in Channel
    /\ ItemSize \in Nat \ {0}
    /\ MAX_LOCAL_NODE_NUM \in Nat /\ MaxBind \in Nat /\ MaxFrame \in Nat

VARIABLES
    (* the application *)
    life,               \* "running", "stopping" (in the destructor), "destroyed"
    reading,            \* the readBuffer call: channel, bytes got so far, and history
    (* shared *)
    stop_flag,
    created_servers,    \* Seq([address, server_addr])
    created_clients,    \* Seq([address, server_addr])
    created_subscribers,\* Seq(channel)
    buffer,             \* [Channel -> [1 .. ItemSize -> message number]]
    (* the receive thread *)
    pc,                 \* "poll", "got", "subscribers", "copy", "walk", "exited"
    next, end,          \* its position in the table it walks, and where that ends
    subscriber,         \* the subscriber it has found, 0 for none
    copied,             \* the bytes memcpy has written
    (* history *)
    frames,             \* what has arrived
    taken,              \* how many frames can->read has given
    due,                \* frames whose server or client existed when they were taken
    handled,            \* [frame number -> how often a handler ran for it]
    written             \* [Channel -> the last message copied in full]

appVars    == <<life, reading>>
tables     == <<created_servers, created_clients, created_subscribers>>
threadVars == <<pc, next, end, subscriber, copied>>
history    == <<taken, due, handled, written>>
vars == <<appVars, stop_flag, tables, buffer, threadVars, frames, history>>

FrameNo == 1 .. MaxFrame
Bytes   == 1 .. ItemSize

Current == frames[taken]

-----------------------------------------------------------------------------
(* The application: the tables.  makeServer and bindServer look for the    *)
(* address they are given first.                                           *)

Registered(table, address) == \E i \in DOMAIN table : table[i].address = address

(* Mutant: the entry is added whether there is one or not. *)
RegisterAnew(table, address, server_addr) ==
    Append(table, [address |-> address, server_addr |-> server_addr])

Register(table, address, server_addr) ==
    IF Registered(table, address) THEN table
    ELSE Append(table, [address |-> address, server_addr |-> server_addr])

(* No table outgrows what it was made for: Common.hpp names the number of  *)
(* local nodes supported, and what a Vector does beyond is not in src.     *)
HasRoom(table) == Len(table) < MAX_LOCAL_NODE_NUM

makeServer(address) ==
    /\ life = "running"
    /\ HasRoom(created_servers) \/ Registered(created_servers, address)
    /\ created_servers' = Register(created_servers, address, address)
    /\ UNCHANGED <<appVars, stop_flag, created_clients, created_subscribers, buffer,
                   threadVars, frames, history>>

(* The address of the client alone is compared. *)
bindServer(server_addr, client_addr) ==
    /\ life = "running"
    /\ HasRoom(created_clients) \/ Registered(created_clients, client_addr)
    /\ created_clients' = Register(created_clients, client_addr, server_addr)
    /\ UNCHANGED <<appVars, stop_flag, created_servers, created_subscribers, buffer,
                   threadVars, frames, history>>

(* A channel may be bound again: it keeps its buffer. *)
bindChannel(channel) ==
    /\ life = "running" /\ Len(created_subscribers) < MaxBind
    /\ created_subscribers' = Append(created_subscribers, channel)
    /\ UNCHANGED <<appVars, stop_flag, created_servers, created_clients, buffer,
                   threadVars, frames, history>>

-----------------------------------------------------------------------------
(* The application: readBuffer copies an item out, byte by byte.           *)

NotReading == [channel |-> 0, got |-> [k \in {} |-> 0], oldest |-> 0, alone |-> TRUE]

Copying(channel) == pc = "copy" /\ created_subscribers[subscriber] = channel

Finished(r) == DOMAIN r.got = Bytes

(* A finished read lies there until the next one begins. *)
beginRead(k) ==
    /\ life = "running" /\ k \in DOMAIN created_subscribers
    /\ reading.channel = 0 \/ Finished(reading)
    /\ LET channel == created_subscribers[k]
       IN reading' = [NotReading EXCEPT !.channel = channel,
                                        !.oldest = written[channel],
                                        !.alone = ~ Copying(channel)]
    /\ UNCHANGED <<life, stop_flag, tables, buffer, threadVars, frames, history>>

readByte(k) ==
    /\ life = "running" /\ reading.channel # 0 /\ k \notin DOMAIN reading.got
    /\ reading' = [reading EXCEPT !.got =
                     [j \in DOMAIN @ \cup {k} |-> IF j = k THEN buffer[reading.channel][k] ELSE @[j]]]
    /\ UNCHANGED <<life, stop_flag, tables, buffer, threadVars, frames, history>>

-----------------------------------------------------------------------------
(* The application: the destructor.                                        *)

(* Mutant: the flag is forgotten. *)
stopNot == UNCHANGED stop_flag

stop == stop_flag' = TRUE

destroy ==
    /\ life = "running"
    /\ reading.channel = 0 \/ Finished(reading)
    /\ life' = "stopping"
    /\ stop
    /\ UNCHANGED <<reading, tables, buffer, threadVars, frames, history>>

(* Mutant: the destructor does not wait. *)
joinedNot == TRUE

joined == pc = "exited"

(* spin: the join returns, the thread object is deleted and the tables go. *)
spin ==
    /\ life = "stopping" /\ joined
    /\ life' = "destroyed"
    /\ UNCHANGED <<reading, stop_flag, tables, buffer, threadVars, frames, history>>

-----------------------------------------------------------------------------
(* The receive thread.                                                     *)

Arrive(f) ==
    /\ Len(frames) < MaxFrame
    /\ frames' = Append(frames, f)
    /\ UNCHANGED <<appVars, stop_flag, tables, buffer, threadVars, history>>

(* The table that a service frame is looked up in. *)
TableFor(f) == IF f.kind = "req" THEN created_servers ELSE created_clients

(* while (!stop_flag) *)
exit ==
    /\ pc = "poll" /\ stop_flag
    /\ pc' = "exited"
    /\ UNCHANGED <<appVars, stop_flag, tables, buffer, next, end, subscriber, copied,
                   frames, history>>

(* recvPolling: can->read gives the next frame; without one, nothing. *)
recvPolling ==
    /\ pc = "poll" /\ ~ stop_flag
    /\ taken < Len(frames)
    /\ taken' = taken + 1
    /\ due' = IF frames[taken'].kind # "msg" /\ Registered(TableFor(frames[taken']), frames[taken'].to)
              THEN due \cup {taken'} ELSE due
    /\ pc' = "got"
    /\ UNCHANGED <<appVars, stop_flag, tables, buffer, next, end, subscriber, copied,
                   frames, handled, written>>

(* Mutant: the message context keeps the frames of the service context. *)
TakesAll(f) == TRUE

(* What MessageContext::__handleRecv answers. *)
TakesMessage(f) == f.kind = "msg"

(* Mutant: one entry too many. *)
EndOfBeyond(table) == Len(table) + 1

EndOf(table) == Len(table)

(* A frame that is no message goes to the service context; the range-for   *)
(* over a Vector takes its end once, at the start.                         *)
handleRecv ==
    /\ pc = "got"
    /\ next' = 1
    /\ IF TakesMessage(Current)
       THEN pc' = "subscribers" /\ subscriber' = 0 /\ UNCHANGED end
       ELSE pc' = "walk" /\ end' = EndOf(TableFor(Current)) /\ UNCHANGED subscriber
    /\ UNCHANGED <<appVars, stop_flag, tables, buffer, copied, frames, history>>

(* The list of subscribers may grow while it is walked; the last match is  *)
(* the one that counts.                                                    *)
walkSubscribers ==
    /\ pc = "subscribers" /\ next <= Len(created_subscribers)
    /\ subscriber' = IF created_subscribers[next] = Current.to THEN next ELSE subscriber
    /\ next' = next + 1
    /\ UNCHANGED <<appVars, stop_flag, tables, buffer, pc, end, copied, frames, history>>

(* A message nobody subscribed to is dropped. *)
foundSubscriber ==
    /\ pc = "subscribers" /\ next > Len(created_subscribers)
    /\ pc' = IF subscriber = 0 THEN "poll" ELSE "copy"
    /\ copied' = {}
    /\ reading' = IF subscriber # 0 /\ reading.channel = created_subscribers[subscriber]
                     /\ ~ Finished(reading)
                  THEN [reading EXCEPT !.alone = FALSE] ELSE reading
    /\ UNCHANGED <<life, stop_flag, tables, buffer, next, end, subscriber, frames, history>>

(* Mutant: the last byte is left out. *)
InFullButOne(bytes) == bytes = 1 .. (ItemSize - 1)

InFull(bytes) == bytes = Bytes

(* MsgDictSingleWrite: memcpy, in any order. *)
copyByte(k) ==
    LET channel == created_subscribers[subscriber]
    IN /\ pc = "copy" /\ k \notin copied
       /\ buffer' = [buffer EXCEPT ![channel][k] = taken]
       /\ copied' = copied \cup {k}
       /\ IF InFull(copied')
          THEN pc' = "poll" /\ written' = [written EXCEPT ![channel] = taken]
          ELSE UNCHANGED <<pc, written>>
       /\ UNCHANGED <<appVars, stop_flag, tables, next, end, subscriber, frames,
                      taken, due, handled>>

(* ServiceContext::__handleRecv: every entry of the frame's destination.   *)
walkTable ==
    /\ pc = "walk" /\ next <= end
    /\ handled' = IF TableFor(Current)[next].address = Current.to
                  THEN [handled EXCEPT ![taken] = @ + 1] ELSE handled
    /\ next' = next + 1
    /\ UNCHANGED <<appVars, stop_flag, tables, buffer, pc, end, subscriber, copied, frames,
                   taken, due, written>>

walkEnds ==
    /\ pc = "walk" /\ next > end
    /\ pc' = "poll"
    /\ UNCHANGED <<appVars, stop_flag, tables, buffer, next, end, subscriber, copied, frames,
                   history>>

-----------------------------------------------------------------------------
(* The specification.                                                      *)

(* What the constructor leaves: the members come first, the thread last.   *)
Init ==
    /\ life = "running" /\ reading = NotReading /\ stop_flag = FALSE
    /\ created_servers = <<>> /\ created_clients = <<>> /\ created_subscribers = <<>>
    /\ buffer = [c \in Channel |-> [k \in Bytes |-> 0]]
    /\ pc = "poll" /\ next = 1 /\ end = 0 /\ subscriber = 0 /\ copied = {}
    /\ frames = <<>> /\ taken = 0 /\ due = {}
    /\ handled = [n \in FrameNo |-> 0]
    /\ written = [c \in Channel |-> 0]

Application ==
    \/ \E a \in Servers : makeServer(a)
    \/ \E c \in Clients : bindServer(c[1], c[2])
    \/ \E c \in Channel : bindChannel(c)
    \/ \E k \in DOMAIN created_subscribers : beginRead(k)
    \/ \E k \in Bytes : readByte(k)
    \/ destroy
    \/ spin

ReceiveThread ==
    \/ exit \/ recvPolling \/ handleRecv
    \/ walkSubscribers \/ foundSubscriber \/ \E k \in Bytes : copyByte(k)
    \/ walkTable \/ walkEnds

Next == Application \/ ReceiveThread \/ \E f \in Frame : Arrive(f)

Spec == Init /\ [][Next]_vars

(* The system runs the thread, and a join returns once it can. *)
Fairness == WF_vars(ReceiveThread) /\ WF_vars(spin)

FairSpec == Spec /\ Fairness

-----------------------------------------------------------------------------
(* Properties.                                                             *)

Table == Seq([address : Int, server_addr : Int])

(* Among the types: no walk leads beyond its table. *)
TypeOK ==
    /\ life \in {"running", "stopping", "destroyed"} /\ stop_flag \in BOOLEAN
    /\ created_servers \in Table /\ created_clients \in Table
    /\ created_subscribers \in Seq(Channel)
    /\ buffer \in [Channel -> [Bytes -> 0 .. MaxFrame]]
    /\ pc \in {"poll", "got", "subscribers", "copy", "walk", "exited"}
    /\ next \in Nat \ {0} /\ end \in Nat /\ copied \subseteq Bytes
    /\ subscriber \in 0 .. Len(created_subscribers)
    /\ frames \in Seq(Frame) /\ Len(frames) <= MaxFrame /\ taken \in 0 .. Len(frames)
    /\ due \subseteq 1 .. taken
    /\ pc \in {"got", "subscribers", "copy", "walk"} => taken >= 1
    /\ pc = "walk" => end <= Len(TableFor(Current))
    /\ handled \in [FrameNo -> Nat] /\ written \in [Channel -> 0 .. MaxFrame]

(* No two servers and no two clients of a context have one address, which  *)
(* ParamService takes for granted: the comment at Service.cpp:196 allows   *)
(* one server of an address.  Code: makeServer, bindServer.                *)
Unique(table) ==
    \A i, j \in DOMAIN table : table[i].address = table[j].address => i = j

OneInstancePerAddress == Unique(created_servers) /\ Unique(created_clients)

(* The frames the thread has done with. *)
Done(n) == n < taken \/ (n = taken /\ pc \in {"poll", "exited"})

(* A frame runs one handler if its server or client existed when it was    *)
(* read from the device, and at most one otherwise, whatever is added to   *)
(* the tables while the thread walks them.  Code: recvPolling,             *)
(* ServiceContext::__handleRecv, makeServer, bindServer.                   *)
HandledOnce ==
    \A n \in 1 .. taken :
      handled[n] <= 1 /\ (Done(n) /\ n \in due => handled[n] = 1)

(* The destructor leaves nothing half done: when it returns, every message *)
(* that was begun lies in its buffer in full and every frame that was due  *)
(* has run its handler.  Code: ~Context, stop, spin, the thread's loop.    *)
NothingHalfDone ==
    life = "destroyed" =>
      /\ \A c \in Channel, k \in Bytes : buffer[c][k] = written[c]
      /\ \A n \in due : handled[n] = 1

(* A read may mix bytes of several messages, but none is older than the    *)
(* last one that was complete when it began, and all are of the channel.   *)
(* Code: readBuffer, MsgDictSingleWrite.                                   *)
ReadRegular ==
    \A k \in DOMAIN reading.got :
      LET n == reading.got[k]
      IN /\ n >= reading.oldest
         /\ n > 0 => frames[n] = [kind |-> "msg", to |-> reading.channel]

(* A read that no copy overlaps returns one message, the last. *)
WholeWhenAlone ==
    reading.alone => \A k \in DOMAIN reading.got : reading.got[k] = reading.oldest

(* The destructor returns, however many frames wait.  Code: stop, spin and *)
(* the loop of the thread.                                                 *)
DestructorReturns == life = "stopping" ~> life = "destroyed"

(* A request that waits at the device for a server that exists is handled  *)
(* unless the context is destroyed first.  Code: recvPolling.              *)
EveryRequestHandled ==
    \A n \in FrameNo :
      /\ n \in (taken + 1) .. Len(frames) /\ frames[n].kind = "req"
      /\ Registered(created_servers, frames[n].to)
      ~> handled[n] = 1 \/ stop_flag

=============================================================================
