------------------------------- MODULE PubSub -------------------------------
(***************************************************************************)
(* Publish-subscribe of can-duck (Message.cpp, Message.hpp): channels,     *)
(* publishers, subscribers and the buffers they share, for several         *)
(* processes on one CAN bus.                                               *)
(*                                                                         *)
(* A channel belongs to one node and has two directions: what the owner    *)
(* publishes (is_tx = 1) and what the others send to the owner (is_tx =    *)
(* 0).  Each process keeps one buffer for each direction it has bound.     *)
(* Two threads run in a process: the application, which binds, subscribes  *)
(* and publishes, and the receive thread, which may run between any two    *)
(* steps of a publish call.                                                *)
(***************************************************************************)
EXTENDS CanFrame, ServoDict, FiniteSets, SequencesExt

CONSTANTS
    Node,       \* processes, each with one MessageContext
    CanNode,    \* the processes whose LLCanBus* is not nullptr
    Dict,       \* [Node -> [direction -> dictionary]]
    Ends,       \* [Node -> SUBSET (node id \X BOOLEAN)]: what a process may bind
    Offered,    \* [Node -> SUBSET (BOOLEAN \X index \X byte \X BOOLEAN)]: what it
                \* publishes, as owner or not, and whether local_only
    Form,       \* how messages are made: a subset of {"copy", "moved", "built"}
    Subscribed, \* [Node -> SUBSET (BOOLEAN \X index)]: where it has callbacks
    Reaction,   \* what callbacks publish in their turn: a function of
                \* <<process, is_owner, index>> to [index, byte]
    Junk,       \* bytes that uninitialised memory may hold
    QueueCap,   \* messages a device holds for its process
    MaxPublish  \* publications the applications start (bounds the model)

(* Directions, as the sub_id of a buffer and as is_tx in the header. *)
Bit(b) == IF b THEN 1 ELSE 0
Direction == {0, 1}

NodeId == {e[1] : e \in UNION {Ends[p] : p \in Node}}
Channel == NodeId \X Direction

(* No item is longer than the two bytes in the header of a message and the *)
(* 64 of its data area: the copies of Message.cpp into the message and     *)
(* into buf are not bounded otherwise.                                     *)
FitsMessages(dict) == \A i \in Indices(dict) : dict.data_size[i] <= DATALINK_MTU + 2

ASSUME PubSubAssumption ==
    /\ CanNode \subseteq Node
    /\ \A p \in Node, d \in Direction : /\ IsDict(Dict[p][d]) /\ WellLaidOut(Dict[p][d])
                                      /\ FitsMessages(Dict[p][d])
    /\ \A p \in Node : Ends[p] \subseteq (0 .. MAX_NODE_ID) \X BOOLEAN
    /\ \A p \in Node : /\ Offered[p] \subseteq BOOLEAN \X Nat \X Byte \X BOOLEAN
                      /\ \A m \in Offered[p] : m[2] \in Indices(Dict[p][Bit(m[1])])
    /\ \A slot \in DOMAIN Reaction :
         /\ Reaction[slot].index \in Indices(Dict[slot[1]][Bit(slot[2])])
         /\ Reaction[slot].byte \in Byte
    /\ Junk \subseteq Byte /\ Junk # {}
    /\ QueueCap \in Nat /\ MaxPublish \in Nat

VARIABLES
    publishers,     \* created_publishers with their local_sub_ptr
    subscribers,    \* created_subscribers with their callbacks
    shared_buffers, \* [Node -> the buffers created so far, by channel]
    call,           \* [Node -> Seq(call)]: the publish calls the application is in
    rx,             \* [Node -> Seq(packet)]: what can->read will return
    crashed,        \* processes stopped by a failed USER_ASSERT
    started,        \* publications started so far
    log,            \* history: the publications, in the order their calls end
    since,          \* history: the length of log when a channel was bound
    seen,           \* history: the last entry of log a process applied, by channel
    missed          \* history: processes that a message did not reach

bindVars    == <<publishers, subscribers, since>>
historyVars == <<log, since, seen, missed>>
vars == <<publishers, subscribers, shared_buffers, call, rx, crashed, started, historyVars>>

Up(p) == p \notin crashed

Idle(p) == Up(p) /\ call[p] = <<>>

-----------------------------------------------------------------------------
(* Binding.                                                                *)

(* The two ends of a link: same node, opposite ownership. *)
Linked(pub, sub) == pub.node_id = sub.node_id /\ pub.is_owner # sub.is_owner

PublishChannel(pub)   == <<pub.node_id, Bit(pub.is_owner)>>
SubscribeChannel(sub) == <<sub.node_id, Bit(~ sub.is_owner)>>

getSharedBuffer(buffers, p, ch) ==
    [c \in DOMAIN buffers \cup {ch} |->
       IF c \in DOMAIN buffers THEN buffers[c] ELSE createBuffer(Dict[p][c[2]])]

(* The loop of a new publisher over the subscribers: it takes each that is *)
(* linked to it, in their order.                                           *)
TakenFrom(subs, pub) ==
    LET taken[n \in 0 .. Len(subs)] ==
          IF n = 0 THEN <<>>
          ELSE IF Linked(pub, subs[n]) THEN Append(taken[n - 1], n) ELSE taken[n - 1]
    IN taken

bindPublisherToChannel(subs, id, owner) ==
    LET pub == [node_id |-> id, is_owner |-> owner, local_sub_ptr |-> <<>>]
    IN [pub EXCEPT !.local_sub_ptr = TakenFrom(subs, pub)[Len(subs)]]

(* Mutants: a subscriber that is bound late stays without local publisher, *)
(* and a publisher takes the subscriber that comes after it.               *)
registerLocallyNot(pubs, sub, number) == pubs

registerLocallyNext(pubs, sub, number) ==
    [k \in DOMAIN pubs |->
       IF Linked(pubs[k], sub)
       THEN [pubs[k] EXCEPT !.local_sub_ptr = Append(@, number + 1)] ELSE pubs[k]]

(* The publishers there are take the new subscriber. *)
registerLocally(pubs, sub, number) ==
    [k \in DOMAIN pubs |->
       IF Linked(pubs[k], sub)
       THEN [pubs[k] EXCEPT !.local_sub_ptr = Append(@, number)] ELSE pubs[k]]

(* One publisher and one subscriber: the owner publishes the transmit      *)
(* dictionary, the others the receive dictionary.  The model binds an end  *)
(* at most once in a process.                                              *)
bindChannel(p, id, owner) ==
    LET pub == bindPublisherToChannel(subscribers[p], id, owner)
        sub == [node_id |-> id, is_owner |-> owner, callbacks |-> {}]
        ch1 == PublishChannel(pub)
        ch2 == SubscribeChannel(sub)
    IN /\ Idle(p)
       /\ ~ \E k \in DOMAIN subscribers[p] :
              subscribers[p][k].node_id = id /\ subscribers[p][k].is_owner = owner
       /\ publishers' = [publishers EXCEPT ![p] =
                           registerLocally(Append(@, pub), sub, Len(subscribers[p]) + 1)]
       /\ subscribers' = [subscribers EXCEPT ![p] = Append(@, sub)]
       /\ shared_buffers' = [shared_buffers EXCEPT ![p] =
                               getSharedBuffer(getSharedBuffer(@, p, ch1), p, ch2)]
       /\ since' = [since EXCEPT ![p][ch2] = Len(log)]
       /\ UNCHANGED <<call, rx, crashed, started, log, seen, missed>>

(* Subscriber::subscribe: the callback of one item. *)
subscribe(p, k, i) ==
    /\ Idle(p)
    /\ k \in DOMAIN subscribers[p]
    /\ i < Dict[p][SubscribeChannel(subscribers[p][k])[2]].dictSize
    /\ subscribers' = [subscribers EXCEPT ![p][k].callbacks = @ \cup {i}]
    /\ UNCHANGED <<publishers, shared_buffers, call, rx, crashed, started, historyVars>>

-----------------------------------------------------------------------------
(* Publishing.                                                             *)

(* The message an application makes of an item, all of its bytes equal:    *)
(* a copy of the item, or the result of DictItem::operator().              *)
Message(p, ch, i, byte, form) ==
    LET data == [k \in 1 .. Dict[p][ch[2]].data_size[i] |-> byte]
    IN IF form = "built" THEN DictItemCall(i, data) ELSE DictItem(Dict[p][ch[2]], i, data)

(* The overload for an lvalue calls the other one without local_only. *)
PassedLocalOnly(form, local_only) == local_only /\ form # "copy"

(* The beginning of publish: the message goes into the shared buffer of    *)
(* the publisher's channel, then the call looks at its subscribers.        *)
Begin(p, k, i, byte, form, local_only, stack) ==
    LET ch  == PublishChannel(publishers[p][k])
        msg == Message(p, ch, i, byte, form)
    IN /\ shared_buffers' = [shared_buffers EXCEPT ![p][ch] = handleSerialize(msg, @)]
       /\ call' = [call EXCEPT ![p] =
                     Append(stack, [pub |-> k, index |-> i, data |-> msg.data, next |-> 1,
                                    local_only |-> PassedLocalOnly(form, local_only)])]

publish(p, k, i, byte, form, local_only) ==
    /\ Idle(p) /\ started < MaxPublish
    /\ k \in DOMAIN publishers[p]
    /\ <<publishers[p][k].is_owner, i, byte, local_only>> \in Offered[p]
    /\ Begin(p, k, i, byte, form, local_only, <<>>)
    /\ started' = started + 1
    /\ UNCHANGED <<publishers, subscribers, rx, crashed, historyVars>>

Top(p) == Last(call[p])
TopPublisher(p) == publishers[p][Top(p).pub]
Notifying(p) == Up(p) /\ call[p] # <<>> /\ Top(p).next <= Len(TopPublisher(p).local_sub_ptr)

(* The loop over local_sub_ptr: Subscriber::notify of the next one.  A     *)
(* callback that publishes in its turn does so with the publisher that was *)
(* bound together with its subscriber, and that call runs to its end       *)
(* before the outer one goes on.                                           *)
notify(p) ==
    /\ Notifying(p)
    /\ LET s == TopPublisher(p).local_sub_ptr[Top(p).next]
           slot == <<p, subscribers[p][s].is_owner, Top(p).index>>
           advanced == [call[p] EXCEPT ![Len(call[p])].next = @ + 1]
       IN IF Top(p).index \in subscribers[p][s].callbacks /\ slot \in DOMAIN Reaction
          THEN Begin(p, s, Reaction[slot].index, Reaction[slot].byte, "copy", FALSE, advanced)
          ELSE /\ call' = [call EXCEPT ![p] = advanced]
               /\ UNCHANGED shared_buffers
    /\ UNCHANGED <<publishers, subscribers, rx, crashed, started, historyVars>>

Finishing(p) == Up(p) /\ call[p] # <<>> /\ ~ Notifying(p)

Returned(p) == call' = [call EXCEPT ![p] = Front(@)]

(* The call of the model's history: what was published, and whether it     *)
(* goes on the bus.                                                        *)
Entry(p, sent) ==
    [from |-> p, channel |-> PublishChannel(TopPublisher(p)), index |-> Top(p).index,
     data |-> Top(p).data, sent |-> sent]

ReturnLocally(p) ==
    /\ Finishing(p) /\ Top(p).local_only
    /\ Returned(p)
    /\ log' = Append(log, Entry(p, FALSE))
    /\ UNCHANGED <<bindVars, shared_buffers, rx, crashed, started, seen, missed>>

(* The bus takes a message to every other process with a device. *)
Hears(p, q) == p \in CanNode /\ q \in CanNode \ {p}

(* The end of publish: the frame is built from the message, not from the   *)
(* buffer, and given to __sendFrame, which does nothing without a device.  *)
(* A device without room loses the message.                                *)
Send(p) ==
    LET ch     == PublishChannel(TopPublisher(p))
        packet == [no |-> Len(log) + 1,
                   msg |-> fastMessageBuilder(ch[1], ch[2], Top(p).index, Top(p).data)]
    IN /\ Finishing(p) /\ ~ Top(p).local_only
       /\ BuilderAccepts(ch[1], ch[2], Top(p).index, Top(p).data)
       /\ log' = Append(log, Entry(p, p \in CanNode))
       /\ rx' = [q \in Node |-> IF Hears(p, q) /\ Len(rx[q]) < QueueCap
                                THEN Append(rx[q], packet) ELSE rx[q]]
       /\ missed' = missed \cup {q \in Node : Hears(p, q) /\ Len(rx[q]) >= QueueCap}
       /\ Returned(p)
       /\ UNCHANGED <<bindVars, shared_buffers, crashed, started, seen>>

(* A message id above 7 fails an assertion of the builder.                 *)
SendAsserts(p) ==
    /\ Finishing(p) /\ ~ Top(p).local_only
    /\ LET ch == PublishChannel(TopPublisher(p))
       IN ~ BuilderAccepts(ch[1], ch[2], Top(p).index, Top(p).data)
    /\ crashed' = crashed \cup {p}
    /\ UNCHANGED <<bindVars, shared_buffers, call, rx, started, log, seen, missed>>

-----------------------------------------------------------------------------
(* Reception.                                                              *)

(* Mutant: the owner hears its own messages, not those it is sent. *)
MatchingOwnSide(p, msg) ==
    {k \in DOMAIN subscribers[p] :
       /\ subscribers[p][k].node_id = node_id(msg.id)
       /\ Bit(subscribers[p][k].is_owner) = is_tx(msg.id)}

(* The subscribers of the message's node on the other side of it; the last *)
(* one is taken.                                                           *)
Matching(p, msg) ==
    {k \in DOMAIN subscribers[p] :
       /\ subscribers[p][k].node_id = node_id(msg.id)
       /\ Bit(subscribers[p][k].is_owner) = 1 - is_tx(msg.id)}

(* Mutant: as many bytes as were received. *)
AllBytes(dict, i, received, junk) == received

(* MsgDictSingleWrite takes as many bytes as the item has, whatever the    *)
(* length received: those beyond it are what buf held before.              *)
ItemBytes(dict, i, received, junk) ==
    [k \in 1 .. dict.data_size[i] |-> IF k <= Len(received) THEN received[k] ELSE junk]

(* Mutant: the last item is refused. *)
PassesWriteCheckLess(dict, i) == i + 1 < dict.dictSize

PassesWriteCheck(dict, i) == i <= dict.dictSize

Accepts(p, msg) == IsFastMsg(msg) /\ Matching(p, msg) # {}

(* One message, to the end of the handler.  The index dictSize() passes    *)
(* the check and fails the assertion of getObjBaseByIndex.                 *)
HandleMessage(p) ==
    /\ Up(p) /\ rx[p] # <<>>
    /\ rx' = [rx EXCEPT ![p] = Tail(@)]
    /\ LET msg  == Head(rx[p]).msg
           i    == fast_msg_id(msg.id)
           ch   == SubscribeChannel(subscribers[p][Max(Matching(p, msg))])
           dict == Dict[p][ch[2]]
       IN \/ /\ Accepts(p, msg) /\ i < dict.dictSize
             /\ \E junk \in Junk :
                  shared_buffers' = [shared_buffers EXCEPT ![p][ch] =
                    memcpy(@, dict.buffer_offset[i],
                           ItemBytes(dict, i, ReceivedBytes(msg), junk))]
             /\ seen' = [seen EXCEPT ![p][ch] = Head(rx[p]).no]
             /\ UNCHANGED crashed
          \/ /\ Accepts(p, msg) /\ PassesWriteCheck(dict, i) /\ i >= dict.dictSize
             /\ crashed' = crashed \cup {p}
             /\ UNCHANGED <<shared_buffers, seen>>
          \/ /\ Accepts(p, msg) => ~ PassesWriteCheck(dict, i)
             /\ UNCHANGED <<shared_buffers, seen, crashed>>
    /\ UNCHANGED <<publishers, subscribers, call, started, log, since, missed>>

-----------------------------------------------------------------------------
(* The specification.                                                      *)

Init ==
    /\ publishers = [p \in Node |-> <<>>]
    /\ subscribers = [p \in Node |-> <<>>]
    /\ shared_buffers = [p \in Node |-> [ch \in {} |-> <<>>]]
    /\ call = [p \in Node |-> <<>>]
    /\ rx = [p \in Node |-> <<>>]
    /\ crashed = {} /\ started = 0
    /\ log = <<>> /\ missed = {}
    /\ since = [p \in Node |-> [ch \in Channel |-> 0]]
    /\ seen = [p \in Node |-> [ch \in Channel |-> 0]]

Application(p) ==
    \/ \E e \in Ends[p] : bindChannel(p, e[1], e[2])
    \/ \E k \in DOMAIN subscribers[p] : \E slot \in Subscribed[p] :
         slot[1] = subscribers[p][k].is_owner /\ subscribe(p, k, slot[2])
    \/ \E k \in DOMAIN publishers[p], m \in Offered[p], form \in Form :
         publish(p, k, m[2], m[3], form, m[4])

CallStep(p) == notify(p) \/ ReturnLocally(p) \/ Send(p) \/ SendAsserts(p)

Next == \E p \in Node : Application(p) \/ CallStep(p) \/ HandleMessage(p)

Spec == Init /\ [][Next]_vars

(* A process with a call to finish or a message to handle goes on. *)
Fairness == \A p \in Node : WF_vars(CallStep(p) \/ HandleMessage(p))

FairSpec == Spec /\ Fairness

-----------------------------------------------------------------------------
(* Properties.                                                             *)

(* What a process reads of an item: readBuffer. *)
readBuffer(p, ch, i) == deserialize(Dict[p][ch[2]], i, shared_buffers[p][ch])

Items(p, ch) == 0 .. (Dict[p][ch[2]].dictSize - 1)

Bound(p, ch) == \E k \in DOMAIN subscribers[p] : SubscribeChannel(subscribers[p][k]) = ch

(* The processes whose publications a channel carries, and those that read *)
(* it with the dictionary it is written with.                              *)
Writers ==
    [ch \in Channel |->
       {p \in Node : \E e \in Ends[p] :
          /\ <<e[1], Bit(e[2])>> = ch
          /\ \/ \E m \in Offered[p] : m[1] = e[2] /\ (m[2] <= 7 \/ m[4])
             \/ \E slot \in DOMAIN Reaction : slot[1] = p /\ slot[2] = e[2]}]

Agreeing ==
    [ch \in Channel |->
       {p \in Node : \A q \in Writers[ch] : Dict[q][ch[2]] = Dict[p][ch[2]]}]

(* The newest publication of an item, after the k first ones. *)
Newest(ch, i, k, sent) ==
    LET es == {e \in (k + 1) .. Len(log) : /\ log[e].channel = ch /\ log[e].index = i
                                           /\ sent => log[e].sent}
    IN IF es = {} THEN <<>> ELSE log[Max(es)].data

(* The tables hold channels that may be bound and links to subscribers     *)
(* that exist, buffers keep the length of their struct, and no packet is   *)
(* ahead of the publications.                                              *)
TypeOK ==
    /\ \A p \in Node :
         /\ \A k \in DOMAIN publishers[p] :
              /\ <<publishers[p][k].node_id, publishers[p][k].is_owner>> \in Ends[p]
              /\ \A j \in DOMAIN publishers[p][k].local_sub_ptr :
                   publishers[p][k].local_sub_ptr[j] \in DOMAIN subscribers[p]
         /\ \A ch \in DOMAIN shared_buffers[p] :
              shared_buffers[p][ch] \in [0 .. (Dict[p][ch[2]].bytes - 1) -> Byte]
         /\ \A k \in DOMAIN rx[p] : rx[p][k].no \in 1 .. Len(log)
         /\ seen[p] \in [Channel -> 0 .. Len(log)] /\ since[p] \in [Channel -> 0 .. Len(log)]
    /\ crashed \subseteq Node /\ missed \subseteq Node /\ started \in 0 .. MaxPublish

(* Every publisher reaches every subscriber on the other side of its node  *)
(* in the process, once, whichever of them was bound first, and they share *)
(* one buffer.  Code: bindPublisherToChannel, bindSubscriberToChannel.     *)
LinkedOnce ==
    \A p \in Node : \A k \in DOMAIN publishers[p], s \in DOMAIN subscribers[p] :
      LET pub == publishers[p][k]
          sub == subscribers[p][s]
          links == {j \in DOMAIN pub.local_sub_ptr : pub.local_sub_ptr[j] = s}
      IN Cardinality(links) = IF PublishChannel(pub) = SubscribeChannel(sub) THEN 1 ELSE 0

(* A callback that is told of a publication reads that publication, not an *)
(* older value and no later one, if nobody but its process writes the      *)
(* channel.  Code: publish, Subscriber::notify, handleSerialize.           *)
CallbackReadsIt ==
    \A p \in Node :
      Notifying(p) =>
        LET ch == PublishChannel(TopPublisher(p))
        IN Writers[ch] = {p} => readBuffer(p, ch, Top(p).index) = Top(p).data

(* While publish runs, its message lies in the shared buffer, if nobody    *)
(* else writes the channel.  The comment at Message.cpp:275 says that the  *)
(* data are copied into the shared memory first, the one at                *)
(* SerDesDict.hpp:51 that Dict.item(value) is a copy of the item.          *)
PublishedLocally ==
    \A p \in Node : Up(p) /\ call[p] # <<>> =>
      LET ch == PublishChannel(TopPublisher(p))
      IN Writers[ch] = {p} => readBuffer(p, ch, Top(p).index) = Top(p).data

(* What a process reads of a channel that only it writes is what its last  *)
(* finished publish call published: calls nested in callbacks bring no     *)
(* older value back.  Code: publish, DictItem.                             *)
WriterReadsLast ==
    \A p \in Node, ch \in Channel : Idle(p) /\ Writers[ch] = {p} /\ Bound(p, ch) =>
      \A i \in Items(p, ch) :
        Newest(ch, i, 0, FALSE) # <<>> => readBuffer(p, ch, i) = Newest(ch, i, 0, FALSE)

(* The ends that hear a channel they do not write. *)
Remote == {x \in CanNode \X Channel : x[1] \in Agreeing[x[2]] \ Writers[x[2]]}

(* Every item has the newest value that was sent since the process bound.  *)
UpToDate(p, ch) ==
    \A i \in Items(p, ch) : Newest(ch, i, since[p][ch], TRUE) # <<>> =>
      readBuffer(p, ch, i) = Newest(ch, i, since[p][ch], TRUE)

Reads(p, ch) == Up(p) /\ p \notin missed /\ Bound(p, ch)

(* A reader that missed nothing and has nothing left to receive holds, for *)
(* every item, the newest value that was sent since it was bound.          *)
(* Code: fastMessageBuilder, __handleRecv, MsgDictSingleWrite, in the      *)
(* order of one bus.                                                       *)
CurrentWhenDrained ==
    \A x \in Remote : Reads(x[1], x[2]) /\ rx[x[1]] = <<>> => UpToDate(x[1], x[2])

(* No step of a process changes the bytes of two items, whatever lengths   *)
(* and indices the messages of another dictionary bring.  Code:            *)
(* MsgDictSingleWrite, handleSerialize.                                    *)
OneItemAtATime ==
    [][\A p \in Node : shared_buffers[p] # shared_buffers'[p] =>
         LET changed == {x \in UNION {{ch} \X Items(p, ch) : ch \in DOMAIN shared_buffers[p]} :
                           readBuffer(p, x[1], x[2])' # readBuffer(p, x[1], x[2])}
         IN Cardinality(changed) <= 1]_shared_buffers

(* When the applications stop publishing, every call returns and every     *)
(* reader that missed nothing ends up with the newest values.  Code: the   *)
(* loop of Context, publish.                                               *)
Converges ==
    <>[](/\ \A p \in Node : Up(p) => call[p] = <<>>
         /\ \A x \in Remote : Reads(x[1], x[2]) => UpToDate(x[1], x[2]))

=============================================================================
