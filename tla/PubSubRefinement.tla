-------------------------- MODULE PubSubRefinement --------------------------
(***************************************************************************)
(* PubSub implements Dissemination for the readers whose dictionary is the *)
(* one their channel is written with, as long as messages are made by      *)
(* copying an item.                                                        *)
(***************************************************************************)
EXTENDS PubSub

Readers ==
    {r \in Node \X Channel : /\ r[1] \in Agreeing[r[2]]
                             /\ \E e \in Ends[r[1]] : <<e[1], Bit(~ e[2])>> = r[2]}

(* The indices of any of the dictionaries. *)
AnyIndex == UNION {Items(p, ch) : p \in Node, ch \in Channel}

(* The item as createBuffer leaves it. *)
Zero(p, ch, i) ==
    IF i \in Items(p, ch) THEN [k \in 1 .. Dict[p][ch[2]].data_size[i] |-> 0] ELSE <<>>

Zeroes == [r \in Readers |-> [i \in AnyIndex |-> Zero(r[1], r[2], i)]]

PublicationOf(ch, i, data) == [channel |-> ch, index |-> i, data |-> data]

(* What the application of a process and its callbacks publish, as owner   *)
(* or not.                                                                 *)
MayPublish(p) ==
    {<<m[1], m[2], m[3]>> : m \in Offered[p]}
      \cup {<<slot[2], Reaction[slot].index, Reaction[slot].byte>> :
              slot \in {t \in DOMAIN Reaction : t[1] = p}}

PublishedOn(p, ch) ==
    {PublicationOf(ch, m[2], Message(p, ch, m[2], m[3], "copy").data) :
       m \in {n \in MayPublish(p) : <<ch[1], n[1]>> \in Ends[p] /\ Bit(n[1]) = ch[2]}}

Publications == UNION {PublishedOn(p, ch) : p \in Node, ch \in Channel}

WritingReaders == {r \in Readers : PublishedOn(r[1], r[2]) # {}}

OfEntry(e) == PublicationOf(e.channel, e.index, e.data)

(* Announced: what calls have published that returned or still run. *)
AnnouncedNow ==
    {OfEntry(log[k]) : k \in DOMAIN log}
      \cup UNION {{PublicationOf(PublishChannel(publishers[p][call[p][k].pub]),
                               call[p][k].index, call[p][k].data)
                     : k \in DOMAIN call[p]} : p \in Node}

(* What was sent, up to each place of the history. *)
Sent(history) ==
    LET sent[n \in 0 .. Len(history)] ==
          IF n = 0 THEN <<>>
          ELSE IF history[n].sent THEN Append(sent[n - 1], OfEntry(history[n])) ELSE sent[n - 1]
    IN sent

LogNow == Sent(log)[Len(log)]

PositionNow == [r \in Readers |-> Len(Sent(log)[seen[r[1]][r[2]]])]

ViewNow ==
    [r \in Readers |->
       [i \in AnyIndex |->
          IF i \in Items(r[1], r[2]) /\ r[2] \in DOMAIN shared_buffers[r[1]]
          THEN readBuffer(r[1], r[2], i) ELSE Zero(r[1], r[2], i)]]

ReaderChannel == [r \in Readers |-> r[2]]

Contract ==
    INSTANCE Dissemination WITH
      Reader <- Readers, Item <- AnyIndex, Data <- Seq(Byte), Publication <- Publications,
      ChannelOf <- ReaderChannel, Local <- WritingReaders, Initial <- Zeroes,
      announced <- AnnouncedNow, log <- LogNow, view <- ViewNow, position <- PositionNow

(* Every step of the program is a step the contract allows: readers follow *)
(* one log without going back and read nothing that was not published on   *)
(* their side of the channel.  Code: publish, __handleRecv, bindChannel.   *)
ImplementsDissemination == Contract!Spec

=============================================================================
