--------------------------- MODULE Dissemination ---------------------------
(***************************************************************************)
(* What publish-subscribe promises.  Publications are announced and then   *)
(* enter one log.  A reader follows the log: it may skip entries, it never *)
(* goes back, and what it reads of an item is the initial value or         *)
(* something that was published for that item on its channel.  A reader in *)
(* a process that writes the channel sees announcements at once.           *)
(***************************************************************************)
EXTENDS Naturals, Sequences

CONSTANTS
    Reader,     \* who reads
    Channel, Item, Data,
    Publication,    \* what may be published: channel, index and data
    ChannelOf,      \* [Reader -> Channel]
    Local,          \* the readers inside a writing process
    Initial         \* [Reader -> [Item -> data]]

(* What the constants have to be. *)
Typing ==
    /\ ChannelOf \in [Reader -> Channel]
    /\ Initial \in [Reader -> [Item -> Data]]
    /\ Publication \subseteq [channel : Channel, index : Item, data : Data]
    /\ Local \subseteq Reader

VARIABLES
    announced,  \* the publications begun so far
    log,        \* the publications that went on the bus, in order
    position,   \* how far a reader has followed the log
    view        \* what a reader reads of each item

vars == <<announced, log, position, view>>

Init ==
    /\ announced = {} /\ log = <<>>
    /\ position = [r \in Reader |-> 0]
    /\ view = Initial

(* A publication is announced; readers of its own process may see it. *)
Announce(m) ==
    /\ announced' = announced \cup {m}
    /\ UNCHANGED log
    /\ UNCHANGED position
    /\ \E seers \in SUBSET {r \in Local : ChannelOf[r] = m.channel} :
         view' = [r \in Reader |-> IF r \in seers THEN [view[r] EXCEPT ![m.index] = m.data]
                                   ELSE view[r]]

Send(m) ==
    /\ m \in announced
    /\ log' = Append(log, m)
    /\ UNCHANGED <<announced, position, view>>

(* The reader follows the log to entry k. *)
Follow(r, k) ==
    /\ position[r] < k /\ log[k].channel = ChannelOf[r]
    /\ position' = [position EXCEPT ![r] = k]
    /\ view' = [view EXCEPT ![r][log[k].index] = log[k].data]
    /\ UNCHANGED <<announced, log>>

Next ==
    \/ \E m \in Publication : Announce(m)
    \/ \E m \in announced : Send(m)
    \/ \E r \in Reader : \E k \in DOMAIN log : Follow(r, k)

Spec == Init /\ [][Next]_vars

(* Whatever is read was announced on that channel for that item, or is the *)
(* initial value.                                                          *)
NothingInvented ==
    \A r \in Reader, i \in Item :
      \/ view[r][i] = Initial[r][i]
      \/ [channel |-> ChannelOf[r], index |-> i, data |-> view[r][i]] \in announced

=============================================================================
