------------------------ MODULE DisseminationProofs ------------------------
(***************************************************************************)
(* What every implementation of Dissemination inherits, for any readers,   *)
(* channels, items and publications of the right types.                    *)
(***************************************************************************)
EXTENDS Dissemination, TLAPS

(* Readers see what was announced, and the log holds nothing else. *)
Sound ==
    /\ view \in [Reader -> [Item -> Data]]
    /\ announced \subseteq Publication
    /\ log \in Seq(Publication) /\ \A k \in DOMAIN log : log[k] \in announced
    /\ NothingInvented

LEMMA InitSound == Typing /\ Init => Sound
<1> SUFFICES ASSUME Typing, Init PROVE Sound
    OBVIOUS
<1>1. view \in [Reader -> [Item -> Data]]
      BY DEF Typing, Init
<1>2. NothingInvented
      BY DEF Typing, Init, NothingInvented
<1>3. log \in Seq(Publication) /\ DOMAIN log = {}
      BY DEF Init
<1> QED
    BY <1>1, <1>2, <1>3 DEF Init, Sound

(* An announcement covers what the readers of its process see of it. *)
LEMMA AnnounceSound ==
    ASSUME Typing, Sound, NEW m \in Publication, Announce(m)
    PROVE  Sound'
<1>1. /\ m.channel \in Channel /\ m.index \in Item /\ m.data \in Data
      /\ m = [channel |-> m.channel, index |-> m.index, data |-> m.data]
      BY DEF Typing
<1>2. PICK seers \in SUBSET {r \in Local : ChannelOf[r] = m.channel} :
        view' = [r \in Reader |-> IF r \in seers THEN [view[r] EXCEPT ![m.index] = m.data]
                                  ELSE view[r]]
      BY DEF Announce
<1>3. view' \in [Reader -> [Item -> Data]]
      BY <1>1, <1>2 DEF Sound
<1>4. announced' = announced \cup {m} /\ log' = log
      BY DEF Announce
<1>5. NothingInvented'
  <2> SUFFICES ASSUME NEW r \in Reader, NEW i \in Item
               PROVE  \/ view'[r][i] = Initial[r][i]
                      \/ [channel |-> ChannelOf[r], index |-> i, data |-> view'[r][i]]
                           \in announced'
      BY DEF NothingInvented
  <2>1. CASE r \in seers /\ i = m.index
    <3>1. view'[r][i] = m.data /\ ChannelOf[r] = m.channel
          BY <1>1, <1>2, <2>1 DEF Sound
    <3> QED
        BY <1>1, <1>4, <2>1, <3>1
  <2>2. CASE ~ (r \in seers /\ i = m.index)
    <3>1. view'[r][i] = view[r][i]
          BY <1>1, <1>2, <2>2 DEF Sound
    <3> QED
        BY <1>4, <3>1 DEF Sound, NothingInvented
  <2> QED
      BY <2>1, <2>2
<1> QED
    BY <1>3, <1>4, <1>5 DEF Sound

LEMMA SendSound ==
    ASSUME Sound, NEW m \in announced, Send(m)
    PROVE  Sound'
<1>1. log' = Append(log, m) /\ UNCHANGED <<announced, view>>
      BY DEF Send
<1>2. log' \in Seq(Publication) /\ \A k \in DOMAIN log' : log'[k] \in announced
      BY <1>1 DEF Sound
<1>3. NothingInvented'
      BY <1>1 DEF Sound, NothingInvented
<1> QED
    BY <1>1, <1>2, <1>3 DEF Sound

LEMMA FollowSound ==
    ASSUME Typing, Sound, NEW r \in Reader, NEW k \in DOMAIN log, Follow(r, k)
    PROVE  Sound'
<1> DEFINE m == log[k]
<1>1. /\ view' = [view EXCEPT ![r][m.index] = m.data]
      /\ ChannelOf[r] = m.channel /\ UNCHANGED <<announced, log>>
      BY DEF Follow
<1>2. m \in announced /\ m \in Publication
      BY DEF Sound
<1>3. /\ m.index \in Item /\ m.data \in Data
      /\ m = [channel |-> m.channel, index |-> m.index, data |-> m.data]
      BY <1>2 DEF Typing
<1> HIDE DEF m
<1>4. view' \in [Reader -> [Item -> Data]]
      BY <1>1, <1>3 DEF Sound
<1>5. NothingInvented'
  <2> SUFFICES ASSUME NEW q \in Reader, NEW i \in Item
               PROVE  \/ view'[q][i] = Initial[q][i]
                      \/ [channel |-> ChannelOf[q], index |-> i, data |-> view'[q][i]]
                           \in announced
      BY <1>1 DEF NothingInvented
  <2>1. CASE q = r /\ i = m.index
    <3>1. view'[q][i] = m.data
          BY <1>1, <1>3, <2>1 DEF Sound
    <3> QED
        BY <1>1, <1>2, <1>3, <2>1, <3>1
  <2>2. CASE ~ (q = r /\ i = m.index)
    <3>1. view'[q][i] = view[q][i]
          BY <1>1, <1>3, <2>2 DEF Sound
    <3> QED
        BY <3>1 DEF Sound, NothingInvented
  <2> QED
      BY <2>1, <2>2
<1> QED
    BY <1>1, <1>4, <1>5 DEF Sound

(* No reader ever reads a value that was not published for that item on    *)
(* its channel.  The run of PubSub shows that the program refines          *)
(* Dissemination, and evaluates Typing for its constants.  Code: publish,  *)
(* handleSerialize, MessageContext::__handleRecv.                          *)
THEOREM ReadersReadPublications ==
    ASSUME Typing
    PROVE  Spec => []NothingInvented
<1>1. Init => Sound
      BY InitSound
<1>2. Sound /\ [Next]_vars => Sound'
  <2> SUFFICES ASSUME Sound, [Next]_vars PROVE Sound'
      OBVIOUS
  <2>1. ASSUME NEW m \in Publication, Announce(m) PROVE Sound'
        BY <2>1, AnnounceSound
  <2>2. ASSUME NEW m \in announced, Send(m) PROVE Sound'
        BY <2>2, SendSound
  <2>3. ASSUME NEW r \in Reader, NEW k \in DOMAIN log, Follow(r, k) PROVE Sound'
        BY <2>3, FollowSound
  <2>4. CASE UNCHANGED vars
        BY <2>4 DEF vars, Sound, NothingInvented
  <2> QED
      BY <2>1, <2>2, <2>3, <2>4 DEF Next
<1>3. Sound => NothingInvented
      BY DEF Sound
<1> QED
    BY <1>1, <1>2, <1>3, PTL DEF Spec

=============================================================================
