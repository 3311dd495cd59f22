----------------------- MODULE PubSubRefinementProofs -----------------------
(***************************************************************************)
(* PubSub implements Dissemination, for any processes, ends, dictionaries  *)
(* and publications.                                                       *)
(***************************************************************************)
EXTENDS PubSubProofs, PubSubRefinement

-----------------------------------------------------------------------------
(* What was sent.                                                          *)

(* Entry n, after what was sent before it. *)
SentWith(sent, e) == IF e.sent THEN Append(sent, OfEntry(e)) ELSE sent

LEMMA SentUnfolds ==
    ASSUME NEW history, Len(history) \in Nat
    PROVE  /\ Sent(history)[0] = <<>>
           /\ \A n \in 1 .. Len(history) :
                Sent(history)[n] = SentWith(Sent(history)[n - 1], history[n])
<1> DEFINE F(t, n) == [k \in 0 .. n |-> IF k = 0 THEN <<>>
                                        ELSE IF history[k].sent
                                             THEN Append(t[k - 1], OfEntry(history[k]))
                                             ELSE t[k - 1]]
           T == {n \in Nat : \E t : t = F(t, n)}
<1>1. 0 \in T
  <2>1. [k \in {0} |-> <<>>] = F([k \in {0} |-> <<>>], 0)
    OBVIOUS
  <2> QED BY <2>1
<1>2. ASSUME NEW n \in Nat, n \in T PROVE n + 1 \in T
  <2>1. PICK t : t = F(t, n)
    BY <1>2
  <2> DEFINE more == IF history[n + 1].sent THEN Append(t[n], OfEntry(history[n + 1])) ELSE t[n]
             u == [k \in 0 .. (n + 1) |-> IF k = n + 1 THEN more ELSE t[k]]
  <2>2. ASSUME NEW k \in 0 .. (n + 1)
        PROVE  u[k] = F(u, n + 1)[k]
    <3>1. CASE k = n + 1
      <4>1. u[k] = more /\ k # 0 /\ k - 1 = n /\ n \in 0 .. (n + 1) /\ n # n + 1
        BY <3>1
      <4>2. u[n] = t[n]
        BY <4>1
      <4> HIDE DEF u
      <4> QED BY <3>1, <4>1, <4>2
    <3>2. CASE k # n + 1 /\ k # 0
      <4>1. k \in 0 .. n /\ k - 1 \in 0 .. (n + 1) /\ k - 1 # n + 1
        BY <3>2
      <4>2. u[k] = t[k] /\ u[k - 1] = t[k - 1]
        BY <4>1, <3>2
      <4>3. t[k] = IF history[k].sent THEN Append(t[k - 1], OfEntry(history[k])) ELSE t[k - 1]
        <5>1. F(t, n)[k] = IF history[k].sent THEN Append(t[k - 1], OfEntry(history[k])) ELSE t[k - 1]
          BY <3>2, <4>1
        <5> HIDE DEF F
        <5> QED BY <2>1, <5>1
      <4> HIDE DEF u
      <4> QED BY <3>2, <4>2, <4>3
    <3>3. CASE k = 0
      <4>1. t[0] = <<>>
        <5>1. F(t, n)[0] = <<>>
          OBVIOUS
        <5> HIDE DEF F
        <5> QED BY <2>1, <5>1
      <4>2. u[0] = t[0]
        OBVIOUS
      <4> HIDE DEF u
      <4> QED BY <3>3, <4>1, <4>2
    <3> QED BY <3>1, <3>2, <3>3
  <2>3. u = F(u, n + 1)
    <3>1. u = [k \in 0 .. (n + 1) |-> u[k]]
      OBVIOUS
    <3>2. F(u, n + 1) = [k \in 0 .. (n + 1) |-> F(u, n + 1)[k]]
      OBVIOUS
    <3> HIDE DEF u, F
    <3> QED BY <2>2, <3>1, <3>2
  <2> HIDE DEF F, u
  <2> QED BY <2>3
<1>3. PICK t : t = F(t, Len(history))
  <2> HIDE DEF T
  <2>1. Len(history) \in T
    BY <1>1, <1>2, ByInduction
  <2> QED BY <2>1 DEF T
<1>4. Sent(history) = CHOOSE x : x = F(x, Len(history))
  BY DEF Sent
<1>5. Sent(history) = F(Sent(history), Len(history))
  <2> HIDE DEF F
  <2> QED BY <1>3, <1>4
<1>6. \A n \in 0 .. Len(history) : Sent(history)[n] = F(Sent(history), Len(history))[n]
  <2> HIDE DEF F
  <2> QED BY <1>5
<1> QED BY <1>6 DEF SentWith

(* The first part of a sequence. *)
Begins(s, t) == Len(s) <= Len(t) /\ \A k \in 1 .. Len(s) : t[k] = s[k]

LEMMA SentSequences ==
    ASSUME NEW history, Len(history) \in Nat, NEW n \in 0 .. Len(history)
    PROVE  /\ \E S : Sent(history)[n] \in Seq(S)
           /\ Len(Sent(history)[n]) \in Nat
<1> DEFINE S == {OfEntry(history[k]) : k \in 1 .. Len(history)}
           T == {m \in Nat : m <= Len(history) => Sent(history)[m] \in Seq(S)}
<1>1. 0 \in T
  <2>1. Sent(history)[0] = <<>>
    BY SentUnfolds
  <2> HIDE DEF S
  <2>2. <<>> \in Seq(S)
    OBVIOUS
  <2> QED BY <2>1, <2>2
<1>2. ASSUME NEW m \in Nat, m \in T PROVE m + 1 \in T
  <2> SUFFICES ASSUME m + 1 <= Len(history) PROVE Sent(history)[m + 1] \in Seq(S)
    OBVIOUS
  <2>1. /\ m + 1 \in 1 .. Len(history) /\ (m + 1) - 1 = m
        /\ Sent(history)[m] \in Seq(S)
    BY <1>2
  <2>2. Sent(history)[m + 1] = SentWith(Sent(history)[m], history[m + 1])
    BY <2>1, SentUnfolds
  <2>3. OfEntry(history[m + 1]) \in S
    BY <2>1
  <2> HIDE DEF S
  <2> QED BY <2>1, <2>2, <2>3 DEF SentWith
<1>3. n \in T
  <2> HIDE DEF T
  <2> QED BY <1>1, <1>2, ByInduction
<1>4. Sent(history)[n] \in Seq(S)
  BY <1>3
<1> HIDE DEF S
<1> QED BY <1>4

(* The sent part of a history only grows. *)
LEMMA SentBegins ==
    ASSUME NEW history, Len(history) \in Nat, NEW m \in 0 .. Len(history),
           NEW n \in m .. Len(history)
    PROVE  Begins(Sent(history)[m], Sent(history)[n])
<1> DEFINE T == {d \in Nat : m + d <= Len(history) =>
                   Begins(Sent(history)[m], Sent(history)[m + d])}
<1>1. 0 \in T
  <2>1. Len(Sent(history)[m]) \in Nat /\ m + 0 = m
    BY SentSequences
  <2> QED BY <2>1 DEF Begins
<1>2. ASSUME NEW d \in Nat, d \in T PROVE d + 1 \in T
  <2> SUFFICES ASSUME m + (d + 1) <= Len(history)
               PROVE  Begins(Sent(history)[m], Sent(history)[m + (d + 1)])
    OBVIOUS
  <2> DEFINE l == m + d
             s == Sent(history)[m]  t == Sent(history)[l]  u == Sent(history)[m + (d + 1)]
  <2>1. /\ l + 1 \in 1 .. Len(history) /\ (l + 1) - 1 = l /\ l + 1 = m + (d + 1)
        /\ l \in 0 .. Len(history) /\ l <= Len(history)
    OBVIOUS
  <2>2. u = SentWith(t, history[l + 1])
    <3> HIDE DEF l
    <3> QED BY <2>1, SentUnfolds
  <2>3. PICK S : t \in Seq(S)
    <3> HIDE DEF l
    <3> QED BY <2>1, SentSequences
  <2>4. Begins(s, t)
    BY <1>2, <2>1
  <2>5. Len(s) \in Nat
    BY SentSequences
  <2> HIDE DEF s, t, u, l
  <2>6. Begins(s, u)
    <3>1. CASE history[l + 1].sent
      <4> DEFINE e == OfEntry(history[l + 1])
      <4>1. u = Append(t, e)
        BY <2>2, <3>1 DEF SentWith
      <4> HIDE DEF e
      <4>2. Len(u) = Len(t) + 1 /\ Len(t) \in Nat /\ \A k \in 1 .. Len(t) : u[k] = t[k]
        BY <2>3, <4>1
      <4> QED BY <2>4, <2>5, <4>2 DEF Begins
    <3>2. CASE ~ history[l + 1].sent
      BY <2>2, <2>4, <3>2 DEF SentWith
    <3> QED BY <3>1, <3>2
  <2> QED BY <2>6 DEF s, u
<1>3. n - m \in T
  <2>1. n - m \in Nat
    OBVIOUS
  <2> HIDE DEF T
  <2> QED BY <1>1, <1>2, <2>1, ByInduction
<1>4. m + (n - m) = n /\ n <= Len(history)
  OBVIOUS
<1> QED BY <1>3, <1>4

(* The place of an entry that was sent. *)
LEMMA SentPlace ==
    ASSUME NEW history, Len(history) \in Nat, NEW e \in 1 .. Len(history), history[e].sent,
           NEW m \in 0 .. (e - 1)
    PROVE  LET k == Len(Sent(history)[e])
               all == Sent(history)[Len(history)]
           IN /\ k \in 1 .. Len(all) /\ k \in DOMAIN all /\ all[k] = OfEntry(history[e])
              /\ Len(Sent(history)[m]) < k
<1> DEFINE r == Sent(history)[m]  s == Sent(history)[e - 1]
           t == Sent(history)[e]  all == Sent(history)[Len(history)]
           x == OfEntry(history[e])
<1>1. /\ e - 1 \in 0 .. Len(history) /\ e \in 0 .. Len(history) /\ m \in 0 .. Len(history)
      /\ e - 1 \in m .. Len(history) /\ Len(history) \in e .. Len(history)
      /\ Len(history) \in 0 .. Len(history)
  OBVIOUS
<1>2. Begins(r, s) /\ Begins(t, all)
  BY <1>1, SentBegins
<1>3. t = Append(s, x)
  BY SentUnfolds DEF SentWith
<1>4. (\E S : s \in Seq(S)) /\ (\E S : all \in Seq(S)) /\ Len(r) \in Nat
  BY <1>1, SentSequences
<1> HIDE DEF r, s, t, all, x
<1>5. Len(t) = Len(s) + 1 /\ Len(s) \in Nat /\ t[Len(s) + 1] = x
  BY <1>3, <1>4
<1>6. DOMAIN all = 1 .. Len(all) /\ Len(all) \in Nat
  BY <1>4
<1>7. Len(t) \in 1 .. Len(t) /\ Len(t) \in 1 .. Len(all) /\ Len(r) < Len(t)
  BY <1>2, <1>5, <1>6 DEF Begins
<1>8. all[Len(t)] = x
  BY <1>2, <1>5, <1>7 DEF Begins
<1> QED BY <1>6, <1>7, <1>8 DEF r, t, all, x

(* What was sent before an entry is added stays. *)
LEMMA SentGrows ==
    ASSUME NEW old, NEW new, Len(old) \in Nat, Len(new) = Len(old) + 1,
           \A k \in 1 .. Len(old) : new[k] = old[k]
    PROVE  /\ \A n \in 0 .. Len(old) : Sent(new)[n] = Sent(old)[n]
           /\ Sent(new)[Len(new)] = SentWith(Sent(old)[Len(old)], new[Len(new)])
<1> DEFINE T == {n \in Nat : n <= Len(old) => Sent(new)[n] = Sent(old)[n]}
<1>0. Len(new) \in Nat
  OBVIOUS
<1>1. 0 \in T
  BY <1>0, SentUnfolds
<1>2. ASSUME NEW n \in Nat, n \in T PROVE n + 1 \in T
  <2> SUFFICES ASSUME n + 1 <= Len(old) PROVE Sent(new)[n + 1] = Sent(old)[n + 1]
    OBVIOUS
  <2>1. /\ n + 1 \in 1 .. Len(old) /\ n + 1 \in 1 .. Len(new) /\ (n + 1) - 1 = n
        /\ Sent(new)[n] = Sent(old)[n] /\ new[n + 1] = old[n + 1]
    BY <1>2
  <2>2. Sent(new)[n + 1] = SentWith(Sent(new)[n], new[n + 1])
    BY <1>0, <2>1, SentUnfolds
  <2>3. Sent(old)[n + 1] = SentWith(Sent(old)[n], old[n + 1])
    BY <2>1, SentUnfolds
  <2> QED BY <2>1, <2>2, <2>3
<1>3. \A n \in Nat : n \in T
  <2> HIDE DEF T
  <2> QED BY <1>1, <1>2, ByInduction
<1>4. \A n \in 0 .. Len(old) : Sent(new)[n] = Sent(old)[n]
  BY <1>3
<1>5. Len(new) \in 1 .. Len(new) /\ Len(new) - 1 = Len(old) /\ Len(old) \in 0 .. Len(old)
  BY <1>0
<1>6. Sent(new)[Len(new)] = SentWith(Sent(new)[Len(old)], new[Len(new)])
  BY <1>0, <1>5, SentUnfolds
<1> QED BY <1>4, <1>5, <1>6

-----------------------------------------------------------------------------
(* What is on the way to a process is newer than what it has applied.      *)

SeenInv ==
    \A p \in Node : \A ch \in Channel : \A k \in 1 .. Len(rx[p]) : seen[p][ch] < rx[p][k].no

LEMMA SeenInit == Init => SeenInv
BY DEF Init, SeenInv

LEMMA SeenStep ==
    ASSUME Copies, TypeInv, QueueInv, SeenInv, [Next]_vars
    PROVE  SeenInv'
<1> DEFINE Newer == \A q \in Node : \A ch \in Channel : \A k \in 1 .. Len(rx'[q]) :
                      seen'[q][ch] < rx'[q][k].no
<1>0. seen \in [Node -> [Channel -> 0 .. Len(log)]]
  BY DEF TypeInv, HistoryInv
<1>1. ASSUME UNCHANGED <<rx, seen>> PROVE Newer
  BY <1>1 DEF SeenInv
<1>2. ASSUME NEW p \in Node, NEW x, Returns(p, x) PROVE Newer
  <2> SUFFICES ASSUME NEW q \in Node, NEW ch \in Channel, NEW k \in 1 .. Len(rx'[q])
               PROVE  seen[q][ch] < rx'[q][k].no
    BY <1>2 DEF Returns
  <2>1. rx'[q] = rx[q] \/ Appended(rx[q], rx'[q], Len(log) + 1)
    BY <1>2, SentQueues
  <2>2. Len(log) \in Nat
    BY <1>2, LogStays
  <2>3. seen[q][ch] \in 0 .. Len(log)
    BY <1>0
  <2>4. \A j \in 1 .. Len(rx[q]) : seen[q][ch] < rx[q][j].no
    BY DEF SeenInv
  <2>5. CASE rx'[q] = rx[q]
    BY <2>4, <2>5
  <2>6. CASE Appended(rx[q], rx'[q], Len(log) + 1)
    <3>1. k \in 1 .. Len(rx[q]) \/ k = Len(rx[q]) + 1
      BY <2>6 DEF Appended
    <3>2. CASE k \in 1 .. Len(rx[q])
      <4>1. rx'[q][k] = rx[q][k]
        BY <2>6, <3>2 DEF Appended
      <4> QED BY <2>4, <3>2, <4>1
    <3>3. CASE k = Len(rx[q]) + 1
      <4>1. rx'[q][k].no = Len(log) + 1
        BY <2>6, <3>3 DEF Appended
      <4> QED BY <2>2, <2>3, <4>1
    <3> QED BY <3>1, <3>2, <3>3
  <2> QED BY <2>1, <2>5, <2>6
<1>3. ASSUME NEW p \in Node, Receives(p) PROVE Newer
  <2> SUFFICES ASSUME NEW q \in Node, NEW ch \in Channel, NEW k \in 1 .. Len(rx'[q])
               PROVE  seen'[q][ch] < rx'[q][k].no
    OBVIOUS
  <2>1. /\ Shortened(rx[p], rx'[p]) /\ \A r \in Node \ {p} : rx'[r] = rx[r]
        /\ \A j \in 1 .. Len(rx[p]) : rx[p][j].no \in Nat
    BY <1>3, TakenQueues
  <2>2. Ahead(rx'[p], rx[p][1].no)
    BY <2>1, ShortenPending DEF QueueInv
  <2>3. seen' = seen \/ \E c : seen' = [seen EXCEPT ![p][c] = rx[p][1].no]
    <3> DEFINE no == rx[p][1].no
    <3>1. UNCHANGED seen \/ \E junk \in Junk : Applied(p, log[no], no, junk)
      BY <1>3 DEF Receives, Ignored
    <3>2. ASSUME NEW junk \in Junk, Applied(p, log[no], no, junk)
          PROVE  seen' = [seen EXCEPT ![p][log[no].channel] = no]
      BY <3>2 DEF Applied
    <3> HIDE DEF no
    <3> QED BY <3>1, <3>2 DEF no
  <2>4. seen'[q][ch] = seen[q][ch] \/ (q = p /\ seen'[q][ch] = rx[p][1].no)
    BY <1>0, <2>3
  <2>5. seen[q][ch] < rx'[q][k].no
    <3>1. CASE q = p
      <4>1. k + 1 \in 1 .. Len(rx[p]) /\ rx'[p][k] = rx[p][k + 1]
        BY <2>1, <3>1 DEF Shortened
      <4>2. seen[p][ch] < rx[p][k + 1].no
        BY <4>1 DEF SeenInv
      <4> QED BY <3>1, <4>1, <4>2
    <3>2. CASE q # p
      BY <2>1, <3>2 DEF SeenInv
    <3> QED BY <3>1, <3>2
  <2> QED BY <2>2, <2>4, <2>5 DEF Ahead
<1>4. ASSUME NEW p \in Node, NEW e \in Ends[p], Binds(p, e) PROVE UNCHANGED <<rx, seen>>
  BY <1>4 DEF Binds
<1>5. ASSUME NEW p \in Node, NEW base, NEW c, Pushes(p, base, c) PROVE UNCHANGED <<rx, seen>>
  BY <1>5 DEF Pushes
<1>6. ASSUME Rests PROVE UNCHANGED <<rx, seen>>
  BY <1>6 DEF Rests
<1>7. Newer
  <2> HIDE DEF Newer
  <2> QED BY <1>1, <1>2, <1>3, <1>4, <1>5, <1>6, StepCases
<1> QED BY <1>7 DEF SeenInv

-----------------------------------------------------------------------------
(* What is announced.                                                      *)

OfCall(pubs, c) == PublicationOf(PublishChannel(pubs[c.pub]), c.index, c.data)

OfCalls(pubs, stack) == {OfCall(pubs, stack[k]) : k \in DOMAIN stack}

OfHistory(history) == {OfEntry(history[k]) : k \in DOMAIN history}

LEMMA AnnouncedIs ==
    AnnouncedNow = OfHistory(log) \cup UNION {OfCalls(publishers[p], call[p]) : p \in Node}
BY DEF AnnouncedNow, OfHistory, OfCalls, OfCall

LEMMA SameAnnounced ==
    ASSUME NEW old \in Seq(Call), NEW new \in Seq(Call), SameCalls(old, new), NEW pubs
    PROVE  OfCalls(pubs, new) = OfCalls(pubs, old)
<1>1. DOMAIN new = DOMAIN old /\ DOMAIN old = 1 .. Len(old)
  BY DEF SameCalls
<1>2. \A k \in DOMAIN old : OfCall(pubs, new[k]) = OfCall(pubs, old[k])
  BY <1>1 DEF SameCalls, OfCall
<1> QED BY <1>1, <1>2 DEF OfCalls

LEMMA MoreAnnounced ==
    ASSUME NEW S, NEW old \in Seq(S), NEW c \in S, NEW pubs
    PROVE  OfCalls(pubs, Append(old, c)) = OfCalls(pubs, old) \cup {OfCall(pubs, c)}
<1> DEFINE new == Append(old, c)
<1>1. /\ DOMAIN new = DOMAIN old \cup {Len(old) + 1} /\ new[Len(old) + 1] = c
      /\ \A k \in DOMAIN old : new[k] = old[k]
  OBVIOUS
<1> HIDE DEF new
<1>2. OfCalls(pubs, new) = OfCalls(pubs, old) \cup {OfCall(pubs, c)}
  BY <1>1 DEF OfCalls
<1> QED BY <1>2 DEF new

LEMMA LongerHistory ==
    ASSUME NEW S, NEW old \in Seq(S), NEW e \in S
    PROVE  OfHistory(Append(old, e)) = OfHistory(old) \cup {OfEntry(e)}
<1> DEFINE new == Append(old, e)
<1>1. /\ DOMAIN new = DOMAIN old \cup {Len(old) + 1} /\ new[Len(old) + 1] = e
      /\ \A k \in DOMAIN old : new[k] = old[k]
  OBVIOUS
<1> HIDE DEF new
<1>2. OfHistory(new) = OfHistory(old) \cup {OfEntry(e)}
  BY <1>1 DEF OfHistory
<1> QED BY <1>2 DEF new

(* Only the beginning of a call announces anything; a call that returns    *)
(* leaves its publication in the history.                                  *)
LEMMA BindAnnounces ==
    ASSUME TypeInv, NEW p \in Node, NEW e, Binds(p, e)
    PROVE  AnnouncedNow' = AnnouncedNow
<1>1. /\ call' = call /\ log' = log /\ call[p] = <<>>
      /\ \A q \in Node \ {p} : publishers'[q] = publishers[q]
  BY DEF Binds
<1>2. \A pubs : OfCalls(pubs, call[p]) = {}
  BY <1>1 DEF OfCalls
<1>3. \A q \in Node : OfCalls(publishers'[q], call'[q]) = OfCalls(publishers[q], call[q])
  BY <1>1, <1>2
<1>4. AnnouncedNow' = OfHistory(log') \cup UNION {OfCalls(publishers'[q], call'[q]) : q \in Node}
  BY DEF AnnouncedNow, OfHistory, OfCalls, OfCall
<1> QED BY <1>1, <1>3, <1>4, AnnouncedIs

LEMMA PushAnnounces ==
    ASSUME TypeInv, TypeInv', NEW p \in Node, NEW base, NEW c, Pushes(p, base, c)
    PROVE  AnnouncedNow' = AnnouncedNow \cup {OfCall(publishers[p], c)}
<1>1. /\ publishers' = publishers /\ log' = log /\ call'[p] = Append(base, c)
      /\ \A q \in Node \ {p} : call'[q] = call[q]
      /\ SameCalls(call[p], base) /\ base \in Seq(Call)
  BY DEF Pushes
<1>2. call[p] \in Seq(Call)
  BY DEF TypeInv, CallsInv
<1>3. OfCalls(publishers[p], base) = OfCalls(publishers[p], call[p])
  BY <1>1, <1>2, SameAnnounced
<1>4. OfCalls(publishers[p], call'[p])
        = OfCalls(publishers[p], call[p]) \cup {OfCall(publishers[p], c)}
  <2>1. base \in Seq(Call \cup {c}) /\ c \in Call \cup {c}
    BY <1>1
  <2> QED BY <1>1, <1>3, <2>1, MoreAnnounced
<1>5. \A q \in Node \ {p} : OfCalls(publishers[q], call'[q]) = OfCalls(publishers[q], call[q])
  BY <1>1
<1>6. UNION {OfCalls(publishers[q], call'[q]) : q \in Node}
        = (UNION {OfCalls(publishers[q], call[q]) : q \in Node}) \cup {OfCall(publishers[p], c)}
  BY <1>4, <1>5
<1>7. AnnouncedNow' = OfHistory(log') \cup UNION {OfCalls(publishers'[q], call'[q]) : q \in Node}
  BY DEF AnnouncedNow, OfHistory, OfCalls, OfCall
<1> QED BY <1>1, <1>6, <1>7, AnnouncedIs

LEMMA ReturnAnnounces ==
    ASSUME TypeInv, NEW p \in Node, NEW e, Returns(p, e)
    PROVE  AnnouncedNow' = AnnouncedNow /\ OfEntry(e) \in AnnouncedNow
<1> DEFINE top == Top(p)
           rest == Front(call[p])
<1>1. /\ publishers' = publishers /\ log' = Append(log, e) /\ call[p] # <<>>
      /\ call' = [call EXCEPT ![p] = rest]
  BY DEF Returns, Returned
<1>2. /\ call \in [Node -> Seq(Call)] /\ log \in Seq(Publication) /\ e \in Publication
  BY DEF TypeInv, CallsInv, HistoryInv, Returns, Published
<1>3. call[p] \in Seq(Call) /\ top \in Call /\ top = call[p][Len(call[p])] /\ Len(call[p]) \in Nat \ {0}
  BY <1>1, TopTyped DEF TypeInv
<1>4. rest \in Seq(Call) /\ call[p] = Append(rest, top)
  <2> DEFINE s == call[p]
  <2>1. rest = SubSeq(s, 1, Len(s) - 1)
    BY DEF Front
  <2>2. s \in Seq(Call) /\ Len(s) \in Nat \ {0} /\ top = s[Len(s)]
    BY <1>3
  <2> HIDE DEF s, rest, top
  <2>3. rest \in Seq(Call) /\ Len(rest) = Len(s) - 1 /\ \A k \in 1 .. Len(rest) : rest[k] = s[k]
    <3> DEFINE n == Len(s) - 1
    <3>1. n \in 0 .. Len(s) /\ 1 \in 1 .. Len(s) + 1
      BY <2>2
    <3>2. rest = SubSeq(s, 1, n)
      BY <2>1
    <3> HIDE DEF n
    <3>3. rest \in Seq(Call) /\ Len(rest) = n /\ \A k \in 1 .. n : rest[k] = s[k]
      BY <2>2, <3>1, <3>2, SubSeqProperties
    <3> QED BY <3>3 DEF n
  <2>4. s = Append(rest, top)
    BY <1>3, <2>2, <2>3
  <2> QED BY <2>3, <2>4 DEF s
<1>5. OfCall(publishers[p], top) = OfEntry(e)
  BY LogStays DEF OfCall, OfEntry, OnChannel
<1> HIDE DEF rest, top
<1>6. OfCalls(publishers[p], call[p]) = OfCalls(publishers[p], rest) \cup {OfEntry(e)}
  BY <1>3, <1>4, <1>5, MoreAnnounced
<1>7. \A q \in Node : call'[q] = IF q = p THEN rest ELSE call[q]
  BY <1>1, <1>2, <1>4
<1>8. OfHistory(log') = OfHistory(log) \cup {OfEntry(e)}
  BY <1>1, <1>2, LongerHistory
<1>9. AnnouncedNow' = OfHistory(log') \cup UNION {OfCalls(publishers'[q], call'[q]) : q \in Node}
  BY DEF AnnouncedNow, OfHistory, OfCalls, OfCall
<1>10. (UNION {OfCalls(publishers[q], call'[q]) : q \in Node}) \cup {OfEntry(e)}
         = UNION {OfCalls(publishers[q], call[q]) : q \in Node}
  BY <1>6, <1>7
<1>11. AnnouncedNow' = AnnouncedNow
  BY <1>1, <1>8, <1>9, <1>10, AnnouncedIs
<1> QED BY <1>8, <1>9, <1>11

LEMMA OtherAnnounces ==
    ASSUME TypeInv, TypeInv', UNCHANGED <<publishers, log>>,
           \A p \in Node : SameCalls(call[p], call'[p])
    PROVE  AnnouncedNow' = AnnouncedNow
<1>1. \A p \in Node : call[p] \in Seq(Call) /\ call'[p] \in Seq(Call)
  BY DEF TypeInv, CallsInv
<1>2. \A p \in Node : OfCalls(publishers[p], call'[p]) = OfCalls(publishers[p], call[p])
  BY <1>1, SameAnnounced
<1>3. AnnouncedNow' = OfHistory(log') \cup UNION {OfCalls(publishers'[q], call'[q]) : q \in Node}
  BY DEF AnnouncedNow, OfHistory, OfCalls, OfCall
<1> QED BY <1>2, <1>3, AnnouncedIs

-----------------------------------------------------------------------------
(* The log and the positions in it.                                        *)

LEMMA ReturnLogs ==
    ASSUME TypeInv, NEW p \in Node, NEW e, Returns(p, e)
    PROVE  LogNow' = SentWith(LogNow, e) /\ PositionNow' = PositionNow
<1>1. /\ Len(log) \in Nat /\ Len(log') = Len(log) + 1 /\ log'[Len(log) + 1] = e
      /\ \A k \in 1 .. Len(log) : log'[k] = log[k]
  BY LogStays
<1>2. /\ \A n \in 0 .. Len(log) : Sent(log')[n] = Sent(log)[n]
      /\ Sent(log')[Len(log')] = SentWith(Sent(log)[Len(log)], log'[Len(log')])
  BY <1>1, SentGrows
<1>3. LogNow' = SentWith(LogNow, e)
  BY <1>1, <1>2 DEF LogNow
<1>4. seen' = seen /\ \A r \in Readers : seen[r[1]][r[2]] \in 0 .. Len(log)
  BY DEF Returns, TypeInv, HistoryInv, Readers
<1>5. PositionNow' = [r \in Readers |-> Len(Sent(log')[seen'[r[1]][r[2]]])]
  BY DEF PositionNow
<1>6. PositionNow' = PositionNow
  BY <1>2, <1>4, <1>5 DEF PositionNow
<1> QED BY <1>3, <1>6

LEMMA OtherLogs ==
    ASSUME UNCHANGED <<log, seen>>
    PROVE  LogNow' = LogNow /\ PositionNow' = PositionNow
BY DEF LogNow, PositionNow

-----------------------------------------------------------------------------
(* What readers read.                                                      *)

Held(buffers, r, i) ==
    IF i \in Items(r[1], r[2]) /\ r[2] \in DOMAIN buffers[r[1]]
    THEN Reading(buffers, r[1], r[2], i) ELSE Zero(r[1], r[2], i)

LEMMA ViewIs ==
    /\ ViewNow = [r \in Readers |-> [i \in AnyIndex |-> Held(shared_buffers, r, i)]]
    /\ ViewNow' = [r \in Readers |-> [i \in AnyIndex |-> Held(shared_buffers', r, i)]]
BY DEF ViewNow, Held, Reading, readBuffer

LEMMA ReaderTyped ==
    ASSUME NEW r \in Readers
    PROVE  r[1] \in Node /\ r[2] \in Channel /\ r = <<r[1], r[2]>> /\ r[1] \in Agreeing[r[2]]
BY DEF Readers

(* A step that writes one item changes one entry of one reader. *)
LEMMA WriteViews ==
    ASSUME NEW p \in Node, NEW ch \in Channel, NEW i, NEW data, Wrote(p, ch, i, data)
    PROVE  /\ i \in AnyIndex
           /\ ViewNow' = [r \in Readers |-> IF r = <<p, ch>> THEN [ViewNow[r] EXCEPT ![i] = data]
                                            ELSE ViewNow[r]]
<1>1. /\ ch \in DOMAIN shared_buffers[p] /\ i \in Items(p, ch)
      /\ DOMAIN shared_buffers'[p] = DOMAIN shared_buffers[p]
      /\ Reading(shared_buffers', p, ch, i) = data
      /\ \A c \in DOMAIN shared_buffers[p] : \A j \in Items(p, c) :
           c # ch \/ j # i => Reading(shared_buffers', p, c, j) = Reading(shared_buffers, p, c, j)
      /\ \A q \in Node \ {p} : shared_buffers'[q] = shared_buffers[q]
  BY DEF Wrote
<1>2. i \in AnyIndex
  BY <1>1 DEF AnyIndex
<1>3. ASSUME NEW r \in Readers, NEW j \in AnyIndex
      PROVE  Held(shared_buffers', r, j) = IF r = <<p, ch>> /\ j = i THEN data
                                           ELSE Held(shared_buffers, r, j)
  <2>0. r[1] \in Node /\ r[2] \in Channel /\ r = <<r[1], r[2]>>
    BY ReaderTyped
  <2>1. CASE r = <<p, ch>> /\ j = i
    <3>1. r[1] = p /\ r[2] = ch
      BY <2>1
    <3> QED BY <1>1, <2>1, <3>1 DEF Held
  <2>2. CASE r # <<p, ch>> \/ j # i
    <3>1. CASE r[1] = p
      <4>1. r[2] # ch \/ j # i
        BY <2>0, <2>2, <3>1
      <4>2. j \in Items(p, r[2]) /\ r[2] \in DOMAIN shared_buffers[p] =>
              Reading(shared_buffers', p, r[2], j) = Reading(shared_buffers, p, r[2], j)
        BY <1>1, <4>1
      <4>3. Held(shared_buffers', r, j) = Held(shared_buffers, r, j)
        BY <1>1, <3>1, <4>2 DEF Held
      <4> QED BY <2>2, <4>3
    <3>2. CASE r[1] # p
      <4>1. Held(shared_buffers', r, j) = Held(shared_buffers, r, j)
        BY <1>1, <2>0, <3>2 DEF Held, Reading
      <4> QED BY <2>2, <4>1
    <3> QED BY <3>1, <3>2
  <2> QED BY <2>1, <2>2
<1>4. ASSUME NEW r \in Readers
      PROVE  [j \in AnyIndex |-> Held(shared_buffers', r, j)]
               = IF r = <<p, ch>> THEN [ViewNow[r] EXCEPT ![i] = data] ELSE ViewNow[r]
  <2>1. ViewNow[r] = [j \in AnyIndex |-> Held(shared_buffers, r, j)]
    BY ViewIs
  <2> QED BY <1>2, <1>3, <2>1
<1> QED BY <1>2, <1>4, ViewIs

(* An item of a new buffer is all zero. *)
LEMMA NewReads ==
    ASSUME NEW p \in Node, NEW ch \in Channel, NEW i \in Items(p, ch), NEW buffers,
           buffers[p][ch] = createBuffer(Dict[p][ch[2]])
    PROVE  Reading(buffers, p, ch, i) = Zero(p, ch, i)
<1> DEFINE dict == Dict[p][ch[2]]
<1>1. /\ WellLaidOut(dict) /\ dict.bytes \in Nat /\ Items(p, ch) = Indices(dict)
      /\ dict.data_size[i] \in Nat /\ dict.buffer_offset[i] \in Nat
  BY DictTyped
<1>2. dict.buffer_offset[i] + dict.data_size[i] <= dict.bytes
  BY <1>1 DEF WellLaidOut, Indices
<1>3. \A k \in 1 .. dict.data_size[i] :
        dict.buffer_offset[i] + k - 1 \in 0 .. (dict.bytes - 1)
  <2> HIDE DEF dict
  <2> QED BY <1>1, <1>2
<1>4. \A k \in 1 .. dict.data_size[i] : buffers[p][ch][dict.buffer_offset[i] + k - 1] = 0
  BY <1>3 DEF createBuffer
<1>5. Reading(buffers, p, ch, i) = [k \in 1 .. dict.data_size[i] |-> 0]
  BY <1>4 DEF Reading, deserialize
<1> QED BY <1>5 DEF Zero

LEMMA BindViews ==
    ASSUME TypeInv, TypeInv', NEW p \in Node, NEW e, Binds(p, e)
    PROVE  ViewNow' = ViewNow
<1>1. /\ \A q \in Node \ {p} : shared_buffers'[q] = shared_buffers[q]
      /\ \A c \in DOMAIN shared_buffers[p] :
           c \in DOMAIN shared_buffers'[p] /\ shared_buffers'[p][c] = shared_buffers[p][c]
      /\ \A c \in DOMAIN shared_buffers'[p] \ DOMAIN shared_buffers[p] :
           shared_buffers'[p][c] = createBuffer(Dict[p][c[2]])
  BY DEF Binds
<1>2. ASSUME NEW r \in Readers, NEW i \in AnyIndex
      PROVE  Held(shared_buffers', r, i) = Held(shared_buffers, r, i)
  <2>0. r[1] \in Node /\ r[2] \in Channel
    BY ReaderTyped
  <2>1. CASE r[1] # p
    BY <1>1, <2>0, <2>1 DEF Held, Reading
  <2>2. CASE r[1] = p /\ r[2] \in DOMAIN shared_buffers[p]
    BY <1>1, <2>0, <2>2 DEF Held, Reading
  <2>3. CASE r[1] = p /\ r[2] \notin DOMAIN shared_buffers[p]
    <3>1. Held(shared_buffers, r, i) = Zero(r[1], r[2], i)
      BY <2>3 DEF Held
    <3>2. CASE i \in Items(p, r[2]) /\ r[2] \in DOMAIN shared_buffers'[p]
      <4>1. shared_buffers'[p][r[2]] = createBuffer(Dict[p][r[2][2]])
        BY <1>1, <2>3, <3>2
      <4>2. Reading(shared_buffers', p, r[2], i) = Zero(p, r[2], i)
        BY <2>0, <3>2, <4>1, NewReads
      <4> QED BY <2>3, <3>1, <3>2, <4>2 DEF Held
    <3>3. CASE ~ (i \in Items(p, r[2]) /\ r[2] \in DOMAIN shared_buffers'[p])
      BY <2>3, <3>1, <3>3 DEF Held
    <3> QED BY <3>2, <3>3
  <2> QED BY <2>1, <2>2, <2>3
<1> QED BY <1>2, ViewIs

-----------------------------------------------------------------------------
(* The steps of the contract.                                              *)

SameNow == UNCHANGED <<AnnouncedNow, LogNow, PositionNow, ViewNow>>

(* What a call publishes is what its process may publish on that channel. *)
LEMMA MadePublication ==
    ASSUME TypeInv, NEW p \in Node, NEW c, c.pub \in DOMAIN publishers[p], Made(p, c)
    PROVE  /\ OnChannel(p, c) \in Channel
           /\ OfCall(publishers[p], c) \in PublishedOn(p, OnChannel(p, c))
           /\ OfCall(publishers[p], c) \in Publications
<1> DEFINE ch  == OnChannel(p, c)
           pub == publishers[p][c.pub]
<1>0. Tables(publishers[p], subscribers[p], Ends[p])
  BY DEF TypeInv, TablesInv
<1>1. <<pub.node_id, pub.is_owner>> \in Ends[p]
  <2>1. \A k \in 1..Len(publishers[p]) :
            <<publishers[p][k].node_id, publishers[p][k].is_owner>> \in Ends[p]
    BY <1>0 DEF Tables
  <2>2. DOMAIN publishers[p] = 1..Len(publishers[p])
    BY <1>0 DEF Tables
  <2> QED BY <2>1, <2>2
<1>2. ch \in Channel /\ ch = <<pub.node_id, Bit(pub.is_owner)>> /\ OwnerOf(p, c) = pub.is_owner
  BY <1>1, ChannelTyped, BitTyped DEF OnChannel, OwnerOf, PublishChannel
<1>3. PICK byte :
        /\ c.data = Message(p, ch, c.index, byte, "copy").data
        /\ \/ \E m \in Offered[p] : m[1] = pub.is_owner /\ m[2] = c.index /\ m[3] = byte
           \/ \E slot \in DOMAIN Reaction :
                /\ slot[1] = p /\ slot[2] = pub.is_owner
                /\ Reaction[slot].index = c.index /\ Reaction[slot].byte = byte
  BY <1>2 DEF Made
<1> DEFINE m == <<pub.is_owner, c.index, byte>>
<1>4. m \in MayPublish(p)
  BY <1>3 DEF MayPublish
<1>5. /\ m[1] = pub.is_owner /\ m[2] = c.index /\ m[3] = byte
      /\ ch[1] = pub.node_id /\ ch[2] = Bit(pub.is_owner)
  BY <1>2
<1>6. OfCall(publishers[p], c) = PublicationOf(ch, c.index, c.data)
  BY DEF OfCall, OnChannel
<1> HIDE DEF m, ch, pub
<1>7. m \in {n \in MayPublish(p) : <<ch[1], n[1]>> \in Ends[p] /\ Bit(n[1]) = ch[2]}
  BY <1>1, <1>4, <1>5
<1>8. OfCall(publishers[p], c) = PublicationOf(ch, m[2], Message(p, ch, m[2], m[3], "copy").data)
  BY <1>3, <1>5, <1>6
<1>9. OfCall(publishers[p], c) \in PublishedOn(p, ch)
  BY <1>7, <1>8 DEF PublishedOn
<1> QED BY <1>2, <1>9 DEF Publications, ch

(* The beginning of a call, nested or not, announces its message. *)
LEMMA PushStep ==
    ASSUME TypeInv, TypeInv', NEW p \in Node, NEW base, NEW c, Pushes(p, base, c)
    PROVE  \E m \in Publications : Contract!Announce(m)
<1> DEFINE ch == OnChannel(p, c)
           m  == OfCall(publishers[p], c)
           seers == {r \in Readers : r = <<p, ch>>}
<1>1. /\ Wrote(p, ch, c.index, c.data) /\ Made(p, c) /\ c.pub \in DOMAIN publishers[p]
      /\ UNCHANGED <<log, seen>>
  BY DEF Pushes, Publishing
<1>2. ch \in Channel /\ m \in PublishedOn(p, ch) /\ m \in Publications
  BY <1>1, MadePublication
<1>3. m.channel = ch /\ m.index = c.index /\ m.data = c.data
  BY DEF OfCall, PublicationOf, OnChannel
<1>4. AnnouncedNow' = AnnouncedNow \cup {m}
  BY PushAnnounces
<1>5. LogNow' = LogNow /\ PositionNow' = PositionNow
  BY <1>1, OtherLogs
<1>6. ViewNow' = [r \in Readers |-> IF r = <<p, ch>> THEN [ViewNow[r] EXCEPT ![c.index] = c.data]
                                    ELSE ViewNow[r]]
  BY <1>1, <1>2, WriteViews
<1> HIDE DEF m, ch
<1>7. seers \in SUBSET {r \in WritingReaders : ReaderChannel[r] = m.channel}
  <2> SUFFICES ASSUME NEW r \in Readers, r = <<p, ch>>
               PROVE  r \in WritingReaders /\ ReaderChannel[r] = m.channel
    OBVIOUS
  <2>1. r[1] = p /\ r[2] = ch
    OBVIOUS
  <2> QED BY <1>2, <1>3, <2>1 DEF WritingReaders, ReaderChannel
<1>8. ViewNow' = [r \in Readers |-> IF r \in seers THEN [ViewNow[r] EXCEPT ![m.index] = m.data]
                                    ELSE ViewNow[r]]
  BY <1>3, <1>6
<1> HIDE DEF seers
<1>9. Contract!Announce(m)
  BY <1>4, <1>5, <1>7, <1>8 DEF Contract!Announce
<1> QED BY <1>2, <1>9

(* The end of a call sends its message, or stutters. *)
LEMMA ReturnStep ==
    ASSUME TypeInv, NEW p \in Node, NEW e, Returns(p, e)
    PROVE  SameNow \/ \E m \in AnnouncedNow : Contract!Send(m)
<1>1. AnnouncedNow' = AnnouncedNow /\ OfEntry(e) \in AnnouncedNow
  BY ReturnAnnounces
<1>2. LogNow' = SentWith(LogNow, e) /\ PositionNow' = PositionNow
  BY ReturnLogs
<1>3. ViewNow' = ViewNow
  BY ViewIs DEF Returns
<1>4. CASE e.sent
  <2>1. LogNow' = Append(LogNow, OfEntry(e))
    BY <1>2, <1>4 DEF SentWith
  <2>2. Contract!Send(OfEntry(e))
    BY <1>1, <1>2, <1>3, <2>1 DEF Contract!Send
  <2> QED BY <1>1, <2>2
<1>5. CASE ~ e.sent
  BY <1>1, <1>2, <1>3, <1>5 DEF SentWith, SameNow
<1> QED BY <1>4, <1>5

LEMMA StillAnnounces ==
    ASSUME UNCHANGED <<publishers, call, log>>
    PROVE  AnnouncedNow' = AnnouncedNow /\ LogNow' = LogNow
BY DEF AnnouncedNow, LogNow

(* A reader that applies an entry follows the log to it; for any other     *)
(* process nothing changes.                                                *)
LEMMA FollowStep ==
    ASSUME NEW p \in Node, NEW ch \in Channel, NEW i, NEW data, NEW no, NEW last, NEW k,
           UNCHANGED publishers, UNCHANGED call, UNCHANGED log, Wrote(p, ch, i, data),
           seen \in [Node -> [Channel -> 0 .. last]], seen' = [seen EXCEPT ![p][ch] = no],
           k = Len(Sent(log)[no]),
           <<p, ch>> \in Readers =>
             /\ k \in DOMAIN LogNow /\ LogNow[k] = PublicationOf(ch, i, data)
             /\ Len(Sent(log)[seen[p][ch]]) < k
    PROVE  SameNow \/ \E r \in Readers : \E l \in DOMAIN LogNow : Contract!Follow(r, l)
<1> DEFINE r == <<p, ch>>
<1>1. AnnouncedNow' = AnnouncedNow /\ LogNow' = LogNow
  BY StillAnnounces
<1>2. ViewNow' = [q \in Readers |-> IF q = r THEN [ViewNow[q] EXCEPT ![i] = data] ELSE ViewNow[q]]
  BY WriteViews
<1>3. ASSUME NEW q \in Readers
      PROVE  seen'[q[1]][q[2]] = IF q = r THEN no ELSE seen[q[1]][q[2]]
  <2>1. q[1] \in Node /\ q[2] \in Channel /\ q = <<q[1], q[2]>>
    BY ReaderTyped
  <2>2. q = r <=> q[1] = p /\ q[2] = ch
    <3>1. q = r => q[1] = p /\ q[2] = ch
      OBVIOUS
    <3>2. q[1] = p /\ q[2] = ch => q = r
      BY <2>1
    <3> QED BY <3>1, <3>2
  <2> HIDE DEF r
  <2>3. seen'[q[1]][q[2]] = IF q[1] = p /\ q[2] = ch THEN no ELSE seen[q[1]][q[2]]
    BY <2>1
  <2> QED BY <2>2, <2>3
<1>4. PositionNow' = [q \in Readers |-> IF q = r THEN k ELSE PositionNow[q]]
  <2>1. PositionNow' = [q \in Readers |-> Len(Sent(log')[seen'[q[1]][q[2]]])]
    BY DEF PositionNow
  <2>2. \A q \in Readers : PositionNow[q] = Len(Sent(log)[seen[q[1]][q[2]]])
    BY DEF PositionNow
  <2>3. log' = log
    OBVIOUS
  <2> HIDE DEF r
  <2>4. \A q \in Readers : Len(Sent(log')[seen'[q[1]][q[2]]])
                             = IF q = r THEN k ELSE PositionNow[q]
    BY <1>3, <2>2, <2>3
  <2> QED BY <2>1, <2>4
<1>5. PositionNow = [q \in Readers |-> PositionNow[q]] /\ ViewNow = [q \in Readers |-> ViewNow[q]]
  BY DEF PositionNow, ViewNow
<1>6. CASE r \in Readers
  <2>1. r[1] = p /\ r[2] = ch
    OBVIOUS
  <2>2. /\ k \in DOMAIN LogNow /\ LogNow[k] = PublicationOf(ch, i, data)
        /\ Len(Sent(log)[seen[p][ch]]) < k
    BY <1>6
  <2>3. PositionNow[r] < k /\ ReaderChannel[r] = ch
    BY <1>6, <2>1, <2>2 DEF PositionNow, ReaderChannel
  <2>4. LogNow[k].channel = ch /\ LogNow[k].index = i /\ LogNow[k].data = data
    BY <2>2 DEF PublicationOf
  <2> HIDE DEF r
  <2>5. PositionNow' = [PositionNow EXCEPT ![r] = k]
    BY <1>4, <1>5, <1>6
  <2>6. ViewNow' = [ViewNow EXCEPT ![r][LogNow[k].index] = LogNow[k].data]
    <3>1. ViewNow' = [ViewNow EXCEPT ![r][i] = data]
      BY <1>2, <1>5, <1>6
    <3> QED BY <2>4, <3>1
  <2>7. Contract!Follow(r, k)
    BY <1>1, <2>3, <2>4, <2>5, <2>6 DEF Contract!Follow
  <2> QED BY <1>6, <2>2, <2>7
<1>7. CASE r \notin Readers
  <2> HIDE DEF r
  <2>1. PositionNow' = PositionNow /\ ViewNow' = ViewNow
    BY <1>2, <1>4, <1>5, <1>7
  <2> QED BY <1>1, <2>1 DEF SameNow
<1> QED BY <1>6, <1>7

(* What a reader applies is what was published, and newer than what it has *)
(* applied of the channel.                                                 *)
LEMMA AppliedAgrees ==
    ASSUME WritersInv, SeenInv, NEW p \in Node, NEW no \in 1 .. Len(log), NEW ch \in Channel,
           NEW last \in Nat, seen \in [Node -> [Channel -> 0 .. last]],
           log[no].channel = ch, Published(log[no]), Len(rx[p]) \in Nat \ {0}, no = rx[p][1].no,
           <<p, ch>> \in Readers
    PROVE  /\ \A junk : ItemBytes(Dict[p][ch[2]], log[no].index, log[no].data, junk) = log[no].data
           /\ seen[p][ch] \in 0 .. (no - 1)
<1>1. p \in Agreeing[ch]
  <2>1. <<p, ch>>[1] \in Agreeing[<<p, ch>>[2]]
    BY ReaderTyped
  <2> QED BY <2>1
<1>2. log[no].from \in Writers[ch]
  BY DEF WritersInv
<1>3. Dict[log[no].from][ch[2]] = Dict[p][ch[2]]
  BY <1>1, <1>2 DEF Agreeing
<1>4. /\ log[no].data \in Seq(Byte)
      /\ Len(log[no].data) = Dict[p][ch[2]].data_size[log[no].index]
  BY <1>3 DEF Published, Datum
<1>5. \A junk : ItemBytes(Dict[p][ch[2]], log[no].index, log[no].data, junk) = log[no].data
  <2>1. PICK dict : dict = Dict[p][ch[2]]
    OBVIOUS
  <2>2. PICK i, data : i = log[no].index /\ data = log[no].data
    OBVIOUS
  <2>3. data \in Seq(Byte) /\ Len(data) = dict.data_size[i]
    BY <1>4, <2>1, <2>2
  <2>4. \A j : ItemBytes(dict, i, data, j) = data
    BY <2>3, WholeItem, Zenon
  <2> QED BY <2>1, <2>2, <2>4
<1>6. seen[p][ch] \in 0 .. last /\ 1 \in 1 .. Len(rx[p])
  OBVIOUS
<1>7. seen[p][ch] < no
  BY <1>6 DEF SeenInv
<1>8. seen[p][ch] \in 0 .. (no - 1)
  BY <1>6, <1>7
<1> QED BY <1>5, <1>8

LEMMA ReceiveStep ==
    ASSUME TypeInv, WritersInv, SeenInv, NEW p \in Node, Receives(p)
    PROVE  SameNow \/ \E r \in Readers : \E l \in DOMAIN LogNow : Contract!Follow(r, l)
<1> DEFINE Follows == \E r \in Readers : \E l \in DOMAIN LogNow : Contract!Follow(r, l)
<1>1. PICK no : no = rx[p][1].no
  OBVIOUS
<1>2. PICK e : e = log[no]
  OBVIOUS
<1>3. /\ Dropped(p) /\ Len(rx[p]) \in Nat \ {0} /\ no \in 1 .. Len(log)
      /\ Published(e) /\ e.sent
      /\ \/ \E junk \in Junk : /\ Applied(p, e, no, junk)
                               /\ Wrote(p, e.channel, e.index,
                                        ItemBytes(Dict[p][e.channel[2]], e.index, e.data, junk))
         \/ UNCHANGED <<shared_buffers, seen>>
  BY <1>1, <1>2 DEF Receives, Received, Ignored
<1>4. UNCHANGED <<publishers, call, log>>
  BY <1>3 DEF Dropped
<1>5. Len(log) \in Nat /\ seen \in [Node -> [Channel -> 0 .. Len(log)]]
  BY DEF TypeInv, HistoryInv
<1>6. PICK ch \in Channel : ch = e.channel
  BY <1>3 DEF Published, Publication
<1>7. ASSUME NEW junk \in Junk, Applied(p, e, no, junk),
             Wrote(p, e.channel, e.index, ItemBytes(Dict[p][e.channel[2]], e.index, e.data, junk))
      PROVE  SameNow \/ Follows
  <2>1. PICK data : data = ItemBytes(Dict[p][ch[2]], e.index, e.data, junk)
    OBVIOUS
  <2>2. PICK k : k = Len(Sent(log)[no])
    OBVIOUS
  <2>3. seen' = [seen EXCEPT ![p][ch] = no]
    BY <1>6, <1>7 DEF Applied
  <2>4. Wrote(p, ch, e.index, data)
    BY <1>6, <1>7, <2>1
  <2>5. ASSUME <<p, ch>> \in Readers
        PROVE  /\ k \in DOMAIN LogNow /\ LogNow[k] = PublicationOf(ch, e.index, data)
               /\ Len(Sent(log)[seen[p][ch]]) < k
    <3>1. data = e.data /\ seen[p][ch] \in 0 .. (no - 1)
      <4>1. log[no].channel = ch /\ Published(log[no])
        BY <1>2, <1>3, <1>6
      <4>2. PICK last \in Nat : last = Len(log)
        BY <1>5
      <4>3. seen \in [Node -> [Channel -> 0 .. last]] /\ Len(rx[p]) \in Nat \ {0} /\ no \in 1 .. Len(log)
        BY <1>3, <1>5, <4>2
      <4>4. /\ \A j : ItemBytes(Dict[p][ch[2]], log[no].index, log[no].data, j) = log[no].data
            /\ seen[p][ch] \in 0 .. (no - 1)
        BY <1>1, <2>5, <4>1, <4>3, AppliedAgrees, Zenon
      <4> QED BY <1>2, <2>1, <4>4
    <3>2. /\ k \in DOMAIN LogNow /\ LogNow[k] = OfEntry(log[no])
          /\ Len(Sent(log)[seen[p][ch]]) < k
      BY <1>2, <1>3, <1>5, <2>2, <3>1, SentPlace DEF LogNow
    <3> QED BY <1>2, <1>6, <3>1, <3>2 DEF OfEntry
  <2>6. PICK i : i = e.index
    OBVIOUS
  <2>7. PICK last : last = Len(log)
    OBVIOUS
  <2>8. Wrote(p, ch, i, data) /\ seen \in [Node -> [Channel -> 0 .. last]]
    BY <1>5, <2>4, <2>6, <2>7
  <2>9. <<p, ch>> \in Readers =>
          /\ k \in DOMAIN LogNow /\ LogNow[k] = PublicationOf(ch, i, data)
          /\ Len(Sent(log)[seen[p][ch]]) < k
    BY <2>5, <2>6
  <2> HIDE DEF Follows
  <2>10. UNCHANGED publishers /\ UNCHANGED call /\ UNCHANGED log
    BY <1>4
  <2>11. SameNow \/ \E r \in Readers : \E l \in DOMAIN LogNow : Contract!Follow(r, l)
    BY <2>2, <2>3, <2>8, <2>9, <2>10, FollowStep, Zenon
  <2> QED BY <2>11 DEF Follows
<1>8. ASSUME UNCHANGED <<shared_buffers, seen>> PROVE SameNow
  <2>1. AnnouncedNow' = AnnouncedNow /\ LogNow' = LogNow
    BY <1>4, StillAnnounces
  <2>2. PositionNow' = PositionNow
    BY <1>4, <1>8, OtherLogs
  <2>3. ViewNow' = ViewNow
    BY <1>8, ViewIs
  <2> QED BY <2>1, <2>2, <2>3 DEF SameNow
<1>9. SameNow \/ Follows
  <2> HIDE DEF Follows
  <2>1. CASE \E junk \in Junk :
               /\ Applied(p, e, no, junk)
               /\ Wrote(p, e.channel, e.index,
                        ItemBytes(Dict[p][e.channel[2]], e.index, e.data, junk))
    BY <1>7, <2>1, Zenon
  <2> QED BY <1>3, <1>8, <2>1, Zenon
<1> QED BY <1>9

(* Every step of the program is one of the contract, or none. *)
LEMMA ContractNext ==
    ASSUME Copies, TypeInv, TypeInv', WritersInv, SeenInv, [Next]_vars
    PROVE  [Contract!Next]_(Contract!vars)
<1>1. ASSUME NEW p \in Node, NEW e \in Ends[p], Binds(p, e) PROVE SameNow
  <2>1. AnnouncedNow' = AnnouncedNow /\ ViewNow' = ViewNow
    BY <1>1, BindAnnounces, BindViews
  <2>2. LogNow' = LogNow /\ PositionNow' = PositionNow
    BY <1>1, OtherLogs DEF Binds
  <2> QED BY <2>1, <2>2 DEF SameNow
<1>2. ASSUME Rests PROVE SameNow
  <2>1. AnnouncedNow' = AnnouncedNow
    BY <1>2, OtherAnnounces DEF Rests
  <2>2. LogNow' = LogNow /\ PositionNow' = PositionNow
    BY <1>2, OtherLogs DEF Rests
  <2>3. ViewNow' = ViewNow
    BY <1>2, ViewIs DEF Rests
  <2> QED BY <2>1, <2>2, <2>3 DEF SameNow
<1>3. SameNow => UNCHANGED Contract!vars
  BY DEF SameNow, Contract!vars
<1>4. ASSUME NEW p \in Node, NEW base, NEW c, Pushes(p, base, c) PROVE Contract!Next
  BY <1>4, PushStep, Zenon DEF Contract!Next
<1>5. ASSUME NEW p \in Node, NEW e, Returns(p, e) PROVE SameNow \/ Contract!Next
  BY <1>5, ReturnStep, Zenon DEF Contract!Next
<1>6. ASSUME NEW p \in Node, Receives(p) PROVE SameNow \/ Contract!Next
  BY <1>6, ReceiveStep, Zenon DEF Contract!Next
<1>7. SameNow \/ Contract!Next
  BY <1>1, <1>2, <1>4, <1>5, <1>6, StepCases, Zenon
<1> QED BY <1>3, <1>7

LEMMA ContractInit ==
    ASSUME Init
    PROVE  Contract!Init
<1>1. log = <<>> /\ Len(log) = 0 /\ DOMAIN log = {}
  BY DEF Init
<1>2. \A p \in Node : call[p] = <<>> /\ DOMAIN call[p] = {} /\ DOMAIN shared_buffers[p] = {}
  BY DEF Init
<1>3. \A p \in Node : \A ch \in Channel : seen[p][ch] = 0
  BY DEF Init
<1>4. Sent(log)[0] = <<>>
  BY <1>1, SentUnfolds
<1>5. AnnouncedNow = {}
  <2>1. \A p \in Node : {PublicationOf(PublishChannel(publishers[p][call[p][k].pub]),
                                       call[p][k].index, call[p][k].data) : k \in DOMAIN call[p]} = {}
    BY <1>2
  <2> QED BY <1>1, <2>1 DEF AnnouncedNow
<1>6. LogNow = <<>>
  BY <1>1, <1>4 DEF LogNow
<1>7. PositionNow = [r \in Readers |-> 0]
  <2>1. ASSUME NEW r \in Readers PROVE Len(Sent(log)[seen[r[1]][r[2]]]) = 0
    <3>1. seen[r[1]][r[2]] = 0
      BY <1>3, ReaderTyped
    <3> QED BY <1>4, <3>1
  <2> QED BY <2>1 DEF PositionNow
<1>8. ViewNow = Zeroes
  <2>1. ASSUME NEW r \in Readers PROVE r[2] \notin DOMAIN shared_buffers[r[1]]
    BY <1>2, ReaderTyped
  <2> QED BY <2>1 DEF ViewNow, Zeroes
<1> QED BY <1>5, <1>6, <1>7, <1>8 DEF Contract!Init

(* Whatever the processes, their ends and dictionaries are, every step of  *)
(* theirs is a step of the contract or none: readers follow one log of     *)
(* publications, never back.  Code: publish, __handleRecv, bindChannel.    *)
THEOREM KeepsDissemination ==
    ASSUME Copies
    PROVE  Spec => ImplementsDissemination
<1>1. Init => Contract!Init
  BY ContractInit
<1>2. Init => QueueInv /\ SeenInv
  BY QueueInit, SeenInit
<1>3. TypeInv /\ QueueInv /\ SeenInv /\ [Next]_vars => QueueInv' /\ SeenInv'
  BY QueueStep, SeenStep
<1>4. TypeInv /\ TypeInv' /\ WritersInv /\ SeenInv /\ [Next]_vars => [Contract!Next]_(Contract!vars)
  BY ContractNext
<1> QED BY <1>1, <1>2, <1>3, <1>4, WritersSpec, PTL
        DEF Spec, ImplementsDissemination, Contract!Spec

LEMMA ZeroTyped ==
    ASSUME NEW p \in Node, NEW ch \in Channel, NEW i
    PROVE  Zero(p, ch, i) \in Seq(Byte)
<1>1. CASE i \in Items(p, ch)
  <2>1. PICK n : n = Dict[p][ch[2]].data_size[i]
    OBVIOUS
  <2>2. n \in Nat
    BY <1>1, <2>1, DictTyped
  <2>3. [k \in 1 .. n |-> 0] \in Seq(Byte)
    BY <2>2 DEF Byte
  <2> QED BY <1>1, <2>1, <2>3 DEF Zero
<1>2. CASE i \notin Items(p, ch)
  BY <1>2 DEF Zero
<1> QED BY <1>1, <1>2

(* What a process publishes is an item of its own dictionary. *)
LEMMA MayPublishTyped ==
    ASSUME NEW p \in Node, NEW ch \in Channel, NEW n \in MayPublish(p), Bit(n[1]) = ch[2]
    PROVE  n[2] \in Items(p, ch) /\ n[3] \in Byte
<1>1. CASE \E m \in Offered[p] : n = <<m[1], m[2], m[3]>>
  <2>1. PICK m \in Offered[p] : n = <<m[1], m[2], m[3]>>
    BY <1>1
  <2>2. m[3] \in Byte /\ m[2] \in Indices(Dict[p][Bit(m[1])])
    BY PubSubAssumption
  <2> QED BY <2>1, <2>2, DictTyped
<1>2. CASE \E slot \in DOMAIN Reaction :
             /\ slot[1] = p /\ n = <<slot[2], Reaction[slot].index, Reaction[slot].byte>>
  <2>1. PICK slot \in DOMAIN Reaction :
               slot[1] = p /\ n = <<slot[2], Reaction[slot].index, Reaction[slot].byte>>
    BY <1>2
  <2>2. Reaction[slot].index \in Indices(Dict[slot[1]][Bit(slot[2])]) /\ Reaction[slot].byte \in Byte
    BY PubSubAssumption
  <2> QED BY <2>1, <2>2, DictTyped
<1> QED BY <1>1, <1>2 DEF MayPublish

LEMMA PublishedTyped ==
    ASSUME NEW p \in Node, NEW ch \in Channel, NEW m \in PublishedOn(p, ch)
    PROVE  m \in [channel : Channel, index : AnyIndex, data : Seq(Byte)]
<1>1. PICK n \in MayPublish(p) :
        /\ Bit(n[1]) = ch[2]
        /\ m = PublicationOf(ch, n[2], Message(p, ch, n[2], n[3], "copy").data)
  BY DEF PublishedOn
<1>2. n[2] \in Items(p, ch) /\ n[3] \in Byte
  BY <1>1, MayPublishTyped
<1>3. PICK data : data = Message(p, ch, n[2], n[3], "copy").data
  OBVIOUS
<1>4. data \in Seq(Byte)
  BY <1>2, <1>3, MessageTyped DEF Datum
<1>5. n[2] \in AnyIndex
  BY <1>2 DEF AnyIndex
<1> QED BY <1>1, <1>3, <1>4, <1>5 DEF PublicationOf

(* The constants of the mapping are what the contract wants. *)
LEMMA MappingTyped == Contract!Typing
<1>1. ReaderChannel \in [Readers -> Channel]
  BY ReaderTyped DEF ReaderChannel
<1>2. Zeroes \in [Readers -> [AnyIndex -> Seq(Byte)]]
  BY ReaderTyped, ZeroTyped DEF Zeroes
<1>3. Publications \subseteq [channel : Channel, index : AnyIndex, data : Seq(Byte)]
  BY PublishedTyped DEF Publications
<1>4. WritingReaders \subseteq Readers
  BY DEF WritingReaders
<1> QED BY <1>1, <1>2, <1>3, <1>4 DEF Contract!Typing

ContractProofs ==
    INSTANCE DisseminationProofs WITH
      Reader <- Readers, Item <- AnyIndex, Data <- Seq(Byte), Publication <- Publications,
      ChannelOf <- ReaderChannel, Local <- WritingReaders, Initial <- Zeroes,
      announced <- AnnouncedNow, log <- LogNow, view <- ViewNow, position <- PositionNow

(* Every byte of an item is zero or the byte of a publication of that item *)
(* on that channel.  The bytes are taken one by one: a reader that copies  *)
(* an item while a publication or a message is being written to it gets    *)
(* bytes of the buffer before and of the buffer after.                     *)
BytesPublished ==
    \A r \in Readers : \A i \in Items(r[1], r[2]) :
      \A k \in 1 .. Dict[r[1]][r[2][2]].data_size[i] :
        \/ ViewNow[r][i][k] = 0
        \/ \E m \in AnnouncedNow :
             m.channel = r[2] /\ m.index = i /\ m.data[k] = ViewNow[r][i][k]

LEMMA BytesOfPublications == Contract!NothingInvented => BytesPublished
<1> SUFFICES ASSUME Contract!NothingInvented, NEW r \in Readers, NEW i \in Items(r[1], r[2]),
                    NEW k \in 1 .. Dict[r[1]][r[2][2]].data_size[i]
             PROVE  \/ ViewNow[r][i][k] = 0
                    \/ \E m \in AnnouncedNow :
                         m.channel = r[2] /\ m.index = i /\ m.data[k] = ViewNow[r][i][k]
  BY DEF BytesPublished
<1> DEFINE read == ViewNow[r][i]
<1>1. r[1] \in Node /\ r[2] \in Channel /\ i \in AnyIndex
  BY DEF Readers, AnyIndex
<1>2. Zeroes[r][i] = [n \in 1 .. Dict[r[1]][r[2][2]].data_size[i] |-> 0]
  BY <1>1 DEF Zeroes, Zero
<1>3. ReaderChannel[r] = r[2]
  BY DEF ReaderChannel
<1>4. \/ read = Zeroes[r][i]
      \/ [channel |-> ReaderChannel[r], index |-> i, data |-> read] \in AnnouncedNow
  BY <1>1 DEF Contract!NothingInvented
<1> HIDE DEF read
<1>5. CASE read = Zeroes[r][i]
  <2>1. read[k] = 0
    BY <1>2, <1>5
  <2> QED BY <2>1 DEF read
<1>6. CASE [channel |-> ReaderChannel[r], index |-> i, data |-> read] \in AnnouncedNow
  <2> DEFINE m == [channel |-> ReaderChannel[r], index |-> i, data |-> read]
  <2>1. m.channel = r[2] /\ m.index = i /\ m.data[k] = read[k]
    BY <1>3
  <2>2. m \in AnnouncedNow
    BY <1>6
  <2> HIDE DEF m
  <2>3. \E n \in AnnouncedNow : n.channel = r[2] /\ n.index = i /\ n.data[k] = read[k]
    BY <2>1, <2>2, Zenon
  <2> QED BY <2>3 DEF read
<1> QED BY <1>4, <1>5, <1>6

(* What a process reads of an item is made of bytes that were published    *)
(* for that item on its side of the channel, or that nobody has written.   *)
(* Code: publish, __handleRecv, readBuffer.                                *)
THEOREM ReadsPublishedBytes ==
    ASSUME Copies
    PROVE  Spec => []BytesPublished
<1>1. Spec => Contract!Spec
  BY KeepsDissemination DEF ImplementsDissemination
<1>2. ContractProofs!Typing
  BY MappingTyped DEF Contract!Typing, ContractProofs!Typing
<1>3. ContractProofs!Spec => []ContractProofs!NothingInvented
  BY <1>2, ContractProofs!ReadersReadPublications
<1>4. Contract!Init => ContractProofs!Init
  BY DEF Contract!Init, ContractProofs!Init
<1>5. [Contract!Next]_(Contract!vars) => [ContractProofs!Next]_(ContractProofs!vars)
  BY Zenon DEF Contract!Next, Contract!Announce, Contract!Send, Contract!Follow, Contract!vars,
               ContractProofs!Next, ContractProofs!Announce, ContractProofs!Send,
               ContractProofs!Follow, ContractProofs!vars
<1>6. ContractProofs!NothingInvented => Contract!NothingInvented
  BY DEF Contract!NothingInvented, ContractProofs!NothingInvented
<1> QED BY <1>1, <1>3, <1>4, <1>5, <1>6, BytesOfPublications, PTL
        DEF Contract!Spec, ContractProofs!Spec

=============================================================================
