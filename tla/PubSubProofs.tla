---------------------------- MODULE PubSubProofs ----------------------------
(***************************************************************************)
(* What PubSub keeps for any processes, ends, dictionaries and             *)
(* publications: links, buffers, callbacks and readers.                    *)
(***************************************************************************)
EXTENDS PubSub, LayoutProofs, FiniteSetTheorems, WellFoundedInduction

-----------------------------------------------------------------------------
(* Least and greatest numbers, and induction.                              *)

LEMMA Least ==
    ASSUME NEW T, T \subseteq Nat, T # {}
    PROVE  \E n \in T : \A k \in T : n <= k
<1> DEFINE R == OpToRel(<, Nat)
<1>1. IsWellFoundedOn(R, Nat)
  BY NatLessThanWellFounded
<1>2. \A x, y \in Nat : x < y => <<x, y>> \in R
  BY DEF OpToRel
<1> HIDE DEF R
<1>3. PICK n \in T : \A k \in T : ~ (<<k, n>> \in R)
  BY <1>1, WFMin
<1>4. ASSUME NEW k \in T PROVE n <= k
  <2>1. n \in Nat /\ k \in Nat /\ ~ (<<k, n>> \in R)
    BY <1>3
  <2>2. ~ (k < n)
    BY <2>1, <1>2
  <2> QED BY <2>1, <2>2
<1> QED BY <1>4

LEMMA ByInduction ==
    ASSUME NEW T, 0 \in T, \A n \in Nat : n \in T => n + 1 \in T
    PROVE  Nat \subseteq T
<1> SUFFICES ASSUME Nat \ T # {} PROVE FALSE
  OBVIOUS
<1>1. PICK n \in Nat \ T : \A k \in Nat \ T : n <= k
  BY Least
<1>2. n # 0 /\ n \in Nat
  BY <1>1
<1>3. n - 1 \in Nat /\ ~ (n <= n - 1) /\ (n - 1) + 1 = n
  BY <1>2
<1> QED BY <1>1, <1>2, <1>3

LEMMA Greatest ==
    ASSUME NEW n \in Nat, NEW T, T \subseteq 0 .. n, T # {}
    PROVE  Max(T) \in T /\ Max(T) \in Nat /\ \A k \in T : k <= Max(T)
<1> DEFINE D == {n - k : k \in T}
<1>0. \A k \in T : k \in Nat /\ n - k \in Nat
  BY SMT
<1>1. D \subseteq Nat /\ D # {}
  BY <1>0
<1>2. PICK d \in D : \A e \in D : d <= e
  BY <1>1, Least
<1>3. PICK g \in T : d = n - g
  BY <1>2
<1>4. ASSUME NEW k \in T PROVE g >= k
  <2>1. n - g <= n - k
    BY <1>2, <1>3
  <2>2. n \in Int /\ g \in Int /\ k \in Int
    BY <1>0
  <2> HIDE DEF D
  <2> QED BY <2>1, <2>2
<1>5. Max(T) \in T /\ \A k \in T : Max(T) >= k
  BY <1>3, <1>4 DEF Max
<1>6. Max(T) \in Nat
  BY <1>0, <1>5
<1>7. ASSUME NEW k \in T PROVE k <= Max(T)
  BY <1>0, <1>5, <1>6
<1> QED BY <1>5, <1>6, <1>7

(* The greatest number is the one that is not below another. *)
LEMMA GreatestIs ==
    ASSUME NEW n \in Nat, NEW T, T \subseteq 0 .. n, NEW g \in T, \A k \in T : k <= g
    PROVE  Max(T) = g
<1>1. Max(T) \in T /\ Max(T) \in Nat /\ g <= Max(T)
  BY Greatest
<1>2. Max(T) <= g /\ g \in Nat
  BY <1>1
<1> QED BY <1>1, <1>2

-----------------------------------------------------------------------------
(* The subscribers that a new publisher takes.                             *)

Once(q, s)  == \E j \in DOMAIN q : q[j] = s /\ \A l \in DOMAIN q : q[l] = s => l = j
Never(q, s) == \A j \in DOMAIN q : q[j] # s

Extended(subs, pub, taken, n) ==
    IF Linked(pub, subs[n]) THEN Append(taken, n) ELSE taken

LEMMA TakenUnfolds ==
    ASSUME NEW S, NEW subs \in Seq(S), NEW pub
    PROVE  /\ TakenFrom(subs, pub)[0] = <<>>
           /\ \A n \in 1 .. Len(subs) : TakenFrom(subs, pub)[n]
                = Extended(subs, pub, TakenFrom(subs, pub)[n - 1], n)
<1> DEFINE F(t, n) == [k \in 0 .. n |-> IF k = 0 THEN <<>>
                                        ELSE IF Linked(pub, subs[k]) THEN Append(t[k - 1], k)
                                             ELSE t[k - 1]]
           T == {n \in Nat : \E t : t = F(t, n)}
<1>0. Len(subs) \in Nat
  OBVIOUS
<1>1. 0 \in T
  <2>1. [k \in {0} |-> <<>>] = F([k \in {0} |-> <<>>], 0)
    OBVIOUS
  <2> QED BY <2>1
<1>2. ASSUME NEW n \in Nat, n \in T PROVE n + 1 \in T
  <2>1. PICK t : t = F(t, n)
    BY <1>2
  <2> DEFINE more == IF Linked(pub, subs[n + 1]) THEN Append(t[n], n + 1) ELSE t[n]
             u == [k \in 0 .. (n + 1) |-> IF k = n + 1 THEN more ELSE t[k]]
  <2>2. ASSUME NEW k \in 0 .. (n + 1)
        PROVE  u[k] = F(u, n + 1)[k]
    <3>1. CASE k = n + 1
      <4>1. u[k] = more /\ k # 0 /\ k - 1 = n /\ n \in 0 .. (n + 1) /\ n # n + 1
        BY <3>1
      <4>2. u[n] = t[n]
        BY <4>1
      <4> HIDE DEF u
      <4> QED BY <3>1, <4>1, <4>2
    <3>2. CASE k # n + 1 /\ k # 0
      <4>1. k \in 0 .. n /\ k - 1 \in 0 .. (n + 1) /\ k - 1 # n + 1
        BY <3>2
      <4>2. u[k] = t[k] /\ u[k - 1] = t[k - 1]
        BY <4>1, <3>2
      <4>3. t[k] = IF Linked(pub, subs[k]) THEN Append(t[k - 1], k) ELSE t[k - 1]
        <5>1. F(t, n)[k] = IF Linked(pub, subs[k]) THEN Append(t[k - 1], k) ELSE t[k - 1]
          BY <3>2, <4>1
        <5> HIDE DEF F
        <5> QED BY <2>1, <5>1
      <4> HIDE DEF u
      <4> QED BY <3>2, <4>2, <4>3
    <3>3. CASE k = 0
      <4>1. t[0] = <<>>
        <5>1. F(t, n)[0] = <<>>
          OBVIOUS
        <5> HIDE DEF F
        <5> QED BY <2>1, <5>1
      <4>2. u[0] = t[0]
        OBVIOUS
      <4> HIDE DEF u
      <4> QED BY <3>3, <4>1, <4>2
    <3> QED BY <3>1, <3>2, <3>3
  <2>3. u = F(u, n + 1)
    <3>1. u = [k \in 0 .. (n + 1) |-> u[k]]
      OBVIOUS
    <3>2. F(u, n + 1) = [k \in 0 .. (n + 1) |-> F(u, n + 1)[k]]
      OBVIOUS
    <3> HIDE DEF u, F
    <3> QED BY <2>2, <3>1, <3>2
  <2> HIDE DEF F, u
  <2> QED BY <2>3
<1>3. PICK t : t = F(t, Len(subs))
  <2> HIDE DEF T
  <2>1. Len(subs) \in T
    BY <1>0, <1>1, <1>2, ByInduction
  <2> QED BY <2>1 DEF T
<1>4. TakenFrom(subs, pub) = CHOOSE x : x = F(x, Len(subs))
  BY DEF TakenFrom
<1> DEFINE G(x) == F(x, Len(subs))
<1>5. TakenFrom(subs, pub) = F(TakenFrom(subs, pub), Len(subs))
  <2> HIDE DEF F
  <2> QED BY <1>3, <1>4
<1>6. \A n \in 0 .. Len(subs) : TakenFrom(subs, pub)[n] = F(TakenFrom(subs, pub), Len(subs))[n]
  <2> HIDE DEF F
  <2> QED BY <1>5
<1> QED BY <1>0, <1>6 DEF Extended

(* A sequence that is extended by a number it did not hold. *)
LEMMA AppendOnce ==
    ASSUME NEW q, q \in Seq(Nat), NEW n \in Nat, Never(q, n)
    PROVE  /\ Append(q, n) \in Seq(Nat)
           /\ Once(Append(q, n), n)
           /\ \A s : s # n /\ Once(q, s) => Once(Append(q, n), s)
           /\ \A s : s # n /\ Never(q, s) => Never(Append(q, n), s)
<1> DEFINE r == Append(q, n)
<1>1. /\ r \in Seq(Nat) /\ Len(q) \in Nat
      /\ DOMAIN r = 1 .. (Len(q) + 1) /\ DOMAIN q = 1 .. Len(q)
      /\ r[Len(q) + 1] = n /\ \A j \in 1 .. Len(q) : r[j] = q[j]
  OBVIOUS
<1> HIDE DEF r
<1>2. \A l \in DOMAIN r : l \in DOMAIN q \/ l = Len(q) + 1
  BY <1>1
<1>3. Len(q) + 1 \in DOMAIN r
  BY <1>1
<1>4. DOMAIN q \subseteq DOMAIN r
  BY <1>1
<1>5. Once(r, n)
  BY <1>1, <1>2, <1>3 DEF Once, Never
<1>6. ASSUME NEW s, s # n, Once(q, s) PROVE Once(r, s)
  <2>1. PICK j \in DOMAIN q : q[j] = s /\ \A l \in DOMAIN q : q[l] = s => l = j
    BY <1>6 DEF Once
  <2>2. j \in DOMAIN r /\ r[j] = s
    BY <1>1, <1>4, <2>1
  <2>3. ASSUME NEW l \in DOMAIN r, r[l] = s PROVE l = j
    <3>1. l # Len(q) + 1
      BY <1>1, <1>6, <2>3
    <3>2. l \in DOMAIN q /\ q[l] = s
      BY <1>1, <1>2, <2>3, <3>1
    <3> QED BY <2>1, <3>2
  <2> QED BY <2>2, <2>3 DEF Once
<1>7. ASSUME NEW s, s # n, Never(q, s) PROVE Never(r, s)
  BY <1>1, <1>2, <1>7 DEF Never
<1> QED BY <1>1, <1>5, <1>6, <1>7 DEF r

(* A new publisher takes each subscriber that is linked to it, once. *)
LEMMA TakenOnce ==
    ASSUME NEW S, NEW subs \in Seq(S), NEW pub
    PROVE  LET q == TakenFrom(subs, pub)[Len(subs)]
           IN /\ q \in Seq(Nat)
              /\ \A j \in DOMAIN q : q[j] \in 1 .. Len(subs)
              /\ \A s \in 1 .. Len(subs) :
                    IF Linked(pub, subs[s]) THEN Once(q, s) ELSE Never(q, s)
<1> DEFINE t == TakenFrom(subs, pub)
           Good(n) == /\ t[n] \in Seq(Nat)
                      /\ \A j \in DOMAIN t[n] : t[n][j] \in 1 .. n
                      /\ \A s \in 1 .. n :
                            IF Linked(pub, subs[s]) THEN Once(t[n], s) ELSE Never(t[n], s)
           T == {n \in Nat : n <= Len(subs) => Good(n)}
<1>1. /\ t[0] = <<>>
      /\ \A n \in 1 .. Len(subs) : t[n] = Extended(subs, pub, t[n - 1], n)
  BY TakenUnfolds
<1> HIDE DEF t
<1>2. 0 \in T
  <2>1. t[0] \in Seq(Nat) /\ DOMAIN t[0] = {} /\ 1 .. 0 = {}
    BY <1>1
  <2> QED BY <2>1
<1>3. ASSUME NEW n \in Nat, n \in T PROVE n + 1 \in T
  <2>1. SUFFICES ASSUME n + 1 <= Len(subs) PROVE Good(n + 1)
    BY <1>3
  <2>2. Good(n)
    BY <1>3, <2>1
  <2>3. t[n + 1] = Extended(subs, pub, t[n], n + 1)
    BY <1>1, <2>1
  <2>4. Never(t[n], n + 1)
    BY <2>2 DEF Never
  <2>5. CASE Linked(pub, subs[n + 1])
    <3>1. t[n + 1] = Append(t[n], n + 1)
      BY <2>3, <2>5 DEF Extended
    <3>2. /\ Append(t[n], n + 1) \in Seq(Nat) /\ Once(Append(t[n], n + 1), n + 1)
          /\ \A s : s # n + 1 /\ Once(t[n], s) => Once(Append(t[n], n + 1), s)
          /\ \A s : s # n + 1 /\ Never(t[n], s) => Never(Append(t[n], n + 1), s)
      BY <2>2, <2>4, AppendOnce
    <3>3. ASSUME NEW s \in 1 .. (n + 1)
          PROVE  IF Linked(pub, subs[s]) THEN Once(t[n + 1], s) ELSE Never(t[n + 1], s)
      <4>1. CASE s = n + 1
        BY <2>5, <3>1, <3>2, <4>1
      <4>2. CASE s # n + 1
        <5>1. s \in 1 .. n
          BY <4>2
        <5> QED BY <2>2, <3>1, <3>2, <4>2, <5>1
      <4> QED BY <4>1, <4>2
    <3>4. ASSUME NEW j \in DOMAIN t[n + 1] PROVE t[n + 1][j] \in 1 .. (n + 1)
      <4>1. t[n] \in Seq(Nat) /\ \A l \in DOMAIN t[n] : t[n][l] \in 1 .. n
        BY <2>2
      <4>2. t[n + 1][j] = n + 1 \/ (j \in DOMAIN t[n] /\ t[n + 1][j] = t[n][j])
        BY <3>1, <3>4, <4>1
      <4>3. n + 1 \in 1 .. (n + 1) /\ \A l \in 1 .. n : l \in 1 .. (n + 1)
        OBVIOUS
      <4> QED BY <4>1, <4>2, <4>3
    <3> QED BY <3>1, <3>2, <3>3, <3>4
  <2>6. CASE ~ Linked(pub, subs[n + 1])
    <3>1. t[n + 1] = t[n]
      BY <2>3, <2>6 DEF Extended
    <3>2. ASSUME NEW s \in 1 .. (n + 1)
          PROVE  IF Linked(pub, subs[s]) THEN Once(t[n + 1], s) ELSE Never(t[n + 1], s)
      <4>1. s = n + 1 \/ s \in 1 .. n
        OBVIOUS
      <4> QED BY <2>2, <2>4, <2>6, <3>1, <4>1
    <3>3. \A l \in 1 .. n : l \in 1 .. (n + 1)
      OBVIOUS
    <3> QED BY <2>2, <3>1, <3>2, <3>3
  <2> QED BY <2>5, <2>6
<1>4. Len(subs) \in T
  <2> HIDE DEF T
  <2>1. Len(subs) \in Nat
    OBVIOUS
  <2> QED BY <1>2, <1>3, <2>1, ByInduction
<1>5. Good(Len(subs))
  BY <1>4
<1> QED BY <1>5 DEF t

-----------------------------------------------------------------------------
(* The tables of one process.                                              *)

CallbackItems == {slot[2] : slot \in UNION {Subscribed[p] : p \in Node}}

Publisher  == [node_id : 0 .. MAX_NODE_ID, is_owner : BOOLEAN, local_sub_ptr : Seq(Nat)]
Subscriber == [node_id : 0 .. MAX_NODE_ID, is_owner : BOOLEAN, callbacks : SUBSET CallbackItems]

(* A publisher and a subscriber of the same end at each place. *)
SameEnd(pub, sub) == pub.node_id = sub.node_id /\ pub.is_owner = sub.is_owner

(* The places of the subscribers that a publisher reaches. *)
Reaches(pub, subs) ==
    /\ \A j \in DOMAIN pub.local_sub_ptr : pub.local_sub_ptr[j] \in 1 .. Len(subs)
    /\ \A s \in 1 .. Len(subs) :
         IF Linked(pub, subs[s]) THEN Once(pub.local_sub_ptr, s) ELSE Never(pub.local_sub_ptr, s)

Tables(pubs, subs, ends) ==
    /\ pubs \in Seq(Publisher) /\ subs \in Seq(Subscriber) /\ Len(pubs) = Len(subs)
    /\ \A k \in 1 .. Len(pubs) :
         /\ SameEnd(pubs[k], subs[k]) /\ <<pubs[k].node_id, pubs[k].is_owner>> \in ends
         /\ Reaches(pubs[k], subs)

(* The parts of a publisher that registration may change. *)
LEMMA Registers ==
    ASSUME NEW pubs \in Seq(Publisher), NEW sub, NEW n \in Nat
    PROVE  LET new == registerLocally(pubs, sub, n)
           IN /\ new \in Seq(Publisher) /\ Len(new) = Len(pubs)
              /\ \A k \in 1 .. Len(pubs) :
                   /\ new[k].node_id = pubs[k].node_id /\ new[k].is_owner = pubs[k].is_owner
                   /\ new[k].local_sub_ptr = IF Linked(pubs[k], sub)
                                             THEN Append(pubs[k].local_sub_ptr, n)
                                             ELSE pubs[k].local_sub_ptr
<1> DEFINE new == registerLocally(pubs, sub, n)
<1>1. DOMAIN pubs = 1 .. Len(pubs) /\ Len(pubs) \in Nat
  OBVIOUS
<1>2. new = [k \in 1 .. Len(pubs) |->
               IF Linked(pubs[k], sub)
               THEN [pubs[k] EXCEPT !.local_sub_ptr = Append(@, n)] ELSE pubs[k]]
  BY <1>1 DEF registerLocally
<1>3. ASSUME NEW k \in 1 .. Len(pubs)
      PROVE  /\ new[k] \in Publisher
             /\ new[k].node_id = pubs[k].node_id /\ new[k].is_owner = pubs[k].is_owner
             /\ new[k].local_sub_ptr = IF Linked(pubs[k], sub)
                                       THEN Append(pubs[k].local_sub_ptr, n)
                                       ELSE pubs[k].local_sub_ptr
  <2>0. pubs[k] \in Publisher
    BY <1>1
  <2>1. pubs[k] \in Publisher /\ pubs[k].local_sub_ptr \in Seq(Nat)
    BY <2>0 DEF Publisher
  <2>2. Append(pubs[k].local_sub_ptr, n) \in Seq(Nat)
    BY <2>1
  <2>3. new[k] = IF Linked(pubs[k], sub)
                 THEN [pubs[k] EXCEPT !.local_sub_ptr = Append(@, n)] ELSE pubs[k]
    BY <1>2
  <2> HIDE DEF new
  <2> QED BY <2>1, <2>2, <2>3 DEF Publisher
<1>4. new \in [1 .. Len(pubs) -> Publisher]
  <2>1. \A k \in 1 .. Len(pubs) : new[k] \in Publisher
    BY <1>3
  <2>2. new = [k \in 1 .. Len(pubs) |-> new[k]]
    BY <1>2
  <2> HIDE DEF new
  <2> QED BY <2>1, <2>2
<1>5. new \in Seq(Publisher) /\ Len(new) = Len(pubs)
  <2> HIDE DEF new
  <2>1. DOMAIN new = 1 .. Len(pubs)
    BY <1>4
  <2> QED BY <1>1, <1>4, <2>1
<1> QED BY <1>3, <1>5

(* Binding an end keeps the tables of its process in order, whatever was   *)
(* bound before it.                                                        *)
(* The tables of a process with one more end. *)
OneMore(pubs, subs, ends, new, sub) ==
    /\ Tables(new, Append(subs, sub), ends)
    /\ DOMAIN pubs = 1 .. Len(subs) /\ DOMAIN new = 1 .. (Len(subs) + 1)
    /\ \A k \in 1 .. Len(subs) : SameEnd(new[k], pubs[k])
    /\ SameEnd(new[Len(subs) + 1], sub)

LEMMA BindKeepsTables ==
    ASSUME NEW pubs, NEW subs, NEW ends, Tables(pubs, subs, ends),
           NEW id \in 0 .. MAX_NODE_ID, NEW owner \in BOOLEAN, <<id, owner>> \in ends
    PROVE  LET sub == [node_id |-> id, is_owner |-> owner, callbacks |-> {}]
           IN OneMore(pubs, subs, ends,
                      registerLocally(Append(pubs, bindPublisherToChannel(subs, id, owner)),
                                      sub, Len(subs) + 1), sub)
<1> DEFINE n     == Len(subs)
           sub   == [node_id |-> id, is_owner |-> owner, callbacks |-> {}]
           pub   == bindPublisherToChannel(subs, id, owner)
           subs2 == Append(subs, sub)
           mid   == Append(pubs, pub)
           new   == registerLocally(mid, sub, n + 1)
<1>1. /\ n \in Nat /\ subs \in Seq(Subscriber) /\ pubs \in Seq(Publisher) /\ Len(pubs) = n
  BY DEF Tables
<1>2. /\ pub \in Publisher /\ pub.node_id = id /\ pub.is_owner = owner /\ Reaches(pub, subs)
  <2> DEFINE bare == [node_id |-> id, is_owner |-> owner, local_sub_ptr |-> <<>>]
             q    == TakenFrom(subs, bare)[Len(subs)]
  <2>1. /\ q \in Seq(Nat) /\ \A j \in DOMAIN q : q[j] \in 1 .. Len(subs)
        /\ \A s \in 1 .. Len(subs) : IF Linked(bare, subs[s]) THEN Once(q, s) ELSE Never(q, s)
    BY <1>1, TakenOnce
  <2>2. pub = [bare EXCEPT !.local_sub_ptr = q]
    BY DEF bindPublisherToChannel
  <2>3. bare.node_id = id /\ bare.is_owner = owner
    OBVIOUS
  <2>4. pub = [node_id |-> id, is_owner |-> owner, local_sub_ptr |-> q]
    <3> HIDE DEF q
    <3> QED BY <2>2
  <2> HIDE DEF q, pub
  <2>5. pub.node_id = id /\ pub.is_owner = owner /\ pub.local_sub_ptr = q
    BY <2>4
  <2>6. pub \in Publisher
    BY <2>1, <2>4 DEF Publisher
  <2>7. \A s : Linked(bare, subs[s]) <=> Linked(pub, subs[s])
    BY <2>3, <2>5 DEF Linked
  <2> HIDE DEF bare
  <2>8. Reaches(pub, subs)
    BY <2>1, <2>5, <2>7 DEF Reaches
  <2> QED BY <2>5, <2>6, <2>8
<1> HIDE DEF pub
<1>3. sub \in Subscriber /\ sub.node_id = id /\ sub.is_owner = owner
  BY DEF Subscriber
<1> HIDE DEF sub
<1>4. /\ subs2 \in Seq(Subscriber) /\ Len(subs2) = n + 1
      /\ subs2[n + 1] = sub /\ \A s \in 1 .. n : subs2[s] = subs[s]
  BY <1>1, <1>3
<1>5. /\ mid \in Seq(Publisher) /\ Len(mid) = n + 1
      /\ mid[n + 1] = pub /\ \A k \in 1 .. n : mid[k] = pubs[k]
  BY <1>1, <1>2
<1> HIDE DEF subs2, mid
<1>6. /\ new \in Seq(Publisher) /\ Len(new) = Len(mid)
      /\ \A k \in 1 .. Len(mid) :
           /\ new[k].node_id = mid[k].node_id /\ new[k].is_owner = mid[k].is_owner
           /\ new[k].local_sub_ptr = IF Linked(mid[k], sub)
                                     THEN Append(mid[k].local_sub_ptr, n + 1)
                                     ELSE mid[k].local_sub_ptr
  <2>1. n + 1 \in Nat
    BY <1>1
  <2> QED BY <1>5, <2>1, Registers
<1> HIDE DEF new
<1>7. ASSUME NEW k \in 1 .. (n + 1)
      PROVE  /\ SameEnd(new[k], subs2[k])
             /\ <<new[k].node_id, new[k].is_owner>> \in ends
             /\ mid[k] \in Publisher /\ Reaches(mid[k], subs)
  <2>1. k = n + 1 \/ k \in 1 .. n
    BY <1>1
  <2>2. CASE k = n + 1
    BY <1>2, <1>3, <1>4, <1>5, <1>6, <2>2 DEF SameEnd
  <2>3. CASE k \in 1 .. n
    <3>1. /\ SameEnd(pubs[k], subs[k]) /\ <<pubs[k].node_id, pubs[k].is_owner>> \in ends
          /\ Reaches(pubs[k], subs) /\ pubs[k] \in Publisher
      BY <1>1, <2>3 DEF Tables
    <3> QED BY <1>4, <1>5, <1>6, <2>3, <3>1 DEF SameEnd
  <2> QED BY <2>1, <2>2, <2>3
<1>8. ASSUME NEW k \in 1 .. (n + 1)
      PROVE  Reaches(new[k], subs2)
  <2> DEFINE q == mid[k].local_sub_ptr
             r == new[k].local_sub_ptr
  <2>1. /\ q \in Seq(Nat)
        /\ \A j \in DOMAIN q : q[j] \in 1 .. n
        /\ \A s \in 1 .. n : IF Linked(mid[k], subs[s]) THEN Once(q, s) ELSE Never(q, s)
    BY <1>7 DEF Reaches, Publisher
  <2>2. /\ r = IF Linked(mid[k], sub) THEN Append(q, n + 1) ELSE q
        /\ \A x : Linked(new[k], x) <=> Linked(mid[k], x)
    BY <1>5, <1>6 DEF Linked
  <2> HIDE DEF q, r
  <2>3. Never(q, n + 1)
    BY <1>1, <2>1 DEF Never
  <2>4. ASSUME NEW s \in 1 .. (n + 1)
        PROVE  IF Linked(new[k], subs2[s]) THEN Once(r, s) ELSE Never(r, s)
    <3>1. CASE s \in 1 .. n
      <4>1. IF Linked(mid[k], subs2[s]) THEN Once(q, s) ELSE Never(q, s)
        BY <1>4, <2>1, <3>1
      <4>2. s # n + 1
        BY <1>1, <3>1
      <4>3. CASE Linked(mid[k], sub)
        <5>1. (Once(q, s) => Once(Append(q, n + 1), s)) /\ (Never(q, s) => Never(Append(q, n + 1), s))
          BY <1>1, <2>1, <2>3, <4>2, AppendOnce
        <5> QED BY <2>2, <4>1, <4>3, <5>1
      <4>4. CASE ~ Linked(mid[k], sub)
        BY <2>2, <4>1, <4>4
      <4> QED BY <4>3, <4>4
    <3>2. CASE s = n + 1
      <4>1. CASE Linked(mid[k], sub)
        <5>1. Once(Append(q, n + 1), n + 1)
          BY <1>1, <2>1, <2>3, AppendOnce
        <5> QED BY <1>4, <2>2, <3>2, <4>1, <5>1
      <4>2. CASE ~ Linked(mid[k], sub)
        BY <1>4, <2>2, <2>3, <3>2, <4>2
      <4> QED BY <4>1, <4>2
    <3> QED BY <1>1, <3>1, <3>2
  <2>5. ASSUME NEW j \in DOMAIN r PROVE r[j] \in 1 .. (n + 1)
    <3>1. \A l \in 1 .. n : l \in 1 .. (n + 1)
      BY <1>1
    <3>2. r[j] = n + 1 \/ (j \in DOMAIN q /\ r[j] = q[j])
      BY <2>1, <2>2, <2>5
    <3>3. n + 1 \in 1 .. (n + 1)
      BY <1>1
    <3> QED BY <2>1, <3>1, <3>2, <3>3
  <2> QED BY <1>4, <2>4, <2>5 DEF Reaches, r
<1>9. Tables(new, subs2, ends)
  BY <1>4, <1>5, <1>6, <1>7, <1>8 DEF Tables
<1>10. /\ DOMAIN pubs = 1 .. n /\ DOMAIN new = 1 .. (n + 1)
       /\ \A k \in 1 .. n : SameEnd(new[k], pubs[k])
       /\ SameEnd(new[n + 1], sub)
  <2>1. DOMAIN pubs = 1 .. n /\ DOMAIN new = 1 .. (n + 1)
    BY <1>1, <1>5, <1>6
  <2>2. n + 1 \in 1 .. (n + 1) /\ \A k \in 1 .. n : k \in 1 .. (n + 1)
    BY <1>1
  <2> QED BY <1>2, <1>3, <1>5, <1>6, <2>1, <2>2 DEF SameEnd
<1>11. OneMore(pubs, subs, ends, new, sub)
  BY <1>9, <1>10 DEF OneMore, subs2, n
<1> QED BY <1>11 DEF new, mid, pub, sub, n

-----------------------------------------------------------------------------
(* The tables of every process.                                            *)

TablesInv ==
    /\ publishers \in [Node -> Seq(Publisher)] /\ subscribers \in [Node -> Seq(Subscriber)]
    /\ \A p \in Node : Tables(publishers[p], subscribers[p], Ends[p])

(* A process that subscribes changes the callbacks of one subscriber. *)
LEMMA SubscribeKeepsTables ==
    ASSUME NEW pubs, NEW subs, NEW ends, Tables(pubs, subs, ends),
           NEW k \in DOMAIN subs, NEW i \in CallbackItems
    PROVE  Tables(pubs, [subs EXCEPT ![k].callbacks = @ \cup {i}], ends)
<1> DEFINE new == [subs EXCEPT ![k].callbacks = @ \cup {i}]
<1>1. /\ subs \in Seq(Subscriber) /\ DOMAIN subs = 1 .. Len(subs) /\ Len(subs) \in Nat
      /\ Len(pubs) = Len(subs)
  BY DEF Tables
<1>2. new = [s \in 1 .. Len(subs) |->
               IF s = k THEN [subs[s] EXCEPT !.callbacks = @ \cup {i}] ELSE subs[s]]
  BY <1>1
<1>3. ASSUME NEW s \in 1 .. Len(subs)
      PROVE  /\ new[s] \in Subscriber
             /\ new[s].node_id = subs[s].node_id /\ new[s].is_owner = subs[s].is_owner
  <2>0. subs[s] \in Subscriber
    BY <1>1
  <2>1. subs[s] \in Subscriber /\ subs[s].callbacks \in SUBSET CallbackItems
    BY <2>0 DEF Subscriber
  <2>2. new[s] = IF s = k THEN [subs[s] EXCEPT !.callbacks = @ \cup {i}] ELSE subs[s]
    BY <1>2
  <2>3. subs[s].callbacks \cup {i} \in SUBSET CallbackItems
    BY <2>1
  <2> HIDE DEF new
  <2> QED BY <2>1, <2>2, <2>3 DEF Subscriber
<1>4. new \in Seq(Subscriber) /\ Len(new) = Len(subs)
  <2>1. \A s \in 1 .. Len(subs) : new[s] \in Subscriber
    BY <1>3
  <2>2. new = [s \in 1 .. Len(subs) |-> new[s]]
    BY <1>2
  <2> HIDE DEF new
  <2>3. new \in [1 .. Len(subs) -> Subscriber] /\ DOMAIN new = 1 .. Len(subs)
    BY <2>1, <2>2
  <2> QED BY <1>1, <2>3
<1>5. \A s \in 1 .. Len(subs) : /\ new[s].node_id = subs[s].node_id
                               /\ new[s].is_owner = subs[s].is_owner
  BY <1>3
<1> HIDE DEF new
<1>6. ASSUME NEW j \in 1 .. Len(pubs)
      PROVE  /\ SameEnd(pubs[j], new[j]) /\ <<pubs[j].node_id, pubs[j].is_owner>> \in ends
             /\ Reaches(pubs[j], new)
  <2>1. /\ SameEnd(pubs[j], subs[j]) /\ <<pubs[j].node_id, pubs[j].is_owner>> \in ends
        /\ Reaches(pubs[j], subs)
    BY DEF Tables
  <2>2. SameEnd(pubs[j], new[j])
    BY <1>1, <1>5, <2>1 DEF SameEnd
  <2>3. \A s \in 1 .. Len(subs) : Linked(pubs[j], new[s]) <=> Linked(pubs[j], subs[s])
    BY <1>5 DEF Linked
  <2>4. Reaches(pubs[j], new)
    BY <1>4, <2>1, <2>3 DEF Reaches
  <2> QED BY <2>1, <2>2, <2>4
<1>7. Tables(pubs, new, ends)
  BY <1>4, <1>6, <1>1 DEF Tables
<1> QED BY <1>7 DEF new

LEMMA EndsTyped ==
    ASSUME NEW p \in Node, NEW e \in Ends[p]
    PROVE  e = <<e[1], e[2]>> /\ e[1] \in 0 .. MAX_NODE_ID /\ e[2] \in BOOLEAN
<1>1. e \in (0 .. MAX_NODE_ID) \X BOOLEAN
  BY PubSubAssumption
<1> QED BY <1>1

LEMMA TablesInit == Init => TablesInv
<1> SUFFICES ASSUME Init PROVE TablesInv
  OBVIOUS
<1>2. ASSUME NEW p \in Node PROVE Tables(publishers[p], subscribers[p], Ends[p])
  <2>1. publishers[p] = <<>> /\ subscribers[p] = <<>>
    BY DEF Init
  <2>2. <<>> \in Seq(Publisher) /\ <<>> \in Seq(Subscriber) /\ Len(<<>>) = 0 /\ 1 .. 0 = {}
    OBVIOUS
  <2> QED BY <2>1, <2>2 DEF Tables
<1>3. publishers \in [Node -> Seq(Publisher)] /\ subscribers \in [Node -> Seq(Subscriber)]
  BY DEF Init
<1> QED BY <1>2, <1>3 DEF TablesInv

LEMMA TablesStep == TablesInv /\ [Next]_vars => TablesInv'
<1> SUFFICES ASSUME TablesInv, [Next]_vars PROVE TablesInv'
  OBVIOUS
<1> USE DEF TablesInv
<1>1. ASSUME NEW p \in Node, NEW e \in Ends[p], bindChannel(p, e[1], e[2]) PROVE TablesInv'
  <2> DEFINE sub == [node_id |-> e[1], is_owner |-> e[2], callbacks |-> {}]
             ps  == registerLocally(Append(publishers[p],
                                           bindPublisherToChannel(subscribers[p], e[1], e[2])),
                                    sub, Len(subscribers[p]) + 1)
             ss  == Append(subscribers[p], sub)
  <2>1. publishers' = [publishers EXCEPT ![p] = ps] /\ subscribers' = [subscribers EXCEPT ![p] = ss]
    BY <1>1 DEF bindChannel
  <2>2. Tables(ps, ss, Ends[p])
    <3>1. e[1] \in 0 .. MAX_NODE_ID /\ e[2] \in BOOLEAN /\ <<e[1], e[2]>> \in Ends[p]
      BY EndsTyped
    <3>2. OneMore(publishers[p], subscribers[p], Ends[p], ps, sub)
      BY <3>1, BindKeepsTables
    <3> QED BY <3>2 DEF OneMore
  <2> HIDE DEF ps, ss
  <2>3. ps \in Seq(Publisher) /\ ss \in Seq(Subscriber)
    BY <2>2 DEF Tables
  <2> QED BY <2>1, <2>2, <2>3
<1>2. ASSUME NEW p \in Node, NEW k \in DOMAIN subscribers[p], NEW slot \in Subscribed[p],
             subscribe(p, k, slot[2])
      PROVE  TablesInv'
  <2> DEFINE ss == [subscribers[p] EXCEPT ![k].callbacks = @ \cup {slot[2]}]
  <2>1. publishers' = publishers /\ subscribers' = [subscribers EXCEPT ![p] = ss]
    BY <1>2 DEF subscribe
  <2>2. Tables(publishers[p], ss, Ends[p])
    <3>1. slot[2] \in CallbackItems
      BY DEF CallbackItems
    <3> QED BY <3>1, SubscribeKeepsTables
  <2> HIDE DEF ss
  <2>3. ss \in Seq(Subscriber)
    BY <2>2 DEF Tables
  <2> QED BY <2>1, <2>2, <2>3
<1>3. CASE UNCHANGED <<publishers, subscribers>>
  BY <1>3
<1>4. ASSUME NEW p \in Node, CallStep(p) PROVE UNCHANGED <<publishers, subscribers>>
  BY <1>4 DEF CallStep, notify, ReturnLocally, Send, SendAsserts, bindVars
<1>5. ASSUME NEW p \in Node, HandleMessage(p) PROVE UNCHANGED <<publishers, subscribers>>
  BY <1>5 DEF HandleMessage
<1>6. ASSUME NEW p \in Node, NEW k \in DOMAIN publishers[p], NEW m \in Offered[p], NEW form \in Form,
             publish(p, k, m[2], m[3], form, m[4])
      PROVE  UNCHANGED <<publishers, subscribers>>
  BY <1>6 DEF publish
<1>7. CASE UNCHANGED vars
  BY <1>3, <1>7 DEF vars
<1> QED BY <1>1, <1>2, <1>3, <1>4, <1>5, <1>6, <1>7 DEF Next, Application

(* Two entries of the same list are one link, however they were made. *)
LEMMA OnceIsOne ==
    ASSUME NEW q \in Seq(Nat), NEW s
    PROVE  /\ Once(q, s) => Cardinality({j \in DOMAIN q : q[j] = s}) = 1
           /\ Never(q, s) => Cardinality({j \in DOMAIN q : q[j] = s}) = 0
<1>1. ASSUME Once(q, s) PROVE Cardinality({j \in DOMAIN q : q[j] = s}) = 1
  <2>1. PICK j \in DOMAIN q : q[j] = s /\ \A l \in DOMAIN q : q[l] = s => l = j
    BY <1>1 DEF Once
  <2>2. {l \in DOMAIN q : q[l] = s} = {j}
    BY <2>1
  <2> QED BY <2>2, FS_Singleton
<1>2. ASSUME Never(q, s) PROVE Cardinality({j \in DOMAIN q : q[j] = s}) = 0
  <2>1. {l \in DOMAIN q : q[l] = s} = {}
    BY <1>2 DEF Never
  <2> QED BY <2>1, FS_EmptySet
<1> QED BY <1>1, <1>2

LEMMA TablesLink == TablesInv => LinkedOnce
<1> SUFFICES ASSUME TablesInv, NEW p \in Node,
                    NEW k \in DOMAIN publishers[p], NEW s \in DOMAIN subscribers[p]
             PROVE  LET pub == publishers[p][k]
                        sub == subscribers[p][s]
                        links == {j \in DOMAIN pub.local_sub_ptr : pub.local_sub_ptr[j] = s}
                    IN Cardinality(links) =
                         IF PublishChannel(pub) = SubscribeChannel(sub) THEN 1 ELSE 0
  BY DEF LinkedOnce
<1> DEFINE pub == publishers[p][k]
           sub == subscribers[p][s]
<1>0. Tables(publishers[p], subscribers[p], Ends[p])
  BY DEF TablesInv
<1>1. /\ publishers[p] \in Seq(Publisher) /\ subscribers[p] \in Seq(Subscriber)
      /\ k \in 1 .. Len(publishers[p]) /\ s \in 1 .. Len(subscribers[p])
      /\ Reaches(pub, subscribers[p])
  <2>1. publishers[p] \in Seq(Publisher) /\ subscribers[p] \in Seq(Subscriber)
    BY <1>0 DEF Tables
  <2>2. k \in 1 .. Len(publishers[p]) /\ s \in 1 .. Len(subscribers[p])
    BY <2>1
  <2> QED BY <1>0, <2>1, <2>2 DEF Tables
<1>2. pub \in Publisher /\ sub \in Subscriber
  BY <1>1
<1>3. /\ pub.local_sub_ptr \in Seq(Nat)
      /\ IF Linked(pub, sub) THEN Once(pub.local_sub_ptr, s) ELSE Never(pub.local_sub_ptr, s)
  BY <1>1, <1>2 DEF Reaches, Publisher
<1>4. Linked(pub, sub) <=> PublishChannel(pub) = SubscribeChannel(sub)
  <2>1. pub.is_owner \in BOOLEAN /\ sub.is_owner \in BOOLEAN
    BY <1>2 DEF Publisher, Subscriber
  <2>2. pub.is_owner # sub.is_owner <=> Bit(pub.is_owner) = Bit(~ sub.is_owner)
    BY <2>1 DEF Bit
  <2> HIDE DEF pub, sub
  <2> QED BY <2>2 DEF Linked, PublishChannel, SubscribeChannel
<1> HIDE DEF pub, sub
<1>5. Cardinality({j \in DOMAIN pub.local_sub_ptr : pub.local_sub_ptr[j] = s}) =
        IF PublishChannel(pub) = SubscribeChannel(sub) THEN 1 ELSE 0
  BY <1>3, <1>4, OnceIsOne
<1> QED BY <1>5 DEF pub, sub

(* LinkedOnce for any ends, bound in any order while the process calls     *)
(* back, publishes and receives: every publisher reaches every subscriber  *)
(* on the other side of its node, once.  Code: bindPublisherToChannel,     *)
(* bindSubscriberToChannel.                                                *)
THEOREM LinksCorrect == Spec => []LinkedOnce
<1>1. Spec => []TablesInv
  BY TablesInit, TablesStep, PTL DEF Spec
<1> QED BY <1>1, TablesLink, PTL

-----------------------------------------------------------------------------
(* Buffers, calls, publications and packets.                               *)

Image(p, ch) == [0 .. (Dict[p][ch[2]].bytes - 1) -> Byte]

(* The bytes of an item of a channel. *)
Datum(p, ch, i, data) ==
    i \in Items(p, ch) /\ data \in Seq(Byte) /\ Len(data) = Dict[p][ch[2]].data_size[i]

BuffersOf(p, pubs, subs, buffers) ==
    /\ DOMAIN buffers \subseteq Channel
    /\ \A ch \in DOMAIN buffers : buffers[ch] \in Image(p, ch)
    /\ \A k \in DOMAIN pubs : PublishChannel(pubs[k]) \in DOMAIN buffers
    /\ \A k \in DOMAIN subs : SubscribeChannel(subs[k]) \in DOMAIN buffers

Call == [pub : Nat, index : Nat, data : Seq(Byte), next : Nat, local_only : BOOLEAN]

(* A call publishes an item of its publisher's channel. *)
Publishing(p, pubs, c) ==
    /\ c.pub \in DOMAIN pubs /\ c.next >= 1
    /\ Datum(p, PublishChannel(pubs[c.pub]), c.index, c.data)

StackOf(p, pubs, stack) ==
    /\ stack \in Seq(Call)
    /\ \A j \in DOMAIN stack : Publishing(p, pubs, stack[j])

Publication == [from : Node, channel : Channel, index : Nat, data : Seq(Byte), sent : BOOLEAN]

(* A publication that was sent fits the header of its frame. *)
Published(e) ==
    /\ e \in Publication /\ Datum(e.from, e.channel, e.index, e.data)
    /\ e.sent => e.index <= 7

FrameOf(e) == fastMessageBuilder(e.channel[1], e.channel[2], e.index, e.data)

Packet == [no : Nat, msg : {FrameOf(e) : e \in Publication}]

(* A packet is the frame of a publication of another process. *)
Received(history, p, packet) ==
    /\ packet \in Packet
    /\ packet.no \in 1 .. Len(history) /\ packet.msg = FrameOf(history[packet.no])
    /\ history[packet.no].sent /\ history[packet.no].from # p

BuffersInv ==
    /\ shared_buffers = [p \in Node |-> shared_buffers[p]]
    /\ \A p \in Node : BuffersOf(p, publishers[p], subscribers[p], shared_buffers[p])

CallsInv ==
    /\ call \in [Node -> Seq(Call)]
    /\ \A p \in Node : StackOf(p, publishers[p], call[p])

HistoryInv ==
    /\ log \in Seq(Publication) /\ \A e \in 1 .. Len(log) : Published(log[e])
    /\ seen \in [Node -> [Channel -> 0 .. Len(log)]]
    /\ since \in [Node -> [Channel -> 0 .. Len(log)]]

PacketsInv ==
    /\ rx \in [Node -> Seq(Packet)]
    /\ \A p \in Node : \A k \in 1 .. Len(rx[p]) : Received(log, p, rx[p][k])

CountsInv == crashed \subseteq Node /\ missed \subseteq Node /\ started \in 0 .. MaxPublish

LEMMA BitTyped == \A b : Bit(b) \in Direction
BY DEF Bit, Direction

LEMMA ChannelTyped ==
    ASSUME NEW p \in Node, NEW id, NEW owner, <<id, owner>> \in Ends[p], NEW d \in Direction
    PROVE  <<id, d>> \in Channel /\ id \in 0 .. MAX_NODE_ID
<1>1. Ends[p] \in {Ends[q] : q \in Node}
  OBVIOUS
<1>2. <<id, owner>> \in UNION {Ends[q] : q \in Node}
  BY <1>1
<1>3. <<id, owner>>[1] \in NodeId
  BY <1>2 DEF NodeId
<1>4. id \in 0 .. MAX_NODE_ID
  BY EndsTyped
<1> QED BY <1>3, <1>4 DEF Channel

LEMMA DictTyped ==
    ASSUME NEW p \in Node, NEW ch \in Channel
    PROVE  LET dict == Dict[p][ch[2]]
           IN /\ IsDict(dict) /\ WellLaidOut(dict) /\ dict.bytes \in Nat
              /\ Items(p, ch) = Indices(dict)
              /\ \A i \in Items(p, ch) : /\ i \in Nat /\ dict.data_size[i] \in Nat
                                         /\ dict.data_size[i] >= 1
                                         /\ dict.buffer_offset[i] \in Nat
                                         /\ dict.buffer_offset[i] + dict.data_size[i] <= dict.bytes
<1> DEFINE dict == Dict[p][ch[2]]
<1>1. ch[2] \in Direction
  BY DEF Channel
<1>2. IsDict(dict) /\ WellLaidOut(dict)
  BY <1>1, PubSubAssumption
<1> HIDE DEF dict
<1>3. dict.bytes \in Nat /\ dict.dictSize \in Nat
  BY <1>2 DEF IsDict
<1>4. Items(p, ch) = Indices(dict)
  BY DEF Items, Indices, dict
<1>5. ASSUME NEW i \in Indices(dict)
      PROVE  /\ i \in Nat /\ dict.data_size[i] \in Nat /\ dict.data_size[i] >= 1
             /\ dict.buffer_offset[i] \in Nat
             /\ dict.buffer_offset[i] + dict.data_size[i] <= dict.bytes
  <2>1. i \in Nat
    BY <1>3 DEF Indices
  <2>2. dict.data_size[i] \in Nat /\ dict.buffer_offset[i] \in Nat
    BY <1>2 DEF IsDict
  <2>3. dict.data_size[i] >= 1 /\ dict.buffer_offset[i] + dict.data_size[i] <= dict.bytes
    BY <1>2 DEF WellLaidOut, Indices
  <2> QED BY <2>1, <2>2, <2>3
<1>6. /\ IsDict(dict) /\ WellLaidOut(dict) /\ dict.bytes \in Nat /\ Items(p, ch) = Indices(dict)
      /\ \A i \in Items(p, ch) : /\ i \in Nat /\ dict.data_size[i] \in Nat
                                 /\ dict.data_size[i] >= 1 /\ dict.buffer_offset[i] \in Nat
                                 /\ dict.buffer_offset[i] + dict.data_size[i] <= dict.bytes
  BY <1>2, <1>3, <1>4, <1>5
<1> QED BY <1>6 DEF dict

(* A copy that ends inside a buffer leaves a buffer. *)
LEMMA CopyTyped ==
    ASSUME NEW n \in Nat, NEW buffer \in [0 .. (n - 1) -> Byte],
           NEW at \in Nat, NEW data \in Seq(Byte), at + Len(data) <= n
    PROVE  memcpy(buffer, at, data) \in [0 .. (n - 1) -> Byte]
<1>1. memcpy(buffer, at, data) = [k \in 0 .. (n - 1) |->
        IF at <= k /\ k < at + Len(data) THEN data[k - at + 1] ELSE buffer[k]]
  <2> DEFINE m == Len(data)
  <2>1. DOMAIN buffer \cup (at .. (at + m - 1)) = 0 .. (n - 1)
    <3>1. m \in Nat /\ at + m <= n
      OBVIOUS
    <3> HIDE DEF m
    <3>2. at .. (at + m - 1) \subseteq 0 .. (n - 1)
      BY <3>1, SMT
    <3> QED BY <3>2
  <2> QED BY <2>1 DEF memcpy
<1>2. ASSUME NEW k \in 0 .. (n - 1), at <= k, k < at + Len(data)
      PROVE  data[k - at + 1] \in Byte
  <2>1. k \in Nat /\ Len(data) \in Nat
    OBVIOUS
  <2>2. k - at + 1 \in 1 .. Len(data)
    BY <1>2, <2>1
  <2> QED BY <2>2
<1>3. \A k \in 0 .. (n - 1) : buffer[k] \in Byte
  OBVIOUS
<1> QED BY <1>1, <1>2, <1>3

LEMMA MessageTyped ==
    ASSUME NEW p \in Node, NEW ch \in Channel, NEW i \in Items(p, ch), NEW byte \in Byte, NEW form
    PROVE  LET msg == Message(p, ch, i, byte, form)
           IN /\ Datum(p, ch, i, msg.data) /\ msg.buffer_offset \in Nat
              /\ msg.buffer_offset + Len(msg.data) <= Dict[p][ch[2]].bytes
<1> DEFINE dict == Dict[p][ch[2]]
           data == [k \in 1 .. dict.data_size[i] |-> byte]
           msg  == Message(p, ch, i, byte, form)
<1>1. /\ dict.data_size[i] \in Nat /\ dict.buffer_offset[i] \in Nat /\ dict.bytes \in Nat
      /\ dict.buffer_offset[i] + dict.data_size[i] <= dict.bytes
  BY DictTyped
<1>2. data \in Seq(Byte) /\ Len(data) = dict.data_size[i]
  <2>1. data \in [1 .. dict.data_size[i] -> Byte]
    OBVIOUS
  <2> HIDE DEF data
  <2> QED BY <1>1, <2>1
<1>3. msg.data = data /\ msg.buffer_offset \in {0, dict.buffer_offset[i]}
  BY DEF Message, DictItemCall, DictItem
<1> HIDE DEF data, msg, dict
<1>4. Datum(p, ch, i, msg.data)
  BY <1>2, <1>3 DEF Datum, dict
<1>5. msg.buffer_offset \in Nat /\ msg.buffer_offset + Len(msg.data) <= dict.bytes
  <2> DEFINE at == msg.buffer_offset  of == dict.buffer_offset[i]  size == dict.data_size[i]
             bytes == dict.bytes
  <2>1. at \in {0, of} /\ of \in Nat /\ size \in Nat /\ bytes \in Nat /\ of + size <= bytes
    BY <1>1, <1>3
  <2>2. Len(msg.data) = size
    BY <1>2, <1>3
  <2> HIDE DEF at, of, size, bytes
  <2>3. at \in Nat /\ at + size <= bytes
    BY <2>1, SMT
  <2> QED BY <2>2, <2>3 DEF at, bytes
<1> QED BY <1>4, <1>5 DEF msg, dict


(* One buffer more, unless it was there. *)
Extends(p, old, ch, new) ==
    /\ DOMAIN new = DOMAIN old \cup {ch}
    /\ \A c \in DOMAIN new : new[c] \in Image(p, c)
    /\ \A c \in DOMAIN old : new[c] = old[c]

LEMMA GetTyped ==
    ASSUME NEW p \in Node, NEW buffers, DOMAIN buffers \subseteq Channel,
           \A c \in DOMAIN buffers : buffers[c] \in Image(p, c), NEW ch \in Channel
    PROVE  Extends(p, buffers, ch, getSharedBuffer(buffers, p, ch))
<1> DEFINE new  == getSharedBuffer(buffers, p, ch)
           zero == createBuffer(Dict[p][ch[2]])
<1>1. zero \in Image(p, ch)
  BY DEF createBuffer, Image, Byte
<1>2. new = [c \in DOMAIN buffers \cup {ch} |->
               IF c \in DOMAIN buffers THEN buffers[c] ELSE createBuffer(Dict[p][c[2]])]
  BY DEF getSharedBuffer
<1> HIDE DEF new
<1>3. DOMAIN new = DOMAIN buffers \cup {ch} /\ \A c \in DOMAIN buffers : new[c] = buffers[c]
  BY <1>2
<1>4. ch \notin DOMAIN buffers => new[ch] = zero
  BY <1>2
<1>5. \A c \in DOMAIN new : new[c] \in Image(p, c)
  BY <1>1, <1>3, <1>4
<1> QED BY <1>3, <1>5 DEF new, Extends

(* The channels that a bind adds have buffers after it, and those that     *)
(* were there keep theirs.                                                 *)
LEMMA BindKeepsBuffers ==
    ASSUME NEW p \in Node, NEW e \in Ends[p], NEW pubs, NEW subs, NEW buffers,
           Tables(pubs, subs, Ends[p]), BuffersOf(p, pubs, subs, buffers)
    PROVE  LET sub == [node_id |-> e[1], is_owner |-> e[2], callbacks |-> {}]
               pub == bindPublisherToChannel(subs, e[1], e[2])
               new == getSharedBuffer(getSharedBuffer(buffers, p, PublishChannel(pub)),
                                      p, SubscribeChannel(sub))
           IN /\ BuffersOf(p, registerLocally(Append(pubs, pub), sub, Len(subs) + 1),
                           Append(subs, sub), new)
              /\ PublishChannel(pub) = <<e[1], Bit(e[2])>>
              /\ SubscribeChannel(sub) = <<e[1], Bit(~ e[2])>>
              /\ SubscribeChannel(sub) \in Channel
              /\ \A c \in DOMAIN buffers : new[c] = buffers[c]
<1> DEFINE n    == Len(subs)
           sub  == [node_id |-> e[1], is_owner |-> e[2], callbacks |-> {}]
           pub  == bindPublisherToChannel(subs, e[1], e[2])
           ps   == registerLocally(Append(pubs, pub), sub, n + 1)
           ss   == Append(subs, sub)
           mid  == getSharedBuffer(buffers, p, PublishChannel(pub))
           new  == getSharedBuffer(mid, p, SubscribeChannel(sub))
<1>1. e[1] \in 0 .. MAX_NODE_ID /\ e[2] \in BOOLEAN /\ <<e[1], e[2]>> \in Ends[p]
  BY EndsTyped
<1>2. /\ Tables(ps, ss, Ends[p])
      /\ DOMAIN pubs = 1 .. n /\ DOMAIN ps = 1 .. (n + 1)
      /\ \A k \in 1 .. n : SameEnd(ps[k], pubs[k])
      /\ SameEnd(ps[n + 1], sub)
  <2>1. OneMore(pubs, subs, Ends[p], ps, sub)
    BY <1>1, BindKeepsTables
  <2> QED BY <2>1 DEF OneMore
<1>3. PublishChannel(pub) = <<e[1], Bit(e[2])>> /\ SubscribeChannel(sub) = <<e[1], Bit(~ e[2])>>
  BY DEF PublishChannel, SubscribeChannel, bindPublisherToChannel
<1>4. PublishChannel(pub) \in Channel /\ SubscribeChannel(sub) \in Channel
  BY <1>1, <1>3, BitTyped, ChannelTyped
<1>5. /\ n \in Nat /\ DOMAIN subs = 1 .. n /\ DOMAIN ss = 1 .. (n + 1)
      /\ ss[n + 1] = sub /\ \A k \in 1 .. n : ss[k] = subs[k]
  BY DEF Tables
<1>6. sub.node_id = e[1] /\ sub.is_owner = e[2]
  OBVIOUS
<1> HIDE DEF n, pub, sub, ps, ss, mid, new
<1>7. /\ DOMAIN mid = DOMAIN buffers \cup {PublishChannel(pub)}
      /\ \A c \in DOMAIN mid : mid[c] \in Image(p, c)
      /\ \A c \in DOMAIN buffers : mid[c] = buffers[c]
  <2>1. Extends(p, buffers, PublishChannel(pub), mid)
    BY <1>4, GetTyped DEF BuffersOf, mid
  <2> QED BY <2>1 DEF Extends
<1>8. DOMAIN mid \subseteq Channel
  BY <1>4, <1>7 DEF BuffersOf
<1>9. /\ DOMAIN new = DOMAIN mid \cup {SubscribeChannel(sub)}
      /\ \A c \in DOMAIN new : new[c] \in Image(p, c)
      /\ \A c \in DOMAIN mid : new[c] = mid[c]
  <2>1. Extends(p, mid, SubscribeChannel(sub), new)
    BY <1>4, <1>7, <1>8, GetTyped DEF new
  <2> QED BY <2>1 DEF Extends
<1>10. ASSUME NEW k \in 1 .. (n + 1)
       PROVE  PublishChannel(ps[k]) \in DOMAIN new /\ SubscribeChannel(ss[k]) \in DOMAIN new
  <2>1. CASE k \in 1 .. n
    <3>1. PublishChannel(pubs[k]) \in DOMAIN buffers /\ SubscribeChannel(subs[k]) \in DOMAIN buffers
      BY <1>2, <1>5, <2>1 DEF BuffersOf
    <3>2. PublishChannel(ps[k]) = PublishChannel(pubs[k])
      BY <1>2, <2>1 DEF PublishChannel, SameEnd
    <3> QED BY <1>5, <1>7, <1>9, <2>1, <3>1, <3>2
  <2>2. CASE k = n + 1
    <3>1. PublishChannel(ps[k]) = PublishChannel(pub)
      BY <1>2, <1>3, <1>6, <2>2 DEF PublishChannel, SameEnd
    <3> QED BY <1>5, <1>7, <1>9, <2>2, <3>1
  <2> QED BY <1>5, <2>1, <2>2
<1>11. BuffersOf(p, ps, ss, new)
  <2>1. DOMAIN new \subseteq Channel
    BY <1>4, <1>8, <1>9
  <2> QED BY <1>2, <1>5, <1>9, <1>10, <2>1 DEF BuffersOf
<1> QED BY <1>3, <1>4, <1>7, <1>9, <1>11 DEF new, mid, ps, ss, pub, sub, n


(* A copy into one buffer of one process. *)
LEMMA WriteEffect ==
    ASSUME BuffersInv, NEW p \in Node, NEW ch \in DOMAIN shared_buffers[p],
           NEW at, NEW data,
           shared_buffers' = [shared_buffers EXCEPT ![p][ch] = memcpy(@, at, data)]
    PROVE  /\ shared_buffers' = [q \in Node |-> shared_buffers'[q]]
           /\ \A q \in Node \ {p} : shared_buffers'[q] = shared_buffers[q]
           /\ DOMAIN shared_buffers'[p] = DOMAIN shared_buffers[p]
           /\ \A c \in DOMAIN shared_buffers[p] \ {ch} :
                shared_buffers'[p][c] = shared_buffers[p][c]
           /\ shared_buffers'[p][ch] = memcpy(shared_buffers[p][ch], at, data)
<1>1. shared_buffers = [q \in Node |-> shared_buffers[q]]
  BY DEF BuffersInv
<1>2. shared_buffers' = [q \in Node |->
        IF q = p THEN [shared_buffers[p] EXCEPT ![ch] = memcpy(shared_buffers[p][ch], at, data)]
        ELSE shared_buffers[q]]
  BY <1>1
<1> QED BY <1>2

LEMMA WriteKeeps ==
    ASSUME BuffersInv, NEW p \in Node, NEW ch \in DOMAIN shared_buffers[p],
           NEW at \in Nat, NEW data \in Seq(Byte), at + Len(data) <= Dict[p][ch[2]].bytes,
           shared_buffers' = [shared_buffers EXCEPT ![p][ch] = memcpy(@, at, data)],
           UNCHANGED <<publishers, subscribers>>
    PROVE  BuffersInv'
<1>1. /\ shared_buffers' = [q \in Node |-> shared_buffers'[q]]
      /\ \A q \in Node \ {p} : shared_buffers'[q] = shared_buffers[q]
      /\ DOMAIN shared_buffers'[p] = DOMAIN shared_buffers[p]
      /\ \A c \in DOMAIN shared_buffers[p] \ {ch} : shared_buffers'[p][c] = shared_buffers[p][c]
      /\ shared_buffers'[p][ch] = memcpy(shared_buffers[p][ch], at, data)
  BY WriteEffect
<1>2. BuffersOf(p, publishers[p], subscribers[p], shared_buffers[p])
  BY DEF BuffersInv
<1>3. memcpy(shared_buffers[p][ch], at, data) \in Image(p, ch)
  <2>1. shared_buffers[p][ch] \in Image(p, ch) /\ ch \in Channel
    BY <1>2 DEF BuffersOf
  <2>2. Dict[p][ch[2]].bytes \in Nat
    BY <2>1, DictTyped
  <2> QED BY <2>1, <2>2, CopyTyped DEF Image
<1>4. BuffersOf(p, publishers[p], subscribers[p], shared_buffers'[p])
  BY <1>1, <1>2, <1>3 DEF BuffersOf
<1> QED BY <1>1, <1>4 DEF BuffersInv

(* What the beginning of a publish call does: it pushes a call and copies  *)
(* its message.                                                            *)
Begun(p, k, i, form, local_only, stack, c, at) ==
    /\ Publishing(p, publishers[p], c) /\ c.pub = k /\ c.index = i /\ c.next = 1
    /\ form # "built" => at = Dict[p][PublishChannel(publishers[p][k])[2]].buffer_offset[i]
    /\ call' = [call EXCEPT ![p] = Append(stack, c)]
    /\ shared_buffers' = [shared_buffers EXCEPT
                            ![p][PublishChannel(publishers[p][k])] = memcpy(@, at, c.data)]
    /\ c.local_only => local_only
    /\ at + Len(c.data) <= Dict[p][PublishChannel(publishers[p][k])[2]].bytes

LEMMA BeginEffect ==
    ASSUME NEW p \in Node, NEW k \in DOMAIN publishers[p], NEW form, NEW local_only \in BOOLEAN,
           TablesInv, NEW i \in Items(p, PublishChannel(publishers[p][k])), NEW byte \in Byte,
           NEW stack, Begin(p, k, i, byte, form, local_only, stack)
    PROVE  \E c \in Call, at \in Nat :
             /\ Begun(p, k, i, form, local_only, stack, c, at)
             /\ c.data = Message(p, PublishChannel(publishers[p][k]), i, byte, form).data
<1> DEFINE ch  == PublishChannel(publishers[p][k])
           msg == Message(p, ch, i, byte, form)
           c   == [pub |-> k, index |-> i, data |-> msg.data, next |-> 1,
                   local_only |-> PassedLocalOnly(form, local_only)]
<1>1. k \in Nat /\ ch \in Channel
  <2>0. Tables(publishers[p], subscribers[p], Ends[p])
    BY DEF TablesInv
  <2>1. k \in 1 .. Len(publishers[p]) /\ publishers[p][k] \in Publisher
    BY <2>0 DEF Tables
  <2>2. <<publishers[p][k].node_id, publishers[p][k].is_owner>> \in Ends[p]
    BY <2>0, <2>1 DEF Tables
  <2> QED BY <2>1, <2>2, ChannelTyped, BitTyped DEF PublishChannel
<1>2. /\ Datum(p, ch, i, msg.data) /\ msg.buffer_offset \in Nat
      /\ msg.buffer_offset + Len(msg.data) <= Dict[p][ch[2]].bytes
  BY <1>1, MessageTyped
<1>3. i \in Nat
  BY <1>1, DictTyped
<1>4. form # "built" => msg.buffer_offset = Dict[p][ch[2]].buffer_offset[i]
  BY DEF Message, DictItem
<1>5. /\ call' = [call EXCEPT ![p] = Append(stack, c)]
      /\ shared_buffers' = [shared_buffers EXCEPT ![p][ch] = memcpy(@, msg.buffer_offset, msg.data)]
  BY DEF Begin, handleSerialize
<1> HIDE DEF msg
<1>6. c \in Call
  BY <1>1, <1>2, <1>3 DEF Call, Datum, PassedLocalOnly
<1>7. /\ c.pub = k /\ c.index = i /\ c.next = 1 /\ c.data = msg.data
      /\ c.local_only => local_only
  BY DEF PassedLocalOnly
<1> HIDE DEF c
<1>8. Publishing(p, publishers[p], c)
  BY <1>2, <1>7 DEF Publishing
<1>9. Begun(p, k, i, form, local_only, stack, c, msg.buffer_offset)
  BY <1>2, <1>4, <1>5, <1>7, <1>8 DEF Begun
<1>10. c.data = Message(p, PublishChannel(publishers[p][k]), i, byte, form).data
  BY <1>7 DEF msg
<1> QED BY <1>2, <1>6, <1>9, <1>10

LEMMA BeginKeeps ==
    ASSUME NEW p \in Node, NEW k \in DOMAIN publishers[p], NEW form, NEW local_only \in BOOLEAN,
           TablesInv, BuffersInv, CallsInv,
           NEW i \in Items(p, PublishChannel(publishers[p][k])), NEW byte \in Byte,
           NEW stack, StackOf(p, publishers[p], stack),
           Begin(p, k, i, byte, form, local_only, stack), UNCHANGED <<publishers, subscribers>>
    PROVE  BuffersInv' /\ CallsInv'
<1> DEFINE ch == PublishChannel(publishers[p][k])
<1>0. PICK c \in Call, at \in Nat : Begun(p, k, i, form, local_only, stack, c, at)
  BY BeginEffect
<1>1. /\ Publishing(p, publishers[p], c)
      /\ call' = [call EXCEPT ![p] = Append(stack, c)]
      /\ shared_buffers' = [shared_buffers EXCEPT ![p][ch] = memcpy(@, at, c.data)]
      /\ at + Len(c.data) <= Dict[p][ch[2]].bytes
  BY <1>0 DEF Begun
<1>2. ch \in DOMAIN shared_buffers[p]
  BY DEF BuffersInv, BuffersOf
<1>3. c.data \in Seq(Byte)
  BY DEF Call
<1>4. BuffersInv'
  <2> HIDE DEF ch
  <2> QED BY <1>1, <1>2, <1>3, WriteKeeps
<1>5. Append(stack, c) \in Seq(Call) /\ StackOf(p, publishers[p], Append(stack, c))
  <2>1. stack \in Seq(Call) /\ \A j \in DOMAIN stack : Publishing(p, publishers[p], stack[j])
    BY DEF StackOf
  <2>2. /\ Append(stack, c) \in Seq(Call)
        /\ \A j \in DOMAIN Append(stack, c) :
             Append(stack, c)[j] = c \/ (j \in DOMAIN stack /\ Append(stack, c)[j] = stack[j])
    BY <2>1
  <2> QED BY <1>1, <2>1, <2>2 DEF StackOf
<1>6. call' \in [Node -> Seq(Call)]
  BY <1>1, <1>5 DEF CallsInv
<1>7. \A q \in Node : call'[q] = IF q = p THEN Append(stack, c) ELSE call[q]
  BY <1>1 DEF CallsInv
<1>8. \A q \in Node : StackOf(q, publishers[q], call'[q])
  BY <1>5, <1>7 DEF CallsInv
<1> QED BY <1>4, <1>6, <1>8 DEF CallsInv


(* The call that a process is in. *)
LEMMA TopTyped ==
    ASSUME CallsInv, NEW p \in Node, call[p] # <<>>
    PROVE  /\ call[p] \in Seq(Call) /\ Len(call[p]) \in Nat \ {0}
           /\ Top(p) = call[p][Len(call[p])]
           /\ Top(p) \in Call /\ Publishing(p, publishers[p], Top(p))
<1>1. call[p] \in Seq(Call) /\ \A j \in DOMAIN call[p] : Publishing(p, publishers[p], call[p][j])
  BY DEF CallsInv, StackOf
<1>2. Len(call[p]) \in Nat \ {0} /\ Len(call[p]) \in DOMAIN call[p]
  BY <1>1
<1>3. Top(p) = call[p][Len(call[p])]
  BY DEF Top, Last
<1> QED BY <1>1, <1>2, <1>3

(* Two stacks with the same calls, however far they have come. *)
SameCalls(old, new) ==
    /\ Len(new) = Len(old)
    /\ \A j \in 1 .. Len(old) :
         /\ new[j].pub = old[j].pub /\ new[j].index = old[j].index
         /\ new[j].data = old[j].data /\ new[j].local_only = old[j].local_only

Advanced(stack) == [stack EXCEPT ![Len(stack)].next = @ + 1]

(* The calls of a stack stay what they are when the last one advances. *)
LEMMA Advances ==
    ASSUME NEW p, NEW pubs, NEW stack, StackOf(p, pubs, stack), stack # <<>>
    PROVE  StackOf(p, pubs, Advanced(stack)) /\ SameCalls(stack, Advanced(stack))
<1> DEFINE n   == Len(stack)
           new == Advanced(stack)
<1>1. /\ stack \in Seq(Call) /\ n \in Nat /\ DOMAIN stack = 1 .. n /\ n \in 1 .. n
      /\ \A j \in 1 .. n : Publishing(p, pubs, stack[j])
  BY DEF StackOf
<1>2. new = [j \in 1 .. n |-> IF j = n THEN [stack[j] EXCEPT !.next = @ + 1] ELSE stack[j]]
  BY <1>1 DEF Advanced
<1> HIDE DEF n, new
<1>3. ASSUME NEW j \in 1 .. n
      PROVE  /\ new[j] \in Call
             /\ new[j].pub = stack[j].pub /\ new[j].index = stack[j].index
             /\ new[j].data = stack[j].data /\ new[j].local_only = stack[j].local_only
             /\ new[j].next >= 1
  <2>0. stack[j] \in Call
    BY <1>1 DEF n
  <2>1. stack[j] \in Call /\ stack[j].next \in Nat /\ stack[j].next >= 1
    BY <1>1, <2>0 DEF Call, Publishing
  <2>2. new[j] = IF j = n THEN [stack[j] EXCEPT !.next = @ + 1] ELSE stack[j]
    BY <1>2
  <2>3. stack[j].next + 1 \in Nat /\ stack[j].next + 1 >= 1
    BY <2>1
  <2> QED BY <2>1, <2>2, <2>3 DEF Call
<1>4. new \in Seq(Call) /\ Len(new) = n /\ DOMAIN new = 1 .. n
  <2>1. \A j \in 1 .. n : new[j] \in Call
    BY <1>3
  <2>2. new = [j \in 1 .. n |-> new[j]]
    BY <1>2
  <2>3. new \in [1 .. n -> Call] /\ DOMAIN new = 1 .. n
    BY <2>1, <2>2
  <2> QED BY <1>1, <2>3
<1>5. \A j \in 1 .. n : Publishing(p, pubs, new[j])
  BY <1>1, <1>3 DEF Publishing
<1>6. StackOf(p, pubs, new)
  BY <1>4, <1>5 DEF StackOf
<1>7. SameCalls(stack, new)
  BY <1>3, <1>4 DEF SameCalls, n
<1> QED BY <1>6, <1>7 DEF new

Told(p) == TopPublisher(p).local_sub_ptr[Top(p).next]

(* The subscriber that is told next, and the publisher of its end: that of *)
(* the other direction of the same node.                                   *)
LEMMA ToldTyped ==
    ASSUME TablesInv, CallsInv, NEW p \in Node, Notifying(p)
    PROVE  /\ Told(p) \in DOMAIN subscribers[p] /\ Told(p) \in DOMAIN publishers[p]
           /\ Linked(TopPublisher(p), subscribers[p][Told(p)])
           /\ SameEnd(publishers[p][Told(p)], subscribers[p][Told(p)])
<1> DEFINE pub == TopPublisher(p)
           q   == pub.local_sub_ptr
           j   == Top(p).next
           s   == Told(p)
<1>1. call[p] # <<>> /\ j <= Len(q)
  BY DEF Notifying
<1>2. Top(p) \in Call /\ Publishing(p, publishers[p], Top(p))
  BY <1>1, TopTyped
<1>3. Tables(publishers[p], subscribers[p], Ends[p])
  BY DEF TablesInv
<1>4. /\ publishers[p] \in Seq(Publisher) /\ subscribers[p] \in Seq(Subscriber)
      /\ Len(publishers[p]) = Len(subscribers[p])
  BY <1>3 DEF Tables
<1>5. Top(p).pub \in 1 .. Len(publishers[p]) /\ pub = publishers[p][Top(p).pub]
  BY <1>2, <1>4 DEF Publishing, TopPublisher
<1>6. pub \in Publisher /\ Reaches(pub, subscribers[p])
  <2>1. pub \in Publisher
    BY <1>4, <1>5
  <2>2. Reaches(publishers[p][Top(p).pub], subscribers[p])
    BY <1>3, <1>5 DEF Tables
  <2> QED BY <1>5, <2>1, <2>2
<1>7. q \in Seq(Nat)
  BY <1>6 DEF Publisher
<1>8. j \in DOMAIN q
  <2>1. j \in Nat /\ j >= 1
    BY <1>2 DEF Call, Publishing
  <2> QED BY <1>1, <1>7, <2>1
<1>9. s = q[j] /\ s \in 1 .. Len(subscribers[p])
  BY <1>6, <1>8 DEF Reaches, Told
<1>10. Linked(pub, subscribers[p][s])
  <2>1. ~ Never(q, s)
    BY <1>8, <1>9 DEF Never
  <2> QED BY <1>6, <1>9, <2>1 DEF Reaches
<1>11. SameEnd(publishers[p][s], subscribers[p][s])
  BY <1>3, <1>4, <1>9 DEF Tables
<1> QED BY <1>4, <1>9, <1>10, <1>11

Reacts(p) ==
    /\ Top(p).index \in subscribers[p][Told(p)].callbacks
    /\ <<p, subscribers[p][Told(p)].is_owner, Top(p).index>> \in DOMAIN Reaction

Answer(p) == Reaction[<<p, subscribers[p][Told(p)].is_owner, Top(p).index>>]

(* What a callback publishes is an item of the channel it publishes on. *)
LEMMA AnswerTyped ==
    ASSUME TablesInv, CallsInv, NEW p \in Node, Notifying(p), Reacts(p)
    PROVE  /\ Answer(p).index \in Items(p, PublishChannel(publishers[p][Told(p)]))
           /\ Answer(p).byte \in Byte
<1> DEFINE slot == <<p, subscribers[p][Told(p)].is_owner, Top(p).index>>
<1>1. slot \in DOMAIN Reaction
  BY DEF Reacts
<1>2. /\ Answer(p).index \in Indices(Dict[slot[1]][Bit(slot[2])])
      /\ Answer(p).byte \in Byte
  BY <1>1, PubSubAssumption DEF Answer
<1>3. slot[1] = p /\ slot[2] = publishers[p][Told(p)].is_owner
  BY ToldTyped DEF SameEnd
<1>4. PublishChannel(publishers[p][Told(p)])[2] = Bit(slot[2])
  BY <1>3 DEF PublishChannel
<1> QED BY <1>2, <1>3, <1>4 DEF Items, Indices

(* The two ways a notification goes. *)
LEMMA NotifyEffect ==
    ASSUME NEW p \in Node, notify(p)
    PROVE  \/ /\ Reacts(p)
              /\ Begin(p, Told(p), Answer(p).index, Answer(p).byte, "copy", FALSE, Advanced(call[p]))
           \/ /\ ~ Reacts(p) /\ UNCHANGED shared_buffers
              /\ call' = [call EXCEPT ![p] = Advanced(call[p])]
BY DEF notify, Reacts, Answer, Told, Advanced


-----------------------------------------------------------------------------
(* What a process makes of a packet.                                       *)

(* The publication is read back from the frame. *)
LEMMA PacketDecodes ==
    ASSUME NEW e, Published(e), e.sent
    PROVE  LET msg == FrameOf(e)
           IN /\ ReceivedBytes(msg) = e.data /\ fast_msg_id(msg.id) = e.index
              /\ <<node_id(msg.id), is_tx(msg.id)>> = e.channel /\ IsFastMsg(msg)
<1>1. /\ e.channel \in Channel /\ e.from \in Node /\ e.index <= 7 /\ e.index \in Nat
      /\ e.data \in Seq(Byte) /\ e.index \in Items(e.from, e.channel)
      /\ Len(e.data) = Dict[e.from][e.channel[2]].data_size[e.index]
  BY DEF Published, Publication, Datum
<1>2. /\ e.channel = <<e.channel[1], e.channel[2]>>
      /\ e.channel[1] \in NodeId /\ e.channel[2] \in Direction
  BY <1>1 DEF Channel
<1>3. e.channel[1] \in 0 .. MAX_NODE_ID
  <2>1. PICK x \in UNION {Ends[p] : p \in Node} : e.channel[1] = x[1]
    BY <1>2 DEF NodeId
  <2>2. PICK p \in Node : x \in Ends[p]
    BY <2>1
  <2> QED BY <2>1, <2>2, EndsTyped
<1>4. FitsFastHeader(e.channel[1], e.channel[2], e.index)
  <2>1. e.index \in 0 .. 7
    BY <1>1
  <2> QED BY <1>2, <1>3, <2>1 DEF FitsFastHeader, MAX_NODE_ID, Direction
<1>5. Len(e.data) > 0
  <2> DEFINE size == Dict[e.from][e.channel[2]].data_size[e.index]
  <2>1. size \in Nat /\ size >= 1
    BY <1>1, DictTyped
  <2>2. Len(e.data) = size
    BY <1>1
  <2> HIDE DEF size
  <2> QED BY <2>1, <2>2
<1>6. e.data \in Bytes
  BY <1>1 DEF Bytes
<1> DEFINE msg == fastMessageBuilder(e.channel[1], e.channel[2], e.index, e.data)
<1>7. /\ ReceivedBytes(msg) = e.data
      /\ fast_msg_id(msg.id) = e.index /\ node_id(msg.id) = e.channel[1]
      /\ is_tx(msg.id) = e.channel[2] /\ IsFastMsg(msg)
  BY <1>4, <1>5, <1>6, FastDecodes
<1>8. msg = FrameOf(e)
  BY DEF FrameOf
<1> HIDE DEF msg
<1> QED BY <1>2, <1>7, <1>8

(* All the subscribers that match a packet are at the channel it was       *)
(* published on, the last one too.                                         *)
LEMMA MatchesItsChannel ==
    ASSUME TablesInv, NEW p \in Node, NEW e, Published(e), e.sent
    PROVE  /\ Matching(p, FrameOf(e)) =
                {k \in DOMAIN subscribers[p] : SubscribeChannel(subscribers[p][k]) = e.channel}
           /\ Matching(p, FrameOf(e)) # {} =>
                SubscribeChannel(subscribers[p][Max(Matching(p, FrameOf(e)))]) = e.channel
<1> DEFINE M == Matching(p, FrameOf(e))
           S == {k \in DOMAIN subscribers[p] : SubscribeChannel(subscribers[p][k]) = e.channel}
<1>1. <<node_id(FrameOf(e).id), is_tx(FrameOf(e).id)>> = e.channel
  BY PacketDecodes
<1>2. is_tx(FrameOf(e).id) \in Direction
  <2>1. e.channel \in Channel
    BY DEF Published, Publication
  <2>2. e.channel[2] \in Direction
    BY <2>1 DEF Channel
  <2> QED BY <1>1, <2>2
<1>3. subscribers[p] \in Seq(Subscriber)
  BY DEF TablesInv, Tables
<1>4. ASSUME NEW k \in DOMAIN subscribers[p]
      PROVE  k \in M <=> k \in S
  <2>1. subscribers[p][k] \in Subscriber
    BY <1>3
  <2>2. subscribers[p][k].is_owner \in BOOLEAN
    BY <2>1 DEF Subscriber
  <2>3. Bit(subscribers[p][k].is_owner) = 1 - is_tx(FrameOf(e).id)
          <=> Bit(~ subscribers[p][k].is_owner) = is_tx(FrameOf(e).id)
    BY <1>2, <2>2 DEF Bit, Direction
  <2>4. SubscribeChannel(subscribers[p][k]) =
          <<subscribers[p][k].node_id, Bit(~ subscribers[p][k].is_owner)>>
    BY DEF SubscribeChannel
  <2>5. SubscribeChannel(subscribers[p][k]) = e.channel
          <=> /\ subscribers[p][k].node_id = node_id(FrameOf(e).id)
              /\ Bit(~ subscribers[p][k].is_owner) = is_tx(FrameOf(e).id)
    BY <1>1, <2>4
  <2> QED BY <2>3, <2>5 DEF Matching
<1>5. M = S
  BY <1>4 DEF Matching
<1>6. M # {} => Max(M) \in M
  <2>1. DOMAIN subscribers[p] = 1 .. Len(subscribers[p]) /\ Len(subscribers[p]) \in Nat
    BY <1>3
  <2>2. M \subseteq 0 .. Len(subscribers[p])
    BY <1>5, <2>1
  <2> HIDE DEF M
  <2> QED BY <2>1, <2>2, Greatest
<1> HIDE DEF M
<1>7. M # {} => SubscribeChannel(subscribers[p][Max(M)]) = e.channel
  BY <1>5, <1>6
<1> QED BY <1>5, <1>7 DEF M

(* A process that drops the first packet of its device. *)
Dropped(p) ==
    /\ rx[p] # <<>> /\ rx' = [rx EXCEPT ![p] = Tail(@)]
    /\ UNCHANGED <<publishers, subscribers, call, started, log, since, missed>>

(* A process that reads a publication: it writes the publication's item,   *)
(* with what its own dictionary wants of the bytes.                        *)
Applied(p, e, no, junk) ==
    /\ e.channel \in DOMAIN shared_buffers[p] /\ e.index \in Items(p, e.channel)
    /\ Bound(p, e.channel)
    /\ LET dict == Dict[p][e.channel[2]]
       IN shared_buffers' = [shared_buffers EXCEPT ![p][e.channel] =
            memcpy(@, dict.buffer_offset[e.index], ItemBytes(dict, e.index, e.data, junk))]
    /\ seen' = [seen EXCEPT ![p][e.channel] = no]
    /\ UNCHANGED crashed

(* A process that ignores a publication: it does not listen to the         *)
(* channel, or does not know the item.                                     *)
Ignored(p, e) ==
    /\ UNCHANGED <<shared_buffers, seen, crashed>>
    /\ ~ Bound(p, e.channel) \/ e.index \notin Items(p, e.channel)

LEMMA HandleEffect ==
    ASSUME TablesInv, BuffersInv, HistoryInv, PacketsInv, NEW p \in Node, HandleMessage(p)
    PROVE  LET no == rx[p][1].no
           IN /\ Dropped(p) /\ Len(rx[p]) \in Nat \ {0} /\ Up(p)
              /\ Received(log, p, rx[p][1]) /\ no \in 1 .. Len(log) /\ Published(log[no])
              /\ \/ \E junk \in Junk : Applied(p, log[no], no, junk)
                 \/ UNCHANGED <<shared_buffers, seen>> /\ crashed' = crashed \cup {p}
                 \/ Ignored(p, log[no])
<1> DEFINE no   == Head(rx[p]).no
           e    == log[no]
           msg  == Head(rx[p]).msg
           i    == fast_msg_id(msg.id)
           ch   == SubscribeChannel(subscribers[p][Max(Matching(p, msg))])
           dict == Dict[p][ch[2]]
<1>1. Dropped(p) /\ rx[p] # <<>> /\ Up(p)
  BY DEF HandleMessage, Dropped
<1>2. rx[p] \in Seq(Packet) /\ Len(rx[p]) \in Nat \ {0} /\ Head(rx[p]) = rx[p][1]
  BY <1>1 DEF PacketsInv
<1>3. Received(log, p, rx[p][1])
  BY <1>2 DEF PacketsInv
<1>4. no \in 1 .. Len(log) /\ rx[p][1].no = no /\ msg = FrameOf(e) /\ e.sent /\ Published(e)
  BY <1>2, <1>3 DEF Received, HistoryInv
<1>5. /\ ReceivedBytes(msg) = e.data /\ i = e.index /\ IsFastMsg(msg)
  <2> HIDE DEF e, msg
  <2> QED BY <1>4, PacketDecodes
<1>6. /\ Matching(p, msg) # {} <=> Bound(p, e.channel)
      /\ Matching(p, msg) # {} => ch = e.channel
  <2> HIDE DEF e, msg
  <2> QED BY <1>4, MatchesItsChannel DEF Bound
<1>7. e.channel \in Channel /\ e.index \in Nat
  BY <1>4 DEF Published, Publication
<1>8. Bound(p, e.channel) => e.channel \in DOMAIN shared_buffers[p]
  BY DEF Bound, BuffersInv, BuffersOf
<1>9. Dict[p][e.channel[2]].dictSize \in Nat
  BY <1>7, DictTyped DEF IsDict
<1>10. e.index \in Items(p, e.channel) <=> e.index < Dict[p][e.channel[2]].dictSize
  <2> DEFINE n == Dict[p][e.channel[2]].dictSize
             x == e.index
  <2>1. n \in Nat /\ x \in Nat /\ Items(p, e.channel) = 0 .. (n - 1)
    BY <1>7, <1>9 DEF Items
  <2> HIDE DEF n, x
  <2>2. x \in Items(p, e.channel) <=> x < n
    BY <2>1
  <2> QED BY <2>2 DEF n, x
<1>11. \/ /\ Accepts(p, msg) /\ i < dict.dictSize
          /\ \E junk \in Junk :
               shared_buffers' = [shared_buffers EXCEPT ![p][ch] =
                 memcpy(@, dict.buffer_offset[i], ItemBytes(dict, i, ReceivedBytes(msg), junk))]
          /\ seen' = [seen EXCEPT ![p][ch] = no]
          /\ UNCHANGED crashed
       \/ crashed' = crashed \cup {p} /\ UNCHANGED <<shared_buffers, seen>>
       \/ /\ Accepts(p, msg) => ~ PassesWriteCheck(dict, i)
          /\ UNCHANGED <<shared_buffers, seen, crashed>>
  BY Zenon DEF HandleMessage
<1>12. CASE /\ Accepts(p, msg) /\ i < dict.dictSize
            /\ \E junk \in Junk :
                 shared_buffers' = [shared_buffers EXCEPT ![p][ch] =
                   memcpy(@, dict.buffer_offset[i], ItemBytes(dict, i, ReceivedBytes(msg), junk))]
            /\ seen' = [seen EXCEPT ![p][ch] = no]
            /\ UNCHANGED crashed
  <2>1. ch = e.channel /\ Bound(p, e.channel)
    BY <1>6, <1>12 DEF Accepts
  <2>2. e.channel \in DOMAIN shared_buffers[p] /\ e.index \in Items(p, e.channel)
    BY <1>5, <1>8, <1>10, <1>12, <2>1
  <2>3. PICK junk \in Junk :
          shared_buffers' = [shared_buffers EXCEPT ![p][ch] =
            memcpy(@, dict.buffer_offset[i], ItemBytes(dict, i, ReceivedBytes(msg), junk))]
    BY <1>12
  <2> HIDE DEF ch, msg, no, e, i
  <2>4. Applied(p, e, no, junk)
    BY <1>5, <1>12, <2>1, <2>2, <2>3 DEF Applied
  <2> QED BY <1>1, <1>2, <1>3, <1>4, <2>4 DEF no, e
<1>13. CASE crashed' = crashed \cup {p} /\ UNCHANGED <<shared_buffers, seen>>
  BY <1>1, <1>2, <1>3, <1>4, <1>13
<1>14. CASE /\ Accepts(p, msg) => ~ PassesWriteCheck(dict, i)
            /\ UNCHANGED <<shared_buffers, seen, crashed>>
  <2>1. ~ Bound(p, e.channel) \/ e.index \notin Items(p, e.channel)
    <3> SUFFICES ASSUME Bound(p, e.channel) PROVE e.index \notin Items(p, e.channel)
      OBVIOUS
    <3>1. Accepts(p, msg) /\ ch = e.channel
      BY <1>5, <1>6 DEF Accepts
    <3>2. ~ (e.index <= Dict[p][e.channel[2]].dictSize)
      BY <1>5, <1>14, <3>1 DEF PassesWriteCheck
    <3> DEFINE n == Dict[p][e.channel[2]].dictSize
               x == e.index
    <3>3. n \in Nat /\ x \in Nat /\ ~ (x <= n) /\ (x \in Items(p, e.channel) <=> x < n)
      BY <1>7, <1>9, <1>10, <3>2
    <3> HIDE DEF n, x
    <3>4. x \notin Items(p, e.channel)
      BY <3>3
    <3> QED BY <3>4 DEF x
  <2>2. Ignored(p, e)
    BY <1>14, <2>1 DEF Ignored
  <2> QED BY <1>1, <1>2, <1>3, <1>4, <2>2
<1> HIDE DEF msg, ch
<1> QED BY <1>11, <1>12, <1>13, <1>14


-----------------------------------------------------------------------------
(* Every step keeps the types.                                             *)

TypeInv == TablesInv /\ BuffersInv /\ CallsInv /\ HistoryInv /\ PacketsInv /\ CountsInv

LEMMA TypeInit == Init => TypeInv
<1> SUFFICES ASSUME Init PROVE TypeInv
  OBVIOUS
<1> USE DEF Init
<1>1. TablesInv
  BY TablesInit
<1>2. BuffersInv
  <2>1. \A p \in Node : publishers[p] = <<>> /\ subscribers[p] = <<>> /\ DOMAIN <<>> = {}
                        /\ DOMAIN shared_buffers[p] = {}
    OBVIOUS
  <2>2. shared_buffers = [p \in Node |-> shared_buffers[p]]
    OBVIOUS
  <2> QED BY <2>1, <2>2 DEF BuffersInv, BuffersOf
<1>3. CallsInv
  <2>1. \A p \in Node : call[p] = <<>> /\ <<>> \in Seq(Call) /\ DOMAIN <<>> = {}
    OBVIOUS
  <2> QED BY <2>1 DEF CallsInv, StackOf
<1>4. HistoryInv
  <2>1. log \in Seq(Publication) /\ Len(log) = 0 /\ 1 .. 0 = {}
    OBVIOUS
  <2> QED BY <2>1 DEF HistoryInv
<1>5. PacketsInv
  <2>1. \A p \in Node : rx[p] = <<>> /\ <<>> \in Seq(Packet) /\ Len(<<>>) = 0 /\ 1 .. 0 = {}
    OBVIOUS
  <2> QED BY <2>1 DEF PacketsInv
<1>6. CountsInv
  BY PubSubAssumption DEF CountsInv
<1> QED BY <1>1, <1>2, <1>3, <1>4, <1>5, <1>6 DEF TypeInv

(* The packets on their way stay what they are when the history grows. *)
LEMMA LogGrows ==
    ASSUME HistoryInv, NEW e, Published(e), log' = Append(log, e), UNCHANGED <<seen, since>>
    PROVE  /\ HistoryInv' /\ Len(log') = Len(log) + 1 /\ log'[Len(log) + 1] = e
           /\ \A k \in 1 .. Len(log) : log'[k] = log[k]
           /\ \A p, x : Received(log, p, x) => Received(log', p, x)
<1>1. log \in Seq(Publication) /\ e \in Publication
  BY DEF HistoryInv, Published
<1>2. /\ log' \in Seq(Publication) /\ Len(log) \in Nat /\ Len(log') = Len(log) + 1
      /\ log'[Len(log) + 1] = e /\ \A k \in 1 .. Len(log) : log'[k] = log[k]
  BY <1>1
<1>3. \A k \in 1 .. Len(log') : k \in 1 .. Len(log) \/ k = Len(log) + 1
  BY <1>2
<1>4. \A k \in 1 .. Len(log') : Published(log'[k])
  BY <1>2, <1>3 DEF HistoryInv
<1>5. 0 .. Len(log) \subseteq 0 .. Len(log')
  BY <1>2
<1>6. seen' \in [Node -> [Channel -> 0 .. Len(log')]] /\ since' \in [Node -> [Channel -> 0 .. Len(log')]]
  BY <1>5 DEF HistoryInv
<1>7. HistoryInv'
  BY <1>2, <1>4, <1>6 DEF HistoryInv
<1>8. 1 .. Len(log) \subseteq 1 .. Len(log')
  BY <1>2
<1>9. ASSUME NEW p, NEW x, Received(log, p, x) PROVE Received(log', p, x)
  BY <1>2, <1>8, <1>9 DEF Received
<1> QED BY <1>2, <1>7, <1>9

(* A call that returns. *)
LEMMA ReturnKeeps ==
    ASSUME CallsInv, NEW p \in Node, call[p] # <<>>, Returned(p), UNCHANGED publishers
    PROVE  /\ CallsInv' /\ Len(call'[p]) = Len(call[p]) - 1
           /\ \A q \in Node \ {p} : call'[q] = call[q]
           /\ \A j \in 1 .. Len(call'[p]) : call'[p][j] = call[p][j]
<1>1. call[p] \in Seq(Call) /\ Len(call[p]) \in Nat \ {0} /\ call \in [Node -> Seq(Call)]
  BY TopTyped DEF CallsInv
<1> DEFINE n == Len(call[p]) - 1
           s == Front(call[p])
<1>2. s = SubSeq(call[p], 1, n)
  BY DEF Front
<1>3. s \in Seq(Call) /\ Len(s) = n /\ \A j \in 1 .. n : s[j] = call[p][j]
  <2>1. n \in Nat /\ n <= Len(call[p]) /\ 1 .. n \subseteq 1 .. Len(call[p])
    BY <1>1
  <2> HIDE DEF n, s
  <2> QED BY <1>1, <1>2, <2>1
<1>4. call' = [call EXCEPT ![p] = s]
  BY DEF Returned
<1>5. DOMAIN s = 1 .. n /\ 1 .. n \subseteq DOMAIN call[p]
  BY <1>1, <1>3
<1> HIDE DEF s, n
<1>6. call' \in [Node -> Seq(Call)] /\ call'[p] = s /\ \A q \in Node \ {p} : call'[q] = call[q]
  BY <1>1, <1>3, <1>4
<1>7. StackOf(p, publishers[p], s)
  BY <1>3, <1>5 DEF CallsInv, StackOf
<1>8. CallsInv'
  BY <1>6, <1>7 DEF CallsInv
<1> QED BY <1>3, <1>6, <1>8 DEF n

LEMMA EntryTyped ==
    ASSUME TypeInv, NEW p \in Node, call[p] # <<>>, NEW sent \in BOOLEAN,
           sent => Top(p).index <= 7
    PROVE  /\ Published(Entry(p, sent))
           /\ TopPublisher(p) \in Publisher
           /\ <<TopPublisher(p).node_id, TopPublisher(p).is_owner>> \in Ends[p]
<1> DEFINE pub == TopPublisher(p)
           e   == Entry(p, sent)
<1>1. Top(p) \in Call /\ Publishing(p, publishers[p], Top(p))
  BY TopTyped DEF TypeInv
<1>2. Tables(publishers[p], subscribers[p], Ends[p])
  BY DEF TypeInv, TablesInv
<1>3. publishers[p] \in Seq(Publisher) /\ DOMAIN publishers[p] = 1 .. Len(publishers[p])
  BY <1>2 DEF Tables
<1>4. Top(p).pub \in 1 .. Len(publishers[p]) /\ pub = publishers[p][Top(p).pub]
  BY <1>1, <1>3 DEF Publishing, TopPublisher
<1>5. pub \in Publisher
  BY <1>3, <1>4
<1>6. <<pub.node_id, pub.is_owner>> \in Ends[p]
  BY <1>2, <1>4 DEF Tables
<1>7. PublishChannel(pub) \in Channel
  BY <1>6, BitTyped, ChannelTyped DEF PublishChannel
<1>8. /\ e.from = p /\ e.channel = PublishChannel(pub) /\ e.index = Top(p).index
      /\ e.data = Top(p).data /\ e.sent = sent
  BY DEF Entry
<1>9. e \in Publication
  BY <1>1, <1>7 DEF Entry, Publication, Call
<1>10. Datum(p, PublishChannel(pub), Top(p).index, Top(p).data)
  BY <1>1 DEF Publishing, TopPublisher
<1> HIDE DEF e, pub
<1>11. Published(e)
  BY <1>8, <1>9, <1>10 DEF Published
<1> QED BY <1>5, <1>6, <1>11 DEF e, pub


LEMMA TypeBind ==
    ASSUME TypeInv, NEW p \in Node, NEW e \in Ends[p], bindChannel(p, e[1], e[2]), TablesInv'
    PROVE  TypeInv'
<1> USE DEF TypeInv
<1> DEFINE sub == [node_id |-> e[1], is_owner |-> e[2], callbacks |-> {}]
           pub == bindPublisherToChannel(subscribers[p], e[1], e[2])
           ps  == registerLocally(Append(publishers[p], pub), sub, Len(subscribers[p]) + 1)
           ss  == Append(subscribers[p], sub)
           new == getSharedBuffer(getSharedBuffer(shared_buffers[p], p, PublishChannel(pub)),
                                  p, SubscribeChannel(sub))
<1>1. /\ publishers' = [publishers EXCEPT ![p] = ps]
      /\ subscribers' = [subscribers EXCEPT ![p] = ss]
      /\ shared_buffers' = [shared_buffers EXCEPT ![p] = new]
      /\ since' = [since EXCEPT ![p][SubscribeChannel(sub)] = Len(log)]
      /\ call[p] = <<>>
      /\ UNCHANGED <<call, rx, crashed, started, log, seen, missed>>
  BY DEF bindChannel, Idle
<1>2. BuffersOf(p, ps, ss, new) /\ SubscribeChannel(sub) \in Channel
  BY BindKeepsBuffers DEF TablesInv, BuffersInv
<1> HIDE DEF ps, ss, new
<1>3. /\ publishers'[p] = ps /\ subscribers'[p] = ss /\ shared_buffers'[p] = new
      /\ \A q \in Node \ {p} : /\ publishers'[q] = publishers[q]
                               /\ subscribers'[q] = subscribers[q]
                               /\ shared_buffers'[q] = shared_buffers[q]
      /\ shared_buffers' = [q \in Node |-> shared_buffers'[q]]
  <2>1. shared_buffers = [q \in Node |-> shared_buffers[q]]
    BY DEF BuffersInv
  <2> QED BY <1>1, <2>1 DEF TablesInv
<1>4. BuffersInv'
  BY <1>2, <1>3 DEF BuffersInv
<1>5. CallsInv'
  <2>1. StackOf(p, publishers'[p], call'[p])
    <3>1. <<>> \in Seq(Call) /\ DOMAIN <<>> = {}
      OBVIOUS
    <3>2. StackOf(p, publishers'[p], <<>>)
      BY <3>1, Zenon DEF StackOf
    <3> QED BY <1>1, <3>2
  <2>2. \A q \in Node \ {p} : StackOf(q, publishers'[q], call'[q])
    BY <1>1, <1>3 DEF CallsInv
  <2> QED BY <1>1, <2>1, <2>2 DEF CallsInv
<1>6. HistoryInv'
  <2>1. Len(log) \in 0 .. Len(log)
    BY DEF HistoryInv
  <2> HIDE DEF sub
  <2>2. since' \in [Node -> [Channel -> 0 .. Len(log)]]
    BY <1>1, <1>2, <2>1 DEF HistoryInv
  <2> QED BY <1>1, <2>2 DEF HistoryInv
<1>7. PacketsInv'
  BY <1>1 DEF PacketsInv, Received
<1> QED BY <1>1, <1>4, <1>5, <1>6, <1>7 DEF CountsInv

LEMMA TypeSubscribe ==
    ASSUME TypeInv, NEW p \in Node, NEW k \in DOMAIN subscribers[p], NEW i, subscribe(p, k, i),
           TablesInv'
    PROVE  TypeInv'
<1> USE DEF TypeInv
<1>1. /\ UNCHANGED <<publishers, shared_buffers, call, rx, crashed, started, log, since, seen, missed>>
      /\ subscribers' = [subscribers EXCEPT ![p][k].callbacks = @ \cup {i}]
  BY DEF subscribe, historyVars
<1>2. ASSUME NEW q \in Node, NEW s \in DOMAIN subscribers'[q]
      PROVE  /\ s \in DOMAIN subscribers[q]
             /\ SubscribeChannel(subscribers'[q][s]) = SubscribeChannel(subscribers[q][s])
  <2>1. subscribers'[q] = IF q = p THEN [subscribers[p] EXCEPT ![k].callbacks = @ \cup {i}]
                          ELSE subscribers[q]
    BY <1>1 DEF TablesInv
  <2>2. s \in DOMAIN subscribers[q]
    BY <1>2, <2>1
  <2>3. /\ subscribers'[q][s].node_id = subscribers[q][s].node_id
        /\ subscribers'[q][s].is_owner = subscribers[q][s].is_owner
    <3>1. subscribers[q] \in Seq(Subscriber)
      BY DEF TablesInv
    <3>2. subscribers[q][s] \in Subscriber
      BY <2>2, <3>1
    <3>3. CASE q = p /\ s = k
      <4>1. subscribers'[q][s] = [subscribers[q][s] EXCEPT !.callbacks = @ \cup {i}]
        BY <2>1, <2>2, <3>3
      <4> QED BY <3>2, <4>1 DEF Subscriber
    <3>4. CASE ~ (q = p /\ s = k)
      <4>1. subscribers'[q][s] = subscribers[q][s]
        BY <2>1, <2>2, <3>4
      <4> QED BY <4>1
    <3> QED BY <3>3, <3>4
  <2> QED BY <2>2, <2>3 DEF SubscribeChannel
<1>3. BuffersInv'
  <2>1. shared_buffers' = [q \in Node |-> shared_buffers'[q]]
    BY <1>1 DEF BuffersInv
  <2>2. ASSUME NEW q \in Node
        PROVE  BuffersOf(q, publishers'[q], subscribers'[q], shared_buffers'[q])
    <3>1. BuffersOf(q, publishers[q], subscribers[q], shared_buffers[q])
      BY DEF BuffersInv
    <3> QED BY <1>1, <1>2, <3>1 DEF BuffersOf
  <2> QED BY <2>1, <2>2 DEF BuffersInv
<1>4. CallsInv' /\ HistoryInv' /\ PacketsInv' /\ CountsInv'
  BY <1>1 DEF CallsInv, HistoryInv, PacketsInv, Received, CountsInv
<1> QED BY <1>3, <1>4

LEMMA TypePublish ==
    ASSUME TypeInv, NEW p \in Node, NEW k \in DOMAIN publishers[p], NEW m \in Offered[p],
           NEW form, publish(p, k, m[2], m[3], form, m[4])
    PROVE  /\ m[2] \in Items(p, PublishChannel(publishers[p][k])) /\ m[3] \in Byte
           /\ m[4] \in BOOLEAN /\ StackOf(p, publishers[p], <<>>)
           /\ TypeInv'
<1> USE DEF TypeInv
<1>1. /\ Begin(p, k, m[2], m[3], form, m[4], <<>>) /\ started' = started + 1 /\ started < MaxPublish
      /\ UNCHANGED <<publishers, subscribers, rx, crashed, log, since, seen, missed>>
      /\ <<publishers[p][k].is_owner, m[2], m[3], m[4]>> \in Offered[p]
  BY DEF publish, historyVars
<1>2. Offered[p] \subseteq BOOLEAN \X Nat \X Byte \X BOOLEAN
      /\ \A o \in Offered[p] : o[2] \in Indices(Dict[p][Bit(o[1])])
  BY PubSubAssumption
<1>3. m[3] \in Byte /\ m[4] \in BOOLEAN
  BY <1>2
<1>4. m[2] \in Items(p, PublishChannel(publishers[p][k]))
  <2>1. m[2] \in Indices(Dict[p][Bit(publishers[p][k].is_owner)])
    <3>1. <<publishers[p][k].is_owner, m[2], m[3], m[4]>>[2] = m[2]
      OBVIOUS
    <3>2. <<publishers[p][k].is_owner, m[2], m[3], m[4]>>[1] = publishers[p][k].is_owner
      OBVIOUS
    <3> QED BY <1>1, <1>2, <3>1, <3>2
  <2>2. PublishChannel(publishers[p][k])[2] = Bit(publishers[p][k].is_owner)
    BY DEF PublishChannel
  <2> QED BY <2>1, <2>2 DEF Items, Indices
<1>5. StackOf(p, publishers[p], <<>>)
  <2>1. DOMAIN <<>> = {}
    OBVIOUS
  <2> QED BY <2>1 DEF StackOf
<1>6. BuffersInv' /\ CallsInv'
  BY <1>1, <1>3, <1>4, <1>5, BeginKeeps
<1>7. HistoryInv' /\ PacketsInv' /\ TablesInv'
  BY <1>1 DEF HistoryInv, PacketsInv, Received, TablesInv
<1>8. CountsInv'
  BY <1>1, PubSubAssumption DEF CountsInv
<1> QED BY <1>3, <1>4, <1>5, <1>6, <1>7, <1>8

LEMMA TypeNotify ==
    ASSUME TypeInv, NEW p \in Node, notify(p)
    PROVE  TypeInv'
<1> USE DEF TypeInv
<1>1. Notifying(p) /\ UNCHANGED <<publishers, subscribers, rx, crashed, started, log, since, seen, missed>>
  BY DEF notify, historyVars
<1>2. StackOf(p, publishers[p], Advanced(call[p]))
  BY <1>1, Advances DEF CallsInv, Notifying
<1>3. BuffersInv' /\ CallsInv'
  <2>1. CASE /\ Reacts(p)
             /\ Begin(p, Told(p), Answer(p).index, Answer(p).byte, "copy", FALSE, Advanced(call[p]))
    <3>1. Told(p) \in DOMAIN publishers[p]
      BY <1>1, ToldTyped
    <3>2. /\ Answer(p).index \in Items(p, PublishChannel(publishers[p][Told(p)]))
          /\ Answer(p).byte \in Byte
      BY <1>1, <2>1, AnswerTyped
    <3> QED BY <1>1, <1>2, <2>1, <3>1, <3>2, BeginKeeps
  <2>2. CASE /\ ~ Reacts(p) /\ UNCHANGED shared_buffers
             /\ call' = [call EXCEPT ![p] = Advanced(call[p])]
    <3>1. BuffersInv'
      BY <1>1, <2>2 DEF BuffersInv
    <3>2. Advanced(call[p]) \in Seq(Call)
      BY <1>2 DEF StackOf
    <3>3. call' \in [Node -> Seq(Call)]
          /\ \A q \in Node : call'[q] = IF q = p THEN Advanced(call[p]) ELSE call[q]
      BY <2>2, <3>2 DEF CallsInv
    <3>4. CallsInv'
      BY <1>1, <1>2, <3>3 DEF CallsInv
    <3> QED BY <3>1, <3>4
  <2> QED BY <2>1, <2>2, NotifyEffect
<1>4. HistoryInv' /\ PacketsInv' /\ TablesInv' /\ CountsInv'
  BY <1>1 DEF HistoryInv, PacketsInv, Received, TablesInv, CountsInv
<1> QED BY <1>3, <1>4


LEMMA TypeReturnLocally ==
    ASSUME TypeInv, NEW p \in Node, ReturnLocally(p)
    PROVE  TypeInv'
<1> USE DEF TypeInv
<1>1. /\ call[p] # <<>> /\ Returned(p) /\ log' = Append(log, Entry(p, FALSE))
      /\ UNCHANGED <<publishers, subscribers, since, shared_buffers, rx, crashed, started, seen, missed>>
  BY DEF ReturnLocally, Finishing, bindVars
<1>2. Published(Entry(p, FALSE))
  BY <1>1, EntryTyped
<1>3. HistoryInv' /\ \A q, x : Received(log, q, x) => Received(log', q, x)
  BY <1>1, <1>2, LogGrows
<1>4. CallsInv'
  BY <1>1, ReturnKeeps
<1>5. PacketsInv'
  BY <1>1, <1>3 DEF PacketsInv
<1>6. TablesInv' /\ BuffersInv' /\ CountsInv'
  BY <1>1 DEF TablesInv, BuffersInv, CountsInv
<1> QED BY <1>3, <1>4, <1>5, <1>6

SentEntry(p)  == Entry(p, p \in CanNode)
SentPacket(p) == [no |-> Len(log) + 1, msg |-> FrameOf(SentEntry(p))]

(* What a send does to the history and to the devices. *)
LEMMA SendEffect ==
    ASSUME TypeInv, NEW p \in Node, Send(p)
    PROVE  /\ call[p] # <<>> /\ Returned(p) /\ log' = Append(log, SentEntry(p))
           /\ Finishing(p) /\ ~ Top(p).local_only
           /\ UNCHANGED <<publishers, subscribers, since, shared_buffers, crashed, started, seen>>
           /\ Published(SentEntry(p)) /\ Top(p).index <= 7
           /\ rx' = [q \in Node |-> IF Hears(p, q) /\ Len(rx[q]) < QueueCap
                                    THEN Append(rx[q], SentPacket(p)) ELSE rx[q]]
           /\ missed' = missed \cup {q \in Node : Hears(p, q) /\ Len(rx[q]) >= QueueCap}
<1> DEFINE ch == PublishChannel(TopPublisher(p))
           packet == [no |-> Len(log) + 1,
                      msg |-> fastMessageBuilder(ch[1], ch[2], Top(p).index, Top(p).data)]
<1>1. /\ call[p] # <<>> /\ Finishing(p) /\ ~ Top(p).local_only
      /\ BuilderAccepts(ch[1], ch[2], Top(p).index, Top(p).data)
      /\ log' = Append(log, SentEntry(p))
      /\ rx' = [q \in Node |-> IF Hears(p, q) /\ Len(rx[q]) < QueueCap
                               THEN Append(rx[q], packet) ELSE rx[q]]
      /\ missed' = missed \cup {q \in Node : Hears(p, q) /\ Len(rx[q]) >= QueueCap}
      /\ Returned(p)
      /\ UNCHANGED <<publishers, subscribers, since, shared_buffers, crashed, started, seen>>
  BY DEF Send, SentEntry, Finishing, bindVars
<1>2. packet = SentPacket(p)
  BY DEF SentPacket, SentEntry, FrameOf, Entry
<1>3. Top(p).index <= 7
  BY <1>1 DEF BuilderAccepts
<1>4. Published(SentEntry(p))
  <2>1. (p \in CanNode) \in BOOLEAN
    OBVIOUS
  <2> QED BY <1>1, <1>3, <2>1, EntryTyped DEF SentEntry
<1> HIDE DEF packet
<1> QED BY <1>1, <1>2, <1>3, <1>4

LEMMA TypeSend ==
    ASSUME TypeInv, NEW p \in Node, Send(p)
    PROVE  TypeInv'
<1> USE DEF TypeInv
<1>1. /\ call[p] # <<>> /\ Returned(p) /\ log' = Append(log, SentEntry(p))
      /\ UNCHANGED <<publishers, subscribers, since, shared_buffers, crashed, started, seen>>
      /\ Published(SentEntry(p)) /\ Top(p).index <= 7
      /\ rx' = [q \in Node |-> IF Hears(p, q) /\ Len(rx[q]) < QueueCap
                               THEN Append(rx[q], SentPacket(p)) ELSE rx[q]]
      /\ missed' = missed \cup {q \in Node : Hears(p, q) /\ Len(rx[q]) >= QueueCap}
  BY SendEffect
<1>2. /\ HistoryInv' /\ Len(log') = Len(log) + 1 /\ log'[Len(log) + 1] = SentEntry(p)
      /\ \A q, x : Received(log, q, x) => Received(log', q, x)
  BY <1>1, LogGrows
<1>3. CallsInv'
  BY <1>1, ReturnKeeps
<1>4. TablesInv' /\ BuffersInv' /\ CountsInv'
  BY <1>1 DEF TablesInv, BuffersInv, CountsInv
<1>5. Len(log) \in Nat
  BY DEF HistoryInv
<1>6. ASSUME NEW q \in Node, Hears(p, q) PROVE Received(log', q, SentPacket(p))
  <2>1. /\ SentPacket(p) \in Packet
        /\ SentPacket(p).no = Len(log) + 1 /\ SentPacket(p).msg = FrameOf(SentEntry(p))
    BY <1>1, <1>5 DEF Packet, SentPacket, Published
  <2>2. SentEntry(p).sent /\ SentEntry(p).from # q
    BY <1>6 DEF Hears, SentEntry, Entry
  <2>3. Len(log) + 1 \in 1 .. Len(log')
    BY <1>2, <1>5
  <2> DEFINE x == SentPacket(p)
  <2> HIDE DEF x
  <2>4. x \in Packet /\ x.no = Len(log) + 1 /\ x.msg = FrameOf(SentEntry(p))
    BY <2>1 DEF x
  <2>5. /\ x \in Packet /\ x.no \in 1 .. Len(log') /\ x.msg = FrameOf(log'[x.no])
        /\ log'[x.no].sent /\ log'[x.no].from # q
    BY <1>2, <2>2, <2>3, <2>4
  <2> QED BY <2>5 DEF Received, x
<1>7. ASSUME NEW q \in Node
      PROVE  /\ rx'[q] \in Seq(Packet)
             /\ \A k \in 1 .. Len(rx'[q]) : Received(log', q, rx'[q][k])
  <2>1. /\ rx[q] \in Seq(Packet) /\ \A k \in 1 .. Len(rx[q]) : Received(log, q, rx[q][k])
    BY DEF PacketsInv
  <2>2. CASE rx'[q] = rx[q]
    BY <1>2, <2>1, <2>2
  <2>3. CASE Hears(p, q) /\ rx'[q] = Append(rx[q], SentPacket(p))
    <3>1. SentPacket(p) \in Packet
      BY <1>1, <1>5 DEF Packet, SentPacket, Published
    <3>2. /\ rx'[q] \in Seq(Packet) /\ Len(rx'[q]) = Len(rx[q]) + 1 /\ Len(rx[q]) \in Nat
          /\ rx'[q][Len(rx[q]) + 1] = SentPacket(p)
          /\ \A k \in 1 .. Len(rx[q]) : rx'[q][k] = rx[q][k]
      BY <2>1, <2>3, <3>1
    <3>3. \A k \in 1 .. Len(rx'[q]) : k \in 1 .. Len(rx[q]) \/ k = Len(rx[q]) + 1
      BY <3>2
    <3> QED BY <1>2, <1>6, <2>1, <2>3, <3>2, <3>3
  <2> QED BY <1>1, <2>2, <2>3
<1>8. PacketsInv'
  BY <1>1, <1>7 DEF PacketsInv
<1> QED BY <1>2, <1>3, <1>4, <1>8

LEMMA TypeHandle ==
    ASSUME TypeInv, NEW p \in Node, HandleMessage(p)
    PROVE  TypeInv'
<1> USE DEF TypeInv
<1> DEFINE no == rx[p][1].no
           e  == log[no]
<1>1. /\ Dropped(p) /\ Len(rx[p]) \in Nat \ {0}
      /\ no \in 1 .. Len(log) /\ Published(e)
      /\ \/ \E junk \in Junk : Applied(p, e, no, junk)
         \/ UNCHANGED <<shared_buffers, seen>> /\ crashed' = crashed \cup {p}
         \/ Ignored(p, e)
  BY HandleEffect
<1> HIDE DEF no, e
<1>2. UNCHANGED <<publishers, subscribers, call, started, log, since, missed>>
  BY <1>1 DEF Dropped
<1>3. PacketsInv'
  <2>1. rx[p] \in Seq(Packet) /\ rx[p] # <<>> /\ rx' = [rx EXCEPT ![p] = Tail(rx[p])]
    BY <1>1 DEF PacketsInv, Dropped
  <2>2. /\ Tail(rx[p]) \in Seq(Packet)
        /\ \A k \in 1 .. Len(Tail(rx[p])) : k + 1 \in 1 .. Len(rx[p]) /\ Tail(rx[p])[k] = rx[p][k + 1]
    BY <2>1
  <2>3. rx' \in [Node -> Seq(Packet)]
    BY <2>1, <2>2 DEF PacketsInv
  <2>4. \A q \in Node : rx'[q] = IF q = p THEN Tail(rx[p]) ELSE rx[q]
    BY <2>1 DEF PacketsInv
  <2>5. \A q \in Node : \A k \in 1 .. Len(rx'[q]) : Received(log, q, rx'[q][k])
    BY <2>2, <2>4 DEF PacketsInv
  <2>6. \A q, x : Received(log', q, x) <=> Received(log, q, x)
    BY <1>2 DEF Received
  <2> QED BY <2>3, <2>5, <2>6 DEF PacketsInv
<1>4. TablesInv' /\ CallsInv'
  BY <1>2 DEF TablesInv, CallsInv
<1>5. BuffersInv' /\ HistoryInv' /\ CountsInv'
  <2>1. CASE \E junk \in Junk : Applied(p, e, no, junk)
    <3> DEFINE dict == Dict[p][e.channel[2]]
    <3>1. PICK junk \in Junk : Applied(p, e, no, junk)
      BY <2>1
    <3>2. /\ e.channel \in Channel /\ e.index \in Items(p, e.channel)
          /\ e.channel \in DOMAIN shared_buffers[p] /\ e.data \in Seq(Byte)
      BY <1>1, <3>1 DEF Applied, Published, Publication, Datum
    <3>3. /\ dict.data_size[e.index] \in Nat /\ dict.buffer_offset[e.index] \in Nat
          /\ dict.buffer_offset[e.index] + dict.data_size[e.index] <= dict.bytes
      BY <3>2, DictTyped
    <3>4. /\ ItemBytes(dict, e.index, e.data, junk) \in Seq(Byte)
          /\ Len(ItemBytes(dict, e.index, e.data, junk)) = dict.data_size[e.index]
      <4>1. junk \in Byte
        BY PubSubAssumption
      <4>2. \A k \in 1 .. dict.data_size[e.index] : k <= Len(e.data) => e.data[k] \in Byte
        BY <3>2, <3>3
      <4>3. ItemBytes(dict, e.index, e.data, junk) \in [1 .. dict.data_size[e.index] -> Byte]
        BY <4>1, <4>2 DEF ItemBytes
      <4> HIDE DEF dict
      <4> QED BY <3>3, <4>3
    <3>5. /\ shared_buffers' = [shared_buffers EXCEPT ![p][e.channel] =
               memcpy(@, dict.buffer_offset[e.index], ItemBytes(dict, e.index, e.data, junk))]
          /\ seen' = [seen EXCEPT ![p][e.channel] = no] /\ UNCHANGED crashed
      BY <3>1 DEF Applied
    <3>9. dict.buffer_offset[e.index] + Len(ItemBytes(dict, e.index, e.data, junk))
            <= Dict[p][e.channel[2]].bytes
      BY <3>3, <3>4
    <3> HIDE DEF dict
    <3>6. BuffersInv'
      BY <1>2, <3>2, <3>3, <3>4, <3>5, <3>9, WriteKeeps
    <3>7. no \in 0 .. Len(log)
      BY <1>1
    <3>8. HistoryInv'
      BY <1>2, <3>2, <3>5, <3>7 DEF HistoryInv
    <3> QED BY <1>2, <3>5, <3>6, <3>8 DEF CountsInv
  <2>2. CASE UNCHANGED <<shared_buffers, seen>> /\ crashed' = crashed \cup {p}
    BY <1>2, <2>2 DEF BuffersInv, HistoryInv, CountsInv
  <2>3. CASE Ignored(p, e)
    BY <1>2, <2>3 DEF Ignored, BuffersInv, HistoryInv, CountsInv
  <2> QED BY <1>1, <2>1, <2>2, <2>3
<1> QED BY <1>3, <1>4, <1>5

LEMMA TypeStep == TypeInv /\ [Next]_vars => TypeInv'
<1> SUFFICES ASSUME TypeInv, [Next]_vars PROVE TypeInv'
  OBVIOUS
<1>1. TablesInv'
  BY TablesStep DEF TypeInv
<1>2. ASSUME NEW p \in Node, Application(p) PROVE TypeInv'
  BY <1>1, <1>2, TypeBind, TypeSubscribe, TypePublish DEF Application
<1>3. ASSUME NEW p \in Node, CallStep(p) PROVE TypeInv'
  <2>1. CASE SendAsserts(p)
    <3>1. /\ crashed' = crashed \cup {p}
          /\ UNCHANGED <<publishers, subscribers, since, shared_buffers, call, rx, started, log, seen, missed>>
      BY <2>1 DEF SendAsserts, bindVars
    <3>2. BuffersInv' /\ CallsInv'
      BY <3>1 DEF TypeInv, BuffersInv, CallsInv
    <3>3. HistoryInv' /\ PacketsInv'
      BY <3>1 DEF TypeInv, HistoryInv, PacketsInv
    <3>4. CountsInv'
      BY <3>1 DEF TypeInv, CountsInv
    <3> QED BY <1>1, <3>2, <3>3, <3>4 DEF TypeInv
  <2> QED BY <1>3, <2>1, TypeNotify, TypeReturnLocally, TypeSend DEF CallStep
<1>4. ASSUME NEW p \in Node, HandleMessage(p) PROVE TypeInv'
  BY <1>4, TypeHandle
<1>5. CASE UNCHANGED vars
  <2>1. UNCHANGED <<publishers, subscribers, since, shared_buffers, call, rx, crashed, started, log, seen, missed>>
    BY <1>5 DEF vars, historyVars
  <2>2. BuffersInv' /\ CallsInv'
    BY <2>1 DEF TypeInv, BuffersInv, CallsInv
  <2>3. HistoryInv' /\ PacketsInv'
    BY <2>1 DEF TypeInv, HistoryInv, PacketsInv
  <2>4. CountsInv'
    BY <2>1 DEF TypeInv, CountsInv
  <2> QED BY <1>1, <2>2, <2>3, <2>4 DEF TypeInv
<1> QED BY <1>2, <1>3, <1>4, <1>5 DEF Next

LEMMA TypeSpec == Spec => []TypeInv
BY TypeInit, TypeStep, PTL DEF Spec

LEMMA TypesOK == TypeInv => TypeOK
<1> SUFFICES ASSUME TypeInv PROVE TypeOK
  OBVIOUS
<1> USE DEF TypeInv
<1>1. ASSUME NEW p \in Node, NEW k \in DOMAIN publishers[p]
      PROVE  /\ <<publishers[p][k].node_id, publishers[p][k].is_owner>> \in Ends[p]
             /\ \A j \in DOMAIN publishers[p][k].local_sub_ptr :
                  publishers[p][k].local_sub_ptr[j] \in DOMAIN subscribers[p]
  <2>1. Tables(publishers[p], subscribers[p], Ends[p])
    BY DEF TablesInv
  <2>2. k \in 1 .. Len(publishers[p]) /\ DOMAIN subscribers[p] = 1 .. Len(subscribers[p])
    BY <2>1 DEF Tables
  <2>3. /\ <<publishers[p][k].node_id, publishers[p][k].is_owner>> \in Ends[p]
        /\ Reaches(publishers[p][k], subscribers[p])
    BY <2>1, <2>2 DEF Tables
  <2> QED BY <2>2, <2>3 DEF Reaches
<1>2. ASSUME NEW p \in Node, NEW ch \in DOMAIN shared_buffers[p]
      PROVE  shared_buffers[p][ch] \in [0 .. (Dict[p][ch[2]].bytes - 1) -> Byte]
  BY DEF BuffersInv, BuffersOf, Image
<1>3. ASSUME NEW p \in Node
      PROVE  /\ \A k \in DOMAIN rx[p] : rx[p][k].no \in 1 .. Len(log)
             /\ seen[p] \in [Channel -> 0 .. Len(log)] /\ since[p] \in [Channel -> 0 .. Len(log)]
  <2>1. rx[p] \in Seq(Packet) /\ \A k \in 1 .. Len(rx[p]) : Received(log, p, rx[p][k])
    BY DEF PacketsInv
  <2>2. DOMAIN rx[p] = 1 .. Len(rx[p])
    BY <2>1
  <2>3. seen[p] \in [Channel -> 0 .. Len(log)] /\ since[p] \in [Channel -> 0 .. Len(log)]
    BY DEF HistoryInv
  <2> QED BY <2>1, <2>2, <2>3 DEF Received
<1> QED BY <1>1, <1>2, <1>3 DEF TypeOK, CountsInv

(* TypeOK for any processes, dictionaries and programs, messages of        *)
(* another version of the dictionary and items above 7 included: links     *)
(* lead to subscribers that exist, and no copy leaves its buffer.  Code:   *)
(* bindPublisherToChannel, handleSerialize, MsgDictSingleWrite.            *)
THEOREM TypeCorrect == Spec => []TypeOK
BY TypeSpec, TypesOK, PTL


-----------------------------------------------------------------------------
(* One item at a time.                                                     *)

Reading(buffers, p, ch, i) == deserialize(Dict[p][ch[2]], i, buffers[p][ch])

(* One item of one process now has these bytes, and no other changed. *)
Wrote(p, ch, i, data) ==
    /\ ch \in DOMAIN shared_buffers[p] /\ i \in Items(p, ch)
    /\ DOMAIN shared_buffers'[p] = DOMAIN shared_buffers[p]
    /\ Reading(shared_buffers', p, ch, i) = data
    /\ \A c \in DOMAIN shared_buffers[p] : \A j \in Items(p, c) :
         c # ch \/ j # i => Reading(shared_buffers', p, c, j) = Reading(shared_buffers, p, c, j)
    /\ \A q \in Node \ {p} : shared_buffers'[q] = shared_buffers[q]

LEMMA ItemWritten ==
    ASSUME BuffersInv, NEW p \in Node, NEW ch \in DOMAIN shared_buffers[p],
           NEW i \in Items(p, ch), NEW data \in Seq(Byte),
           Len(data) = Dict[p][ch[2]].data_size[i],
           shared_buffers' = [shared_buffers EXCEPT ![p][ch] =
                                memcpy(@, Dict[p][ch[2]].buffer_offset[i], data)]
    PROVE  Wrote(p, ch, i, data)
<1> DEFINE dict == Dict[p][ch[2]]
           old  == shared_buffers[p][ch]
           new  == memcpy(old, dict.buffer_offset[i], data)
<1>1. /\ \A q \in Node \ {p} : shared_buffers'[q] = shared_buffers[q]
      /\ DOMAIN shared_buffers'[p] = DOMAIN shared_buffers[p]
      /\ \A c \in DOMAIN shared_buffers[p] \ {ch} : shared_buffers'[p][c] = shared_buffers[p][c]
      /\ shared_buffers'[p][ch] = new
  BY WriteEffect
<1>2. ch \in Channel /\ old \in [0 .. (dict.bytes - 1) -> Byte]
  BY DEF BuffersInv, BuffersOf, Image
<1>3. IsDict(dict) /\ WellLaidOut(dict) /\ Items(p, ch) = Indices(dict)
  BY <1>2, DictTyped
<1>4. new = handleSerialize(DictItem(dict, i, data), old)
  BY DEF handleSerialize, DictItem
<1> HIDE DEF dict, old, new
<1>5. Len(data) = dict.data_size[i] /\ i \in Indices(dict)
  BY <1>3 DEF dict
<1>6. deserialize(dict, i, new) = data
  BY <1>2, <1>3, <1>4, <1>5, ItemReadBack
<1>7. ASSUME NEW j \in Items(p, ch), j # i
      PROVE  deserialize(dict, j, new) = deserialize(dict, j, old)
  BY <1>2, <1>3, <1>4, <1>5, <1>7, OtherItemsKept
<1>8. Reading(shared_buffers', p, ch, i) = data
  BY <1>1, <1>6 DEF Reading, dict
<1>9. ASSUME NEW c \in DOMAIN shared_buffers[p], NEW j \in Items(p, c), c # ch \/ j # i
      PROVE  Reading(shared_buffers', p, c, j) = Reading(shared_buffers, p, c, j)
  <2>1. CASE c # ch
    BY <1>1, <2>1 DEF Reading
  <2>2. CASE c = ch /\ j # i
    <3>1. deserialize(dict, j, new) = deserialize(dict, j, old)
      BY <1>7, <2>2
    <3> QED BY <1>1, <2>2, <3>1 DEF Reading, dict, old
  <2> QED BY <1>9, <2>1, <2>2
<1> QED BY <1>1, <1>8, <1>9 DEF Wrote

(* A call that begins with a copy of an item writes that item. *)
LEMMA BegunWrites ==
    ASSUME TypeInv, NEW p \in Node, NEW k \in DOMAIN publishers[p],
           NEW i, NEW form, form # "built", NEW local_only, NEW stack,
           NEW c \in Call, NEW at, Begun(p, k, i, form, local_only, stack, c, at)
    PROVE  Wrote(p, PublishChannel(publishers[p][k]), i, c.data)
<1> DEFINE ch == PublishChannel(publishers[p][k])
<1>1. /\ Publishing(p, publishers[p], c) /\ c.pub = k /\ c.index = i
      /\ shared_buffers' = [shared_buffers EXCEPT
                              ![p][ch] = memcpy(@, Dict[p][ch[2]].buffer_offset[i], c.data)]
  BY DEF Begun
<1>2. ch \in DOMAIN shared_buffers[p]
  BY DEF TypeInv, BuffersInv, BuffersOf
<1>3. i \in Items(p, ch) /\ c.data \in Seq(Byte) /\ Len(c.data) = Dict[p][ch[2]].data_size[i]
  BY <1>1 DEF Publishing, Datum
<1> HIDE DEF ch
<1>4. Wrote(p, ch, i, c.data)
  BY <1>1, <1>2, <1>3, ItemWritten DEF TypeInv
<1> QED BY <1>4 DEF ch

(* A process that applies a publication writes its item. *)
LEMMA AppliedWrites ==
    ASSUME TypeInv, NEW p \in Node, NEW e, Published(e), NEW no, NEW junk \in Junk,
           Applied(p, e, no, junk)
    PROVE  Wrote(p, e.channel, e.index, ItemBytes(Dict[p][e.channel[2]], e.index, e.data, junk))
<1> DEFINE dict == Dict[p][e.channel[2]]
           data == ItemBytes(dict, e.index, e.data, junk)
<1>1. /\ e.channel \in DOMAIN shared_buffers[p] /\ e.index \in Items(p, e.channel)
      /\ shared_buffers' = [shared_buffers EXCEPT ![p][e.channel] =
                              memcpy(@, dict.buffer_offset[e.index], data)]
  BY DEF Applied
<1>2. e.channel \in Channel /\ e.data \in Seq(Byte)
  BY DEF Published, Publication, Datum
<1>3. dict.data_size[e.index] \in Nat
  BY <1>1, <1>2, DictTyped
<1>4. data \in Seq(Byte) /\ Len(data) = dict.data_size[e.index]
  <2>1. junk \in Byte
    BY PubSubAssumption
  <2>2. \A k \in 1 .. dict.data_size[e.index] : k <= Len(e.data) => e.data[k] \in Byte
    BY <1>2, <1>3
  <2>3. data \in [1 .. dict.data_size[e.index] -> Byte]
    BY <2>1, <2>2 DEF ItemBytes
  <2> HIDE DEF dict, data
  <2> QED BY <1>3, <2>3
<1> HIDE DEF data
<1>5. Wrote(p, e.channel, e.index, data)
  BY <1>1, <1>4, ItemWritten DEF TypeInv
<1> QED BY <1>5 DEF data

Copies == "built" \notin Form

(* What a step does to buffers: a bind leaves the readings there are, and  *)
(* any other step writes at most one item of one process.                  *)
LEMMA BufferSteps ==
    ASSUME Copies, TypeInv, [Next]_vars
    PROVE  \/ UNCHANGED shared_buffers
           \/ \E p \in Node :
                /\ \A q \in Node \ {p} : shared_buffers'[q] = shared_buffers[q]
                /\ \A c \in DOMAIN shared_buffers[p] : shared_buffers'[p][c] = shared_buffers[p][c]
           \/ \E p \in Node : \E ch \in DOMAIN shared_buffers[p] : \E i \in Items(p, ch) : \E data :
                Wrote(p, ch, i, data)
<1> DEFINE Some == \E p \in Node : \E ch \in DOMAIN shared_buffers[p] : \E i \in Items(p, ch) :
                     \E data : Wrote(p, ch, i, data)
           Bind == \E p \in Node :
                     /\ \A q \in Node \ {p} : shared_buffers'[q] = shared_buffers[q]
                     /\ \A c \in DOMAIN shared_buffers[p] :
                          shared_buffers'[p][c] = shared_buffers[p][c]
<1>0. ASSUME NEW p \in Node, NEW ch, NEW i, NEW data, Wrote(p, ch, i, data) PROVE Some
  BY <1>0 DEF Wrote
<1> HIDE DEF Some
<1>1. ASSUME NEW p \in Node, NEW e \in Ends[p], bindChannel(p, e[1], e[2]) PROVE Bind
  <2> DEFINE new == getSharedBuffer(getSharedBuffer(shared_buffers[p], p,
                        PublishChannel(bindPublisherToChannel(subscribers[p], e[1], e[2]))),
                      p, SubscribeChannel([node_id |-> e[1], is_owner |-> e[2], callbacks |-> {}]))
  <2>1. shared_buffers' = [shared_buffers EXCEPT ![p] = new]
    BY <1>1 DEF bindChannel
  <2>2. \A c \in DOMAIN shared_buffers[p] : new[c] = shared_buffers[p][c]
    <3>1. /\ Tables(publishers[p], subscribers[p], Ends[p])
          /\ BuffersOf(p, publishers[p], subscribers[p], shared_buffers[p])
      BY DEF TypeInv, TablesInv, BuffersInv
    <3> QED BY <3>1, BindKeepsBuffers
  <2>3. shared_buffers = [q \in Node |-> shared_buffers[q]]
    BY DEF TypeInv, BuffersInv
  <2> HIDE DEF new
  <2>4. shared_buffers'[p] = new /\ \A q \in Node \ {p} : shared_buffers'[q] = shared_buffers[q]
    BY <2>1, <2>3
  <2> QED BY <2>2, <2>4
<1>2. ASSUME NEW p \in Node, NEW k \in DOMAIN publishers[p], NEW m \in Offered[p], NEW form \in Form,
             publish(p, k, m[2], m[3], form, m[4])
      PROVE  Some
  <2>1. /\ m[2] \in Items(p, PublishChannel(publishers[p][k])) /\ m[3] \in Byte /\ m[4] \in BOOLEAN
    BY <1>2, TypePublish
  <2>2. Begin(p, k, m[2], m[3], form, m[4], <<>>)
    BY <1>2 DEF publish
  <2>3. PICK c \in Call, at \in Nat : Begun(p, k, m[2], form, m[4], <<>>, c, at)
    BY <2>1, <2>2, BeginEffect DEF TypeInv
  <2>4. form # "built"
    BY DEF Copies
  <2> QED BY <1>0, <2>3, <2>4, BegunWrites
<1>3. ASSUME NEW p \in Node, notify(p) PROVE Some \/ UNCHANGED shared_buffers
  <2>1. CASE /\ Reacts(p)
             /\ Begin(p, Told(p), Answer(p).index, Answer(p).byte, "copy", FALSE, Advanced(call[p]))
    <3>1. Notifying(p) /\ TablesInv /\ CallsInv
      BY <1>3 DEF notify, TypeInv
    <3>2. Told(p) \in DOMAIN publishers[p]
      BY <3>1, ToldTyped
    <3>3. /\ Answer(p).index \in Items(p, PublishChannel(publishers[p][Told(p)]))
          /\ Answer(p).byte \in Byte
      BY <2>1, <3>1, AnswerTyped
    <3>4. PICK c \in Call, at \in Nat :
            Begun(p, Told(p), Answer(p).index, "copy", FALSE, Advanced(call[p]), c, at)
      BY <2>1, <3>1, <3>2, <3>3, BeginEffect
    <3> QED BY <1>0, <3>2, <3>4, BegunWrites
  <2> QED BY <1>3, <2>1, NotifyEffect
<1>4. ASSUME NEW p \in Node, HandleMessage(p) PROVE Some \/ UNCHANGED shared_buffers
  <2> DEFINE no == rx[p][1].no
             e  == log[no]
  <2>1. /\ Published(e)
        /\ \/ \E junk \in Junk : Applied(p, e, no, junk)
           \/ UNCHANGED <<shared_buffers, seen>> /\ crashed' = crashed \cup {p}
           \/ Ignored(p, e)
    BY <1>4, HandleEffect DEF TypeInv
  <2> HIDE DEF no, e
  <2>2. CASE \E junk \in Junk : Applied(p, e, no, junk)
    BY <1>0, <2>1, <2>2, AppliedWrites
  <2>3. CASE Ignored(p, e)
    BY <2>3 DEF Ignored
  <2> QED BY <2>1, <2>2, <2>3
<1>5. ASSUME NEW p \in Node, NEW k \in DOMAIN subscribers[p], NEW i, subscribe(p, k, i)
      PROVE  UNCHANGED shared_buffers
  BY <1>5 DEF subscribe
<1>6. ASSUME NEW p \in Node, ReturnLocally(p) \/ Send(p) \/ SendAsserts(p) PROVE UNCHANGED shared_buffers
  BY <1>6 DEF ReturnLocally, Send, SendAsserts
<1>7. ASSUME UNCHANGED vars PROVE UNCHANGED shared_buffers
  BY <1>7 DEF vars
<1>8. Some \/ Bind \/ UNCHANGED shared_buffers
  <2> HIDE DEF Bind
  <2>1. ASSUME NEW p \in Node, Application(p) PROVE Some \/ Bind \/ UNCHANGED shared_buffers
    BY <2>1, <1>1, <1>2, <1>5 DEF Application
  <2>2. ASSUME NEW p \in Node, CallStep(p) PROVE Some \/ UNCHANGED shared_buffers
    BY <2>2, <1>3, <1>6 DEF CallStep
  <2>3. CASE Next
    BY <2>1, <2>2, <2>3, <1>4, Zenon DEF Next
  <2> QED BY <1>7, <2>3
<1> QED BY <1>8 DEF Some


LEMMA OneItemStep ==
    ASSUME Copies, TypeInv, [Next]_vars, NEW p \in Node
    PROVE  Cardinality({x \in UNION {{ch} \X Items(p, ch) : ch \in DOMAIN shared_buffers[p]} :
                          Reading(shared_buffers', p, x[1], x[2])
                            # Reading(shared_buffers, p, x[1], x[2])}) <= 1
<1> DEFINE all == UNION {{ch} \X Items(p, ch) : ch \in DOMAIN shared_buffers[p]}
           changed == {x \in all : Reading(shared_buffers', p, x[1], x[2])
                                     # Reading(shared_buffers, p, x[1], x[2])}
<1>1. ASSUME NEW x \in all
      PROVE  x = <<x[1], x[2]>> /\ x[1] \in DOMAIN shared_buffers[p] /\ x[2] \in Items(p, x[1])
  OBVIOUS
<1>2. ASSUME changed = {} PROVE Cardinality(changed) <= 1
  BY <1>2, FS_EmptySet
<1>3. ASSUME NEW y, changed \subseteq {y} PROVE Cardinality(changed) <= 1
  <2>1. changed = {} \/ changed = {y}
    BY <1>3
  <2>2. Cardinality({y}) = 1 /\ Cardinality({}) = 0
    BY FS_EmptySet, FS_Singleton
  <2> HIDE DEF changed
  <2> QED BY <2>1, <2>2
<1> HIDE DEF all
<1>4. ASSUME UNCHANGED shared_buffers PROVE Cardinality(changed) <= 1
  <2>1. changed = {}
    BY <1>4
  <2> HIDE DEF changed
  <2> QED BY <1>2, <2>1
<1>5. ASSUME NEW q \in Node,
             \A r \in Node \ {q} : shared_buffers'[r] = shared_buffers[r],
             \A c \in DOMAIN shared_buffers[q] : shared_buffers'[q][c] = shared_buffers[q][c]
      PROVE  Cardinality(changed) <= 1
  <2>1. \A c \in DOMAIN shared_buffers[p] : shared_buffers'[p][c] = shared_buffers[p][c]
    BY <1>5
  <2>2. changed = {}
    BY <1>1, <2>1 DEF Reading
  <2> HIDE DEF changed
  <2> QED BY <1>2, <2>2
<1>6. ASSUME NEW q \in Node, NEW ch \in DOMAIN shared_buffers[q], NEW i \in Items(q, ch), NEW data,
             Wrote(q, ch, i, data)
      PROVE  Cardinality(changed) <= 1
  <2>1. changed \subseteq {<<ch, i>>}
    <3> SUFFICES ASSUME NEW x \in changed PROVE x = <<ch, i>>
      OBVIOUS
    <3>1. /\ x \in all
          /\ Reading(shared_buffers', p, x[1], x[2]) # Reading(shared_buffers, p, x[1], x[2])
      OBVIOUS
    <3>2. x = <<x[1], x[2]>> /\ x[1] \in DOMAIN shared_buffers[p] /\ x[2] \in Items(p, x[1])
      BY <1>1, <3>1
    <3>3. p = q
      BY <1>6, <3>1 DEF Wrote, Reading
    <3>4. x[1] = ch /\ x[2] = i
      BY <1>6, <3>1, <3>2, <3>3 DEF Wrote
    <3> QED BY <3>2, <3>4
  <2> HIDE DEF changed
  <2> QED BY <1>3, <2>1
<1>7. Cardinality(changed) <= 1
  <2> HIDE DEF changed
  <2>1. \/ UNCHANGED shared_buffers
        \/ \E q \in Node :
             /\ \A r \in Node \ {q} : shared_buffers'[r] = shared_buffers[r]
             /\ \A c \in DOMAIN shared_buffers[q] : shared_buffers'[q][c] = shared_buffers[q][c]
        \/ \E q \in Node : \E ch \in DOMAIN shared_buffers[q] : \E i \in Items(q, ch) : \E data :
             Wrote(q, ch, i, data)
    BY BufferSteps, Zenon
  <2> QED BY <1>4, <1>5, <1>6, <2>1, Zenon
<1> QED BY <1>7, Zenon DEF changed, all

LEMMA OneItemAction ==
    ASSUME Copies, TypeInv, [Next]_vars
    PROVE  [\A p \in Node : shared_buffers[p] # shared_buffers'[p] =>
              LET changed == {x \in UNION {{ch} \X Items(p, ch) : ch \in DOMAIN shared_buffers[p]} :
                                readBuffer(p, x[1], x[2])' # readBuffer(p, x[1], x[2])}
              IN Cardinality(changed) <= 1]_shared_buffers
<1> SUFFICES ASSUME NEW p \in Node
             PROVE  Cardinality({x \in UNION {{ch} \X Items(p, ch) : ch \in DOMAIN shared_buffers[p]} :
                                   readBuffer(p, x[1], x[2])' # readBuffer(p, x[1], x[2])}) <= 1
  OBVIOUS
<1> QED BY OneItemStep DEF Reading, readBuffer

(* OneItemAtATime for any dictionaries that are well laid out and any      *)
(* messages, when publishers make theirs of copies of the dictionary's     *)
(* items (auto msg = Dict.item; msg << value), not of Dict.item(value): no *)
(* step changes the bytes of two items.  Code: handleSerialize,            *)
(* MsgDictSingleWrite.                                                     *)
THEOREM OneItemCorrect ==
    ASSUME Copies
    PROVE  Spec => OneItemAtATime
<1>1. TypeInv /\ [Next]_vars =>
        [\A p \in Node : shared_buffers[p] # shared_buffers'[p] =>
           LET changed == {x \in UNION {{ch} \X Items(p, ch) : ch \in DOMAIN shared_buffers[p]} :
                             readBuffer(p, x[1], x[2])' # readBuffer(p, x[1], x[2])}
           IN Cardinality(changed) <= 1]_shared_buffers
  BY OneItemAction
<1> QED BY <1>1, TypeSpec, PTL DEF Spec, OneItemAtATime


-----------------------------------------------------------------------------
(* The steps, as the buffers and the history see them.                     *)

OnChannel(p, c) == PublishChannel(publishers[p][c.pub])
OwnerOf(p, c)   == publishers[p][c.pub].is_owner

(* The message of a call is a copy of an item that the application or a    *)
(* callback publishes.                                                     *)
Made(p, c) ==
    \E byte :
      /\ c.data = Message(p, OnChannel(p, c), c.index, byte, "copy").data
      /\ \/ \E m \in Offered[p] : m[1] = OwnerOf(p, c) /\ m[2] = c.index /\ m[3] = byte
         \/ \E slot \in DOMAIN Reaction :
              /\ slot[1] = p /\ slot[2] = OwnerOf(p, c)
              /\ Reaction[slot].index = c.index /\ Reaction[slot].byte = byte

LEMMA SameMessage ==
    ASSUME NEW p, NEW ch, NEW i, NEW byte, NEW form, form # "built"
    PROVE  Message(p, ch, i, byte, form) = Message(p, ch, i, byte, "copy")
BY DEF Message

Binds(p, e) ==
    /\ call[p] = <<>> /\ UNCHANGED <<call, rx, crashed, log, seen, missed>>
    /\ \A q \in Node \ {p} : /\ publishers'[q] = publishers[q] /\ subscribers'[q] = subscribers[q]
                             /\ shared_buffers'[q] = shared_buffers[q] /\ since'[q] = since[q]
    /\ \A c \in DOMAIN shared_buffers[p] :
         c \in DOMAIN shared_buffers'[p] /\ shared_buffers'[p][c] = shared_buffers[p][c]
    /\ \A c \in DOMAIN shared_buffers'[p] \ DOMAIN shared_buffers[p] :
         shared_buffers'[p][c] = createBuffer(Dict[p][c[2]])
    /\ \A c \in Channel : IF c = <<e[1], Bit(~ e[2])>> THEN since'[p][c] = Len(log)
                          ELSE since'[p][c] = since[p][c] /\ (Bound(p, c)' => Bound(p, c))

Pushes(p, base, c) ==
    /\ UNCHANGED <<publishers, subscribers, rx, crashed, log, since, seen, missed>>
    /\ SameCalls(call[p], base) /\ base \in Seq(Call)
    /\ call'[p] = Append(base, c) /\ \A q \in Node \ {p} : call'[q] = call[q]
    /\ Publishing(p, publishers[p], c) /\ Wrote(p, OnChannel(p, c), c.index, c.data)
    /\ Made(p, c)
    /\ c.index <= 7 \/ c.local_only => p \in Writers[OnChannel(p, c)]
    /\ call[p] # <<>> => LET slot == <<p, OwnerOf(p, c), Top(p).index>>
                         IN /\ slot \in DOMAIN Reaction /\ c.index = Reaction[slot].index
                            /\ TopPublisher(p).is_owner = ~ OwnerOf(p, c)

Returns(p, e) ==
    /\ call[p] # <<>> /\ Returned(p) /\ log' = Append(log, e)
    /\ Published(e) /\ e = Entry(p, e.sent)
    /\ Top(p).index <= 7 \/ Top(p).local_only
    /\ IF e.sent
       THEN /\ p \in CanNode
            /\ rx' = [q \in Node |-> IF Hears(p, q) /\ Len(rx[q]) < QueueCap
                                     THEN Append(rx[q], SentPacket(p)) ELSE rx[q]]
            /\ missed' = missed \cup {q \in Node : Hears(p, q) /\ Len(rx[q]) >= QueueCap}
       ELSE UNCHANGED <<rx, missed>>
    /\ UNCHANGED <<publishers, subscribers, since, seen, shared_buffers, crashed>>

Receives(p) ==
    /\ Dropped(p) /\ Len(rx[p]) \in Nat \ {0}
    /\ rx[p][1].no \in 1 .. Len(log) /\ Received(log, p, rx[p][1]) /\ Published(log[rx[p][1].no])
    /\ \/ \E junk \in Junk :
            /\ Applied(p, log[rx[p][1].no], rx[p][1].no, junk)
            /\ Wrote(p, log[rx[p][1].no].channel, log[rx[p][1].no].index,
                     ItemBytes(Dict[p][log[rx[p][1].no].channel[2]], log[rx[p][1].no].index,
                               log[rx[p][1].no].data, junk))
       \/ UNCHANGED <<shared_buffers, seen>> /\ crashed' = crashed \cup {p}
       \/ Ignored(p, log[rx[p][1].no])

Rests ==
    /\ UNCHANGED <<publishers, shared_buffers, rx, log, since, seen, missed>>
    /\ crashed \subseteq crashed'
    /\ \A p \in Node : SameCalls(call[p], call'[p])
    /\ \A p \in Node, c \in Channel : Bound(p, c)' => Bound(p, c)

LEMMA BindCase ==
    ASSUME TypeInv, NEW p \in Node, NEW e \in Ends[p], bindChannel(p, e[1], e[2])
    PROVE  Binds(p, e)
<1> DEFINE sub == [node_id |-> e[1], is_owner |-> e[2], callbacks |-> {}]
           pub == bindPublisherToChannel(subscribers[p], e[1], e[2])
           ps  == registerLocally(Append(publishers[p], pub), sub, Len(subscribers[p]) + 1)
           ss  == Append(subscribers[p], sub)
           new == getSharedBuffer(getSharedBuffer(shared_buffers[p], p, PublishChannel(pub)),
                                  p, SubscribeChannel(sub))
           ch  == <<e[1], Bit(~ e[2])>>
<1>1. /\ publishers' = [publishers EXCEPT ![p] = ps]
      /\ subscribers' = [subscribers EXCEPT ![p] = ss]
      /\ shared_buffers' = [shared_buffers EXCEPT ![p] = new]
      /\ since' = [since EXCEPT ![p][SubscribeChannel(sub)] = Len(log)]
      /\ call[p] = <<>>
      /\ UNCHANGED <<call, rx, crashed, log, seen, missed>>
  BY DEF bindChannel, Idle
<1>2. /\ Tables(publishers[p], subscribers[p], Ends[p])
      /\ BuffersOf(p, publishers[p], subscribers[p], shared_buffers[p])
  BY DEF TypeInv, TablesInv, BuffersInv
<1>3. /\ SubscribeChannel(sub) = ch /\ ch \in Channel
      /\ \A c \in DOMAIN shared_buffers[p] : new[c] = shared_buffers[p][c]
  BY <1>2, BindKeepsBuffers
<1>4. /\ \A c \in DOMAIN shared_buffers[p] : c \in DOMAIN new
      /\ \A c \in DOMAIN new \ DOMAIN shared_buffers[p] : new[c] = createBuffer(Dict[p][c[2]])
  BY DEF getSharedBuffer
<1>5. subscribers[p] \in Seq(Subscriber)
  BY <1>2 DEF Tables
<1>6. \A k \in DOMAIN ss : (k \in DOMAIN subscribers[p] /\ ss[k] = subscribers[p][k]) \/ ss[k] = sub
  <2> HIDE DEF sub
  <2> QED BY <1>5
<1> HIDE DEF ps, ss, new, sub
<1>7. /\ subscribers'[p] = ss /\ shared_buffers'[p] = new
      /\ \A q \in Node \ {p} : /\ publishers'[q] = publishers[q] /\ subscribers'[q] = subscribers[q]
                               /\ shared_buffers'[q] = shared_buffers[q] /\ since'[q] = since[q]
      /\ \A c \in Channel : since'[p][c] = IF c = ch THEN Len(log) ELSE since[p][c]
  <2>1. shared_buffers = [q \in Node |-> shared_buffers[q]]
    BY DEF TypeInv, BuffersInv
  <2>2. /\ publishers \in [Node -> Seq(Publisher)] /\ subscribers \in [Node -> Seq(Subscriber)]
        /\ since \in [Node -> [Channel -> 0 .. Len(log)]]
    BY DEF TypeInv, TablesInv, HistoryInv
  <2> HIDE DEF ch
  <2> QED BY <1>1, <1>3, <2>1, <2>2
<1>8. ASSUME NEW c \in Channel, c # ch, Bound(p, c)' PROVE Bound(p, c)
  <2>1. PICK k \in DOMAIN ss : SubscribeChannel(ss[k]) = c
    BY <1>7, <1>8 DEF Bound
  <2>2. ss[k] # sub
    BY <1>3, <1>8, <2>1
  <2> QED BY <1>6, <2>1, <2>2 DEF Bound
<1> HIDE DEF ch
<1>9. \A c \in Channel : IF c = ch THEN since'[p][c] = Len(log)
                         ELSE since'[p][c] = since[p][c] /\ (Bound(p, c)' => Bound(p, c))
  BY <1>7, <1>8
<1> QED BY <1>1, <1>3, <1>4, <1>7, <1>9 DEF Binds, ch

(* Who begins a call that may come to an end writes the channel. *)
LEMMA WritesIt ==
    ASSUME TypeInv, NEW p \in Node, NEW k \in DOMAIN publishers[p],
           \/ \E m \in Offered[p] : m[1] = publishers[p][k].is_owner /\ (m[2] <= 7 \/ m[4])
           \/ \E slot \in DOMAIN Reaction : slot[1] = p /\ slot[2] = publishers[p][k].is_owner
    PROVE  p \in Writers[PublishChannel(publishers[p][k])]
<1> DEFINE ch == PublishChannel(publishers[p][k])
           e  == <<publishers[p][k].node_id, publishers[p][k].is_owner>>
<1>1. Tables(publishers[p], subscribers[p], Ends[p])
  BY DEF TypeInv, TablesInv
<1>2. k \in 1 .. Len(publishers[p])
  BY <1>1 DEF Tables
<1>3. e \in Ends[p]
  BY <1>1, <1>2 DEF Tables
<1>4. ch \in Channel /\ e[2] = publishers[p][k].is_owner /\ <<e[1], Bit(e[2])>> = ch
  BY <1>3, ChannelTyped, BitTyped DEF PublishChannel
<1> HIDE DEF ch, e
<1>5. p \in Writers[ch]
  BY <1>3, <1>4 DEF Writers
<1> QED BY <1>5 DEF ch

LEMMA PublishCase ==
    ASSUME Copies, TypeInv, NEW p \in Node, NEW k \in DOMAIN publishers[p], NEW m \in Offered[p],
           NEW form \in Form, publish(p, k, m[2], m[3], form, m[4])
    PROVE  \E base, c : Pushes(p, base, c)
<1>1. /\ call[p] = <<>> /\ Begin(p, k, m[2], m[3], form, m[4], <<>>)
      /\ UNCHANGED <<publishers, subscribers, rx, crashed, log, since, seen, missed>>
      /\ <<publishers[p][k].is_owner, m[2], m[3], m[4]>> \in Offered[p]
  BY DEF publish, historyVars, Idle
<1>2. /\ m[2] \in Items(p, PublishChannel(publishers[p][k])) /\ m[3] \in Byte /\ m[4] \in BOOLEAN
  BY TypePublish
<1>3. PICK c \in Call, at \in Nat :
        /\ Begun(p, k, m[2], form, m[4], <<>>, c, at)
        /\ c.data = Message(p, PublishChannel(publishers[p][k]), m[2], m[3], form).data
  BY <1>1, <1>2, BeginEffect DEF TypeInv
<1>4. Wrote(p, PublishChannel(publishers[p][k]), m[2], c.data)
  BY <1>3, BegunWrites DEF Copies
<1>5. /\ Publishing(p, publishers[p], c) /\ c.pub = k /\ c.index = m[2]
      /\ call' = [call EXCEPT ![p] = Append(<<>>, c)] /\ (c.local_only => m[4])
  BY <1>3 DEF Begun
<1>6. call'[p] = Append(<<>>, c) /\ \A q \in Node \ {p} : call'[q] = call[q]
  <2> DEFINE s == Append(<<>>, c)
  <2>1. call' = [call EXCEPT ![p] = s]
    BY <1>5, Zenon
  <2>0. call \in [Node -> Seq(Call)]
    BY DEF TypeInv, CallsInv
  <2> HIDE DEF s
  <2>2. call'[p] = s /\ \A q \in Node \ {p} : call'[q] = call[q]
    BY <2>0, <2>1
  <2> QED BY <2>2 DEF s
<1>7. c.index <= 7 \/ c.local_only => p \in Writers[PublishChannel(publishers[p][k])]
  <2> SUFFICES ASSUME c.index <= 7 \/ c.local_only
               PROVE  p \in Writers[PublishChannel(publishers[p][k])]
    OBVIOUS
  <2> DEFINE o == <<publishers[p][k].is_owner, m[2], m[3], m[4]>>
  <2>0. o[1] = publishers[p][k].is_owner /\ o[2] = m[2] /\ o[4] = m[4]
    OBVIOUS
  <2>1. o \in Offered[p] /\ o[1] = publishers[p][k].is_owner /\ (o[2] <= 7 \/ o[4])
    <3>3. o \in Offered[p]
      BY <1>1
    <3> HIDE DEF o
    <3>1. c.index <= 7 => o[2] <= 7
      BY <1>5, <2>0
    <3>2. c.local_only => o[4]
      BY <1>5, <2>0, Zenon
    <3> QED BY <2>0, <3>1, <3>2, <3>3, Zenon
  <2> HIDE DEF o
  <2> QED BY <2>1, WritesIt
<1>8. SameCalls(<<>>, <<>>) /\ <<>> \in Seq(Call)
  BY DEF SameCalls
<1>9. Made(p, c)
  <2> DEFINE o == <<publishers[p][k].is_owner, m[2], m[3], m[4]>>
  <2>1. o[1] = OwnerOf(p, c) /\ o[2] = c.index /\ o[3] = m[3] /\ o \in Offered[p]
    BY <1>1, <1>5 DEF OwnerOf
  <2>2. c.data = Message(p, OnChannel(p, c), c.index, m[3], "copy").data
    BY <1>3, <1>5, SameMessage DEF OnChannel, Copies
  <2> HIDE DEF o
  <2> QED BY <2>1, <2>2 DEF Made
<1>10. Pushes(p, <<>>, c)
  BY <1>1, <1>4, <1>5, <1>6, <1>7, <1>8, <1>9 DEF Pushes, OnChannel
<1> QED BY <1>10


LEMMA NotifyCase ==
    ASSUME Copies, TypeInv, NEW p \in Node, notify(p)
    PROVE  Rests \/ \E base, c : Pushes(p, base, c)
<1>1. /\ Notifying(p) /\ call[p] # <<>>
      /\ UNCHANGED <<publishers, subscribers, rx, crashed, started, log, since, seen, missed>>
  BY DEF notify, Notifying, historyVars
<1>2. StackOf(p, publishers[p], call[p]) /\ call \in [Node -> Seq(Call)]
  BY DEF TypeInv, CallsInv
<1> DEFINE base == Advanced(call[p])
<1>3. StackOf(p, publishers[p], base) /\ SameCalls(call[p], base)
  <2>1. StackOf(p, publishers[p], call[p]) /\ call[p] # <<>>
    BY <1>1, <1>2
  <2> QED BY <2>1, Advances
<1>4. base \in Seq(Call)
  BY <1>3 DEF StackOf
<1> HIDE DEF base
<1>5. CASE /\ Reacts(p)
           /\ Begin(p, Told(p), Answer(p).index, Answer(p).byte, "copy", FALSE, base)
  <2> DEFINE k == Told(p)
             i == Answer(p).index
             slot == <<p, publishers[p][k].is_owner, Top(p).index>>
  <2>1. /\ k \in DOMAIN publishers[p]
        /\ Linked(TopPublisher(p), subscribers[p][k]) /\ SameEnd(publishers[p][k], subscribers[p][k])
    BY <1>1, ToldTyped DEF TypeInv
  <2>2. i \in Items(p, PublishChannel(publishers[p][k])) /\ Answer(p).byte \in Byte
    BY <1>1, <1>5, AnswerTyped DEF TypeInv
  <2>3. /\ slot \in DOMAIN Reaction /\ i = Reaction[slot].index
        /\ Answer(p).byte = Reaction[slot].byte
    BY <1>5, <2>1 DEF Reacts, Answer, SameEnd
  <2>4. slot[1] = p /\ slot[2] = publishers[p][k].is_owner
    OBVIOUS
  <2> HIDE DEF k, i, slot
  <2>5. p \in Writers[PublishChannel(publishers[p][k])]
    BY <2>1, <2>3, <2>4, WritesIt
  <2>6. PICK c \in Call, at \in Nat :
          /\ Begun(p, k, i, "copy", FALSE, base, c, at)
          /\ c.data = Message(p, PublishChannel(publishers[p][k]), i, Answer(p).byte, "copy").data
    <3> DEFINE byte == Answer(p).byte
    <3>1. byte \in Byte /\ Begin(p, k, i, byte, "copy", FALSE, base)
      BY <1>5, <2>2 DEF k, i
    <3> HIDE DEF byte
    <3>2. \E c \in Call, at \in Nat :
            /\ Begun(p, k, i, "copy", FALSE, base, c, at)
            /\ c.data = Message(p, PublishChannel(publishers[p][k]), i, byte, "copy").data
      <4>1. TablesInv /\ k \in DOMAIN publishers[p] /\ FALSE \in BOOLEAN
            /\ i \in Items(p, PublishChannel(publishers[p][k])) /\ byte \in Byte
        BY <2>1, <2>2, <3>1 DEF TypeInv
      <4>2. \A form : \A owned \in BOOLEAN : Begin(p, k, i, byte, form, owned, base) =>
              \E c \in Call, at \in Nat :
                /\ Begun(p, k, i, form, owned, base, c, at)
                /\ c.data = Message(p, PublishChannel(publishers[p][k]), i, byte, form).data
        BY <4>1, BeginEffect
      <4> QED BY <3>1, <4>1, <4>2
    <3> QED BY <3>2 DEF byte
  <2>7. Wrote(p, PublishChannel(publishers[p][k]), i, c.data)
    BY <2>1, <2>6, BegunWrites
  <2>8. /\ Publishing(p, publishers[p], c) /\ c.pub = k /\ c.index = i
        /\ call' = [call EXCEPT ![p] = Append(base, c)]
    BY <2>6 DEF Begun
  <2>9. call'[p] = Append(base, c) /\ \A q \in Node \ {p} : call'[q] = call[q]
    BY <1>2, <2>8
  <2>10. TopPublisher(p).is_owner = ~ publishers[p][k].is_owner
    <3>1. Top(p) \in Call /\ Publishing(p, publishers[p], Top(p))
      BY <1>1, TopTyped DEF TypeInv
    <3>2. publishers[p] \in Seq(Publisher)
      BY DEF TypeInv, TablesInv
    <3>3. publishers[p][k] \in Publisher /\ TopPublisher(p) \in Publisher
      BY <2>1, <3>1, <3>2 DEF Publishing, TopPublisher
    <3>4. publishers[p][k].is_owner \in BOOLEAN /\ TopPublisher(p).is_owner \in BOOLEAN
      BY <3>3 DEF Publisher
    <3>5. TopPublisher(p).is_owner # publishers[p][k].is_owner
      BY <2>1 DEF Linked, SameEnd
    <3> QED BY <3>4, <3>5, Zenon
  <2>11. OnChannel(p, c) = PublishChannel(publishers[p][k]) /\ OwnerOf(p, c) = publishers[p][k].is_owner
    BY <2>8 DEF OnChannel, OwnerOf
  <2>12. Made(p, c)
    BY <2>3, <2>4, <2>6, <2>8, <2>11 DEF Made
  <2>13. Pushes(p, base, c)
    BY <1>1, <1>3, <1>4, <2>3, <2>5, <2>7, <2>8, <2>9, <2>10, <2>11, <2>12 DEF Pushes, slot
  <2> QED BY <2>13
<1>6. CASE ~ Reacts(p) /\ UNCHANGED shared_buffers /\ call' = [call EXCEPT ![p] = base]
  <2>1. call'[p] = base /\ \A q \in Node \ {p} : call'[q] = call[q]
    BY <1>2, <1>6
  <2>2. \A s : SameCalls(s, s)
    BY DEF SameCalls
  <2>3. \A q \in Node : SameCalls(call[q], call'[q])
    BY <1>3, <2>1, <2>2
  <2>4. \A q \in Node, c \in Channel : Bound(q, c)' => Bound(q, c)
    BY <1>1 DEF Bound
  <2> QED BY <1>1, <1>6, <2>3, <2>4 DEF Rests
<1> QED BY <1>5, <1>6, NotifyEffect DEF base

LEMMA ReturnCase ==
    ASSUME TypeInv, NEW p \in Node, ReturnLocally(p) \/ Send(p)
    PROVE  \E e : Returns(p, e)
<1>1. CASE ReturnLocally(p)
  <2> DEFINE e == Entry(p, FALSE)
  <2>1. /\ call[p] # <<>> /\ Returned(p) /\ log' = Append(log, e) /\ Top(p).local_only
        /\ UNCHANGED <<publishers, subscribers, since, shared_buffers, rx, crashed, started, seen, missed>>
    BY <1>1 DEF ReturnLocally, Finishing, bindVars
  <2>2. Published(e) /\ e.sent = FALSE
    BY <2>1, EntryTyped DEF Entry
  <2>3. e = Entry(p, e.sent)
    BY <2>2
  <2> HIDE DEF e
  <2>4. Returns(p, e)
    BY <2>1, <2>2, <2>3 DEF Returns
  <2> QED BY <2>4
<1>2. CASE Send(p)
  <2> DEFINE e == SentEntry(p)
  <2>1. /\ call[p] # <<>> /\ Returned(p) /\ log' = Append(log, e)
        /\ UNCHANGED <<publishers, subscribers, since, shared_buffers, crashed, started, seen>>
        /\ Published(e) /\ Top(p).index <= 7
        /\ rx' = [q \in Node |-> IF Hears(p, q) /\ Len(rx[q]) < QueueCap
                                 THEN Append(rx[q], SentPacket(p)) ELSE rx[q]]
        /\ missed' = missed \cup {q \in Node : Hears(p, q) /\ Len(rx[q]) >= QueueCap}
    BY <1>2, SendEffect
  <2>2. e.sent = (p \in CanNode) /\ e = Entry(p, e.sent)
    BY DEF SentEntry, Entry
  <2> HIDE DEF e
  <2>3. ASSUME ~ e.sent PROVE UNCHANGED <<rx, missed>>
    <3>1. \A q \in Node : ~ Hears(p, q)
      BY <2>2, <2>3 DEF Hears
    <3>2. rx' = [q \in Node |-> rx[q]] /\ missed' = missed
      BY <2>1, <3>1
    <3> QED BY <3>2 DEF TypeInv, PacketsInv
  <2>4. Returns(p, e)
    BY <2>1, <2>2, <2>3 DEF Returns
  <2> QED BY <2>4
<1> QED BY <1>1, <1>2

LEMMA ReceiveCase ==
    ASSUME TypeInv, NEW p \in Node, HandleMessage(p)
    PROVE  Receives(p)
<1> DEFINE no == rx[p][1].no
           e  == log[no]
<1>1. /\ Dropped(p) /\ Len(rx[p]) \in Nat \ {0}
      /\ no \in 1 .. Len(log) /\ Received(log, p, rx[p][1]) /\ Published(e)
      /\ \/ \E junk \in Junk : Applied(p, e, no, junk)
         \/ UNCHANGED <<shared_buffers, seen>> /\ crashed' = crashed \cup {p}
         \/ Ignored(p, e)
  BY HandleEffect DEF TypeInv
<1> HIDE DEF no, e
<1>2. ASSUME NEW junk \in Junk, Applied(p, e, no, junk)
      PROVE  Wrote(p, e.channel, e.index, ItemBytes(Dict[p][e.channel[2]], e.index, e.data, junk))
  BY <1>1, <1>2, AppliedWrites
<1> QED BY <1>1, <1>2 DEF Receives, no, e

LEMMA RestCase ==
    ASSUME TypeInv, NEW p \in Node,
           SendAsserts(p) \/ \E k \in DOMAIN subscribers[p] : \E i : subscribe(p, k, i)
    PROVE  Rests
<1>1. \A s : SameCalls(s, s)
  BY DEF SameCalls
<1>2. CASE SendAsserts(p)
  <2>1. /\ UNCHANGED <<publishers, subscribers, shared_buffers, call, rx, log, since, seen, missed>>
        /\ crashed \subseteq crashed'
    BY <1>2 DEF SendAsserts, bindVars
  <2> QED BY <1>1, <2>1 DEF Rests, Bound
<1>3. ASSUME NEW k \in DOMAIN subscribers[p], NEW i, subscribe(p, k, i) PROVE Rests
  <2>1. /\ UNCHANGED <<publishers, shared_buffers, call, rx, crashed, log, since, seen, missed>>
        /\ subscribers' = [subscribers EXCEPT ![p][k].callbacks = @ \cup {i}]
    BY <1>3 DEF subscribe, historyVars
  <2>2. ASSUME NEW q \in Node, NEW s \in DOMAIN subscribers'[q]
        PROVE  /\ s \in DOMAIN subscribers[q]
               /\ SubscribeChannel(subscribers'[q][s]) = SubscribeChannel(subscribers[q][s])
    <3>1. subscribers \in [Node -> Seq(Subscriber)]
      BY DEF TypeInv, TablesInv
    <3>2. subscribers'[q] = IF q = p THEN [subscribers[p] EXCEPT ![k].callbacks = @ \cup {i}]
                            ELSE subscribers[q]
      BY <2>1, <3>1
    <3>3. s \in DOMAIN subscribers[q]
      BY <2>2, <3>2
    <3>4. subscribers[q][s] \in Subscriber
      BY <3>1, <3>3
    <3>5. CASE q = p /\ s = k
      <4>1. subscribers'[q][s] = [subscribers[q][s] EXCEPT !.callbacks = @ \cup {i}]
        BY <3>2, <3>3, <3>5
      <4>2. /\ subscribers'[q][s].node_id = subscribers[q][s].node_id
            /\ subscribers'[q][s].is_owner = subscribers[q][s].is_owner
        BY <3>4, <4>1 DEF Subscriber
      <4> QED BY <3>3, <4>2 DEF SubscribeChannel
    <3>6. CASE ~ (q = p /\ s = k)
      <4>1. subscribers'[q][s] = subscribers[q][s]
        BY <3>2, <3>3, <3>6
      <4> QED BY <3>3, <4>1
    <3> QED BY <3>5, <3>6
  <2>3. ASSUME NEW q \in Node, NEW c \in Channel, Bound(q, c)' PROVE Bound(q, c)
    BY <2>2, <2>3 DEF Bound
  <2> QED BY <1>1, <2>1, <2>3 DEF Rests
<1> QED BY <1>2, <1>3

(* Every step is one of these. *)
LEMMA StepCases ==
    ASSUME Copies, TypeInv, [Next]_vars
    PROVE  \/ \E p \in Node : \E e \in Ends[p] : Binds(p, e)
           \/ \E p \in Node : \E base, c : Pushes(p, base, c)
           \/ \E p \in Node : \E e : Returns(p, e)
           \/ \E p \in Node : Receives(p)
           \/ Rests
<1>1. ASSUME NEW p \in Node, Application(p)
      PROVE  (\E e \in Ends[p] : Binds(p, e)) \/ (\E base, c : Pushes(p, base, c)) \/ Rests
  BY <1>1, BindCase, PublishCase, RestCase DEF Application
<1>2. ASSUME NEW p \in Node, CallStep(p)
      PROVE  (\E base, c : Pushes(p, base, c)) \/ (\E e : Returns(p, e)) \/ Rests
  BY <1>2, NotifyCase, ReturnCase, RestCase DEF CallStep
<1>3. ASSUME NEW p \in Node, HandleMessage(p) PROVE Receives(p)
  BY <1>3, ReceiveCase
<1>4. ASSUME UNCHANGED vars PROVE Rests
  <2>1. /\ UNCHANGED <<publishers, subscribers, shared_buffers, call, rx, log, since, seen, missed>>
        /\ crashed \subseteq crashed'
    BY <1>4 DEF vars, historyVars
  <2>2. \A s : SameCalls(s, s)
    BY DEF SameCalls
  <2> QED BY <2>1, <2>2 DEF Rests, Bound
<1>5. CASE Next
  BY <1>5, <1>1, <1>2, <1>3, Zenon DEF Next
<1> QED BY <1>4, <1>5


-----------------------------------------------------------------------------
(* Who writes a channel.                                                   *)

FramesWrite(p, pubs, stack) ==
    \A j \in 1 .. Len(stack) : stack[j].index <= 7 \/ stack[j].local_only =>
      p \in Writers[PublishChannel(pubs[stack[j].pub])]

(* Calls that may end, and publications, are those of the channel's        *)
(* writers, which have a buffer for it.                                    *)
WritersInv ==
    /\ \A p \in Node : FramesWrite(p, publishers[p], call[p])
    /\ \A e \in 1 .. Len(log) : /\ log[e].from \in Writers[log[e].channel]
                                /\ log[e].channel \in DOMAIN shared_buffers[log[e].from]

(* No step loses a buffer. *)
LEMMA BuffersStay ==
    ASSUME Copies, TypeInv, [Next]_vars, NEW p \in Node
    PROVE  DOMAIN shared_buffers[p] \subseteq DOMAIN shared_buffers'[p]
<1>1. ASSUME NEW q \in Node, NEW e \in Ends[q], Binds(q, e)
      PROVE  DOMAIN shared_buffers[p] \subseteq DOMAIN shared_buffers'[p]
  BY <1>1 DEF Binds
<1>2. ASSUME NEW q \in Node, NEW ch, NEW i, NEW data, Wrote(q, ch, i, data)
      PROVE  DOMAIN shared_buffers[p] \subseteq DOMAIN shared_buffers'[p]
  BY <1>2 DEF Wrote
<1>3. CASE UNCHANGED shared_buffers
  BY <1>3
<1>4. ASSUME NEW q \in Node, Receives(q)
      PROVE  DOMAIN shared_buffers[p] \subseteq DOMAIN shared_buffers'[p]
  BY <1>2, <1>3, <1>4 DEF Receives, Ignored
<1>5. ASSUME NEW q \in Node, NEW base, NEW c, Pushes(q, base, c)
      PROVE  DOMAIN shared_buffers[p] \subseteq DOMAIN shared_buffers'[p]
  BY <1>2, <1>5 DEF Pushes
<1>6. ASSUME NEW q \in Node, NEW e, Returns(q, e) PROVE UNCHANGED shared_buffers
  BY <1>6 DEF Returns
<1>7. ASSUME Rests PROVE UNCHANGED shared_buffers
  BY <1>7 DEF Rests
<1> QED BY <1>1, <1>3, <1>4, <1>5, <1>6, <1>7, StepCases

LEMMA SameWrite ==
    ASSUME NEW p, NEW pubs, NEW old, NEW new, SameCalls(old, new), FramesWrite(p, pubs, old)
    PROVE  FramesWrite(p, pubs, new)
BY DEF SameCalls, FramesWrite

(* What was published stays. *)
LEMMA LogStays ==
    ASSUME TypeInv, NEW p \in Node, NEW e, Returns(p, e)
    PROVE  /\ Len(log) \in Nat /\ Len(log') = Len(log) + 1 /\ log'[Len(log) + 1] = e
           /\ \A k \in 1 .. Len(log) : log'[k] = log[k]
           /\ \A k \in 1 .. Len(log') : k \in 1 .. Len(log) \/ k = Len(log) + 1
           /\ e.from = p /\ e.channel = OnChannel(p, Top(p)) /\ e.index = Top(p).index
           /\ e.data = Top(p).data
<1>1. log \in Seq(Publication) /\ e \in Publication /\ log' = Append(log, e)
  BY DEF TypeInv, HistoryInv, Returns, Published
<1>2. /\ Len(log) \in Nat /\ Len(log') = Len(log) + 1 /\ log'[Len(log) + 1] = e
      /\ \A k \in 1 .. Len(log) : log'[k] = log[k]
  BY <1>1
<1>3. \A k \in 1 .. Len(log') : k \in 1 .. Len(log) \/ k = Len(log) + 1
  BY <1>2
<1>4. e = Entry(p, e.sent)
  BY DEF Returns
<1>5. /\ e.from = p /\ e.channel = OnChannel(p, Top(p)) /\ e.index = Top(p).index
      /\ e.data = Top(p).data
  BY <1>4 DEF Entry, OnChannel, TopPublisher
<1> QED BY <1>2, <1>3, <1>5

LEMMA WritersStep ==
    ASSUME Copies, TypeInv, TypeInv', WritersInv, [Next]_vars
    PROVE  WritersInv'
<1> DEFINE Entries == \A e \in 1 .. Len(log') :
                        /\ log'[e].from \in Writers[log'[e].channel]
                        /\ log'[e].channel \in DOMAIN shared_buffers'[log'[e].from]
           Frames  == \A p \in Node : FramesWrite(p, publishers'[p], call'[p])
<1>1. ASSUME NEW e \in 1 .. Len(log)
      PROVE  /\ log[e].from \in Writers[log[e].channel]
             /\ log[e].channel \in DOMAIN shared_buffers'[log[e].from]
  <2>1. log[e].from \in Node
    BY DEF TypeInv, HistoryInv, Published, Publication
  <2> QED BY <2>1, BuffersStay DEF WritersInv
<1>2. UNCHANGED log => Entries
  BY <1>1
<1>3. ASSUME NEW p \in Node, NEW e \in Ends[p], Binds(p, e) PROVE Frames /\ Entries
  <2>1. FramesWrite(p, publishers'[p], <<>>)
    <3>1. 1 .. Len(<<>>) = {}
      OBVIOUS
    <3> QED BY <3>1, Zenon DEF FramesWrite
  <2>2. ASSUME NEW q \in Node PROVE FramesWrite(q, publishers'[q], call'[q])
    BY <1>3, <2>1 DEF Binds, WritersInv
  <2> QED BY <1>2, <1>3, <2>2 DEF Binds
<1>4. ASSUME NEW p \in Node, NEW base, NEW c, Pushes(p, base, c) PROVE Frames /\ Entries
  <2>1. FramesWrite(p, publishers[p], base)
    BY <1>4, SameWrite DEF Pushes, WritersInv
  <2>2. FramesWrite(p, publishers[p], Append(base, c))
    <3>1. base \in Seq(Call) /\ (c.index <= 7 \/ c.local_only => p \in Writers[OnChannel(p, c)])
      BY <1>4 DEF Pushes
    <3> DEFINE s == Append(base, c)
    <3>2. /\ Len(s) = Len(base) + 1 /\ Len(base) \in Nat
          /\ s[Len(base) + 1] = c /\ \A j \in 1 .. Len(base) : s[j] = base[j]
      BY <3>1
    <3> HIDE DEF s
    <3>3. \A j \in 1 .. Len(s) : j \in 1 .. Len(base) \/ j = Len(base) + 1
      BY <3>2
    <3>4. FramesWrite(p, publishers[p], s)
      BY <2>1, <3>1, <3>2, <3>3 DEF FramesWrite, OnChannel
    <3> QED BY <3>4 DEF s
  <2>3. ASSUME NEW q \in Node PROVE FramesWrite(q, publishers'[q], call'[q])
    BY <1>4, <2>2 DEF Pushes, WritersInv
  <2> QED BY <1>2, <1>4, <2>3 DEF Pushes
<1>5. ASSUME NEW p \in Node, NEW e, Returns(p, e) PROVE Frames /\ Entries
  <2>1. /\ call[p] # <<>> /\ Returned(p) /\ UNCHANGED <<publishers, shared_buffers>>
        /\ Top(p).index <= 7 \/ Top(p).local_only
    BY <1>5 DEF Returns
  <2>2. /\ Len(call'[p]) = Len(call[p]) - 1
        /\ \A q \in Node \ {p} : call'[q] = call[q]
        /\ \A j \in 1 .. Len(call'[p]) : call'[p][j] = call[p][j]
    BY <2>1, ReturnKeeps DEF TypeInv
  <2>3. call[p] \in Seq(Call) /\ Len(call[p]) \in Nat \ {0} /\ Top(p) = call[p][Len(call[p])]
        /\ Publishing(p, publishers[p], Top(p))
    BY <2>1, TopTyped DEF TypeInv
  <2>4. ASSUME NEW q \in Node PROVE FramesWrite(q, publishers'[q], call'[q])
    <3>1. CASE q = p
      <4>1. \A j \in 1 .. Len(call'[p]) : j \in 1 .. Len(call[p])
        BY <2>2, <2>3
      <4> QED BY <2>1, <2>2, <3>1, <4>1 DEF WritersInv, FramesWrite
    <3>2. CASE q # p
      BY <2>1, <2>2, <3>2 DEF WritersInv
    <3> QED BY <3>1, <3>2
  <2>5. /\ e.from = p /\ p \in Writers[e.channel] /\ e.channel \in DOMAIN shared_buffers[p]
    <3>1. e.from = p /\ e.channel = OnChannel(p, Top(p))
      BY <1>5, LogStays
    <3>2. Len(call[p]) \in 1 .. Len(call[p])
      BY <2>3
    <3>3. p \in Writers[OnChannel(p, Top(p))]
      BY <2>1, <2>3, <3>2 DEF WritersInv, FramesWrite, OnChannel
    <3>4. OnChannel(p, Top(p)) \in DOMAIN shared_buffers[p]
      BY <2>3 DEF TypeInv, BuffersInv, BuffersOf, OnChannel, Publishing
    <3> QED BY <3>1, <3>3, <3>4
  <2>6. Entries
    BY <1>1, <1>5, <2>1, <2>5, LogStays
  <2> QED BY <2>4, <2>6
<1>6. ASSUME NEW p \in Node, Receives(p) PROVE Frames /\ Entries
  <2>1. UNCHANGED <<publishers, call, log>>
    BY <1>6 DEF Receives, Dropped
  <2> QED BY <1>2, <2>1 DEF WritersInv
<1>7. ASSUME Rests PROVE Frames /\ Entries
  <2>1. UNCHANGED <<publishers, log>> /\ \A p \in Node : SameCalls(call[p], call'[p])
    BY <1>7 DEF Rests
  <2>2. ASSUME NEW q \in Node PROVE FramesWrite(q, publishers'[q], call'[q])
    BY <2>1, SameWrite DEF WritersInv
  <2> QED BY <1>2, <2>1, <2>2
<1>8. Frames /\ Entries
  <2> HIDE DEF Frames, Entries
  <2> QED BY <1>3, <1>4, <1>5, <1>6, <1>7, StepCases
<1> QED BY <1>8 DEF WritersInv


-----------------------------------------------------------------------------
(* What callbacks read.                                                    *)

Slots == Node \X BOOLEAN \X Nat

(* Callbacks whose publications do not come back to an item that is being  *)
(* published: each goes down in some order.  Callbacks in a circle would   *)
(* call publish without end in the code.                                   *)
Descends(rank) ==
    \A p \in Node, owner \in BOOLEAN, i \in Nat :
      <<p, owner, i>> \in DOMAIN Reaction =>
        rank[<<p, owner, Reaction[<<p, owner, i>>].index>>] < rank[<<p, ~ owner, i>>]

NoCircle == \E rank \in [Slots -> Nat] : Descends(rank)

RankOf(rank, p, pubs, c) == rank[<<p, pubs[c.pub].is_owner, c.index>>]

(* Inner calls are of lower rank than outer ones. *)
Nested(rank, p, pubs, stack) ==
    \A j, l \in 1 .. Len(stack) :
      j < l => RankOf(rank, p, pubs, stack[l]) < RankOf(rank, p, pubs, stack[j])

(* The message of each call lies in the buffer, if nobody else writes the  *)
(* channel.                                                                *)
InPlace(p, pubs, buffers, stack) ==
    \A j \in 1 .. Len(stack) :
      LET ch == PublishChannel(pubs[stack[j].pub])
      IN Writers[ch] = {p} => Reading(buffers, p, ch, stack[j].index) = stack[j].data

StackInv(rank) ==
    \A p \in Node : /\ Nested(rank, p, publishers[p], call[p])
                    /\ InPlace(p, publishers[p], shared_buffers, call[p])

LEMMA SameStack ==
    ASSUME NEW rank, NEW p, NEW pubs, NEW buffers, NEW old, NEW new, SameCalls(old, new)
    PROVE  /\ Nested(rank, p, pubs, old) => Nested(rank, p, pubs, new)
           /\ InPlace(p, pubs, buffers, old) => InPlace(p, pubs, buffers, new)
<1>1. ASSUME Nested(rank, p, pubs, old) PROVE Nested(rank, p, pubs, new)
  <2>1. \A j \in 1 .. Len(new) : RankOf(rank, p, pubs, new[j]) = RankOf(rank, p, pubs, old[j])
    BY DEF SameCalls, RankOf
  <2> QED BY <1>1, <2>1 DEF Nested, SameCalls
<1>2. ASSUME InPlace(p, pubs, buffers, old) PROVE InPlace(p, pubs, buffers, new)
  BY <1>2 DEF InPlace, SameCalls
<1> QED BY <1>1, <1>2

(* A call of a stack, as the types have it. *)
LEMMA FrameTyped ==
    ASSUME TypeInv, NEW p \in Node, NEW j \in 1 .. Len(call[p])
    PROVE  /\ call[p][j] \in Call /\ Publishing(p, publishers[p], call[p][j])
           /\ OnChannel(p, call[p][j]) \in DOMAIN shared_buffers[p]
           /\ call[p][j].index \in Items(p, OnChannel(p, call[p][j]))
           /\ OwnerOf(p, call[p][j]) \in BOOLEAN
           /\ <<p, OwnerOf(p, call[p][j]), call[p][j].index>> \in Slots
<1>1. call[p] \in Seq(Call) /\ \A l \in DOMAIN call[p] : Publishing(p, publishers[p], call[p][l])
  BY DEF TypeInv, CallsInv, StackOf
<1>2. j \in DOMAIN call[p]
  BY <1>1
<1>3. call[p][j] \in Call /\ Publishing(p, publishers[p], call[p][j])
  BY <1>1, <1>2
<1>4. /\ call[p][j].pub \in DOMAIN publishers[p] /\ call[p][j].index \in Nat
      /\ call[p][j].index \in Items(p, OnChannel(p, call[p][j]))
  BY <1>3 DEF Call, Publishing, Datum, OnChannel
<1>5. OnChannel(p, call[p][j]) \in DOMAIN shared_buffers[p]
  BY <1>4 DEF TypeInv, BuffersInv, BuffersOf, OnChannel
<1>6. OwnerOf(p, call[p][j]) \in BOOLEAN
  <2>1. publishers[p] \in Seq(Publisher)
    BY DEF TypeInv, TablesInv
  <2>2. publishers[p][call[p][j].pub] \in Publisher
    BY <1>4, <2>1
  <2> QED BY <2>2 DEF Publisher, OwnerOf
<1> QED BY <1>3, <1>4, <1>5, <1>6 DEF Slots

(* A call that a callback begins is of lower rank than those it is in. *)
LEMMA InnerIsLower ==
    ASSUME TypeInv, NEW rank \in [Slots -> Nat], Descends(rank), StackInv(rank),
           NEW p \in Node, NEW base, NEW c, Pushes(p, base, c)
    PROVE  \A j \in 1 .. Len(call[p]) :
             /\ RankOf(rank, p, publishers[p], c) < RankOf(rank, p, publishers[p], call[p][j])
             /\ RankOf(rank, p, publishers[p], call[p][j]) \in Nat
<1> SUFFICES ASSUME NEW j \in 1 .. Len(call[p])
             PROVE  /\ RankOf(rank, p, publishers[p], c)
                         < RankOf(rank, p, publishers[p], call[p][j])
                    /\ RankOf(rank, p, publishers[p], call[p][j]) \in Nat
  OBVIOUS
<1> DEFINE n == Len(call[p])
           R(x) == RankOf(rank, p, publishers[p], x)
           slot == <<p, OwnerOf(p, c), Top(p).index>>
<1>1. call[p] # <<>>
  BY DEF TypeInv, CallsInv
<1>2. /\ n \in Nat \ {0} /\ Top(p) = call[p][n] /\ n \in 1 .. n
  BY <1>1, TopTyped DEF TypeInv
<1>3. ASSUME NEW l \in 1 .. n PROVE R(call[p][l]) \in Nat
  BY FrameTyped DEF RankOf, OwnerOf
<1>4. /\ slot \in DOMAIN Reaction /\ c.index = Reaction[slot].index
      /\ TopPublisher(p).is_owner = ~ OwnerOf(p, c)
  BY <1>1 DEF Pushes
<1>5. /\ OwnerOf(p, c) \in BOOLEAN /\ Top(p).index \in Nat
      /\ <<p, OwnerOf(p, c), c.index>> \in Slots
  <2>1. call'[p] = Append(base, c) /\ base \in Seq(Call) /\ Publishing(p, publishers[p], c)
    BY DEF Pushes
  <2>2. c.pub \in DOMAIN publishers[p] /\ publishers[p] \in Seq(Publisher)
    BY <2>1 DEF Publishing, TypeInv, TablesInv
  <2>3. publishers[p][c.pub] \in Publisher
    BY <2>2
  <2>4. OwnerOf(p, c) \in BOOLEAN
    BY <2>3 DEF Publisher, OwnerOf
  <2>5. OnChannel(p, c) \in Channel /\ c.index \in Items(p, OnChannel(p, c))
    BY <2>1, <2>2 DEF Publishing, Datum, OnChannel, TypeInv, BuffersInv, BuffersOf
  <2>6. c.index \in Nat
    BY <2>5, DictTyped
  <2>7. Top(p).index \in Nat
    BY <1>1, TopTyped DEF TypeInv, Call
  <2> QED BY <2>4, <2>6, <2>7 DEF Slots
<1>6. rank[<<p, OwnerOf(p, c), c.index>>] < rank[<<p, ~ OwnerOf(p, c), Top(p).index>>]
  BY <1>4, <1>5 DEF Descends
<1>7. R(c) < R(call[p][n])
  <2>1. R(c) = rank[<<p, OwnerOf(p, c), c.index>>]
    BY DEF RankOf, OwnerOf
  <2>2. R(call[p][n]) = rank[<<p, ~ OwnerOf(p, c), Top(p).index>>]
    BY <1>2, <1>4 DEF RankOf, TopPublisher
  <2> QED BY <1>6, <2>1, <2>2
<1>8. R(c) \in Nat
  BY <1>5 DEF RankOf, OwnerOf
<1> HIDE DEF R, n
<1>9. CASE j = n
  BY <1>3, <1>7, <1>9 DEF R, n
<1>10. CASE j # n
  <2>1. j < n
    BY <1>2, <1>10 DEF n
  <2>2. R(call[p][n]) < R(call[p][j])
    BY <1>2, <2>1 DEF StackInv, Nested, R, n
  <2>3. R(call[p][n]) \in Nat /\ R(call[p][j]) \in Nat
    BY <1>2, <1>3 DEF n
  <2>4. R(c) < R(call[p][j]) /\ R(call[p][j]) \in Nat
    BY <1>7, <1>8, <2>2, <2>3
  <2> QED BY <2>4 DEF R
<1> QED BY <1>9, <1>10

(* It is another item, therefore. *)
LEMMA InnerIsOther ==
    ASSUME TypeInv, NEW rank \in [Slots -> Nat], Descends(rank), StackInv(rank),
           NEW p \in Node, NEW base, NEW c, Pushes(p, base, c), NEW j \in 1 .. Len(call[p])
    PROVE  OnChannel(p, call[p][j]) # OnChannel(p, c) \/ call[p][j].index # c.index
<1> DEFINE d == call[p][j]
<1>1. SUFFICES ASSUME OnChannel(p, d) = OnChannel(p, c), d.index = c.index PROVE FALSE
  OBVIOUS
<1>2. /\ RankOf(rank, p, publishers[p], c) < RankOf(rank, p, publishers[p], d)
      /\ RankOf(rank, p, publishers[p], d) \in Nat
  BY InnerIsLower
<1>3. OwnerOf(p, d) \in BOOLEAN /\ OwnerOf(p, c) \in BOOLEAN
  <2>1. c.pub \in DOMAIN publishers[p] /\ publishers[p] \in Seq(Publisher)
    BY DEF Pushes, Publishing, TypeInv, TablesInv
  <2>2. publishers[p][c.pub] \in Publisher
    BY <2>1
  <2> QED BY <2>2, FrameTyped DEF Publisher, OwnerOf
<1> HIDE DEF d
<1>4. Bit(OwnerOf(p, d)) = Bit(OwnerOf(p, c))
  BY <1>1 DEF OnChannel, PublishChannel, OwnerOf
<1>5. OwnerOf(p, d) = OwnerOf(p, c)
  BY <1>3, <1>4 DEF Bit
<1>6. RankOf(rank, p, publishers[p], c) = RankOf(rank, p, publishers[p], d)
  BY <1>1, <1>5 DEF RankOf, OwnerOf
<1> QED BY <1>2, <1>6

(* A stack that grows by an inner call. *)
LEMMA PushKeepsStack ==
    ASSUME TypeInv, NEW rank \in [Slots -> Nat], Descends(rank), StackInv(rank),
           NEW p \in Node, NEW base, NEW c, Pushes(p, base, c)
    PROVE  /\ Nested(rank, p, publishers[p], call'[p])
           /\ InPlace(p, publishers[p], shared_buffers', call'[p])
<1> DEFINE n == Len(call[p])
           s == Append(base, c)
<1>1. /\ SameCalls(call[p], base) /\ base \in Seq(Call) /\ call'[p] = s
      /\ Wrote(p, OnChannel(p, c), c.index, c.data)
  BY DEF Pushes
<1>2. n \in Nat /\ Len(base) = n
  BY <1>1 DEF SameCalls
<1>3. Len(s) = n + 1 /\ s[n + 1] = c /\ \A j \in 1 .. n : s[j] = base[j]
  BY <1>1, <1>2
<1>4. \A j \in 1 .. n : base[j].pub = call[p][j].pub /\ base[j].index = call[p][j].index
                        /\ base[j].data = call[p][j].data
  BY <1>1 DEF SameCalls
<1> HIDE DEF n, s
<1>5. \A j \in 1 .. Len(s) : j \in 1 .. n \/ j = n + 1
  BY <1>2, <1>3
<1>6. \A j \in 1 .. n : RankOf(rank, p, publishers[p], s[j]) = RankOf(rank, p, publishers[p], call[p][j])
  BY <1>3, <1>4 DEF RankOf
<1>7. \A j \in 1 .. n : RankOf(rank, p, publishers[p], c) < RankOf(rank, p, publishers[p], s[j])
  BY <1>6, InnerIsLower DEF n
<1>8. Nested(rank, p, publishers[p], s)
  <2> SUFFICES ASSUME NEW j \in 1 .. Len(s), NEW l \in 1 .. Len(s), j < l
               PROVE  RankOf(rank, p, publishers[p], s[l]) < RankOf(rank, p, publishers[p], s[j])
    BY DEF Nested
  <2>1. j \in 1 .. n
    BY <1>2, <1>3
  <2>2. CASE l = n + 1
    BY <1>3, <1>7, <2>1, <2>2
  <2>3. CASE l \in 1 .. n
    BY <1>6, <2>1, <2>3 DEF StackInv, Nested, n
  <2> QED BY <1>5, <2>2, <2>3
<1>9. ASSUME NEW j \in 1 .. Len(s), Writers[PublishChannel(publishers[p][s[j].pub])] = {p}
      PROVE  Reading(shared_buffers', p, PublishChannel(publishers[p][s[j].pub]), s[j].index) = s[j].data
  <2>1. CASE j = n + 1
    BY <1>1, <1>3, <2>1 DEF Wrote, OnChannel
  <2>2. CASE j \in 1 .. n
    <3> DEFINE d == call[p][j]
    <3>1. s[j].pub = d.pub /\ s[j].index = d.index /\ s[j].data = d.data
      BY <1>3, <1>4, <2>2
    <3>2. /\ OnChannel(p, d) \in DOMAIN shared_buffers[p] /\ d.index \in Items(p, OnChannel(p, d))
      BY <2>2, FrameTyped DEF n
    <3>3. OnChannel(p, d) # OnChannel(p, c) \/ d.index # c.index
      BY <2>2, InnerIsOther DEF n
    <3>4. Writers[OnChannel(p, d)] = {p} => Reading(shared_buffers, p, OnChannel(p, d), d.index) = d.data
      BY <2>2 DEF StackInv, InPlace, OnChannel, n
    <3> HIDE DEF d
    <3>5. PublishChannel(publishers[p][s[j].pub]) = OnChannel(p, d)
      BY <3>1 DEF OnChannel
    <3> QED BY <1>1, <1>9, <3>1, <3>2, <3>3, <3>4, <3>5 DEF Wrote
  <2> QED BY <1>5, <2>1, <2>2
<1>10. InPlace(p, publishers[p], shared_buffers', s)
  BY <1>9 DEF InPlace
<1> QED BY <1>1, <1>8, <1>10

(* What another process published does not touch a channel of which a      *)
(* process is the only writer.                                             *)
LEMMA AppliedElsewhere ==
    ASSUME TypeInv, WritersInv, NEW p \in Node, Receives(p), NEW ch, Writers[ch] = {p},
           ch \in DOMAIN shared_buffers[p], NEW i \in Items(p, ch)
    PROVE  Reading(shared_buffers', p, ch, i) = Reading(shared_buffers, p, ch, i)
<1> DEFINE e == log[rx[p][1].no]
<1>1. e.channel # ch
  <2>1. Received(log, p, rx[p][1]) /\ rx[p][1].no \in 1 .. Len(log)
    BY DEF Receives
  <2>2. e.from # p /\ e.from \in Writers[e.channel]
    BY <2>1 DEF Received, WritersInv
  <2> QED BY <2>2
<1>2. CASE UNCHANGED shared_buffers
  BY <1>2
<1>3. ASSUME NEW data, Wrote(p, e.channel, e.index, data)
      PROVE  Reading(shared_buffers', p, ch, i) = Reading(shared_buffers, p, ch, i)
  BY <1>1, <1>3 DEF Wrote
<1>4. UNCHANGED shared_buffers \/ \E data : Wrote(p, e.channel, e.index, data)
  BY DEF Receives, Ignored
<1> QED BY <1>2, <1>3, <1>4


LEMMA WritersInit == Init => WritersInv
<1> SUFFICES ASSUME Init PROVE WritersInv
  OBVIOUS
<1>1. 1 .. Len(<<>>) = {}
  OBVIOUS
<1>2. log = <<>> /\ \A p \in Node : call[p] = <<>>
  BY DEF Init
<1>3. \A e \in 1 .. Len(log) : FALSE
  BY <1>1, <1>2, Zenon
<1>4. \A p \in Node : FramesWrite(p, publishers[p], call[p])
  BY <1>1, <1>2, Zenon DEF FramesWrite
<1> QED BY <1>3, <1>4 DEF WritersInv

LEMMA WritersSpec == ASSUME Copies PROVE Spec => [](TypeInv /\ WritersInv)
<1>1. Init => TypeInv /\ WritersInv
  BY TypeInit, WritersInit
<1>2. TypeInv /\ WritersInv /\ [Next]_vars => (TypeInv /\ WritersInv)'
  BY TypeStep, WritersStep
<1> QED BY <1>1, <1>2, PTL DEF Spec

LEMMA EmptyStack ==
    ASSUME NEW rank, NEW p, NEW pubs, NEW buffers
    PROVE  Nested(rank, p, pubs, <<>>) /\ InPlace(p, pubs, buffers, <<>>)
<1>1. 1 .. Len(<<>>) = {}
  OBVIOUS
<1> QED BY <1>1, Zenon DEF Nested, InPlace

(* A process whose buffers are the same reads the same. *)
LEMMA SameBuffers ==
    ASSUME NEW p, NEW pubs, NEW stack, NEW old, NEW new, new[p] = old[p],
           InPlace(p, pubs, old, stack)
    PROVE  InPlace(p, pubs, new, stack)
BY DEF InPlace, Reading

(* A stack that the innermost call leaves. *)
LEMMA ShorterStack ==
    ASSUME NEW rank, NEW p, NEW pubs, NEW buffers, NEW old, NEW new,
           \A j \in 1 .. Len(new) : j \in 1 .. Len(old) /\ new[j] = old[j]
    PROVE  /\ Nested(rank, p, pubs, old) => Nested(rank, p, pubs, new)
           /\ InPlace(p, pubs, buffers, old) => InPlace(p, pubs, buffers, new)
<1>1. ASSUME Nested(rank, p, pubs, old), NEW j \in 1 .. Len(new), NEW l \in 1 .. Len(new), j < l
      PROVE  RankOf(rank, p, pubs, new[l]) < RankOf(rank, p, pubs, new[j])
  <2>1. RankOf(rank, p, pubs, old[l]) < RankOf(rank, p, pubs, old[j])
    BY <1>1 DEF Nested
  <2> QED BY <2>1
<1>2. InPlace(p, pubs, buffers, old) => InPlace(p, pubs, buffers, new)
  BY DEF InPlace
<1> QED BY <1>1, <1>2 DEF Nested

(* The innermost call, if it comes to an end. *)
LEMMA TopWrites ==
    ASSUME TypeInv, WritersInv, NEW p \in Node, call[p] # <<>>,
           Top(p).index <= 7 \/ Top(p).local_only
    PROVE  p \in Writers[OnChannel(p, Top(p))]
<1>1. Len(call[p]) \in 1 .. Len(call[p]) /\ Top(p) = call[p][Len(call[p])]
  BY TopTyped DEF TypeInv
<1>2. FramesWrite(p, publishers[p], call[p])
  BY DEF WritersInv
<1> QED BY <1>1, <1>2 DEF FramesWrite, OnChannel

LEMMA TopInPlace ==
    ASSUME TypeInv, NEW rank, StackInv(rank), NEW p \in Node, call[p] # <<>>,
           Writers[OnChannel(p, Top(p))] = {p}
    PROVE  Reading(shared_buffers, p, OnChannel(p, Top(p)), Top(p).index) = Top(p).data
<1>1. Len(call[p]) \in 1 .. Len(call[p]) /\ Top(p) = call[p][Len(call[p])]
  BY TopTyped DEF TypeInv
<1>2. InPlace(p, publishers[p], shared_buffers, call[p])
  BY DEF StackInv
<1> QED BY <1>1, <1>2 DEF InPlace, OnChannel

LEMMA StackStep ==
    ASSUME Copies, TypeInv, WritersInv, NEW rank \in [Slots -> Nat], Descends(rank),
           StackInv(rank), [Next]_vars
    PROVE  StackInv(rank)'
<1> DEFINE Good(q) == /\ Nested(rank, q, publishers'[q], call'[q])
                      /\ InPlace(q, publishers'[q], shared_buffers', call'[q])
<1>1. ASSUME NEW q \in Node, publishers'[q] = publishers[q], call'[q] = call[q],
             shared_buffers'[q] = shared_buffers[q]
      PROVE  Good(q)
  BY <1>1, SameBuffers DEF StackInv
<1>2. ASSUME NEW p \in Node, NEW e \in Ends[p], Binds(p, e), NEW q \in Node PROVE Good(q)
  <2>1. CASE q = p
    <3>1. call'[q] = <<>>
      BY <1>2, <2>1 DEF Binds
    <3> QED BY <3>1, EmptyStack
  <2>2. CASE q # p
    <3>1. publishers'[q] = publishers[q] /\ call'[q] = call[q] /\ shared_buffers'[q] = shared_buffers[q]
      BY <1>2, <2>2 DEF Binds
    <3> QED BY <1>1, <3>1
  <2> QED BY <2>1, <2>2
<1>3. ASSUME NEW p \in Node, NEW base, NEW c, Pushes(p, base, c), NEW q \in Node PROVE Good(q)
  <2>1. CASE q = p
    <3>1. publishers'[q] = publishers[q]
      BY <1>3 DEF Pushes
    <3> QED BY <1>3, <2>1, <3>1, PushKeepsStack
  <2>2. CASE q # p
    <3>1. publishers'[q] = publishers[q] /\ call'[q] = call[q] /\ shared_buffers'[q] = shared_buffers[q]
      BY <1>3, <2>2 DEF Pushes, Wrote
    <3> QED BY <1>1, <3>1
  <2> QED BY <2>1, <2>2
<1>4. ASSUME NEW p \in Node, NEW e, Returns(p, e), NEW q \in Node PROVE Good(q)
  <2>1. call[p] # <<>> /\ Returned(p) /\ UNCHANGED <<publishers, shared_buffers>>
    BY <1>4 DEF Returns
  <2>2. CASE q = p
    <3>1. /\ Len(call'[p]) = Len(call[p]) - 1
          /\ \A j \in 1 .. Len(call'[p]) : call'[p][j] = call[p][j]
      BY <2>1, ReturnKeeps DEF TypeInv
    <3>2. Len(call[p]) \in Nat \ {0}
      BY <2>1, TopTyped DEF TypeInv
    <3>3. \A j \in 1 .. Len(call'[p]) : j \in 1 .. Len(call[p]) /\ call'[p][j] = call[p][j]
      BY <3>1, <3>2
    <3>4. Nested(rank, p, publishers[p], call'[p]) /\ InPlace(p, publishers[p], shared_buffers, call'[p])
      BY <3>3, ShorterStack DEF StackInv
    <3> QED BY <2>1, <2>2, <3>4
  <2>3. CASE q # p
    <3>1. call'[q] = call[q]
      BY <2>1, <2>3, ReturnKeeps DEF TypeInv
    <3> QED BY <1>1, <2>1, <3>1
  <2> QED BY <2>2, <2>3
<1>5. ASSUME NEW p \in Node, Receives(p), NEW q \in Node PROVE Good(q)
  <2>1. UNCHANGED <<publishers, call>>
    BY <1>5 DEF Receives, Dropped
  <2>2. CASE q = p
    <3>1. ASSUME NEW j \in 1 .. Len(call[p]),
                 Writers[PublishChannel(publishers[p][call[p][j].pub])] = {p}
          PROVE  Reading(shared_buffers', p, PublishChannel(publishers[p][call[p][j].pub]),
                         call[p][j].index) = call[p][j].data
      <4> DEFINE d == call[p][j]
                 ch == PublishChannel(publishers[p][d.pub])
      <4>1. ch \in DOMAIN shared_buffers[p] /\ d.index \in Items(p, ch)
        BY FrameTyped DEF OnChannel
      <4>2. Reading(shared_buffers, p, ch, d.index) = d.data
        BY <3>1 DEF StackInv, InPlace
      <4>3. Writers[ch] = {p}
        BY <3>1
      <4> HIDE DEF ch, d
      <4>4. Reading(shared_buffers', p, ch, d.index) = Reading(shared_buffers, p, ch, d.index)
        BY <1>5, <4>1, <4>3, AppliedElsewhere
      <4> QED BY <4>2, <4>4 DEF ch, d
    <3>2. InPlace(p, publishers[p], shared_buffers', call[p])
      BY <3>1 DEF InPlace
    <3> QED BY <2>1, <2>2, <3>2 DEF StackInv
  <2>3. CASE q # p
    <3>1. shared_buffers'[q] = shared_buffers[q]
      BY <1>5, <2>3 DEF Receives, Wrote, Ignored
    <3> QED BY <1>1, <2>1, <3>1
  <2> QED BY <2>2, <2>3
<1>6. ASSUME Rests, NEW q \in Node PROVE Good(q)
  <2>1. UNCHANGED <<publishers, shared_buffers>> /\ SameCalls(call[q], call'[q])
    BY <1>6 DEF Rests
  <2> QED BY <2>1, SameStack DEF StackInv
<1>7. \A q \in Node : Good(q)
  <2> HIDE DEF Good
  <2> QED BY <1>2, <1>3, <1>4, <1>5, <1>6, StepCases
<1> QED BY <1>7 DEF StackInv

LEMMA StackInit == ASSUME NEW rank PROVE Init => StackInv(rank)
<1>1. ASSUME Init, NEW p \in Node PROVE call[p] = <<>>
  BY <1>1 DEF Init
<1> QED BY <1>1, EmptyStack DEF StackInv

LEMMA StackSpec ==
    ASSUME Copies, NEW rank \in [Slots -> Nat], Descends(rank)
    PROVE  Spec => [](TypeInv /\ WritersInv /\ StackInv(rank))
<1>1. Init => TypeInv /\ WritersInv /\ StackInv(rank)
  BY TypeInit, WritersInit, StackInit
<1>2. TypeInv /\ WritersInv /\ StackInv(rank) /\ [Next]_vars
        => (TypeInv /\ WritersInv /\ StackInv(rank))'
  BY TypeStep, WritersStep, StackStep
<1> QED BY <1>1, <1>2, PTL DEF Spec

LEMMA StackReads ==
    ASSUME TypeInv, NEW rank, StackInv(rank)
    PROVE  CallbackReadsIt
<1> SUFFICES ASSUME NEW p \in Node, Notifying(p),
                    Writers[PublishChannel(TopPublisher(p))] = {p}
             PROVE  readBuffer(p, PublishChannel(TopPublisher(p)), Top(p).index) = Top(p).data
  BY DEF CallbackReadsIt
<1>1. call[p] # <<>>
  BY DEF Notifying
<1>2. OnChannel(p, Top(p)) = PublishChannel(TopPublisher(p))
  BY DEF OnChannel, TopPublisher
<1> QED BY <1>1, <1>2, TopInPlace DEF Reading, readBuffer

(* A callback that is told of a publication reads that publication,        *)
(* wherever its process alone writes the channel: neither the messages     *)
(* received meanwhile nor the publications of callbacks inside callbacks   *)
(* get in between.  Messages are copies of items, and callbacks do not     *)
(* call each other in a circle, which would never return.  Code: publish,  *)
(* Subscriber::notify, handleSerialize.                                    *)
THEOREM CallbackCorrect == ASSUME Copies, NoCircle PROVE Spec => []CallbackReadsIt
<1>1. PICK rank \in [Slots -> Nat] : Descends(rank)
  BY DEF NoCircle
<1>2. TypeInv /\ StackInv(rank) => CallbackReadsIt
  BY StackReads
<1> QED BY <1>1, <1>2, StackSpec, PTL

-----------------------------------------------------------------------------
(* What a writer reads.                                                    *)

OnItem(e, ch, i) == e.channel = ch /\ e.index = i

(* No later publication of the same item. *)
LastOn(history, e) ==
    \A f \in 1 .. Len(history) : f > e => ~ OnItem(history[f], history[e].channel, history[e].index)

(* The item is being published. *)
InCall(pubs, stack, ch, i) ==
    \E j \in 1 .. Len(stack) : PublishChannel(pubs[stack[j].pub]) = ch /\ stack[j].index = i

(* The last publication of an item lies in the buffer of the only writer,  *)
(* unless the writer publishes the item again.                             *)
LastInv ==
    \A p \in Node, e \in 1 .. Len(log) :
      (/\ Writers[log[e].channel] = {p} /\ LastOn(log, e)
       /\ ~ InCall(publishers[p], call[p], log[e].channel, log[e].index))
      => Reading(shared_buffers, p, log[e].channel, log[e].index) = log[e].data

(* The newest publication of an item. *)
IsNewest(e, ch, i, k, sent) ==
    /\ OnItem(log[e], ch, i) /\ (sent => log[e].sent)
    /\ Newest(ch, i, k, sent) = log[e].data
    /\ \A f \in (k + 1) .. Len(log) : f > e =>
         ~ (OnItem(log[f], ch, i) /\ (sent => log[f].sent))

LEMMA NewestIs ==
    ASSUME HistoryInv, NEW ch, NEW i, NEW k \in Nat, NEW sent, Newest(ch, i, k, sent) # <<>>
    PROVE  \E e \in (k + 1) .. Len(log) : IsNewest(e, ch, i, k, sent)
<1> DEFINE es == {e \in (k + 1) .. Len(log) : /\ log[e].channel = ch /\ log[e].index = i
                                              /\ sent => log[e].sent}
<1>1. Len(log) \in Nat
  BY DEF HistoryInv
<1>2. Newest(ch, i, k, sent) = IF es = {} THEN <<>> ELSE log[Max(es)].data
  BY DEF Newest
<1>3. es # {}
  BY <1>2
<1>4. es \subseteq 0 .. Len(log)
  BY <1>1
<1>5. Max(es) \in es /\ Max(es) \in Nat /\ \A f \in es : f <= Max(es)
  <2> HIDE DEF es
  <2> QED BY <1>1, <1>3, <1>4, Greatest
<1>6. ASSUME NEW f \in (k + 1) .. Len(log), f > Max(es) PROVE f \notin es
  <2>1. f \in Int /\ Max(es) \in Int /\ ~ (f <= Max(es))
    BY <1>5, <1>6
  <2> QED BY <1>5, <2>1
<1>7. ASSUME NEW f \in (k + 1) .. Len(log), f \notin es
      PROVE  ~ (OnItem(log[f], ch, i) /\ (sent => log[f].sent))
  BY <1>7 DEF OnItem
<1>8. /\ Max(es) \in (k + 1) .. Len(log) /\ OnItem(log[Max(es)], ch, i)
      /\ sent => log[Max(es)].sent
  BY <1>5 DEF OnItem
<1>9. Newest(ch, i, k, sent) = log[Max(es)].data
  BY <1>2, <1>3
<1> HIDE DEF es
<1>10. IsNewest(Max(es), ch, i, k, sent)
  BY <1>6, <1>7, <1>8, <1>9 DEF IsNewest
<1> QED BY <1>8, <1>10

(* An entry of a channel with one writer. *)
LEMMA OwnEntry ==
    ASSUME TypeInv, WritersInv, NEW p \in Node, NEW e \in 1 .. Len(log),
           Writers[log[e].channel] = {p}
    PROVE  /\ log[e].channel \in DOMAIN shared_buffers[p]
           /\ log[e].index \in Items(p, log[e].channel)
<1>1. log[e].from = p /\ log[e].channel \in DOMAIN shared_buffers[log[e].from]
  BY DEF WritersInv
<1>2. Published(log[e])
  BY DEF TypeInv, HistoryInv
<1> QED BY <1>1, <1>2 DEF Published, Datum

LEMMA SameInCall ==
    ASSUME NEW pubs, NEW old, NEW new, SameCalls(old, new), NEW ch, NEW i, InCall(pubs, old, ch, i)
    PROVE  InCall(pubs, new, ch, i)
BY DEF SameCalls, InCall

LEMMA LastStep ==
    ASSUME Copies, TypeInv, WritersInv, NEW rank, StackInv(rank), LastInv, [Next]_vars
    PROVE  LastInv'
<1> DEFINE Held(q, e) ==
             (/\ Writers[log'[e].channel] = {q} /\ LastOn(log', e)
              /\ ~ InCall(publishers'[q], call'[q], log'[e].channel, log'[e].index))
             => Reading(shared_buffers', q, log'[e].channel, log'[e].index) = log'[e].data
           All == \A q \in Node, e \in 1 .. Len(log') : Held(q, e)
<1>1. ASSUME UNCHANGED log, NEW q \in Node, NEW e \in 1 .. Len(log),
             InCall(publishers[q], call[q], log[e].channel, log[e].index)
               => InCall(publishers'[q], call'[q], log[e].channel, log[e].index),
             Writers[log[e].channel] = {q} =>
               \/ InCall(publishers'[q], call'[q], log[e].channel, log[e].index)
               \/ Reading(shared_buffers', q, log[e].channel, log[e].index)
                    = Reading(shared_buffers, q, log[e].channel, log[e].index)
      PROVE  Held(q, e)
  BY <1>1 DEF LastInv
<1>2. ASSUME UNCHANGED log, NEW q \in Node, publishers'[q] = publishers[q], call'[q] = call[q],
             shared_buffers'[q] = shared_buffers[q], NEW e \in 1 .. Len(log)
      PROVE  Held(q, e)
  BY <1>1, <1>2 DEF Reading
<1>3. ASSUME NEW p \in Node, NEW x \in Ends[p], Binds(p, x) PROVE All
  <2>1. UNCHANGED log
    BY <1>3 DEF Binds
  <2>2. ASSUME NEW q \in Node, NEW e \in 1 .. Len(log) PROVE Held(q, e)
    <3>1. CASE q = p
      <4>1. call[q] = <<>>
        BY <1>3, <3>1 DEF Binds
      <4>2. 1 .. Len(<<>>) = {}
        OBVIOUS
      <4>3. ~ InCall(publishers[q], call[q], log[e].channel, log[e].index)
        BY <4>1, <4>2, Zenon DEF InCall
      <4>4. Writers[log[e].channel] = {q} =>
              Reading(shared_buffers', q, log[e].channel, log[e].index)
                = Reading(shared_buffers, q, log[e].channel, log[e].index)
        BY <1>3, <3>1, OwnEntry DEF Binds, Reading
      <4> HIDE DEF Held
      <4> QED BY <1>1, <2>1, <4>3, <4>4
    <3>2. CASE q # p
      <4>1. publishers'[q] = publishers[q] /\ call'[q] = call[q] /\ shared_buffers'[q] = shared_buffers[q]
        BY <1>3, <3>2 DEF Binds
      <4> HIDE DEF Held
      <4> QED BY <1>2, <2>1, <4>1
    <3> QED BY <3>1, <3>2
  <2> HIDE DEF Held
  <2> QED BY <2>1, <2>2
<1>4. ASSUME NEW p \in Node, NEW base, NEW c, Pushes(p, base, c) PROVE All
  <2>1. UNCHANGED <<publishers, log>>
    BY <1>4 DEF Pushes
  <2>2. ASSUME NEW q \in Node, NEW e \in 1 .. Len(log) PROVE Held(q, e)
    <3>1. CASE q = p
      <4> DEFINE ch == log[e].channel
                 i  == log[e].index
                 s  == Append(base, c)
      <4>1. /\ SameCalls(call[p], base) /\ base \in Seq(Call) /\ call'[p] = s
            /\ Wrote(p, OnChannel(p, c), c.index, c.data)
        BY <1>4 DEF Pushes
      <4>2. /\ Len(s) = Len(base) + 1 /\ Len(base) \in Nat
            /\ s[Len(base) + 1] = c /\ \A j \in 1 .. Len(base) : s[j] = base[j]
        BY <4>1
      <4> HIDE DEF s
      <4>3. InCall(publishers[p], call[p], ch, i) => InCall(publishers[p], s, ch, i)
        <5>1. \A j \in 1 .. Len(base) : j \in 1 .. Len(s)
          BY <4>2
        <5> HIDE DEF ch, i
        <5>2. InCall(publishers[p], base, ch, i) => InCall(publishers[p], s, ch, i)
          BY <4>2, <5>1 DEF InCall
        <5> QED BY <4>1, <5>2, SameInCall
      <4>4. OnChannel(p, c) = ch /\ c.index = i => InCall(publishers[p], s, ch, i)
        <5>1. Len(base) + 1 \in 1 .. Len(s)
          BY <4>2
        <5> HIDE DEF ch, i
        <5> QED BY <4>2, <5>1 DEF InCall, OnChannel
      <4>5. Writers[ch] = {p} /\ (OnChannel(p, c) # ch \/ c.index # i) =>
              Reading(shared_buffers', p, ch, i) = Reading(shared_buffers, p, ch, i)
        BY <4>1, OwnEntry DEF Wrote
      <4> HIDE DEF Held
      <4> QED BY <1>1, <2>1, <3>1, <4>1, <4>3, <4>4, <4>5
    <3>2. CASE q # p
      <4>1. publishers'[q] = publishers[q] /\ call'[q] = call[q] /\ shared_buffers'[q] = shared_buffers[q]
        BY <1>4, <3>2 DEF Pushes, Wrote
      <4> HIDE DEF Held
      <4> QED BY <1>2, <2>1, <4>1
    <3> QED BY <3>1, <3>2
  <2> HIDE DEF Held
  <2> QED BY <2>1, <2>2
<1>5. ASSUME NEW p \in Node, NEW x, Returns(p, x) PROVE All
  <2>1. call[p] # <<>> /\ Returned(p) /\ UNCHANGED <<publishers, shared_buffers>>
    BY <1>5 DEF Returns
  <2>2. /\ Len(call'[p]) = Len(call[p]) - 1
        /\ \A q \in Node \ {p} : call'[q] = call[q]
        /\ \A j \in 1 .. Len(call'[p]) : call'[p][j] = call[p][j]
    BY <2>1, ReturnKeeps DEF TypeInv
  <2>3. /\ Len(call[p]) \in Nat \ {0} /\ Len(call[p]) \in 1 .. Len(call[p])
        /\ Top(p) = call[p][Len(call[p])]
    BY <2>1, TopTyped DEF TypeInv
  <2>4. /\ Len(log) \in Nat /\ Len(log') = Len(log) + 1 /\ log'[Len(log) + 1] = x
        /\ \A k \in 1 .. Len(log) : log'[k] = log[k]
        /\ \A k \in 1 .. Len(log') : k \in 1 .. Len(log) \/ k = Len(log) + 1
        /\ x.from = p /\ x.channel = OnChannel(p, Top(p)) /\ x.index = Top(p).index
        /\ x.data = Top(p).data
    BY <1>5, LogStays
  <2>5. ASSUME NEW q \in Node, NEW e \in 1 .. Len(log) PROVE Held(q, e)
    <3> SUFFICES ASSUME Writers[log[e].channel] = {q}, LastOn(log', e),
                        ~ InCall(publishers[q], call'[q], log[e].channel, log[e].index)
                 PROVE  Reading(shared_buffers, q, log[e].channel, log[e].index) = log[e].data
      BY <2>1, <2>4
    <3>1. LastOn(log, e)
      <4>1. \A k \in 1 .. Len(log) : k \in 1 .. Len(log')
        BY <2>4
      <4> QED BY <2>4, <4>1 DEF LastOn
    <3>2. ~ OnItem(x, log[e].channel, log[e].index)
      <4>1. Len(log) + 1 \in 1 .. Len(log') /\ Len(log) + 1 > e
        BY <2>4
      <4> QED BY <2>4, <4>1 DEF LastOn
    <3>3. ~ InCall(publishers[q], call[q], log[e].channel, log[e].index)
      <4>1. CASE q = p
        <5>1. \A j \in 1 .. Len(call[p]) : j \in 1 .. Len(call'[p]) \/ j = Len(call[p])
          BY <2>2, <2>3
        <5>2. ~ (OnChannel(p, Top(p)) = log[e].channel /\ Top(p).index = log[e].index)
          BY <2>4, <3>2 DEF OnItem
        <5> QED BY <2>2, <2>3, <4>1, <5>1, <5>2 DEF InCall, OnChannel
      <4>2. CASE q # p
        BY <2>2, <4>2
      <4> QED BY <4>1, <4>2
    <3> QED BY <3>1, <3>3 DEF LastInv
  <2>6. ASSUME NEW q \in Node, NEW e, e = Len(log) + 1 PROVE Held(q, e)
    <3> SUFFICES ASSUME Writers[x.channel] = {q}
                 PROVE  Reading(shared_buffers, q, x.channel, x.index) = x.data
      BY <2>1, <2>4, <2>6
    <3>1. p \in Writers[x.channel]
      <4>1. Top(p).index <= 7 \/ Top(p).local_only
        BY <1>5 DEF Returns
      <4> QED BY <2>1, <2>4, <4>1, TopWrites
    <3>2. q = p
      BY <3>1
    <3> QED BY <2>1, <2>4, <3>2, TopInPlace
  <2> HIDE DEF Held
  <2> QED BY <2>4, <2>5, <2>6
<1>6. ASSUME NEW p \in Node, Receives(p) PROVE All
  <2>1. UNCHANGED <<publishers, call, log>>
    BY <1>6 DEF Receives, Dropped
  <2>2. ASSUME NEW q \in Node, NEW e \in 1 .. Len(log) PROVE Held(q, e)
    <3>1. CASE q = p
      <4>1. Writers[log[e].channel] = {q} =>
              Reading(shared_buffers', q, log[e].channel, log[e].index)
                = Reading(shared_buffers, q, log[e].channel, log[e].index)
        BY <1>6, <3>1, OwnEntry, AppliedElsewhere
      <4> HIDE DEF Held
      <4> QED BY <1>1, <2>1, <4>1
    <3>2. CASE q # p
      <4>1. shared_buffers'[q] = shared_buffers[q]
        BY <1>6, <3>2 DEF Receives, Wrote, Ignored
      <4> HIDE DEF Held
      <4> QED BY <1>2, <2>1, <4>1
    <3> QED BY <3>1, <3>2
  <2> HIDE DEF Held
  <2> QED BY <2>1, <2>2
<1>7. ASSUME Rests PROVE All
  <2>1. UNCHANGED <<publishers, shared_buffers, log>> /\ \A q \in Node : SameCalls(call[q], call'[q])
    BY <1>7 DEF Rests
  <2>2. ASSUME NEW q \in Node, NEW e \in 1 .. Len(log) PROVE Held(q, e)
    <3>1. InCall(publishers[q], call[q], log[e].channel, log[e].index)
            => InCall(publishers'[q], call'[q], log[e].channel, log[e].index)
      BY <2>1, SameInCall
    <3> HIDE DEF Held
    <3> QED BY <1>1, <2>1, <3>1
  <2> HIDE DEF Held
  <2> QED BY <2>1, <2>2
<1>8. All
  <2> HIDE DEF All
  <2> QED BY <1>3, <1>4, <1>5, <1>6, <1>7, StepCases
<1> QED BY <1>8 DEF LastInv

LEMMA LastInit == Init => LastInv
<1>1. 1 .. Len(<<>>) = {}
  OBVIOUS
<1>2. Init => log = <<>>
  BY DEF Init
<1> QED BY <1>1, <1>2, Zenon DEF LastInv

LEMMA LastReads ==
    ASSUME TypeInv, LastInv
    PROVE  WriterReadsLast
<1> SUFFICES ASSUME NEW p \in Node, NEW ch \in Channel, Idle(p), Writers[ch] = {p},
                    NEW i \in Items(p, ch), Newest(ch, i, 0, FALSE) # <<>>
             PROVE  readBuffer(p, ch, i) = Newest(ch, i, 0, FALSE)
  BY DEF WriterReadsLast
<1>1. PICK e \in (0 + 1) .. Len(log) : IsNewest(e, ch, i, 0, FALSE)
  BY NewestIs DEF TypeInv
<1>2. /\ e \in 1 .. Len(log) /\ LastOn(log, e)
      /\ OnItem(log[e], ch, i) /\ Newest(ch, i, 0, FALSE) = log[e].data
  <2>1. /\ OnItem(log[e], ch, i) /\ Newest(ch, i, 0, FALSE) = log[e].data
        /\ \A f \in (0 + 1) .. Len(log) : f > e => ~ OnItem(log[f], ch, i)
    BY <1>1, Zenon DEF IsNewest
  <2>2. log[e].channel = ch /\ log[e].index = i
    BY <2>1 DEF OnItem
  <2>3. LastOn(log, e)
    BY <2>1, <2>2 DEF LastOn
  <2>4. e \in 1 .. Len(log)
    OBVIOUS
  <2> QED BY <2>1, <2>3, <2>4, Zenon
<1>3. ~ InCall(publishers[p], call[p], ch, i)
  <2>1. 1 .. Len(<<>>) = {} /\ call[p] = <<>>
    BY DEF Idle
  <2> QED BY <2>1, Zenon DEF InCall
<1> QED BY <1>2, <1>3 DEF LastInv, OnItem, Reading, readBuffer

(* A process that alone writes a channel reads there what its last         *)
(* publish call to end has published: callbacks that publish in the middle *)
(* of a call, and messages that come in, bring no older value back.        *)
(* Messages are copies of items and callbacks do not call each other in a  *)
(* circle.  Code: publish, DictItem, __handleRecv.                         *)
THEOREM WriterReadsCorrect == ASSUME Copies, NoCircle PROVE Spec => []WriterReadsLast
<1>1. PICK rank \in [Slots -> Nat] : Descends(rank)
  BY DEF NoCircle
<1>2. TypeInv /\ LastInv => WriterReadsLast
  BY LastReads
<1>3. TypeInv /\ WritersInv /\ StackInv(rank) /\ LastInv /\ [Next]_vars => LastInv'
  BY LastStep
<1>4. Init => LastInv
  BY LastInit
<1> QED BY <1>1, <1>2, <1>3, <1>4, StackSpec, PTL DEF Spec

-----------------------------------------------------------------------------
(* What is on the way to a reader.                                         *)

Pending(queue, e) == \E k \in 1 .. Len(queue) : queue[k].no = e
Ahead(queue, e)   == \A k \in 1 .. Len(queue) : e < queue[k].no
Ordered(queue)    == \A j, k \in 1 .. Len(queue) : j < k => queue[j].no < queue[k].no

(* Packets lie in a device in the order of the bus, and every publication  *)
(* that was sent to a process that missed nothing lies there or was taken  *)
(* before all that lie there.                                              *)
QueueInv ==
    /\ \A p \in Node : Ordered(rx[p])
    /\ \A p \in CanNode, e \in 1 .. Len(log) :
         p \notin missed /\ log[e].sent /\ log[e].from # p =>
           Pending(rx[p], e) \/ Ahead(rx[p], e)

Appended(old, new, no) ==
    /\ Len(old) \in Nat /\ Len(new) = Len(old) + 1 /\ new[Len(old) + 1].no = no
    /\ \A k \in 1 .. Len(old) : new[k] = old[k]

(* A queue that a packet is appended to, and one whose first is taken. *)
LEMMA AppendPending ==
    ASSUME NEW old, NEW new, NEW no, Appended(old, new, no), NEW e
    PROVE  Pending(new, e) <=> Pending(old, e) \/ e = no
<1>1. \A k \in 1 .. Len(new) : k \in 1 .. Len(old) \/ k = Len(old) + 1
  BY DEF Appended
<1>2. \A k \in 1 .. Len(old) : k \in 1 .. Len(new)
  BY DEF Appended
<1>3. Len(old) + 1 \in 1 .. Len(new)
  BY DEF Appended
<1>4. Pending(old, e) => Pending(new, e)
  BY <1>2 DEF Appended, Pending
<1>5. e = no => Pending(new, e)
  BY <1>3 DEF Appended, Pending
<1>6. Pending(new, e) => Pending(old, e) \/ e = no
  BY <1>1 DEF Appended, Pending
<1> QED BY <1>4, <1>5, <1>6

LEMMA AppendAhead ==
    ASSUME NEW old, NEW new, NEW no, Appended(old, new, no), NEW e, e < no, Ahead(old, e)
    PROVE  Ahead(new, e)
<1>1. \A k \in 1 .. Len(new) : k \in 1 .. Len(old) \/ k = Len(old) + 1
  BY DEF Appended
<1> QED BY <1>1 DEF Appended, Ahead

LEMMA AppendOrdered ==
    ASSUME NEW old, NEW new, NEW no, Appended(old, new, no), Ordered(old),
           \A k \in 1 .. Len(old) : old[k].no < no
    PROVE  Ordered(new)
<1> SUFFICES ASSUME NEW j \in 1 .. Len(new), NEW k \in 1 .. Len(new), j < k
             PROVE  new[j].no < new[k].no
  BY DEF Ordered
<1>1. j \in 1 .. Len(old) /\ (k \in 1 .. Len(old) \/ k = Len(old) + 1)
  BY DEF Appended
<1> QED BY <1>1 DEF Appended, Ordered

Shortened(old, new) ==
    /\ Len(old) \in Nat \ {0} /\ Len(new) = Len(old) - 1
    /\ \A k \in 1 .. Len(new) : new[k] = old[k + 1]

LEMMA ShortenPending ==
    ASSUME NEW old, NEW new, Shortened(old, new), Ordered(old),
           \A k \in 1 .. Len(old) : old[k].no \in Nat
    PROVE  /\ \A e : Pending(old, e) <=> Pending(new, e) \/ e = old[1].no
           /\ ~ Pending(new, old[1].no) /\ Ahead(new, old[1].no)
           /\ \A e : Ahead(old, e) => Ahead(new, e) /\ e < old[1].no
           /\ Ordered(new)
<1>1. \A k \in 1 .. Len(new) : k + 1 \in 1 .. Len(old) /\ 1 < k + 1
  BY DEF Shortened
<1>2. \A k \in 1 .. Len(old) : k = 1 \/ (k - 1 \in 1 .. Len(new) /\ (k - 1) + 1 = k)
  BY DEF Shortened
<1>3. 1 \in 1 .. Len(old)
  BY DEF Shortened
<1>4. ASSUME NEW e PROVE Pending(old, e) <=> Pending(new, e) \/ e = old[1].no
  <2>1. Pending(new, e) => Pending(old, e)
    BY <1>1 DEF Shortened, Pending
  <2>2. e = old[1].no => Pending(old, e)
    BY <1>3 DEF Pending
  <2>3. ASSUME NEW k \in 1 .. Len(old), old[k].no = e PROVE Pending(new, e) \/ e = old[1].no
    <3>1. CASE k = 1
      BY <2>3, <3>1
    <3>2. CASE k - 1 \in 1 .. Len(new) /\ (k - 1) + 1 = k
      <4>1. new[k - 1] = old[k]
        BY <3>2 DEF Shortened
      <4> QED BY <2>3, <3>2, <4>1 DEF Pending
    <3> QED BY <1>2, <3>1, <3>2
  <2> QED BY <2>1, <2>2, <2>3 DEF Pending
<1>5. Ahead(new, old[1].no)
  BY <1>1, <1>3 DEF Shortened, Ahead, Ordered
<1>6. ~ Pending(new, old[1].no)
  <2>1. ASSUME NEW k \in 1 .. Len(new), new[k].no = old[1].no PROVE FALSE
    <3>1. old[1].no < new[k].no /\ old[1].no \in Nat
      BY <1>3, <1>5 DEF Ahead
    <3> QED BY <2>1, <3>1
  <2> QED BY <2>1 DEF Pending
<1>7. ASSUME NEW e, Ahead(old, e) PROVE Ahead(new, e) /\ e < old[1].no
  BY <1>1, <1>3, <1>7 DEF Shortened, Ahead
<1>8. Ordered(new)
  <2> SUFFICES ASSUME NEW j \in 1 .. Len(new), NEW k \in 1 .. Len(new), j < k
               PROVE  new[j].no < new[k].no
    BY DEF Ordered
  <2>1. j + 1 < k + 1
    OBVIOUS
  <2> QED BY <1>1, <2>1 DEF Shortened, Ordered
<1> QED BY <1>4, <1>5, <1>6, <1>7, <1>8

(* How the steps change the queues. *)
LEMMA SentQueues ==
    ASSUME TypeInv, NEW p \in Node, NEW x, Returns(p, x), NEW q \in Node
    PROVE  /\ missed \subseteq missed'
           /\ rx'[q] = rx[q] \/ Appended(rx[q], rx'[q], Len(log) + 1)
           /\ x.sent => p \in CanNode
           /\ x.sent /\ q \in CanNode /\ q # p /\ q \notin missed' =>
                Appended(rx[q], rx'[q], Len(log) + 1)
<1>1. rx[q] \in Seq(Packet)
  BY DEF TypeInv, PacketsInv
<1>2. ASSUME rx'[q] = Append(rx[q], SentPacket(p))
      PROVE  Appended(rx[q], rx'[q], Len(log) + 1)
  <2> DEFINE y == SentPacket(p)
  <2>1. y.no = Len(log) + 1
    BY DEF SentPacket
  <2> HIDE DEF y
  <2>2. rx'[q] = Append(rx[q], y)
    BY <1>2 DEF y
  <2> QED BY <1>1, <2>1, <2>2 DEF Appended
<1>3. CASE x.sent
  <2>1. /\ p \in CanNode
        /\ rx'[q] = IF Hears(p, q) /\ Len(rx[q]) < QueueCap
                    THEN Append(rx[q], SentPacket(p)) ELSE rx[q]
        /\ missed' = missed \cup {r \in Node : Hears(p, r) /\ Len(rx[r]) >= QueueCap}
    BY <1>3 DEF Returns
  <2>2. ASSUME q \in CanNode, q # p, q \notin missed'
        PROVE  Hears(p, q) /\ Len(rx[q]) < QueueCap
    <3>1. Hears(p, q) /\ ~ (Len(rx[q]) >= QueueCap)
      BY <2>1, <2>2 DEF Hears
    <3>2. Len(rx[q]) \in Nat /\ QueueCap \in Nat
      BY <1>1, PubSubAssumption
    <3> QED BY <3>1, <3>2
  <2> QED BY <1>2, <1>3, <2>1, <2>2
<1>4. CASE ~ x.sent
  BY <1>4 DEF Returns
<1> QED BY <1>3, <1>4

LEMMA TakenQueues ==
    ASSUME TypeInv, NEW p \in Node, Receives(p)
    PROVE  /\ Shortened(rx[p], rx'[p]) /\ \A q \in Node \ {p} : rx'[q] = rx[q]
           /\ \A k \in 1 .. Len(rx[p]) : rx[p][k].no \in Nat
<1>1. rx \in [Node -> Seq(Packet)] /\ rx[p] # <<>> /\ rx' = [rx EXCEPT ![p] = Tail(@)]
  BY DEF TypeInv, PacketsInv, Receives, Dropped
<1>2. rx'[p] = Tail(rx[p]) /\ \A q \in Node \ {p} : rx'[q] = rx[q]
  BY <1>1
<1>3. Shortened(rx[p], rx'[p])
  BY <1>1, <1>2 DEF Shortened
<1>4. ASSUME NEW k \in 1 .. Len(rx[p]) PROVE rx[p][k].no \in Nat
  <2>1. rx[p][k] \in Packet
    BY <1>1
  <2> QED BY <2>1 DEF Packet
<1> QED BY <1>2, <1>3, <1>4

LEMMA QueueStep ==
    ASSUME Copies, TypeInv, QueueInv, [Next]_vars
    PROVE  QueueInv'
<1> DEFINE Sorted == \A q \in Node : Ordered(rx'[q])
           Known  == \A q \in CanNode, e \in 1 .. Len(log') :
                       q \notin missed' /\ log'[e].sent /\ log'[e].from # q =>
                         Pending(rx'[q], e) \/ Ahead(rx'[q], e)
<1>1. ASSUME UNCHANGED <<rx, log, missed>> PROVE Sorted /\ Known
  BY <1>1 DEF QueueInv
<1>2. ASSUME NEW p \in Node, NEW x, Returns(p, x) PROVE Sorted /\ Known
  <2>1. /\ Len(log) \in Nat /\ log'[Len(log) + 1] = x /\ x.from = p
        /\ \A k \in 1 .. Len(log) : log'[k] = log[k]
        /\ \A k \in 1 .. Len(log') : k \in 1 .. Len(log) \/ k = Len(log) + 1
    BY <1>2, LogStays
  <2>2. ASSUME NEW q \in Node PROVE Ordered(rx'[q])
    <3>1. \A k \in 1 .. Len(rx[q]) : rx[q][k].no < Len(log) + 1
      <4> SUFFICES ASSUME NEW k \in 1 .. Len(rx[q]) PROVE rx[q][k].no < Len(log) + 1
        OBVIOUS
      <4>1. rx[q][k].no \in 1 .. Len(log)
        BY DEF TypeInv, PacketsInv, Received
      <4> QED BY <2>1, <4>1
    <3> QED BY <1>2, <3>1, SentQueues, AppendOrdered DEF QueueInv
  <2>3. ASSUME NEW q \in CanNode, NEW e \in 1 .. Len(log'), q \notin missed',
               log'[e].sent, log'[e].from # q
        PROVE  Pending(rx'[q], e) \/ Ahead(rx'[q], e)
    <3>0. q \in Node
      BY PubSubAssumption
    <3>1. CASE e \in 1 .. Len(log)
      <4>1. Pending(rx[q], e) \/ Ahead(rx[q], e)
        BY <1>2, <2>1, <2>3, <3>0, <3>1, SentQueues DEF QueueInv
      <4>2. e < Len(log) + 1
        BY <2>1, <3>1
      <4> QED BY <1>2, <3>0, <4>1, <4>2, SentQueues, AppendPending, AppendAhead
    <3>2. CASE e = Len(log) + 1
      <4>1. Appended(rx[q], rx'[q], Len(log) + 1)
        BY <1>2, <2>1, <2>3, <3>0, <3>2, SentQueues
      <4> QED BY <3>2, <4>1, AppendPending
    <3> QED BY <2>1, <3>1, <3>2
  <2> QED BY <2>2, <2>3
<1>3. ASSUME NEW p \in Node, Receives(p) PROVE Sorted /\ Known
  <2>1. UNCHANGED <<log, missed>>
    BY <1>3 DEF Receives, Dropped
  <2>2. /\ Shortened(rx[p], rx'[p]) /\ \A q \in Node \ {p} : rx'[q] = rx[q]
        /\ \A k \in 1 .. Len(rx[p]) : rx[p][k].no \in Nat
    BY <1>3, TakenQueues
  <2>3. Ordered(rx[p])
    BY DEF QueueInv
  <2>4. /\ \A e : Pending(rx[p], e) <=> Pending(rx'[p], e) \/ e = rx[p][1].no
        /\ Ahead(rx'[p], rx[p][1].no)
        /\ \A e : Ahead(rx[p], e) => Ahead(rx'[p], e) /\ e < rx[p][1].no
        /\ Ordered(rx'[p])
    BY <2>2, <2>3, ShortenPending
  <2>5. Sorted
    BY <2>2, <2>4 DEF QueueInv
  <2>6. ASSUME NEW q \in CanNode, NEW e \in 1 .. Len(log), q \notin missed,
               log[e].sent, log[e].from # q
        PROVE  Pending(rx'[q], e) \/ Ahead(rx'[q], e)
    <3>0. q \in Node
      BY PubSubAssumption
    <3>1. Pending(rx[q], e) \/ Ahead(rx[q], e)
      BY <2>6 DEF QueueInv
    <3>2. CASE q = p
      BY <2>4, <3>1, <3>2
    <3>3. CASE q # p
      BY <2>2, <3>0, <3>1, <3>3
    <3> QED BY <3>2, <3>3
  <2> QED BY <2>1, <2>5, <2>6
<1>4. ASSUME NEW p \in Node, NEW e \in Ends[p], Binds(p, e) PROVE UNCHANGED <<rx, log, missed>>
  BY <1>4 DEF Binds
<1>5. ASSUME NEW p \in Node, NEW base, NEW c, Pushes(p, base, c) PROVE UNCHANGED <<rx, log, missed>>
  BY <1>5 DEF Pushes
<1>6. ASSUME Rests PROVE UNCHANGED <<rx, log, missed>>
  BY <1>6 DEF Rests
<1>7. Sorted /\ Known
  <2> HIDE DEF Sorted, Known
  <2> QED BY <1>1, <1>2, <1>3, <1>4, <1>5, <1>6, StepCases
<1> QED BY <1>7 DEF QueueInv

LEMMA QueueInit == Init => QueueInv
<1>1. 1 .. Len(<<>>) = {}
  OBVIOUS
<1>2. Init => log = <<>> /\ \A p \in Node : rx[p] = <<>>
  BY DEF Init
<1> QED BY <1>1, <1>2, Zenon DEF QueueInv, Ordered

-----------------------------------------------------------------------------
(* What a reader holds.                                                    *)

BoundIn(subs, ch) == \E k \in DOMAIN subs : SubscribeChannel(subs[k]) = ch

(* All the later publications of an item are on the way, it is not. *)
LastTaken(history, queue, e) ==
    /\ ~ Pending(queue, e)
    /\ \A f \in 1 .. Len(history) :
         (f > e /\ history[f].sent /\ OnItem(history[f], history[e].channel, history[e].index))
           => Pending(queue, f)

(* What a reader that missed nothing holds of an item is the last that was *)
(* published before what is still on the way.                              *)
CurrentInv ==
    \A p \in CanNode, e \in 1 .. Len(log) :
      (/\ <<p, log[e].channel>> \in Remote
       /\ p \notin crashed /\ p \notin missed /\ BoundIn(subscribers[p], log[e].channel)
       /\ log[e].sent /\ e > since[p][log[e].channel] /\ LastTaken(log, rx[p], e))
      => Reading(shared_buffers, p, log[e].channel, log[e].index) = log[e].data

LEMMA WholeItem ==
    ASSUME NEW dict, NEW i, NEW data \in Seq(Byte), Len(data) = dict.data_size[i], NEW junk
    PROVE  ItemBytes(dict, i, data, junk) = data
<1>1. data = [k \in 1 .. Len(data) |-> data[k]] /\ Len(data) \in Nat
  OBVIOUS
<1>2. \A k \in 1 .. Len(data) : k <= Len(data)
  BY <1>1
<1>3. ItemBytes(dict, i, data, junk) = [k \in 1 .. Len(data) |-> data[k]]
  BY <1>2 DEF ItemBytes
<1> QED BY <1>1, <1>3

(* A publication that a remote reader agrees about. *)
LEMMA RemoteEntry ==
    ASSUME TypeInv, WritersInv, NEW p \in CanNode, NEW e \in 1 .. Len(log),
           <<p, log[e].channel>> \in Remote
    PROVE  /\ p \in Node /\ log[e].channel \in Channel
           /\ log[e].from # p /\ p \notin Writers[log[e].channel]
           /\ log[e].index \in Items(p, log[e].channel)
           /\ log[e].data \in Seq(Byte)
           /\ Len(log[e].data) = Dict[p][log[e].channel[2]].data_size[log[e].index]
           /\ log[e].sent => log[e].index <= 7
           /\ BoundIn(subscribers[p], log[e].channel) => log[e].channel \in DOMAIN shared_buffers[p]
<1> DEFINE E  == log[e]
           ch == log[e].channel
<1>1. p \in Node
  BY PubSubAssumption
<1>2. Published(E)
  BY DEF TypeInv, HistoryInv
<1>3. ch \in Channel /\ E.from \in Node
  BY <1>2 DEF Published, Publication
<1>4. E.from \in Writers[ch]
  BY DEF WritersInv
<1>5. p \in Agreeing[ch] /\ p \notin Writers[ch]
  <2>1. <<p, ch>>[1] \in Agreeing[<<p, ch>>[2]] \ Writers[<<p, ch>>[2]]
    BY DEF Remote
  <2> QED BY <2>1
<1>6. Dict[E.from][ch[2]] = Dict[p][ch[2]]
  BY <1>3, <1>4, <1>5 DEF Agreeing
<1>7. /\ E.index \in Items(E.from, ch) /\ E.data \in Seq(Byte)
      /\ Len(E.data) = Dict[E.from][ch[2]].data_size[E.index]
      /\ E.sent => E.index <= 7
  BY <1>2 DEF Published, Datum
<1>8. E.index \in Items(p, ch) /\ Len(E.data) = Dict[p][ch[2]].data_size[E.index]
  BY <1>6, <1>7 DEF Items
<1>9. BoundIn(subscribers[p], ch) => ch \in DOMAIN shared_buffers[p]
  BY <1>1 DEF BoundIn, TypeInv, BuffersInv, BuffersOf
<1> QED BY <1>1, <1>3, <1>4, <1>5, <1>7, <1>8, <1>9

LEMMA CurrentStep ==
    ASSUME Copies, TypeInv, WritersInv, QueueInv, CurrentInv, [Next]_vars
    PROVE  CurrentInv'
<1> DEFINE Due(q, e) ==
             /\ <<q, log'[e].channel>> \in Remote
             /\ q \notin crashed' /\ q \notin missed' /\ BoundIn(subscribers'[q], log'[e].channel)
             /\ log'[e].sent /\ e > since'[q][log'[e].channel] /\ LastTaken(log', rx'[q], e)
           Held(q, e) == Due(q, e) =>
             Reading(shared_buffers', q, log'[e].channel, log'[e].index) = log'[e].data
           All == \A q \in CanNode, e \in 1 .. Len(log') : Held(q, e)
<1>0. CanNode \subseteq Node
  BY PubSubAssumption
<1>1. ASSUME NEW q \in CanNode, NEW e \in 1 .. Len(log), log'[e] = log[e],
             <<q, log[e].channel>> \in Remote =>
               /\ q \notin crashed' => q \notin crashed
               /\ q \notin missed' => q \notin missed
               /\ (BoundIn(subscribers'[q], log[e].channel) /\ e > since'[q][log[e].channel])
                    => BoundIn(subscribers[q], log[e].channel) /\ e > since[q][log[e].channel],
             Due(q, e) => LastTaken(log, rx[q], e),
             Due(q, e) /\ BoundIn(subscribers[q], log[e].channel) =>
               Reading(shared_buffers', q, log[e].channel, log[e].index)
                 = Reading(shared_buffers, q, log[e].channel, log[e].index)
      PROVE  Held(q, e)
  BY <1>1 DEF CurrentInv
<1>2. ASSUME NEW q \in CanNode, UNCHANGED log, rx'[q] = rx[q], NEW e \in 1 .. Len(log), Due(q, e)
      PROVE  LastTaken(log, rx[q], e)
  BY <1>2
<1>3. ASSUME NEW p \in Node, NEW x \in Ends[p], Binds(p, x) PROVE All
  <2>1. UNCHANGED <<rx, crashed, log, missed>>
    BY <1>3 DEF Binds
  <2>2. ASSUME NEW q \in CanNode, NEW e \in 1 .. Len(log) PROVE Held(q, e)
    <3>1. <<q, log[e].channel>> \in Remote =>
            ((BoundIn(subscribers'[q], log[e].channel) /\ e > since'[q][log[e].channel])
              => BoundIn(subscribers[q], log[e].channel) /\ e > since[q][log[e].channel])
      <4> SUFFICES ASSUME <<q, log[e].channel>> \in Remote,
                          BoundIn(subscribers'[q], log[e].channel), e > since'[q][log[e].channel]
                   PROVE  /\ BoundIn(subscribers[q], log[e].channel)
                          /\ e > since[q][log[e].channel]
        OBVIOUS
      <4>1. CASE q = p
        <5>1. PICK c \in Channel : c = log[e].channel
          BY RemoteEntry
        <5>2. Len(log) \in Nat /\ ~ (e > Len(log))
          BY DEF TypeInv, HistoryInv
        <5>3. since'[p][c] = Len(log) \/ (since'[p][c] = since[p][c] /\ (Bound(p, c)' => Bound(p, c)))
          BY <1>3 DEF Binds
        <5>4. since'[q][c] # Len(log)
          BY <5>1, <5>2
        <5>5. since'[p][c] = since[p][c] /\ (BoundIn(subscribers'[p], c) => BoundIn(subscribers[p], c))
          BY <4>1, <5>3, <5>4 DEF Bound, BoundIn
        <5> QED BY <4>1, <5>1, <5>5
      <4>2. CASE q # p
        <5>1. subscribers'[q] = subscribers[q] /\ since'[q] = since[q]
          BY <1>0, <1>3, <4>2 DEF Binds
        <5> QED BY <5>1
      <4> QED BY <4>1, <4>2
    <3>2. Due(q, e) /\ BoundIn(subscribers[q], log[e].channel) =>
            Reading(shared_buffers', q, log[e].channel, log[e].index)
              = Reading(shared_buffers, q, log[e].channel, log[e].index)
      <4>1. ASSUME Due(q, e), BoundIn(subscribers[q], log[e].channel)
            PROVE  log[e].channel \in DOMAIN shared_buffers[q]
        BY <2>1, <4>1, RemoteEntry
      <4>2. \A c \in DOMAIN shared_buffers[q] : shared_buffers'[q][c] = shared_buffers[q][c]
        BY <1>0, <1>3 DEF Binds
      <4> QED BY <4>1, <4>2 DEF Reading
    <3>3. Due(q, e) => LastTaken(log, rx[q], e)
      <4> HIDE DEF Due
      <4> QED BY <1>2, <2>1
    <3> HIDE DEF Due, Held
    <3> QED BY <1>1, <2>1, <3>1, <3>2, <3>3
  <2> HIDE DEF Held
  <2> QED BY <2>1, <2>2
<1>4. ASSUME NEW p \in Node, NEW base, NEW c, Pushes(p, base, c) PROVE All
  <2>1. UNCHANGED <<publishers, subscribers, rx, crashed, log, since, missed>>
    BY <1>4 DEF Pushes
  <2>2. ASSUME NEW q \in CanNode, NEW e \in 1 .. Len(log) PROVE Held(q, e)
    <3>1. ASSUME Due(q, e), BoundIn(subscribers[q], log[e].channel)
          PROVE  Reading(shared_buffers', q, log[e].channel, log[e].index)
                   = Reading(shared_buffers, q, log[e].channel, log[e].index)
      <4>1. <<q, log[e].channel>> \in Remote /\ log[e].sent
        BY <2>1, <3>1
      <4>2. /\ q \notin Writers[log[e].channel] /\ log[e].index \in Items(q, log[e].channel)
            /\ log[e].index <= 7 /\ log[e].channel \in DOMAIN shared_buffers[q]
        BY <3>1, <4>1, RemoteEntry
      <4>3. CASE q = p
        <5>1. OnChannel(p, c) # log[e].channel \/ c.index # log[e].index
          BY <1>4, <4>2, <4>3 DEF Pushes
        <5> QED BY <1>4, <4>2, <4>3, <5>1 DEF Pushes, Wrote
      <4>4. CASE q # p
        <5>1. shared_buffers'[q] = shared_buffers[q]
          BY <1>0, <1>4, <4>4 DEF Pushes, Wrote
        <5> QED BY <5>1 DEF Reading
      <4> QED BY <4>3, <4>4
    <3>2. Due(q, e) => LastTaken(log, rx[q], e)
      <4> HIDE DEF Due
      <4> QED BY <1>2, <2>1
    <3> HIDE DEF Due, Held
    <3> QED BY <1>1, <2>1, <3>1, <3>2
  <2> HIDE DEF Held
  <2> QED BY <2>1, <2>2
<1>5. ASSUME NEW p \in Node, NEW x, Returns(p, x) PROVE All
  <2>1. UNCHANGED <<publishers, subscribers, since, shared_buffers, crashed>>
    BY <1>5 DEF Returns
  <2>2. /\ Len(log) \in Nat /\ Len(log') = Len(log) + 1 /\ log'[Len(log) + 1] = x
        /\ \A k \in 1 .. Len(log) : log'[k] = log[k]
        /\ \A k \in 1 .. Len(log') : k \in 1 .. Len(log) \/ k = Len(log) + 1
        /\ x.from = p /\ x.channel = OnChannel(p, Top(p)) /\ x.index = Top(p).index
    BY <1>5, LogStays
  <2>3. ASSUME NEW q \in CanNode, NEW e \in 1 .. Len(log) PROVE Held(q, e)
    <3>1. \A f \in 1 .. Len(log) : Pending(rx'[q], f) <=> Pending(rx[q], f)
      <4> SUFFICES ASSUME NEW f \in 1 .. Len(log) PROVE Pending(rx'[q], f) <=> Pending(rx[q], f)
        OBVIOUS
      <4>1. f # Len(log) + 1
        BY <2>2
      <4>2. rx'[q] = rx[q] \/ Appended(rx[q], rx'[q], Len(log) + 1)
        BY <1>0, <1>5, SentQueues
      <4> QED BY <4>1, <4>2, AppendPending
    <3>2. \A f \in 1 .. Len(log) : f \in 1 .. Len(log')
      BY <2>2
    <3>3. LastTaken(log', rx'[q], e) => LastTaken(log, rx[q], e)
      BY <2>2, <3>1, <3>2 DEF LastTaken
    <3>4. missed \subseteq missed'
      BY <1>0, <1>5, SentQueues
    <3>5. Due(q, e) => LastTaken(log, rx[q], e)
      BY <3>3
    <3>6. shared_buffers' = shared_buffers /\ log'[e] = log[e]
      BY <2>1, <2>2
    <3> HIDE DEF Due, Held
    <3> QED BY <1>1, <2>1, <3>4, <3>5, <3>6
  <2>4. ASSUME NEW q \in CanNode, NEW e, e = Len(log) + 1 PROVE Held(q, e)
    <3> SUFFICES ASSUME Due(q, e) PROVE FALSE
      OBVIOUS
    <3>1. /\ <<q, x.channel>> \in Remote /\ q \notin missed' /\ x.sent
          /\ ~ Pending(rx'[q], Len(log) + 1)
      BY <2>2, <2>4 DEF LastTaken
    <3>2. call[p] # <<>> /\ (Top(p).index <= 7 \/ Top(p).local_only)
      BY <1>5 DEF Returns
    <3>3. p \in Writers[x.channel]
      BY <2>2, <3>2, TopWrites
    <3>4. q \notin Writers[x.channel]
      <4>1. <<q, x.channel>>[1] \in Agreeing[<<q, x.channel>>[2]] \ Writers[<<q, x.channel>>[2]]
        BY <3>1 DEF Remote
      <4> QED BY <4>1
    <3>5. Appended(rx[q], rx'[q], Len(log) + 1)
      BY <1>0, <1>5, <3>1, <3>3, <3>4, SentQueues
    <3> QED BY <3>1, <3>5, AppendPending
  <2> HIDE DEF Held
  <2> QED BY <2>2, <2>3, <2>4
<1>6. ASSUME NEW p \in Node, Receives(p) PROVE All
  <2>1. UNCHANGED <<publishers, subscribers, log, since, missed>>
    BY <1>6 DEF Receives, Dropped
  <2>2. /\ Shortened(rx[p], rx'[p]) /\ \A q \in Node \ {p} : rx'[q] = rx[q]
        /\ \A k \in 1 .. Len(rx[p]) : rx[p][k].no \in Nat
    BY <1>6, TakenQueues
  <2> DEFINE n == rx[p][1].no
  <2>3. /\ \A f : Pending(rx[p], f) <=> Pending(rx'[p], f) \/ f = n
        /\ ~ Pending(rx'[p], n)
        /\ \A f : Ahead(rx[p], f) => f < n
    BY <2>2, ShortenPending DEF QueueInv
  <2>4. n \in 1 .. Len(log) /\ log[n].sent
    BY <1>6 DEF Receives, Received
  <2> HIDE DEF n
  <2>5. ASSUME NEW q \in CanNode, q # p, NEW e \in 1 .. Len(log) PROVE Held(q, e)
    <3>1. shared_buffers'[q] = shared_buffers[q] /\ rx'[q] = rx[q]
      BY <1>0, <1>6, <2>2, <2>5 DEF Receives, Wrote, Ignored
    <3>2. q \notin crashed' => q \notin crashed
      BY <1>6 DEF Receives, Applied, Ignored
    <3>3. Due(q, e) => LastTaken(log, rx[q], e)
      <4> HIDE DEF Due
      <4> QED BY <1>2, <2>1, <3>1
    <3>4. Reading(shared_buffers', q, log[e].channel, log[e].index)
            = Reading(shared_buffers, q, log[e].channel, log[e].index)
      BY <3>1 DEF Reading
    <3> HIDE DEF Due, Held
    <3> QED BY <1>1, <2>1, <3>2, <3>3, <3>4
  <2>6. ASSUME p \in CanNode, NEW e \in 1 .. Len(log), Due(p, e)
        PROVE  Reading(shared_buffers', p, log[e].channel, log[e].index) = log[e].data
    <3>1. /\ <<p, log[e].channel>> \in Remote /\ p \notin crashed' /\ p \notin missed
          /\ BoundIn(subscribers[p], log[e].channel) /\ log[e].sent
          /\ e > since[p][log[e].channel] /\ LastTaken(log, rx'[p], e)
      BY <2>1, <2>6
    <3> HIDE DEF Due, Held
    <3>2. /\ log[e].channel \in Channel /\ log[e].from # p
          /\ log[e].index \in Items(p, log[e].channel) /\ log[e].data \in Seq(Byte)
          /\ Len(log[e].data) = Dict[p][log[e].channel[2]].data_size[log[e].index]
          /\ log[e].channel \in DOMAIN shared_buffers[p]
      BY <2>6, <3>1, RemoteEntry
    <3>3. p \notin crashed
      BY <1>6, <3>1 DEF Receives, Applied, Ignored
    <3>4. \/ \E junk \in Junk : Wrote(p, log[n].channel, log[n].index,
                 ItemBytes(Dict[p][log[n].channel[2]], log[n].index, log[n].data, junk))
          \/ Ignored(p, log[n])
      BY <1>6, <3>1 DEF Receives, n
    <3>5. CASE e = n
      <4>1. ~ Ignored(p, log[n])
        BY <3>1, <3>2, <3>5 DEF Ignored, Bound, BoundIn
      <4>2. PICK junk \in Junk : Wrote(p, log[e].channel, log[e].index,
              ItemBytes(Dict[p][log[e].channel[2]], log[e].index, log[e].data, junk))
        BY <3>4, <3>5, <4>1
      <4>3. ItemBytes(Dict[p][log[e].channel[2]], log[e].index, log[e].data, junk) = log[e].data
        BY <3>2, WholeItem
      <4> QED BY <4>2, <4>3 DEF Wrote
    <3>6. CASE e # n
      <4>1. ~ Pending(rx[p], e)
        BY <2>3, <3>1, <3>6 DEF LastTaken
      <4>2. LastTaken(log, rx[p], e)
        BY <2>3, <3>1, <4>1 DEF LastTaken
      <4>3. Reading(shared_buffers, p, log[e].channel, log[e].index) = log[e].data
        BY <2>6, <3>1, <3>3, <4>2 DEF CurrentInv
      <4>4. e < n
        BY <2>3, <2>6, <3>1, <3>2, <4>1 DEF QueueInv
      <4>5. ~ OnItem(log[n], log[e].channel, log[e].index)
        <5>1. n > e
          BY <2>4, <4>4
        <5> QED BY <2>3, <2>4, <3>1, <5>1 DEF LastTaken
      <4>6. Reading(shared_buffers', p, log[e].channel, log[e].index)
              = Reading(shared_buffers, p, log[e].channel, log[e].index)
        <5>1. CASE Ignored(p, log[n])
          BY <5>1 DEF Ignored
        <5>2. ASSUME NEW data, Wrote(p, log[n].channel, log[n].index, data)
              PROVE  Reading(shared_buffers', p, log[e].channel, log[e].index)
                       = Reading(shared_buffers, p, log[e].channel, log[e].index)
          BY <3>2, <4>5, <5>2 DEF Wrote, OnItem
        <5> QED BY <3>4, <5>1, <5>2
      <4> QED BY <4>3, <4>6
    <3> QED BY <3>5, <3>6
  <2>7. ASSUME p \in CanNode, NEW e \in 1 .. Len(log) PROVE Held(p, e)
    <3>1. log'[e] = log[e]
      BY <2>1
    <3> HIDE DEF Due
    <3> QED BY <2>6, <2>7, <3>1
  <2> HIDE DEF Held
  <2> QED BY <2>1, <2>5, <2>7
<1>7. ASSUME Rests PROVE All
  <2>1. UNCHANGED <<shared_buffers, rx, log, since, missed>> /\ crashed \subseteq crashed'
    BY <1>7 DEF Rests
  <2>2. ASSUME NEW q \in CanNode, NEW e \in 1 .. Len(log) PROVE Held(q, e)
    <3>1. <<q, log[e].channel>> \in Remote /\ BoundIn(subscribers'[q], log[e].channel)
            => BoundIn(subscribers[q], log[e].channel)
      <4> DEFINE c == log[e].channel
      <4>1. <<q, c>> \in Remote => c \in Channel
        BY RemoteEntry
      <4> HIDE DEF c
      <4>2. c \in Channel /\ BoundIn(subscribers'[q], c) => BoundIn(subscribers[q], c)
        BY <1>0, <1>7 DEF Rests, Bound, BoundIn
      <4> QED BY <4>1, <4>2 DEF c
    <3>2. Due(q, e) => LastTaken(log, rx[q], e)
      <4> HIDE DEF Due
      <4> QED BY <1>2, <2>1
    <3> HIDE DEF Due, Held
    <3> QED BY <1>1, <2>1, <3>1, <3>2
  <2> HIDE DEF Held
  <2> QED BY <2>1, <2>2
<1>8. All
  <2> HIDE DEF All
  <2> QED BY <1>3, <1>4, <1>5, <1>6, <1>7, StepCases
<1> QED BY <1>8 DEF CurrentInv

LEMMA CurrentInit == Init => CurrentInv
<1>1. 1 .. Len(<<>>) = {}
  OBVIOUS
<1>2. Init => log = <<>>
  BY DEF Init
<1> QED BY <1>1, <1>2, Zenon DEF CurrentInv

LEMMA ReaderReads ==
    ASSUME TypeInv, CurrentInv
    PROVE  CurrentWhenDrained
<1> SUFFICES ASSUME NEW x \in Remote, Reads(x[1], x[2]), rx[x[1]] = <<>>,
                    NEW i \in Items(x[1], x[2]),
                    Newest(x[2], i, since[x[1]][x[2]], TRUE) # <<>>
             PROVE  readBuffer(x[1], x[2], i) = Newest(x[2], i, since[x[1]][x[2]], TRUE)
  BY DEF CurrentWhenDrained, UpToDate
<1>1. PICK p \in CanNode, ch \in Channel : x = <<p, ch>>
  BY DEF Remote
<1>2. x[1] = p /\ x[2] = ch /\ p \in Node
  BY <1>1, PubSubAssumption
<1>3. since[p][ch] \in Nat
  BY <1>2 DEF TypeInv, HistoryInv
<1> DEFINE k == since[p][ch]
<1>4. Newest(ch, i, k, TRUE) # <<>>
  BY <1>2
<1> HIDE DEF k
<1>5. PICK e \in (k + 1) .. Len(log) : IsNewest(e, ch, i, k, TRUE)
  BY <1>3, <1>4, NewestIs DEF TypeInv, k
<1>6. k \in Nat /\ Len(log) \in Nat
  BY <1>3 DEF TypeInv, HistoryInv, k
<1>7. /\ e \in 1 .. Len(log) /\ e > k /\ log[e].channel = ch /\ log[e].index = i
      /\ log[e].sent /\ Newest(ch, i, k, TRUE) = log[e].data
      /\ \A f \in 1 .. Len(log) : f > e => f \in (k + 1) .. Len(log)
  <2>1. OnItem(log[e], ch, i) /\ log[e].sent /\ Newest(ch, i, k, TRUE) = log[e].data
    BY <1>5, Zenon DEF IsNewest
  <2>2. /\ e \in 1 .. Len(log) /\ e > k
        /\ \A f \in 1 .. Len(log) : f > e => f \in (k + 1) .. Len(log)
    BY <1>5, <1>6
  <2> QED BY <2>1, <2>2 DEF OnItem
<1>8. LastTaken(log, rx[p], e)
  <2>1. \A f : ~ Pending(rx[p], f)
    <3>1. 1 .. Len(<<>>) = {}
      OBVIOUS
    <3>2. rx[p] = <<>>
      BY <1>2
    <3> QED BY <3>1, <3>2, Zenon DEF Pending
  <2>2. \A f \in 1 .. Len(log) : f > e => ~ (OnItem(log[f], ch, i) /\ log[f].sent)
    BY <1>5, <1>7 DEF IsNewest
  <2> QED BY <1>7, <2>1, <2>2 DEF LastTaken
<1>9. p \notin crashed /\ p \notin missed /\ BoundIn(subscribers[p], ch)
  BY <1>2 DEF Reads, Up, Bound, BoundIn
<1>10. Reading(shared_buffers, p, ch, i) = log[e].data
  BY <1>1, <1>7, <1>8, <1>9 DEF CurrentInv, k
<1> QED BY <1>2, <1>7, <1>10 DEF Reading, readBuffer, k

(* A process that hears a channel with the writers' dictionary, has missed *)
(* no message and has none left to receive, holds of every item what was   *)
(* sent last since it was bound, however publications, callbacks and       *)
(* messages interleave.  Code: publish, fastMessageBuilder, __handleRecv,  *)
(* MsgDictSingleWrite.                                                     *)
THEOREM CurrentCorrect == ASSUME Copies PROVE Spec => []CurrentWhenDrained
<1>1. Init => QueueInv /\ CurrentInv
  BY QueueInit, CurrentInit
<1>2. TypeInv /\ WritersInv /\ QueueInv /\ CurrentInv /\ [Next]_vars
        => QueueInv' /\ CurrentInv'
  BY QueueStep, CurrentStep
<1>3. TypeInv /\ CurrentInv => CurrentWhenDrained
  BY ReaderReads
<1> QED BY <1>1, <1>2, <1>3, WritersSpec, PTL DEF Spec

=============================================================================
