--------------------------- MODULE ContextProofs ---------------------------
(***************************************************************************)
(* Theorems about ContextThreads for any addresses, channels, frames and   *)
(* bounds.                                                                 *)
(***************************************************************************)
EXTENDS ContextThreads, TLAPS

(* An entry stays where it is when a table grows. *)
Extends(t2, t1) == Len(t2) >= Len(t1) /\ \A i \in 1 .. Len(t1) : t2[i] = t1[i]

Entry == [address : Int, server_addr : Int]

(* Registering adds at most one entry, and none with an address that is    *)
(* there.  Code: makeServer, bindServer.                                   *)
LEMMA RegisterFacts ==
    ASSUME NEW t \in Table, NEW a \in Int, NEW s \in Int
    PROVE  /\ Register(t, a, s) \in Table
           /\ Extends(Register(t, a, s), t)
           /\ Unique(t) => Unique(Register(t, a, s))
<1> DEFINE e == [address |-> a, server_addr |-> s]
<1> e \in Entry
    BY DEF Entry
<1>1. t \in Seq(Entry)
      BY DEF Table, Entry
<1>2. CASE Registered(t, a)
      BY <1>1, <1>2 DEF Register, Extends, Table
<1>3. CASE ~ Registered(t, a)
  <2>1. Register(t, a, s) = Append(t, e)
        BY <1>3 DEF Register
  <2>2. /\ Append(t, e) \in Seq(Entry)
        /\ Len(Append(t, e)) = Len(t) + 1
        /\ \A i \in 1 .. Len(t) : Append(t, e)[i] = t[i]
        /\ Append(t, e)[Len(t) + 1] = e
        BY <1>1
  <2>3. \A i \in 1 .. Len(t) : t[i].address # a
        BY <1>1, <1>3 DEF Registered
  <2>4. e.address = a
        OBVIOUS
  <2>5. Unique(t) => Unique(Append(t, e))
        BY <1>1, <2>2, <2>3, <2>4 DEF Unique
  <2> QED
      BY <1>1, <2>1, <2>2, <2>5 DEF Extends, Table, Entry
<1> QED
    BY <1>2, <1>3

-----------------------------------------------------------------------------
(* The inductive invariant.                                                *)

Matches(f, i) == TableFor(f)[i].address = f.to

(* Where the thread stands with the frame it has taken: what it has called *)
(* so far is what the entries behind it ask for.                           *)
AtCurrent ==
    /\ pc \in {"got", "subscribers", "copy"} => handled[taken] = 0
    /\ pc \in {"subscribers", "copy"} => Current.kind = "msg"
    /\ pc = "copy" => subscriber # 0
    /\ pc = "walk" =>
         /\ Current.kind # "msg"
         /\ next <= end + 1
         /\ (\E i \in 1 .. (next - 1) : Matches(Current, i)) => handled[taken] = 1
         /\ (\A i \in 1 .. (next - 1) : ~ Matches(Current, i)) => handled[taken] = 0
         /\ taken \in due => \E i \in 1 .. end : Matches(Current, i)

(* Frames that wait have run no handler, and a frame that is due keeps its *)
(* server or client, since tables only grow.                               *)
Waiting ==
    /\ \A n \in FrameNo : n > taken => handled[n] = 0
    /\ \A n \in due : /\ frames[n].kind # "msg"
                      /\ Registered(TableFor(frames[n]), frames[n].to)

DoneOnce ==
    \A n \in 1 .. taken : Done(n) => handled[n] <= 1 /\ (n \in due => handled[n] = 1)

IInv == TypeOK /\ OneInstancePerAddress /\ AtCurrent /\ Waiting /\ DoneOnce

LEMMA InitIInv == Init => IInv
<1> SUFFICES ASSUME Init PROVE IInv
    OBVIOUS
<1> USE ContextAssumption
<1>1. TypeOK
  <2>1. created_servers \in Table /\ created_clients \in Table
        BY DEF Init, Table
  <2>2. /\ created_subscribers \in Seq(Channel) /\ Len(created_subscribers) = 0
        /\ frames \in Seq(Frame) /\ Len(frames) = 0
        BY DEF Init
  <2>3. /\ buffer \in [Channel -> [Bytes -> 0 .. MaxFrame]]
        /\ handled \in [FrameNo -> Nat] /\ written \in [Channel -> 0 .. MaxFrame]
        BY DEF Init
  <2>4. /\ life = "running" /\ pc = "poll" /\ next = 1 /\ end = 0
        /\ subscriber = 0 /\ copied = {} /\ taken = 0 /\ due = {}
        BY DEF Init
  <2>5. MaxFrame \in Nat
        OBVIOUS
  <2>6. /\ subscriber \in 0 .. Len(created_subscribers) /\ taken \in 0 .. Len(frames)
        /\ Len(frames) <= MaxFrame /\ due \subseteq 1 .. taken /\ copied \subseteq Bytes
        BY <2>2, <2>4, <2>5
  <2>7. stop_flag \in BOOLEAN
        BY Zenon DEF Init
  <2>8. /\ life \in {"running", "stopping", "destroyed"}
        /\ pc \in {"poll", "got", "subscribers", "copy", "walk", "exited"}
        /\ pc \notin {"got", "subscribers", "copy", "walk"} /\ pc # "walk"
        /\ next \in Nat \ {0} /\ end \in Nat
        BY <2>4
  <2> QED
      BY <2>1, <2>2, <2>3, <2>6, <2>7, <2>8 DEF TypeOK
<1>2. OneInstancePerAddress
      BY DEF Init, OneInstancePerAddress, Unique
<1>3. AtCurrent /\ Waiting /\ DoneOnce
      BY DEF Init, AtCurrent, Waiting, DoneOnce, FrameNo
<1> QED
    BY <1>1, <1>2, <1>3 DEF IInv

(* The parts of the state that the invariant speaks of and most steps of   *)
(* the application leave alone.                                            *)
core == <<created_servers, created_clients, pc, next, end, subscriber, frames,
          taken, due, handled>>

LEMMA CoreUnchanged ==
    ASSUME IInv, UNCHANGED core
    PROVE  OneInstancePerAddress' /\ AtCurrent' /\ Waiting' /\ DoneOnce'
<1>1. OneInstancePerAddress'
      BY DEF IInv, core, OneInstancePerAddress, Unique
<1>2. AtCurrent'
      BY DEF IInv, core, AtCurrent, Matches, TableFor, Current
<1>3. Waiting'
      BY DEF IInv, core, Waiting, Registered, TableFor
<1>4. DoneOnce'
      BY DEF IInv, core, DoneOnce, Done
<1> QED
    BY <1>1, <1>2, <1>3, <1>4

(* A step that makes one of the tables longer.                             *)
LEMMA TablesGrow ==
    ASSUME IInv,
           created_servers' \in Table, created_clients' \in Table,
           Extends(created_servers', created_servers),
           Extends(created_clients', created_clients),
           UNCHANGED <<pc, next, end, subscriber, frames, taken, due, handled>>
    PROVE  AtCurrent' /\ Waiting' /\ DoneOnce'
<1> USE ContextAssumption
<1> DEFINE T2(f) == IF f.kind = "req" THEN created_servers' ELSE created_clients'
<1>1. created_servers \in Seq(Entry) /\ created_clients \in Seq(Entry)
      /\ created_servers' \in Seq(Entry) /\ created_clients' \in Seq(Entry)
      BY DEF IInv, TypeOK, Table, Entry
<1>2. ASSUME NEW f, NEW i \in 1 .. Len(TableFor(f))
      PROVE  /\ i \in 1 .. Len(T2(f)) /\ T2(f)[i] = TableFor(f)[i]
      BY <1>1, <1>2 DEF TableFor, Extends
<1>3. Waiting'
  <2>1. ASSUME NEW n \in due
        PROVE  Registered(T2(frames[n]), frames[n].to)
    <3> DEFINE t == TableFor(frames[n])
               u == T2(frames[n])
    <3>1. Registered(t, frames[n].to)
          BY DEF IInv, Waiting
    <3>2. t \in Seq(Entry) /\ u \in Seq(Entry)
          BY <1>1 DEF TableFor
    <3>3. \A i \in 1 .. Len(t) : i \in 1 .. Len(u) /\ u[i] = t[i]
          BY <1>2
    <3> HIDE DEF t, u
    <3>4. Registered(u, frames[n].to)
          BY <3>1, <3>2, <3>3 DEF Registered
    <3> QED
        BY <3>4 DEF u
  <2> QED
      BY <2>1 DEF IInv, Waiting, TableFor
<1>4. AtCurrent'
  <2>1. CASE pc # "walk"
        BY <2>1 DEF IInv, AtCurrent, Current
  <2>2. CASE pc = "walk"
    <3>1. end <= Len(TableFor(Current)) /\ end \in Nat /\ next \in Nat \ {0} /\ next <= end + 1
          /\ Len(TableFor(Current)) \in Nat
          BY <1>1, <2>2 DEF IInv, TypeOK, AtCurrent, TableFor
    <3>2. ASSUME NEW i \in 1 .. end
          PROVE  T2(Current)[i] = TableFor(Current)[i]
      <4>1. i \in 1 .. Len(TableFor(Current))
            BY <3>1
      <4> HIDE DEF T2
      <4> QED
          BY <4>1, <1>2
    <3>3. \A i \in 1 .. end : Matches(Current, i)' <=> Matches(Current, i)
          BY <3>2 DEF Matches, TableFor, Current
    <3>4. \A i \in 1 .. (next - 1) : Matches(Current, i)' <=> Matches(Current, i)
          BY <3>1, <3>3
    <3> QED
        BY <2>2, <3>3, <3>4 DEF IInv, AtCurrent, Current
  <2> QED
      BY <2>1, <2>2
<1>5. DoneOnce'
      BY DEF IInv, DoneOnce, Done
<1> QED
    BY <1>3, <1>4, <1>5

-----------------------------------------------------------------------------
(* Every step preserves the invariant.                                     *)

LEMMA StopFlagBoolean ==
    ASSUME TypeOK, [Next]_vars
    PROVE  stop_flag' \in BOOLEAN
<1>1. CASE stop_flag' = stop_flag
      BY <1>1, Zenon DEF TypeOK
<1>2. CASE stop_flag' = TRUE
      BY <1>2, Zenon
<1>3. stop_flag' = stop_flag \/ stop_flag' = TRUE
      BY DEF Next, vars, Application, ReceiveThread, makeServer, bindServer, bindChannel,
             beginRead, readByte, destroy, stop, spin, exit, recvPolling, handleRecv,
             walkSubscribers, foundSubscriber, copyByte, walkTable, walkEnds, Arrive
<1> QED
    BY <1>1, <1>2, <1>3

(* The application's steps on the tables. *)
LEMMA TableSteps ==
    ASSUME IInv, stop_flag' \in BOOLEAN,
           \/ \E a \in Servers : makeServer(a)
           \/ \E c \in Clients : bindServer(c[1], c[2])
    PROVE  IInv'
<1> USE ContextAssumption
<1> DEFINE Grown(t2, t1) == t2 \in Table /\ Extends(t2, t1) /\ Unique(t2)
<1>1. Grown(created_servers', created_servers) /\ Grown(created_clients', created_clients)
  <2>0. /\ created_servers \in Table /\ created_clients \in Table
        /\ Unique(created_servers) /\ Unique(created_clients)
        BY DEF IInv, TypeOK, OneInstancePerAddress
  <2>1. ASSUME NEW t \in Table PROVE Extends(t, t)
    <3>1. t \in Seq(Entry)
          BY DEF Table, Entry
    <3> QED
        BY <3>1 DEF Extends
  <2>2. ASSUME NEW a \in Servers, makeServer(a)
        PROVE  Grown(created_servers', created_servers) /\ Grown(created_clients', created_clients)
    <3>1. a \in Int /\ created_servers' = Register(created_servers, a, a)
          BY <2>2 DEF makeServer
    <3>2. created_clients' = created_clients
          BY <2>2 DEF makeServer
    <3> QED
        BY <2>0, <2>1, <3>1, <3>2, RegisterFacts
  <2>3. ASSUME NEW c \in Clients, bindServer(c[1], c[2])
        PROVE  Grown(created_servers', created_servers) /\ Grown(created_clients', created_clients)
    <3>1. c[1] \in Int /\ c[2] \in Int
          OBVIOUS
    <3>2. created_clients' = Register(created_clients, c[2], c[1])
          BY <2>3 DEF bindServer
    <3>3. created_servers' = created_servers
          BY <2>3 DEF bindServer
    <3> QED
        BY <2>0, <2>1, <3>1, <3>2, <3>3, RegisterFacts
  <2> QED
      BY <2>2, <2>3
<1>2. UNCHANGED <<life, created_subscribers, buffer, pc, next, end, subscriber, copied,
                  frames, taken, due, handled, written>>
      BY DEF makeServer, bindServer, appVars, threadVars, history
<1>3. AtCurrent' /\ Waiting' /\ DoneOnce'
      BY <1>1, <1>2, TablesGrow
<1>4. OneInstancePerAddress'
      BY <1>1 DEF OneInstancePerAddress
<1>5. (pc = "walk" => end <= Len(TableFor(Current)))'
  <2>1. /\ created_servers \in Seq(Entry) /\ created_clients \in Seq(Entry)
        /\ created_servers' \in Seq(Entry) /\ created_clients' \in Seq(Entry)
        BY <1>1 DEF IInv, TypeOK, Table, Entry
  <2>2. /\ Len(created_servers) <= Len(created_servers')
        /\ Len(created_clients) <= Len(created_clients')
        BY <1>1, <2>1 DEF Extends
  <2>3. Current' = Current
        BY <1>2 DEF Current
  <2>4. pc = "walk" => end <= Len(TableFor(Current)) /\ end \in Nat
        BY DEF IInv, TypeOK
  <2> QED
      BY <1>2, <2>1, <2>2, <2>3, <2>4 DEF TableFor
<1>6. TypeOK'
  <2>1. TypeOK
        BY DEF IInv
  <2> QED
      BY <1>1, <1>2, <1>5, <2>1 DEF TypeOK, Bytes, FrameNo
<1> QED
    BY <1>3, <1>4, <1>6 DEF IInv

(* The steps of the application and of the device that leave the tables of *)
(* servers and clients and the thread's place alone.                       *)
LEMMA OtherApplicationSteps ==
    ASSUME IInv, stop_flag' \in BOOLEAN,
           \/ \E c \in Channel : bindChannel(c)
           \/ \E k \in DOMAIN created_subscribers : beginRead(k)
           \/ \E k \in Bytes : readByte(k)
           \/ destroy
           \/ spin
           \/ UNCHANGED vars
    PROVE  IInv'
<1>1. UNCHANGED core /\ UNCHANGED <<buffer, copied, written>>
      BY DEF bindChannel, beginRead, readByte, destroy, spin, vars, core, appVars, tables,
             threadVars, history
<1>2. /\ created_subscribers' \in Seq(Channel)
      /\ Len(created_subscribers') >= Len(created_subscribers)
  <2>1. created_subscribers \in Seq(Channel)
        BY DEF IInv, TypeOK
  <2>2. ASSUME NEW c \in Channel, created_subscribers' = Append(created_subscribers, c)
        PROVE  /\ created_subscribers' \in Seq(Channel)
               /\ Len(created_subscribers') >= Len(created_subscribers)
        BY <2>1, <2>2
  <2>3. \/ created_subscribers' = created_subscribers
        \/ \E c \in Channel : created_subscribers' = Append(created_subscribers, c)
        BY DEF bindChannel, beginRead, readByte, destroy, spin, vars, tables
  <2> QED
      BY <2>1, <2>2, <2>3
<1>6. life' \in {"running", "stopping", "destroyed"}
      BY DEF bindChannel, beginRead, readByte, destroy, spin, vars, appVars, IInv, TypeOK
<1>3. (pc = "walk" => end <= Len(TableFor(Current)))'
      BY <1>1 DEF core, IInv, TypeOK, TableFor, Current
<1>4. subscriber' \in 0 .. Len(created_subscribers')
      BY <1>1, <1>2 DEF core, IInv, TypeOK
<1>5. TypeOK'
      BY <1>1, <1>2, <1>3, <1>4, <1>6 DEF core, IInv, TypeOK, Bytes, FrameNo
<1> QED
    BY <1>1, <1>5, CoreUnchanged DEF IInv

(* A frame that arrives is behind all that were taken. *)
LEMMA ArriveStep ==
    ASSUME IInv, stop_flag' \in BOOLEAN, NEW f \in Frame, Arrive(f)
    PROVE  IInv'
<1> USE ContextAssumption
<1>1. /\ frames \in Seq(Frame) /\ taken \in 0 .. Len(frames) /\ due \subseteq 1 .. taken
      /\ frames' = Append(frames, f) /\ Len(frames) < MaxFrame
      BY DEF IInv, TypeOK, Arrive
<1>2. /\ frames' \in Seq(Frame) /\ Len(frames') = Len(frames) + 1
      /\ \A n \in 1 .. Len(frames) : frames'[n] = frames[n]
      BY <1>1
<1>3. UNCHANGED <<life, tables, buffer, threadVars, history>>
      BY DEF Arrive, appVars
<1> DEFINE walk == pc = "walk" => end <= Len(TableFor(Current))
<1>4. taken >= 1 => Current' = Current
      BY <1>1, <1>2, <1>3 DEF Current, history
<1>5. pc \in {"got", "subscribers", "copy", "walk"} => taken >= 1 /\ Current' = Current
      BY <1>4 DEF IInv, TypeOK
<1>6. walk'
      BY <1>3, <1>5 DEF IInv, TypeOK, threadVars, tables, TableFor
<1>7. TypeOK'
  <2>1. TypeOK
        BY DEF IInv
  <2>2. /\ frames' \in Seq(Frame) /\ Len(frames') <= MaxFrame
        /\ taken' \in 0 .. Len(frames') /\ due' \subseteq 1 .. taken'
        BY <1>1, <1>2, <1>3 DEF history
  <2>3. pc' \in {"got", "subscribers", "copy", "walk"} => taken' >= 1
        BY <1>3, <1>5 DEF threadVars, history
  <2>4. UNCHANGED <<life, tables, buffer, threadVars, handled, written>>
        BY <1>3 DEF history
  <2> QED
      BY <1>6, <2>1, <2>2, <2>3, <2>4 DEF TypeOK, threadVars, tables, Bytes, FrameNo
<1>8. OneInstancePerAddress'
      BY <1>3 DEF IInv, OneInstancePerAddress, Unique, tables
<1>9. AtCurrent'
      BY <1>3, <1>5 DEF IInv, AtCurrent, Matches, TableFor, threadVars, tables, history
<1>10. Waiting'
  <2>1. UNCHANGED <<taken, due, handled, created_servers, created_clients>>
        BY <1>3 DEF tables, history
  <2>2. \A n \in FrameNo : n > taken => handled[n] = 0
        BY DEF IInv, Waiting
  <2>3. ASSUME NEW n \in due
        PROVE  frames'[n] = frames[n]
        BY <1>1, <1>2
  <2>4. ASSUME NEW n \in due
        PROVE  (frames[n].kind # "msg" /\ Registered(TableFor(frames[n]), frames[n].to))'
    <3>1. frames[n].kind # "msg" /\ Registered(TableFor(frames[n]), frames[n].to)
          BY DEF IInv, Waiting
    <3> QED
        BY <2>1, <2>3, <3>1 DEF Registered, TableFor
  <2> QED
      BY <2>1, <2>2, <2>4 DEF Waiting
<1>11. DoneOnce'
      BY <1>3 DEF IInv, DoneOnce, Done, threadVars, history
<1> QED
    BY <1>7, <1>8, <1>9, <1>10, <1>11 DEF IInv

(* What the steps of the thread leave alone. *)
threadKeeps == <<life, tables, frames>>

LEMMA ThreadKeeps ==
    ASSUME IInv, ReceiveThread
    PROVE  UNCHANGED threadKeeps /\ OneInstancePerAddress'
<1>1. UNCHANGED threadKeeps
      BY DEF threadKeeps, ReceiveThread, exit, recvPolling, handleRecv, walkSubscribers,
             foundSubscriber, copyByte, walkTable, walkEnds, appVars
<1>2. OneInstancePerAddress'
      BY <1>1 DEF threadKeeps, tables, IInv, OneInstancePerAddress, Unique
<1> QED
    BY <1>1, <1>2

(* A frame is taken from the device. *)
LEMMA PollStep ==
    ASSUME IInv, stop_flag' \in BOOLEAN, recvPolling, OneInstancePerAddress'
    PROVE  IInv'
<1> USE ContextAssumption
<1> DEFINE n == taken + 1
<1>1. /\ pc = "poll" /\ taken' = n /\ pc' = "got" /\ taken < Len(frames)
      /\ due' = IF frames[n].kind # "msg" /\ Registered(TableFor(frames[n]), frames[n].to)
                THEN due \cup {n} ELSE due
      /\ UNCHANGED <<life, tables, buffer, next, end, subscriber, copied, frames, handled, written>>
      BY DEF recvPolling, appVars
<1>2. /\ taken \in Nat /\ n \in 1 .. Len(frames) /\ n \in FrameNo /\ due \subseteq 1 .. taken
      /\ Len(frames) \in Nat
  <2>1. /\ frames \in Seq(Frame) /\ Len(frames) <= MaxFrame /\ taken \in 0 .. Len(frames)
        /\ due \subseteq 1 .. taken
        BY DEF IInv, TypeOK
  <2>2. Len(frames) \in Nat /\ MaxFrame \in Nat
        BY <2>1 DEF ContextAssumption
  <2>3. taken \in Nat /\ n \in 1 .. Len(frames) /\ n \in 1 .. MaxFrame
        BY <1>1, <2>1, <2>2
  <2> QED
      BY <2>1, <2>2, <2>3 DEF FrameNo
<1>3. due' \subseteq 1 .. n
  <2>1. due' = due \/ due' = due \cup {n}
        BY <1>1
  <2>2. n \in 1 .. n /\ \A k \in 1 .. taken : k \in 1 .. n
        BY <1>2
  <2> HIDE DEF n
  <2> QED
      BY <1>2, <2>1, <2>2
<1>4. TypeOK'
  <2>1. TypeOK
        BY DEF IInv
  <2>2. /\ taken' \in 0 .. Len(frames) /\ due' \subseteq 1 .. taken' /\ taken' >= 1
        BY <1>1, <1>2, <1>3
  <2>3. /\ pc' \in {"poll", "got", "subscribers", "copy", "walk", "exited"}
        /\ pc' # "walk"
        BY <1>1
  <2>4. UNCHANGED <<life, tables, buffer, next, end, subscriber, copied, frames, handled, written>>
        BY <1>1
  <2> QED
      BY <2>1, <2>2, <2>3, <2>4 DEF TypeOK, tables, Bytes, FrameNo
<1>5. handled[n] = 0
      BY <1>2 DEF IInv, Waiting
<1>6. AtCurrent'
      BY <1>1, <1>5 DEF AtCurrent
<1>7. Waiting'
      BY <1>1, <1>2 DEF IInv, Waiting, Registered, TableFor, tables, FrameNo
<1>8. DoneOnce'
  <2>1. ASSUME NEW k \in 1 .. taken', Done(k)'
        PROVE  (handled[k] <= 1 /\ (k \in due => handled[k] = 1))'
    <3>1. k \in 1 .. taken /\ Done(k)
          BY <1>1, <1>2, <2>1 DEF Done
    <3>2. k \in due' => k \in due
          BY <1>1, <1>2, <3>1
    <3> QED
        BY <1>1, <3>1, <3>2 DEF IInv, DoneOnce
  <2> QED
      BY <2>1 DEF DoneOnce
<1> QED
    BY <1>4, <1>6, <1>7, <1>8 DEF IInv

(* The frame goes to one of the contexts. *)
LEMMA DispatchStep ==
    ASSUME IInv, stop_flag' \in BOOLEAN, handleRecv, OneInstancePerAddress'
    PROVE  IInv'
<1>1. /\ pc = "got" /\ next' = 1
      /\ UNCHANGED <<life, tables, buffer, copied, frames, taken, due, handled, written>>
      BY DEF handleRecv, appVars, history
<1>2. /\ taken \in 1 .. Len(frames) /\ handled[taken] = 0 /\ due \subseteq 1 .. taken
      /\ created_servers \in Seq(Entry) /\ created_clients \in Seq(Entry)
      BY <1>1 DEF IInv, TypeOK, AtCurrent, Table, Entry
<1>3. Current' = Current
      BY <1>1 DEF Current
<1>4. ASSUME TakesMessage(Current)
      PROVE  pc' = "subscribers" /\ subscriber' = 0 /\ end' = end /\ Current.kind = "msg"
      BY <1>4 DEF handleRecv, TakesMessage
<1>5. ASSUME ~ TakesMessage(Current)
      PROVE  /\ pc' = "walk" /\ end' = Len(TableFor(Current)) /\ subscriber' = subscriber
             /\ Current.kind # "msg"
      BY <1>5 DEF handleRecv, TakesMessage, EndOf
<1>6. TableFor(Current)' = TableFor(Current) /\ Len(TableFor(Current)) \in Nat
      BY <1>1, <1>2, <1>3 DEF TableFor, tables
<1>7. TypeOK'
  <2>1. TypeOK
        BY DEF IInv
  <2>2. /\ end' \in Nat /\ subscriber' \in 0 .. Len(created_subscribers)
        /\ pc' \in {"subscribers", "walk"}
        /\ pc' = "walk" => end' <= Len(TableFor(Current)')
        BY <1>4, <1>5, <1>6, <2>1 DEF TypeOK
  <2>3. taken >= 1 /\ next' \in Nat \ {0}
        BY <1>1, <1>2
  <2> QED
      BY <1>1, <2>1, <2>2, <2>3 DEF TypeOK, tables, Bytes, FrameNo
<1>8. taken \in due => \E i \in 1 .. Len(TableFor(Current)) : Matches(Current, i)
  <2>1. TableFor(Current) \in Seq(Entry)
        BY <1>2 DEF TableFor
  <2>2. taken \in due => Registered(TableFor(Current), Current.to)
        BY DEF IInv, Waiting, Current
  <2> QED
      BY <2>1, <2>2 DEF Registered, Matches
<1>9. AtCurrent'
  <2>1. CASE TakesMessage(Current)
        BY <1>1, <1>2, <1>3, <1>4, <2>1 DEF AtCurrent
  <2>2. CASE ~ TakesMessage(Current)
    <3>1. \A i : Matches(Current, i)' = Matches(Current, i)
          BY <1>1, <1>3, <1>6 DEF Matches
    <3>2. pc' = "walk" /\ end' = Len(TableFor(Current)) /\ Current.kind # "msg"
          BY <1>5, <2>2
    <3>3. next' <= end' + 1 /\ 1 .. (next' - 1) = {}
          BY <1>1, <1>6, <3>2
    <3> QED
        BY <1>1, <1>2, <1>3, <1>8, <3>1, <3>2, <3>3 DEF AtCurrent
  <2> QED
      BY <2>1, <2>2
<1>10. Waiting'
      BY <1>1 DEF IInv, Waiting, Registered, TableFor, tables
<1>11. DoneOnce'
  <2>1. pc' \notin {"poll", "exited"}
        BY <1>4, <1>5
  <2> QED
      BY <1>1, <2>1 DEF IInv, DoneOnce, Done
<1> QED
    BY <1>7, <1>9, <1>10, <1>11 DEF IInv

(* Between two frames, and among the subscribers. *)
LEMMA MessageSteps ==
    ASSUME IInv, stop_flag' \in BOOLEAN, OneInstancePerAddress',
           exit \/ walkSubscribers \/ foundSubscriber \/ \E k \in Bytes : copyByte(k)
    PROVE  IInv'
<1> USE ContextAssumption
<1>1. /\ UNCHANGED <<life, tables, frames, taken, due, handled, end>>
      /\ pc \in {"poll", "subscribers", "copy"}
      /\ pc = "poll" => pc' = "exited"
      /\ pc' \in {"poll", "subscribers", "copy", "exited"}
      /\ pc' \in {"subscribers", "copy"} => pc \in {"subscribers", "copy"}
      BY DEF exit, walkSubscribers, foundSubscriber, copyByte, appVars, history
<1>2. UNCHANGED TableFor(Current) /\ Current' = Current
      BY <1>1 DEF TableFor, Current, tables
<1>3. TypeOK'
  <2>1. TypeOK
        BY DEF IInv
  <2>2. taken \in 1 .. Len(frames) \/ pc = "poll"
        BY <1>1, <2>1 DEF TypeOK
  <2>3. /\ next' \in Nat \ {0}
        /\ subscriber' \in 0 .. Len(created_subscribers)
        /\ copied' \subseteq Bytes
    <3>1. CASE walkSubscribers
      <4>1. /\ next' = next + 1 /\ copied' = copied /\ next <= Len(created_subscribers)
            /\ subscriber' = next \/ subscriber' = subscriber
            BY <3>1 DEF walkSubscribers
      <4> QED
          BY <2>1, <4>1 DEF TypeOK
    <3>2. CASE exit \/ foundSubscriber
      <4>1. next' = next /\ subscriber' = subscriber /\ (copied' = {} \/ copied' = copied)
            BY <3>2 DEF exit, foundSubscriber
      <4> QED
          BY <2>1, <4>1 DEF TypeOK
    <3>3. CASE \E k \in Bytes : copyByte(k)
      <4>1. next' = next /\ subscriber' = subscriber
            /\ \E k \in Bytes : copied' = copied \cup {k}
            BY <3>3 DEF copyByte
      <4> QED
          BY <2>1, <4>1 DEF TypeOK
    <3> QED
        BY <3>1, <3>2, <3>3
  <2>4. /\ buffer' \in [Channel -> [Bytes -> 0 .. MaxFrame]]
        /\ written' \in [Channel -> 0 .. MaxFrame]
    <3>1. CASE UNCHANGED <<buffer, written>>
          BY <2>1, <3>1 DEF TypeOK
    <3>2. ASSUME NEW k \in Bytes, copyByte(k)
          PROVE  /\ buffer' \in [Channel -> [Bytes -> 0 .. MaxFrame]]
                 /\ written' \in [Channel -> 0 .. MaxFrame]
      <4> DEFINE channel == created_subscribers[subscriber]
      <4>1. pc = "copy"
            BY <3>2 DEF copyByte
      <4>2. subscriber # 0
            BY <4>1 DEF IInv, AtCurrent
      <4>3. channel \in Channel /\ taken \in 0 .. MaxFrame
            BY <2>1, <4>2 DEF TypeOK
      <4>4. /\ buffer' = [buffer EXCEPT ![channel][k] = taken]
            /\ written' = written \/ written' = [written EXCEPT ![channel] = taken]
            BY <3>2 DEF copyByte
      <4> HIDE DEF channel
      <4> QED
          BY <2>1, <4>3, <4>4 DEF TypeOK
    <3> QED
        BY <3>1, <3>2 DEF exit, walkSubscribers, foundSubscriber, history
  <2>5. pc' # "walk" /\ (pc' \in {"got", "subscribers", "copy", "walk"} => taken >= 1)
        BY <1>1, <2>1 DEF TypeOK
  <2>6. pc' \in {"poll", "got", "subscribers", "copy", "walk", "exited"}
        BY <1>1
  <2> QED
      BY <1>1, <2>1, <2>3, <2>4, <2>5, <2>6 DEF TypeOK, tables, Bytes, FrameNo
<1>4. AtCurrent'
  <2>1. pc' = "copy" => subscriber' # 0
        BY DEF exit, walkSubscribers, foundSubscriber, copyByte, IInv, AtCurrent
  <2> QED
      BY <1>1, <1>2, <2>1 DEF IInv, AtCurrent
<1>5. Waiting'
      BY <1>1 DEF IInv, Waiting, Registered, TableFor, tables
<1>6. DoneOnce'
  <2>1. CASE pc = "poll"
        BY <1>1, <2>1 DEF IInv, DoneOnce, Done
  <2>2. CASE pc # "poll"
    <3>1. handled[taken] = 0 /\ Current.kind = "msg"
          BY <1>1, <2>2 DEF IInv, AtCurrent
    <3>2. taken \notin due
          BY <3>1 DEF IInv, Waiting, Current
    <3>3. taken \in Nat
          BY DEF IInv, TypeOK
    <3>4. ASSUME NEW n \in 1 .. taken, ~ Done(n)
          PROVE  n = taken
          BY <3>3, <3>4 DEF Done
    <3> QED
        BY <1>1, <3>1, <3>2, <3>4 DEF IInv, DoneOnce
  <2> QED
      BY <2>1, <2>2
<1> QED
    BY <1>3, <1>4, <1>5, <1>6 DEF IInv

(* One more entry of the table: it runs the handler if no entry before it  *)
(* did, since the addresses of a table are distinct.                       *)
LEMMA WalkSteps ==
    ASSUME IInv, stop_flag' \in BOOLEAN, OneInstancePerAddress', walkTable \/ walkEnds
    PROVE  IInv'
<1> USE ContextAssumption
<1> DEFINE t == TableFor(Current)
<1>1. /\ pc = "walk"
      /\ UNCHANGED <<life, tables, buffer, end, subscriber, copied, frames, taken, due, written>>
      BY DEF walkTable, walkEnds, appVars, history
<1>2. /\ taken \in 1 .. Len(frames) /\ Len(frames) \in Nat /\ taken \in FrameNo
      /\ next \in Nat \ {0} /\ end \in Nat /\ next <= end + 1
      /\ end <= Len(t) /\ Len(t) \in Nat /\ t \in Seq(Entry) /\ Current.kind # "msg"
      /\ handled \in [FrameNo -> Nat]
  <2>1. t \in Seq(Entry)
        BY DEF IInv, TypeOK, Table, Entry, TableFor
  <2> QED
      BY <1>1, <2>1 DEF IInv, TypeOK, AtCurrent, FrameNo
<1>3. \A i, j \in 1 .. end : Matches(Current, i) /\ Matches(Current, j) => i = j
  <2>1. Unique(t)
        BY DEF IInv, OneInstancePerAddress, TableFor
  <2>2. 1 .. end \subseteq DOMAIN t
        BY <1>2
  <2> QED
      BY <2>1, <2>2 DEF Unique, Matches
<1>4. /\ (\E i \in 1 .. (next - 1) : Matches(Current, i)) => handled[taken] = 1
      /\ (\A i \in 1 .. (next - 1) : ~ Matches(Current, i)) => handled[taken] = 0
      /\ taken \in due => \E i \in 1 .. end : Matches(Current, i)
      BY <1>1 DEF IInv, AtCurrent
<1>5. /\ UNCHANGED TableFor(Current) /\ Current' = Current
      /\ \A i : Matches(Current, i)' = Matches(Current, i)
      BY <1>1 DEF TableFor, Current, tables, Matches
<1>6. CASE walkTable
  <2>1. /\ next <= end /\ next' = next + 1 /\ pc' = "walk"
        /\ handled' = IF Matches(Current, next)
                      THEN [handled EXCEPT ![taken] = @ + 1] ELSE handled
        BY <1>1, <1>6 DEF walkTable, Matches
  <2>2. handled' \in [FrameNo -> Nat] /\ \A n \in FrameNo \ {taken} : handled'[n] = handled[n]
        BY <1>2, <2>1
  <2>3. /\ (\E i \in 1 .. next : Matches(Current, i)) => handled'[taken] = 1
        /\ (\A i \in 1 .. next : ~ Matches(Current, i)) => handled'[taken] = 0
    <3>1. CASE Matches(Current, next)
      <4>1. \A i \in 1 .. (next - 1) : ~ Matches(Current, i)
            BY <1>2, <1>3, <2>1, <3>1
      <4>2. handled'[taken] = 1
            BY <1>2, <1>4, <2>1, <3>1, <4>1
      <4>3. next \in 1 .. next
            BY <1>2
      <4> QED
          BY <3>1, <4>2, <4>3
    <3>2. CASE ~ Matches(Current, next)
      <4>1. handled' = handled
            BY <2>1, <3>2
      <4>2. 1 .. next = (1 .. (next - 1)) \cup {next}
            BY <1>2
      <4> QED
          BY <1>4, <3>2, <4>1, <4>2
    <3> QED
        BY <3>1, <3>2
  <2>4. TypeOK'
    <3>1. TypeOK
          BY DEF IInv
    <3>2. next' \in Nat \ {0}
          BY <1>2, <2>1
    <3>3. end' <= Len(TableFor(Current)')
          BY <1>1, <1>2, <1>5
    <3> QED
        BY <1>1, <1>2, <2>1, <2>2, <3>1, <3>2, <3>3 DEF TypeOK, tables, Bytes, FrameNo
  <2>5. AtCurrent'
    <3>1. next' <= end' + 1 /\ next' - 1 = next
          BY <1>1, <1>2, <2>1
    <3> QED
        BY <1>1, <1>2, <1>4, <1>5, <2>1, <2>3, <3>1 DEF AtCurrent
  <2>6. Waiting'
    <3>1. \A n \in FrameNo : n > taken => n \in FrameNo \ {taken}
          BY <1>2 DEF FrameNo
    <3> QED
        BY <1>1, <2>2, <3>1 DEF IInv, Waiting, Registered, TableFor, tables
  <2>7. DoneOnce'
    <3>1. ASSUME NEW n \in 1 .. taken, Done(n)'
          PROVE  n \in FrameNo \ {taken} /\ Done(n)
          BY <1>1, <1>2, <2>1, <3>1 DEF Done, FrameNo, IInv, TypeOK
    <3> QED
        BY <1>1, <2>2, <3>1 DEF IInv, DoneOnce
  <2> QED
      BY <2>4, <2>5, <2>6, <2>7 DEF IInv
<1>7. CASE walkEnds
  <2>1. pc' = "poll" /\ next' = next /\ next > end /\ handled' = handled
        BY <1>7 DEF walkEnds, history
  <2>2. next - 1 = end
        BY <1>2, <2>1
  <2>3. handled[taken] <= 1 /\ (taken \in due => handled[taken] = 1)
        BY <1>2, <1>4, <2>2
  <2>4. TypeOK'
    <3>1. TypeOK
          BY DEF IInv
    <3> QED
        BY <1>1, <1>2, <2>1, <3>1 DEF TypeOK, tables, Bytes, FrameNo
  <2>5. AtCurrent'
        BY <2>1 DEF AtCurrent
  <2>6. Waiting'
        BY <1>1, <2>1 DEF IInv, Waiting, Registered, TableFor, tables
  <2>7. DoneOnce'
    <3>1. ASSUME NEW n \in 1 .. taken, n # taken
          PROVE  Done(n)
          BY <1>2, <3>1 DEF Done
    <3> QED
        BY <1>1, <2>1, <2>3, <3>1 DEF IInv, DoneOnce
  <2> QED
      BY <2>4, <2>5, <2>6, <2>7 DEF IInv
<1> QED
    BY <1>6, <1>7

LEMMA NextIInv ==
    IInv /\ [Next]_vars => IInv'
<1> SUFFICES ASSUME IInv, [Next]_vars PROVE IInv'
    OBVIOUS
<1>1. stop_flag' \in BOOLEAN
      BY StopFlagBoolean DEF IInv
<1>2. CASE ReceiveThread
  <2>1. OneInstancePerAddress'
        BY <1>2, ThreadKeeps
  <2> QED
      BY <1>1, <1>2, <2>1, PollStep, DispatchStep, MessageSteps, WalkSteps DEF ReceiveThread
<1>3. CASE Application
      BY <1>1, <1>3, TableSteps, OtherApplicationSteps DEF Application
<1>4. CASE \E f \in Frame : Arrive(f)
      BY <1>1, <1>4, ArriveStep
<1>5. CASE UNCHANGED vars
      BY <1>1, <1>5, OtherApplicationSteps
<1> QED
    BY <1>2, <1>3, <1>4, <1>5 DEF Next

-----------------------------------------------------------------------------
(* The theorems.                                                           *)

LEMMA Invariance == Spec => []IInv
<1> QED
    BY InitIInv, NextIInv, PTL DEF Spec

(* The types of the context's state, and that no walk over a table leads   *)
(* beyond its end.  Code: makeServer, bindServer, bindChannel,             *)
(* Context::recvPolling, the two __handleRecv.                             *)
THEOREM TypeCorrect == Spec => []TypeOK
<1>1. IInv => TypeOK
      BY DEF IInv
<1> QED
    BY <1>1, Invariance, PTL

(* One server and one client of an address, in any context.  Code:         *)
(* makeServer, bindServer.                                                 *)
THEOREM RegistryUnique == Spec => []OneInstancePerAddress
<1>1. IInv => OneInstancePerAddress
      BY DEF IInv
<1> QED
    BY <1>1, Invariance, PTL

(* Whatever the application adds while the thread walks its tables, and    *)
(* however many frames arrive, a frame runs one handler if its server or   *)
(* client existed when it was read, and never two.  Code: recvPolling,     *)
(* ServiceContext::__handleRecv, makeServer, bindServer.                   *)
THEOREM DispatchedOnce == Spec => []HandledOnce
<1>1. IInv => HandledOnce
  <2> SUFFICES ASSUME IInv, NEW n \in 1 .. taken
               PROVE  handled[n] <= 1 /\ (Done(n) /\ n \in due => handled[n] = 1)
      BY DEF HandledOnce
  <2>1. taken \in 0 .. Len(frames) /\ taken \in Nat
        BY DEF IInv, TypeOK
  <2>2. CASE Done(n)
        BY <2>2 DEF IInv, DoneOnce
  <2>3. CASE ~ Done(n)
    <3>1. n = taken /\ pc \in {"got", "subscribers", "copy", "walk"}
          BY <2>1, <2>3 DEF Done, IInv, TypeOK
    <3>2. handled[taken] = 0 \/ handled[taken] = 1
      <4>1. CASE pc = "walk"
            BY <4>1 DEF IInv, AtCurrent
      <4>2. CASE pc # "walk"
            BY <3>1, <4>2 DEF IInv, AtCurrent
      <4> QED
          BY <4>1, <4>2
    <3> QED
        BY <2>3, <3>1, <3>2
  <2> QED
      BY <2>2, <2>3
<1> QED
    BY <1>1, Invariance, PTL

-----------------------------------------------------------------------------
(* The buffers: what a read may return while the receive thread copies,    *)
(* and what the destructor leaves.                                         *)

(* A buffer holds its last complete message, up to the bytes that the      *)
(* thread has copied of the next one.                                      *)
Contents ==
    \A c \in Channel, k \in Bytes :
      buffer[c][k] = IF Copying(c) /\ k \in copied THEN taken ELSE written[c]

IsMessage(n, channel) == frames[n].kind = "msg" /\ frames[n].to = channel

(* What was written came in a message for its channel, not after the       *)
(* current frame; the subscriber that was found is the current frame's.    *)
Origin ==
    /\ \A c \in Channel : written[c] <= taken /\ (written[c] > 0 => IsMessage(written[c], c))
    /\ pc \in {"subscribers", "copy"} /\ subscriber # 0
         => created_subscribers[subscriber] = Current.to
    /\ pc = "copy" => copied # Bytes

(* The thread is gone when the tables are. *)
Order == life = "destroyed" => pc = "exited"

BufferInv == Contents /\ Origin /\ Order

(* What a read has got so far. *)
ReadType ==
    /\ reading.channel \in Channel \cup {0}
    /\ DOMAIN reading.got \subseteq Bytes
    /\ reading.oldest \in Nat
    /\ \A k \in DOMAIN reading.got : reading.got[k] \in 0 .. taken

Fresh == reading.channel \in Channel => reading.oldest <= written[reading.channel]

Regular ==
    \A k \in DOMAIN reading.got :
      /\ reading.got[k] >= reading.oldest
      /\ reading.got[k] > 0 => IsMessage(reading.got[k], reading.channel)

(* Nothing has been copied into the channel since a read began that is     *)
(* alone and goes on.                                                      *)
Undisturbed ==
    reading.alone /\ reading.channel \in Channel /\ ~ Finished(reading)
      => written[reading.channel] = reading.oldest /\ ~ Copying(reading.channel)

ReadInv == ReadType /\ Fresh /\ Regular /\ Undisturbed /\ WholeWhenAlone

-----------------------------------------------------------------------------
(* Steps that copy nothing.                                                *)

LEMMA InitBuffers == Init => BufferInv /\ ReadInv
<1> SUFFICES ASSUME Init PROVE BufferInv /\ ReadInv
    OBVIOUS
<1> USE ContextAssumption
<1>1. /\ pc = "poll" /\ life = "running" /\ taken = 0 /\ subscriber = 0
      /\ reading = NotReading
      /\ \A c \in Channel : written[c] = 0 /\ \A k \in Bytes : buffer[c][k] = 0
      BY DEF Init
<1>2. Contents /\ Origin /\ Order
      BY <1>1 DEF Contents, Copying, Origin, Order
<1>3. reading.channel = 0 /\ DOMAIN reading.got = {} /\ reading.oldest = 0
      BY <1>1 DEF NotReading
<1>4. ReadType /\ Fresh /\ Regular /\ Undisturbed /\ WholeWhenAlone
      BY <1>1, <1>3 DEF ReadType, Fresh, Regular, Undisturbed, WholeWhenAlone, Copying
<1> QED
    BY <1>2, <1>4 DEF BufferInv, ReadInv

(* A read goes on undisturbed while nothing is copied: frames that arrive  *)
(* or are taken do not change those that came before.                      *)
LEMMA ReadKept ==
    ASSUME IInv, BufferInv, ReadInv,
           UNCHANGED <<reading, written>>,
           taken' \in Nat, taken' >= taken,
           \A n \in 1 .. taken : frames'[n] = frames[n],
           \A c \in Channel : Copying(c)' => Copying(c)
    PROVE  ReadInv'
<1>1. taken \in Nat
      BY DEF IInv, TypeOK
<1>2. ReadType'
      BY <1>1 DEF ReadInv, ReadType
<1>3. Fresh'
      BY DEF ReadInv, Fresh
<1>4. Regular'
  <2> SUFFICES ASSUME NEW k \in DOMAIN reading.got
               PROVE  /\ reading.got[k] >= reading.oldest
                      /\ reading.got[k] > 0 => IsMessage(reading.got[k], reading.channel)'
      BY DEF Regular, IsMessage
  <2>1. reading.got[k] \in 0 .. taken
        BY DEF ReadInv, ReadType
  <2> QED
      BY <1>1, <2>1 DEF ReadInv, Regular, IsMessage
<1>5. Undisturbed'
      BY DEF ReadInv, Undisturbed, Finished
<1>6. WholeWhenAlone'
      BY DEF ReadInv, WholeWhenAlone
<1> QED
    BY <1>2, <1>3, <1>4, <1>5, <1>6 DEF ReadInv

(* The application and the device: the tables and the frames may grow.     *)
LEMMA QuietSteps ==
    ASSUME IInv, BufferInv, ReadInv,
           UNCHANGED <<pc, buffer, copied, subscriber, taken, written>>,
           Len(created_subscribers') >= Len(created_subscribers),
           \A k \in 1 .. Len(created_subscribers) : created_subscribers'[k] = created_subscribers[k],
           \A n \in 1 .. taken : frames'[n] = frames[n]
    PROVE  Contents' /\ Origin' /\ (UNCHANGED reading => ReadInv')
<1>1. /\ taken \in Nat /\ written \in [Channel -> Nat]
      /\ subscriber \in 0 .. Len(created_subscribers) /\ Len(created_subscribers) \in Nat
      /\ pc \in {"subscribers", "copy"} => taken >= 1
      BY DEF IInv, TypeOK
<1>2. subscriber # 0 => created_subscribers'[subscriber] = created_subscribers[subscriber]
      BY <1>1
<1>3. pc = "copy" => subscriber # 0
      BY DEF IInv, AtCurrent
<1>4. ASSUME NEW c PROVE Copying(c)' <=> Copying(c)
      BY <1>2, <1>3 DEF Copying
<1>5. Contents'
      BY <1>4 DEF BufferInv, Contents
<1>6. pc \in {"subscribers", "copy"} => Current' = Current
      BY <1>1 DEF Current
<1>7. ASSUME NEW c \in Channel
      PROVE  written'[c] <= taken' /\ (written'[c] > 0 => IsMessage(written[c], c)')
  <2>1. written[c] <= taken /\ (written[c] > 0 => IsMessage(written[c], c))
        BY DEF BufferInv, Origin
  <2>2. written[c] > 0 => frames'[written[c]] = frames[written[c]]
        BY <1>1, <2>1
  <2> QED
      BY <2>1, <2>2 DEF IsMessage
<1>8. Origin'
  <2>1. pc \in {"subscribers", "copy"} /\ subscriber # 0
          => created_subscribers[subscriber] = Current.to
        BY DEF BufferInv, Origin
  <2>2. (pc \in {"subscribers", "copy"} /\ subscriber # 0
           => created_subscribers[subscriber] = Current.to)'
        BY <1>2, <1>6, <2>1
  <2>3. (pc = "copy" => copied # Bytes)'
        BY DEF BufferInv, Origin, Bytes
  <2> QED
      BY <1>7, <2>2, <2>3 DEF Origin, IsMessage
<1>9. UNCHANGED reading => ReadInv'
      BY <1>1, <1>4, ReadKept
<1> QED
    BY <1>5, <1>8, <1>9

-----------------------------------------------------------------------------
(* Steps of the receive thread.                                            *)

(* Outside of copying: the buffers are what was written. *)
LEMMA ThreadQuietSteps ==
    ASSUME IInv, BufferInv, ReadInv,
           pc # "copy", pc' # "copy",
           UNCHANGED <<buffer, written, reading, frames>>,
           taken' \in Nat, taken' >= taken,
           (pc \in {"subscribers", "copy"} /\ subscriber # 0
              => created_subscribers[subscriber] = Current.to)'
    PROVE  Contents' /\ Origin' /\ ReadInv'
<1>1. taken \in Nat /\ written \in [Channel -> Nat]
      BY DEF IInv, TypeOK
<1>2. ASSUME NEW c PROVE ~ Copying(c) /\ ~ Copying(c)'
      BY DEF Copying
<1>3. Contents'
      BY <1>2 DEF BufferInv, Contents
<1>4. ASSUME NEW c \in Channel
      PROVE  written'[c] <= taken' /\ (written'[c] > 0 => IsMessage(written[c], c)')
  <2>1. written[c] <= taken /\ (written[c] > 0 => IsMessage(written[c], c))
        BY DEF BufferInv, Origin
  <2> QED
      BY <1>1, <2>1 DEF IsMessage
<1>5. Origin'
      BY <1>4 DEF Origin, IsMessage
<1>6. ReadInv'
      BY <1>2, ReadKept
<1> QED
    BY <1>3, <1>5, <1>6

LEMMA WalkingSteps ==
    ASSUME IInv, BufferInv, ReadInv,
           exit \/ recvPolling \/ handleRecv \/ walkSubscribers \/ walkTable \/ walkEnds
    PROVE  Contents' /\ Origin' /\ ReadInv'
<1>1. pc # "copy" /\ pc' # "copy"
      BY DEF exit, recvPolling, handleRecv, walkSubscribers, walkTable, walkEnds
<1>2. UNCHANGED <<buffer, written, reading, frames, created_subscribers>>
      BY DEF exit, recvPolling, handleRecv, walkSubscribers, walkTable, walkEnds, appVars,
             tables, history
<1>3. taken \in Nat
      BY DEF IInv, TypeOK
<1>4. taken' = taken \/ taken' = taken + 1
      BY DEF exit, recvPolling, handleRecv, walkSubscribers, walkTable, walkEnds, history
<1>5. (pc \in {"subscribers", "copy"} /\ subscriber # 0
         => created_subscribers[subscriber] = Current.to)'
  <2>1. CASE exit \/ recvPolling \/ walkTable \/ walkEnds
        BY <2>1 DEF exit, recvPolling, walkTable, walkEnds
  <2>2. CASE handleRecv
        BY <2>2 DEF handleRecv
  <2>3. CASE walkSubscribers
    <3>1. /\ Current' = Current /\ pc = "subscribers"
          /\ subscriber' = IF created_subscribers[next] = Current.to THEN next ELSE subscriber
          BY <1>2, <2>3 DEF walkSubscribers, Current, history
    <3>2. subscriber # 0 => created_subscribers[subscriber] = Current.to
          BY <3>1 DEF BufferInv, Origin
    <3> QED
        BY <1>2, <3>1, <3>2
  <2> QED
      BY <2>1, <2>2, <2>3
<1>6. taken' \in Nat /\ taken' >= taken
      BY <1>3, <1>4
<1> QED
    BY <1>1, <1>2, <1>5, <1>6, ThreadQuietSteps

(* The thread turns to a copy: a read of that channel is alone no more. *)
LEMMA FoundStep ==
    ASSUME IInv, BufferInv, ReadInv, foundSubscriber
    PROVE  Contents' /\ Origin' /\ ReadInv'
<1> USE ContextAssumption
<1>1. /\ pc = "subscribers" /\ copied' = {} /\ pc' \in {"poll", "copy"}
      /\ pc' = "copy" => subscriber # 0
      /\ UNCHANGED <<created_subscribers, buffer, subscriber, frames, taken, written>>
      BY DEF foundSubscriber, tables, history
<1>2. Current' = Current
      BY <1>1 DEF Current
<1>3. Contents'
      BY <1>1 DEF BufferInv, Contents, Copying
<1>4. Origin'
  <2>1. ASSUME NEW c \in Channel
        PROVE  written'[c] <= taken' /\ (written'[c] > 0 => IsMessage(written[c], c)')
        BY <1>1 DEF BufferInv, Origin, IsMessage
  <2>2. subscriber # 0 => created_subscribers[subscriber] = Current.to
        BY <1>1 DEF BufferInv, Origin
  <2>3. copied' # Bytes
    <3>1. 1 \in Bytes
          BY DEF Bytes
    <3> QED
        BY <1>1, <3>1
  <2> QED
      BY <1>1, <1>2, <2>1, <2>2, <2>3 DEF Origin, IsMessage, Bytes
<1> DEFINE touched == subscriber # 0 /\ reading.channel = created_subscribers[subscriber]
                      /\ ~ Finished(reading)
<1>5. CASE ~ touched
  <2>1. reading' = reading
        BY <1>5 DEF foundSubscriber
  <2>2. ReadType' /\ Fresh' /\ Regular' /\ WholeWhenAlone'
        BY <1>1, <2>1
        DEF ReadInv, ReadType, Fresh, Regular, WholeWhenAlone, IsMessage, Bytes
  <2>3. Undisturbed'
    <3>1. ~ Finished(reading) => ~ Copying(reading.channel)'
          BY <1>1, <1>5, <2>1 DEF Copying
    <3> QED
        BY <1>1, <2>1, <3>1 DEF ReadInv, Undisturbed, Finished, Bytes
  <2> QED
      BY <1>3, <1>4, <2>2, <2>3 DEF ReadInv
<1>6. CASE touched
  <2>1. reading' = [reading EXCEPT !.alone = FALSE]
        BY <1>6 DEF foundSubscriber
  <2>2. /\ reading'.channel = reading.channel /\ reading'.got = reading.got
        /\ reading'.oldest = reading.oldest /\ ~ reading'.alone
        BY <2>1
  <2>3. ReadType' /\ Fresh' /\ Regular'
        BY <1>1, <2>2 DEF ReadInv, ReadType, Fresh, Regular, IsMessage, Bytes
  <2>4. Undisturbed' /\ WholeWhenAlone'
        BY <2>2 DEF Undisturbed, WholeWhenAlone
  <2> QED
      BY <1>3, <1>4, <2>3, <2>4 DEF ReadInv
<1> QED
    BY <1>5, <1>6

(* A byte more: the last one makes the message the one that was written.   *)
LEMMA CopyStep ==
    ASSUME IInv, BufferInv, ReadInv, NEW b \in Bytes, copyByte(b)
    PROVE  Contents' /\ Origin' /\ ReadInv'
<1> DEFINE to == created_subscribers[subscriber]
<1>1. /\ pc = "copy" /\ b \notin copied
      /\ buffer' = [buffer EXCEPT ![to][b] = taken]
      /\ copied' = copied \cup {b}
      /\ IF copied' = Bytes THEN pc' = "poll" /\ written' = [written EXCEPT ![to] = taken]
                            ELSE pc' = pc /\ written' = written
      /\ UNCHANGED <<reading, created_subscribers, subscriber, frames, taken>>
      BY DEF copyByte, InFull, appVars, tables
<1>2. /\ taken \in Nat /\ taken >= 1 /\ copied \subseteq Bytes
      /\ written \in [Channel -> Nat]
      /\ buffer \in [Channel -> [Bytes -> 0 .. MaxFrame]]
      BY <1>1 DEF IInv, TypeOK
<1>3. subscriber # 0
      BY <1>1 DEF IInv, AtCurrent
<1>4. to \in Channel
      BY <1>2, <1>3 DEF IInv, TypeOK
<1>5. IsMessage(taken, to)
      BY <1>1, <1>3 DEF IInv, AtCurrent, BufferInv, Origin, IsMessage, Current
<1>6. \A c : Copying(c) <=> c = to
      BY <1>1 DEF Copying
<1>7. \A c : Copying(c)' <=> c = to /\ copied' # Bytes
      BY <1>1 DEF Copying
<1>8. \A c \in Channel : c # to => written'[c] = written[c]
      BY <1>1, <1>2
<1>9. copied' = Bytes => written'[to] = taken
      BY <1>1, <1>2, <1>4
<1>10. copied' # Bytes => written' = written
      BY <1>1
<1>11. \A c \in Channel, k \in Bytes :
         buffer'[c][k] = IF c = to /\ k = b THEN taken ELSE buffer[c][k]
      BY <1>1, <1>2
<1> HIDE DEF to
<1>12. ASSUME NEW c \in Channel, NEW k \in Bytes
       PROVE  buffer'[c][k] = IF Copying(c)' /\ k \in copied' THEN taken' ELSE written'[c]
  <2>1. buffer[c][k] = IF c = to /\ k \in copied THEN taken ELSE written[c]
        BY <1>6 DEF BufferInv, Contents
  <2>2. CASE c # to
        BY <1>7, <1>8, <1>11, <2>1, <2>2
  <2>3. CASE c = to /\ copied' = Bytes
        BY <1>1, <1>7, <1>9, <1>11, <2>1, <2>3
  <2>4. CASE c = to /\ copied' # Bytes
        BY <1>1, <1>7, <1>10, <1>11, <2>1, <2>4
  <2> QED
      BY <2>2, <2>3, <2>4
<1>13. Contents'
      BY <1>12 DEF Contents, Bytes
<1>14. ASSUME NEW c \in Channel
       PROVE  /\ written'[c] <= taken /\ written'[c] >= written[c]
              /\ written'[c] > 0 => IsMessage(written'[c], c)
  <2>1. /\ written[c] \in Nat /\ written[c] <= taken
        /\ written[c] > 0 => IsMessage(written[c], c)
        BY <1>2 DEF BufferInv, Origin
  <2> QED
      BY <1>2, <1>5, <1>8, <1>9, <1>10, <2>1
<1>15. Origin'
  <2>1. (pc \in {"subscribers", "copy"} /\ subscriber # 0
           => created_subscribers[subscriber] = Current.to)'
        BY <1>1 DEF BufferInv, Origin, Current
  <2> QED
      BY <1>1, <1>14, <2>1 DEF Origin, IsMessage, Bytes
<1>16. ReadType' /\ Regular' /\ WholeWhenAlone'
      BY <1>1 DEF ReadInv, ReadType, Regular, WholeWhenAlone, IsMessage, Bytes
<1>17. Fresh'
  <2> SUFFICES ASSUME reading.channel \in Channel
               PROVE  reading.oldest <= written'[reading.channel]
      BY <1>1 DEF Fresh
  <2>1. /\ reading.oldest <= written[reading.channel] /\ reading.oldest \in Nat
        /\ written[reading.channel] \in Nat /\ written'[reading.channel] <= taken
        /\ written'[reading.channel] >= written[reading.channel]
        BY <1>2, <1>14 DEF ReadInv, ReadType, Fresh
  <2>2. written'[reading.channel] \in Nat
        BY <1>2, <1>8, <1>9, <1>10
  <2> QED
      BY <2>1, <2>2
<1>18. Undisturbed'
      BY <1>1, <1>6, <1>7, <1>8 DEF ReadInv, Undisturbed, Finished, Bytes
<1> QED
    BY <1>13, <1>15, <1>16, <1>17, <1>18 DEF ReadInv

-----------------------------------------------------------------------------
(* Steps of a read.                                                        *)

LEMMA BeginStep ==
    ASSUME IInv, BufferInv, ReadInv, NEW k \in DOMAIN created_subscribers, beginRead(k)
    PROVE  ReadInv'
<1> DEFINE channel == created_subscribers[k]
<1>1. /\ reading'.channel = channel /\ reading'.oldest = written[channel]
      /\ DOMAIN reading'.got = {}
      BY DEF beginRead, NotReading
<1>2. reading'.alone => ~ Copying(channel)
  <2>1. reading' = [channel |-> channel, got |-> [j \in {} |-> 0],
                    oldest |-> written[channel], alone |-> ~ Copying(channel)]
        BY DEF beginRead, NotReading
  <2> QED
      BY <2>1
<1>3. UNCHANGED <<pc, created_subscribers, subscriber, frames, taken, written, copied>>
      BY DEF beginRead, tables, threadVars, history
<1>4. channel \in Channel /\ written \in [Channel -> Nat]
      BY DEF IInv, TypeOK
<1> HIDE DEF channel
<1>5. ReadType' /\ Fresh'
      BY <1>1, <1>3, <1>4 DEF ReadType, Fresh
<1>6. Regular' /\ WholeWhenAlone'
      BY <1>1 DEF Regular, WholeWhenAlone
<1>7. Undisturbed'
      BY <1>1, <1>2, <1>3 DEF Undisturbed, Copying
<1> QED
    BY <1>5, <1>6, <1>7 DEF ReadInv

(* A byte comes from the last complete message or from the one that is     *)
(* being copied.                                                           *)
LEMMA ByteStep ==
    ASSUME IInv, BufferInv, ReadInv, NEW b \in Bytes, readByte(b)
    PROVE  ReadInv'
<1> DEFINE channel == reading.channel
           value   == buffer[channel][b]
<1>1. /\ channel # 0 /\ b \notin DOMAIN reading.got
      /\ reading' = [reading EXCEPT !.got = [j \in DOMAIN @ \cup {b} |-> IF j = b THEN value ELSE @[j]]]
      /\ UNCHANGED <<pc, created_subscribers, subscriber, frames, taken, written, copied, buffer>>
      BY DEF readByte, tables, threadVars, history
<1>2. channel \in Channel /\ DOMAIN reading.got \subseteq Bytes
      BY <1>1 DEF ReadInv, ReadType
<1>3. /\ taken \in Nat /\ written \in [Channel -> Nat]
      /\ pc = "copy" => taken >= 1
      BY DEF IInv, TypeOK
<1>4. value = IF Copying(channel) /\ b \in copied THEN taken ELSE written[channel]
      BY <1>2 DEF BufferInv, Contents
<1>5. written[channel] <= taken /\ (written[channel] > 0 => IsMessage(written[channel], channel))
      BY <1>2 DEF BufferInv, Origin
<1>6. Copying(channel) => IsMessage(taken, channel)
      BY DEF IInv, AtCurrent, BufferInv, Origin, IsMessage, Current, Copying
<1>7. reading.oldest <= written[channel] /\ reading.oldest \in Nat
      BY <1>2 DEF ReadInv, ReadType, Fresh
<1> HIDE DEF value
<1>8. /\ value \in 0 .. taken /\ value >= reading.oldest
      /\ value > 0 => IsMessage(value, channel)
      BY <1>2, <1>3, <1>4, <1>5, <1>6, <1>7
<1>9. /\ reading'.channel = channel /\ reading'.oldest = reading.oldest
      /\ DOMAIN reading'.got = DOMAIN reading.got \cup {b}
      /\ \A j \in DOMAIN reading'.got :
           reading'.got[j] = IF j = b THEN value ELSE reading.got[j]
      BY <1>1
<1>10. reading'.alone => reading.alone
      BY <1>1
<1> HIDE DEF channel
<1>11. ReadType' /\ Fresh' /\ Regular'
  <2>1. ReadType'
        BY <1>1, <1>2, <1>7, <1>8, <1>9 DEF channel, ReadInv, ReadType, Bytes
  <2>2. Fresh'
        BY <1>1, <1>7, <1>9 DEF Fresh
  <2>3. Regular'
        BY <1>1, <1>8, <1>9 DEF channel, ReadInv, Regular, IsMessage
  <2> QED
      BY <2>1, <2>2, <2>3
<1>12. reading.alone => written[channel] = reading.oldest /\ ~ Copying(channel)
      BY <1>1, <1>2 DEF channel, ReadInv, Undisturbed, Finished
<1>13. WholeWhenAlone' /\ Undisturbed'
  <2>1. reading'.alone => value = reading.oldest
        BY <1>4, <1>10, <1>12
  <2>2. WholeWhenAlone'
        BY <1>9, <1>10, <2>1 DEF ReadInv, WholeWhenAlone
  <2>3. Undisturbed'
        BY <1>1, <1>9, <1>10, <1>12 DEF Undisturbed, Copying
  <2> QED
      BY <2>2, <2>3
<1> QED
    BY <1>11, <1>13 DEF ReadInv

-----------------------------------------------------------------------------
(* Every step preserves the invariant.                                     *)

(* The application and the device. *)
LEMMA ApplicationSteps ==
    ASSUME IInv, BufferInv, ReadInv,
           Application \/ (\E f \in Frame : Arrive(f)) \/ UNCHANGED vars
    PROVE  Contents' /\ Origin' /\ ReadInv'
<1>1. /\ UNCHANGED <<pc, buffer, copied, subscriber, taken, written>>
      /\ \/ UNCHANGED created_subscribers
         \/ \E c \in Channel : created_subscribers' = Append(created_subscribers, c)
      /\ frames' = frames \/ \E f \in Frame : frames' = Append(frames, f)
      BY DEF Application, makeServer, bindServer, bindChannel, beginRead, readByte, destroy, spin,
             Arrive, vars, appVars, tables, threadVars, history
<1>2. /\ created_subscribers \in Seq(Channel) /\ frames \in Seq(Frame)
      /\ taken \in 0 .. Len(frames)
      BY DEF IInv, TypeOK
<1>3. /\ Len(created_subscribers') >= Len(created_subscribers)
      /\ \A k \in 1 .. Len(created_subscribers) :
           created_subscribers'[k] = created_subscribers[k]
  <2>1. CASE UNCHANGED created_subscribers
        BY <1>2, <2>1
  <2>2. ASSUME NEW c \in Channel, created_subscribers' = Append(created_subscribers, c)
        PROVE  /\ Len(created_subscribers') >= Len(created_subscribers)
               /\ \A k \in 1 .. Len(created_subscribers) :
                    created_subscribers'[k] = created_subscribers[k]
        BY <1>2, <2>2
  <2> QED
      BY <1>1, <2>1, <2>2
<1>4. \A n \in 1 .. taken : frames'[n] = frames[n]
  <2>1. CASE frames' = frames
        BY <2>1
  <2>2. ASSUME NEW f \in Frame, frames' = Append(frames, f)
        PROVE  \A n \in 1 .. taken : frames'[n] = frames[n]
        BY <1>2, <2>2
  <2> QED
      BY <1>1, <2>1, <2>2
<1>5. Contents' /\ Origin' /\ (UNCHANGED reading => ReadInv')
      BY <1>1, <1>3, <1>4, QuietSteps
<1>6. \/ UNCHANGED reading
      \/ \E k \in DOMAIN created_subscribers : beginRead(k)
      \/ \E b \in Bytes : readByte(b)
      BY DEF Application, makeServer, bindServer, bindChannel, destroy, spin, Arrive, vars, appVars
<1>7. ReadInv'
      BY <1>5, <1>6, BeginStep, ByteStep
<1> QED
    BY <1>5, <1>7

(* The destructor waits, and the thread takes no step once it is out of    *)
(* its loop.                                                               *)
LEMMA OrderKept ==
    ASSUME Order, [Next]_vars
    PROVE  Order'
<1>1. CASE life' = life /\ pc' = pc
      BY <1>1 DEF Order
<1>2. CASE spin
      BY <1>2 DEF Order, spin, joined, threadVars
<1>3. CASE destroy
      BY <1>3 DEF Order, destroy
<1>4. CASE ReceiveThread
  <2>1. pc # "exited" /\ life' = life
        BY <1>4 DEF ReceiveThread, exit, recvPolling, handleRecv, walkSubscribers,
                    foundSubscriber, copyByte, walkTable, walkEnds, appVars
  <2> QED
      BY <2>1 DEF Order
<1>5. \/ life' = life /\ pc' = pc
      \/ spin \/ destroy \/ ReceiveThread
      BY DEF Next, vars, Application, makeServer, bindServer, bindChannel, beginRead, readByte,
             Arrive, appVars, threadVars
<1> QED
    BY <1>1, <1>2, <1>3, <1>4, <1>5

LEMMA NextBuffers ==
    IInv /\ BufferInv /\ ReadInv /\ [Next]_vars => BufferInv' /\ ReadInv'
<1> SUFFICES ASSUME IInv, BufferInv, ReadInv, [Next]_vars
             PROVE  BufferInv' /\ ReadInv'
    OBVIOUS
<1>1. Order'
      BY OrderKept DEF BufferInv
<1>2. CASE ReceiveThread
      BY <1>1, <1>2, WalkingSteps, FoundStep, CopyStep DEF ReceiveThread, BufferInv
<1>3. CASE Application \/ (\E f \in Frame : Arrive(f)) \/ UNCHANGED vars
      BY <1>1, <1>3, ApplicationSteps DEF BufferInv
<1> QED
    BY <1>2, <1>3 DEF Next

LEMMA BufferInvariance == Spec => [](IInv /\ BufferInv /\ ReadInv)
<1>1. Init => IInv /\ BufferInv /\ ReadInv
      BY InitIInv, InitBuffers
<1>2. (IInv /\ BufferInv /\ ReadInv) /\ [Next]_vars => (IInv /\ BufferInv /\ ReadInv)'
      BY NextIInv, NextBuffers
<1> QED
    BY <1>1, <1>2, PTL DEF Spec

-----------------------------------------------------------------------------
(* The theorems.                                                           *)

(* Whenever the destructor returns, no message is left half copied and no  *)
(* frame that was due without its handler.  Code: ~Context, stop, spin,    *)
(* the thread's loop.                                                      *)
THEOREM NothingLeftHalfDone == Spec => []NothingHalfDone
<1>1. IInv /\ BufferInv => NothingHalfDone
  <2> SUFFICES ASSUME IInv, BufferInv, life = "destroyed"
               PROVE  /\ \A c \in Channel, k \in Bytes : buffer[c][k] = written[c]
                      /\ \A n \in due : handled[n] = 1
      BY DEF NothingHalfDone
  <2>1. pc = "exited"
        BY DEF BufferInv, Order
  <2>2. \A c \in Channel, k \in Bytes : buffer[c][k] = written[c]
        BY <2>1 DEF BufferInv, Contents, Copying
  <2>3. \A n \in due : handled[n] = 1
    <3>1. due \subseteq 1 .. taken /\ taken \in Nat
          BY DEF IInv, TypeOK
    <3> QED
        BY <2>1, <3>1 DEF IInv, DoneOnce, Done
  <2> QED
      BY <2>2, <2>3
<1> QED
    BY <1>1, BufferInvariance, PTL

(* However a read and the copies of the receive thread interleave, every   *)
(* byte comes from a message of the channel that is not older than the     *)
(* last one that was complete.  Code: readBuffer, MsgDictSingleWrite.      *)
THEOREM ReadsRegular == Spec => []ReadRegular
<1> USE ContextAssumption
<1>1. IInv /\ ReadInv => ReadRegular
  <2> SUFFICES ASSUME IInv, ReadInv, NEW k \in DOMAIN reading.got
               PROVE  /\ reading.got[k] >= reading.oldest
                      /\ reading.got[k] > 0
                           => frames[reading.got[k]] = [kind |-> "msg", to |-> reading.channel]
      BY DEF ReadRegular
  <2> DEFINE n == reading.got[k]
  <2>1. n >= reading.oldest /\ (n > 0 => IsMessage(n, reading.channel))
        BY DEF ReadInv, Regular
  <2>2. n \in 0 .. taken /\ taken \in 0 .. Len(frames) /\ frames \in Seq(Frame)
        BY DEF IInv, TypeOK, ReadInv, ReadType
  <2> HIDE DEF n
  <2>3. ASSUME n > 0
        PROVE  frames[n] = [kind |-> "msg", to |-> reading.channel]
    <3>1. frames[n] \in Frame
          BY <2>2, <2>3
    <3>2. frames[n].kind = "msg" /\ frames[n].to = reading.channel
          BY <2>1, <2>3 DEF IsMessage
    <3> QED
        BY <3>1, <3>2
  <2> QED
      BY <2>1, <2>3 DEF n
<1> QED
    BY <1>1, BufferInvariance, PTL

(* A read that no copy overlaps returns the last message in full, in any   *)
(* context.  Code: readBuffer, MsgDictSingleWrite.                         *)
THEOREM ReadsWhole == Spec => []WholeWhenAlone
<1>1. ReadInv => WholeWhenAlone
      BY DEF ReadInv
<1> QED
    BY <1>1, BufferInvariance, PTL

=============================================================================
