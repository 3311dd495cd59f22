------------------------------ MODULE MCPubSub ------------------------------
(* Instances of PubSub for TLC: the programs of the tests on one bus. *)
EXTENDS PubSubRefinement, ServoPrograms

CONSTANTS servo, ecu, old

(* What a program of ServoPrograms gives the constants of PubSub. *)
EndsIn(program)      == [p \in DOMAIN program |-> program[p].ends]
OfferedIn(program)   == [p \in DOMAIN program |-> program[p].publishes]
CallbacksIn(program) == [p \in DOMAIN program |-> program[p].callbacks]

(* The servo with a virtual ECU in its process, a remote ECU that commands *)
(* it, and a process whose dictionaries are of another version: of what    *)
(* the servo sends it knows two items, the first shorter and the second    *)
(* longer than they are sent, and it publishes the ninth item of a longer  *)
(* command dictionary.                                                     *)
ThreeNodes == {servo, ecu, old}

Program ==
    (servo :> InProc({1})) @@ (ecu :> EcuMsg({2})) @@ (old :> [NetworkHost EXCEPT !.publishes = {<<FALSE, 8, 4, FALSE>>}])

OldTx == SerDesDict(<<Member(1, 1, 1), Member(6, 1, 6)>>)
OldRx == SerDesDict([k \in 1 .. 9 |-> int8])

Dicts ==
    [p \in ThreeNodes |->
       IF p = old THEN (0 :> OldRx) @@ (1 :> OldTx) ELSE (0 :> ServoMsgRx) @@ (1 :> ServoMsgTx)]

EndsOf      == EndsIn(Program)
CallbacksOf == CallbacksIn(Program)

(* The servo may also keep its speed to its own process. *)
OfferedBy ==
    [OfferedIn(Program) EXCEPT ![servo] = @ \cup {<<TRUE, speed, 1, TRUE>>}]

(* The virtual ECU's callback on the speed commands a target angle. *)
EcuReacts == <<servo, FALSE, speed>> :> [index |-> target_angle, byte |-> 3]

Copies  == {"copy", "moved"}
AnyJunk == {7}

-----------------------------------------------------------------------------
(* For what the comments claim of operator(): the two tests of Node.       *)
ServoAndEcu == (servo :> ServoMsg({1})) @@ (ecu :> EcuMsg({2}))

NodeNodes  == DOMAIN ServoAndEcu
NodeEnds   == EndsIn(ServoAndEcu)
NodeOffers == OfferedIn(ServoAndEcu)

NoCallbacks == [p \in ThreeNodes |-> {}]
NoReaction  == <<>>
ByCall == {"built"}

=============================================================================
