--------------------------- MODULE MCParamService ---------------------------
(* Instances of ParamService for TLC. *)
EXTENDS ParamClaims

CONSTANTS host, servo, srv, cli, cli2, cli3, v0, v1

(* A host with a client of the servo's parameter server: the set-up of     *)
(* unit_test/Service.cpp, where the servo is node 2 and the host node 5.    *)
TwoNodes      == {host, servo}
OneServer     == {srv}
OneClient     == {cli}
HostOfPair    == (srv :> servo) @@ (cli :> host)
AddressOfPair == (srv :> 2) @@ (cli :> 5)
BoundPair     == cli :> 2

(* Two more clients of the server: one on the servo with the address of    *)
(* the host's client, which the server finds before it would answer on the *)
(* bus, and another on the host.                                           *)
ThreeClients   == {cli, cli2, cli3}
HostOfThree    == HostOfPair @@ (cli2 :> servo) @@ (cli3 :> host)
AddressOfThree == AddressOfPair @@ (cli2 :> 5) @@ (cli3 :> 6)
BoundThree     == [c \in ThreeClients |-> 2]

(* Dictionaries with one or two items of one byte, which a copy takes in   *)
(* one step.  Where they differ, the client's dictionary has a wrong       *)
(* length for its second item, and two items that the server's has not.    *)
Items(n, size) == [dictSize |-> n, data_size |-> size]
SameDict    == [x \in Server \cup Client |-> Items(2, (0 :> 1) @@ (1 :> 1))]
SameDictOne == [x \in Server \cup Client |-> Items(1, 0 :> 1)]
DictsDiffer == [x \in Server \cup Client |->
                 IF x \in Client THEN Items(4, (0 :> 1) @@ (1 :> 2) @@ (2 :> 1) @@ (3 :> 1))
                 ELSE Items(2, [i \in 0 .. 3 |-> 1])]
LengthsDiffer == [x \in Server \cup Client |->
                   Items(2, (0 :> 1) @@ (1 :> IF x \in Client THEN 2 ELSE 1))]

NoFaults    == {}
Losing      == {"lose"}
LoseAndDup  == {"lose", "dup"}
ZeroOne     == {0, 1}
ZeroToThree == 0 .. 3
JustZero    == {0}
TwoValues   == {v0, v1}
NoValue     == {}
InitOnly    == {v0}
OneValue    == {v1}

=============================================================================
