----------------------------- MODULE RemoteParam -----------------------------
(***************************************************************************)
(* What the parameter server promises its clients, without frames,         *)
(* acknowledgements or timeouts: a request is called, the server may       *)
(* perform it, once or several times, and it returns.  A write needs a     *)
(* grant, given between the call and the write while the item was open;    *)
(* the server may close the item again before the write that was granted.  *)
(* A request returns success only with what a server read or wrote for it  *)
(* between the call and the return, and nothing happens after the return.  *)
(***************************************************************************)
EXTENDS Naturals, Sequences

CONSTANTS Request, Server, Item, Datum, InitDatum,
          Addr    \* [Server -> Nat]

VARIABLES
    value,      \* [Server -> [Item -> Datum]]
    writable,   \* [Server -> SUBSET Item]
    granted,    \* the writes that may happen once: a set of <<request, server>>
    status,     \* [Request -> {"idle", "called", "returned"}]
    operation,  \* what a request asks: [write, to, item, datum]
    results,    \* the values read or written for a request so far
    outcome     \* the answers a request has had

vars == <<value, writable, granted, status, operation, results, outcome>>

NoOperation == [write |-> FALSE, to |-> 0, item |-> 0, datum |-> InitDatum]

Init ==
    /\ value = [s \in Server |-> [i \in Item |-> InitDatum]]
    /\ writable = [s \in Server |-> {}]
    /\ granted = {}
    /\ status = [r \in Request |-> "idle"]
    /\ operation = [r \in Request |-> NoOperation]
    /\ results = [r \in Request |-> {}]
    /\ outcome = [r \in Request |-> <<>>]

Call(r) ==
    /\ status[r] = "idle"
    /\ status' = [status EXCEPT ![r] = "called"]
    /\ \E a \in 0 .. 63, i \in Item, d \in Datum, w \in BOOLEAN :
         operation' = [operation EXCEPT ![r] =
                         [write |-> w, to |-> a, item |-> i, datum |-> d]]
    /\ UNCHANGED <<value, writable, granted, results, outcome>>

Grant(r, s) ==
    LET op == operation[r] IN
    /\ status[r] = "called"
    /\ op.write /\ Addr[s] = op.to
    /\ op.item \in writable[s]
    /\ granted' = granted \cup {<<r, s>>}
    /\ UNCHANGED <<value, writable, status, operation, results, outcome>>

Perform(r, s) ==
    LET op == operation[r] IN
    /\ status[r] = "called"
    /\ Addr[s] = op.to
    /\ IF op.write
       THEN /\ <<r, s>> \in granted
            /\ granted' = granted \ {<<r, s>>}
            /\ value' = [value EXCEPT ![s][op.item] = op.datum]
       ELSE UNCHANGED <<value, granted>>
    /\ results' = [results EXCEPT ![r] = @ \cup {value'[s][op.item]}]
    /\ UNCHANGED <<writable, status, operation, outcome>>

(* The answer is a code and a value; code 1 is success. *)
Return(r) ==
    /\ status[r] = "called"
    /\ status' = [status EXCEPT ![r] = "returned"]
    /\ \E c \in 0 .. 255, d \in Datum :
         /\ c = 1 => d \in results[r]
         /\ outcome' = [outcome EXCEPT ![r] = Append(@, [code |-> c, val |-> d])]
    /\ UNCHANGED <<value, writable, granted, operation, results>>

ServerOwn(s) ==
    /\ \/ \E i \in Item, d \in Datum : /\ value' = [value EXCEPT ![s][i] = d]
                                       /\ UNCHANGED writable
       \/ \E i \in Item : /\ writable' \in {[writable EXCEPT ![s] = @ \cup {i}],
                                            [writable EXCEPT ![s] = @ \ {i}]}
                          /\ UNCHANGED value
    /\ UNCHANGED <<granted, status, operation, results, outcome>>

Next ==
    \/ \E r \in Request : Call(r) \/ Return(r) \/ \E s \in Server : Grant(r, s) \/ Perform(r, s)
    \/ \E s \in Server : ServerOwn(s)

Spec == Init /\ [][Next]_vars

=============================================================================
