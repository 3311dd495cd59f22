--------------------------- MODULE ParamRefinement ---------------------------
(* The refinement mapping from the request protocol to its contract. *)
EXTENDS ParamService

OperationOf(r) ==
    LET req == cached_req[r]
        w   == req.op_code = WriteReq
    IN  [write |-> w, to |-> req.dest_id, item |-> req.srv_id,
         datum |-> IF w THEN req.payload ELSE InitValue]

NoOperation == [write |-> FALSE, to |-> 0, item |-> 0, datum |-> InitValue]

InLoopOrDone(r) == Live(r) \/ phase[r] = "finished"

StatusNow ==
    [r \in Req |-> IF Live(r) THEN "called"
                   ELSE IF phase[r] = "finished" THEN "returned" ELSE "idle"]

OperationNow == [r \in Req |-> IF InLoopOrDone(r) THEN OperationOf(r) ELSE NoOperation]

(* The values that the servers read or wrote for a request. *)
ResultsNow == [r \in Req |-> {e.val : e \in {x \in served : x.rid = r /\ Succeeded(x)}}]

(* The writes that found their item open and have not been made yet. *)
GrantedNow == {<<w.rid, w.srv>> : w \in {x \in checked : x.code = 1}}

Contract == INSTANCE RemoteParam WITH
    Request   <- Req,
    Item      <- Index,
    Datum     <- Value,
    InitDatum <- InitValue,
    Addr      <- Address,
    value     <- buffer,
    writable  <- wr_access,
    granted   <- GrantedNow,
    status    <- StatusNow,
    operation <- OperationNow,
    results   <- ResultsNow,
    outcome   <- answers

(* When timeouts outlast the round trip and a client waits for each        *)
(* answer, the protocol keeps the contract of RemoteParam: an operation    *)
(* happens only between its call and its return, a write only if its item  *)
(* was open when the handler checked it, which it was for this request,    *)
(* and success is reported with what was read or written for this request. *)
(* A value is what a copy moves in one step; what longer ones may be read  *)
(* as is in ServiceThreads.                                                *)
(* Code: the request path from readAsync and writeAsync to the callback.   *)
ImplementsRemoteParam == Contract!Spec

=============================================================================
