----------------------------- MODULE ParamClaims -----------------------------
(***************************************************************************)
(* What the README and the comments of the repository say of the parameter *)
(* server and the code does not do.                                        *)
(***************************************************************************)
EXTENDS ParamRefinement

AnswersOf(r) == {answers[r][k] : k \in DOMAIN answers[r]}

(* Bad external input must not stop the program: Service.cpp:54-57.  Code: *)
(* onWriteReq and onReadReq let index = dictSize() through.                *)
InputNeverCrashes == crashed = {}

(* Event code 1 of a write means that it was written: README.md:228.       *)
(* Code: matchNotifyMsg takes the late answer of an earlier request.       *)
SuccessMeansWritten ==
    \A r \in Req : cached_req[r].op_code = WriteReq =>
      \A a \in AnswersOf(r) : a.code = 1 =>
        \E e \in served : e.rid = r /\ Succeeded(e)

(* Event code 2 is the timeout: README.md:229, and unit_test/Service.cpp:97 *)
(* logs it as one.  Code: onWriteReq answers 2 to a write whose length is  *)
(* not the item's, and onRecv hands the server's code on.                  *)
CodeTwoIsTimeout ==
    \A r \in Req : \A a \in AnswersOf(r) : a.code = 2 => sent[r] = RetryMax + 1

=============================================================================
