-------------------------- MODULE MCServiceThreads --------------------------
(* An instance of ServiceThreads for TLC: two items of the servo's         *)
(* parameter dictionary, kp and kd, of which two bytes tell enough.        *)
EXTENDS ServiceThreads

Gains == {2, 3}

=============================================================================
