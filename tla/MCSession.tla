------------------------------ MODULE MCSession ------------------------------
(* Model values for checking LoginSession and CELLMsgStream with TLC.  A    *)
(* behaviour is one of the session or one of a stream: they share no state, *)
(* and neither is delayed by the other.                                     *)
EXTENDS LoginSession, CELLMsgStream

\* Different bytes for every scalar, every array and every string.
ScalarOf(width) == Scalar([i \in 1..width |-> 10 + i])
ArrayOf(width, n) == Array(width, 2, [i \in 1..width * n |-> 20 + i])
StringOf(n) == [Array(1, 0, [i \in 1..n |-> 96 + i]) EXCEPT !.as = "string"]

MCFields == {ScalarOf(1), ScalarOf(4), ScalarOf(8), ArrayOf(1, 0), ArrayOf(4, 2), ArrayOf(2, 3),
             StringOf(0), StringOf(3)}

\* Arrays about as long as the handler has room for.
MCLogouts ==
  {<<Scalar(CMD_LOGOUT), ScalarOf(1), ScalarOf(2), ScalarOf(4), ScalarOf(4), ScalarOf(8),
     ArrayOf(1, n6), ArrayOf(1, n7), ArrayOf(4, n8)>> :
     n6, n7 \in {0, 5, 32, 33}, n8 \in {0, 7, 8, 10, 11}}

NoStream == CELLStream(<<>>)

MCInit == Init /\ (StreamInit \/ (stream = NoStream /\ kept = <<>>))

MCNext ==
  \/ stream = NoStream /\ Next /\ UNCHANGED streamVars
  \/ stream # NoStream /\ StreamNext /\ UNCHANGED vars

MCFairSpec ==
  /\ MCInit /\ [][MCNext]_<<vars, streamVars>>
  /\ WF_vars(ClientStep) /\ WF_vars(ServerStep)
==============================================================================
