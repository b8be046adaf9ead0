--------------------------------- MODULE Fifo ---------------------------------
(***************************************************************************)
(* What every queue of the library promises its users, whatever its        *)
(* representation in shared memory: messages come out in the order in      *)
(* which they went in, each of them once, and never more than Bound of     *)
(* them are inside.                                                        *)
(***************************************************************************)
EXTENDS Integers, Sequences

CONSTANTS Messages, Bound

VARIABLES sentLog,      \* every message that went in, in order
          receivedLog   \* every message that came out, in order

fifoVars == <<sentLog, receivedLog>>

Init == sentLog = <<>> /\ receivedLog = <<>>

Send(m) ==
    /\ Len(sentLog) - Len(receivedLog) < Bound
    /\ sentLog' = Append(sentLog, m)
    /\ UNCHANGED receivedLog

Receive ==
    /\ Len(receivedLog) < Len(sentLog)
    /\ receivedLog' = Append(receivedLog, sentLog[Len(receivedLog) + 1])
    /\ UNCHANGED sentLog

Next == Receive \/ \E m \in Messages : Send(m)

Spec == Init /\ [][Next]_fifoVars

FairSpec == Spec /\ WF_fifoVars(Receive)
===============================================================================
