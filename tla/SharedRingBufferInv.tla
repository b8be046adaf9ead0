-------------------------- MODULE SharedRingBufferInv --------------------------
(***************************************************************************)
(* The inductive invariant of the MPSC ring: the writers' one, and where   *)
(* the consumer is.                                                        *)
(***************************************************************************)
EXTENDS SharedRingBuffer

\* The first record that was not popped yet.
Oldest == Len(popped) + 1

\* The consumer is at the beginning of the oldest record or, when that has
\* padding in front, at one of the two ends of the padding.
AtOldest(head) ==
    IF Oldest <= Len(log)
    THEN head \in {log[Oldest].at, Base(log[Oldest])}
    ELSE head = tail_publish

Consumer ==
    /\ Len(popped) <= Len(log)
    /\ AtOldest(head_publish)
    /\ head_reserve <= head_publish
    /\ cpc = "inspect" =>
        Oldest <= Len(log) /\ End(log[Oldest]) <= ctail /\ ctail <= tail_publish
    /\ cpc \in {"load_tail", "inspect"} => cgot = <<>>
    /\ cpc = "store_reserve" => cnew = head_publish
    /\ cpc = "store_head" =>
        /\ Oldest <= Len(log)
        /\ cgot = <<>> => /\ head_publish = log[Oldest].at
                          /\ log[Oldest].pad > 0
                          /\ cnew = Base(log[Oldest])
        /\ cgot # <<>> => /\ head_publish = Base(log[Oldest])
                          /\ cnew = End(log[Oldest])
                          /\ Intact(cgot[1], Oldest)
    /\ \A i \in 1..Len(popped) : Intact(popped[i], i)

\* Every record sits where the cursors of try_push and try_pop expect it.
RingInv == WriterInv /\ Consumer
===============================================================================
