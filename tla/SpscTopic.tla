------------------------------ MODULE SpscTopic ------------------------------
(***************************************************************************)
(* A topic of ipc_adapter.hpp from end to end: SpscPublisher and           *)
(* SpscSubscriber, or SpscBytePublisher and SpscByteSubscriber.  Publisher *)
(* processes claim the file and publish, the subscriber's process opens it *)
(* and polls, and either may die anywhere.                                 *)
(*                                                                         *)
(* A try_push or try_pop is one step here, which is what SPSCQueue and     *)
(* SharedRingBufferSPSC show it amounts to; the cursors count messages.    *)
(* The n-th message is Sizes[n] words long.                                *)
(***************************************************************************)
EXTENDS Mapping, PollThread

CONSTANTS
    Publishers,   \* processes with a publisher
    Sub,          \* the process with the subscriber
    Supervised,   \* a publisher is started only when the others are gone
    Slots,        \* messages that fit
    Sizes         \* bound: the messages that are published

ASSUME TopicAssumption ==
    /\ Processes = Publishers \cup {Sub} /\ Sub \notin Publishers
    /\ Supervised \in BOOLEAN
    /\ Slots \in Nat \ {0}
    /\ Sizes \in Seq(Nat)

VARIABLES
    buf,       \* `buf`, or `value`, of poll_loop
    gotAny,    \* got_any
    got,       \* history: number and span of what the callback was given
    stopAt     \* history: messages published when stop was called

loopVars == <<buf, gotAny, got, stopAt>>
vars == <<mappingVars, pollVars, loopVars>>

Init ==
    /\ MappingInit /\ PollInit
    /\ buf = <<>> /\ gotAny = FALSE /\ got = <<>> /\ stopAt = 0

Message(n) == [i \in 1..Sizes[n] |-> n]
head_publish == file.control["head_publish"]
tail_publish == file.control["tail_publish"]

-------------------------------------------------------------------------------
(* Publishers *)

\* The constructor: claim, whose look at the path and whose open(2) are two steps.
ClaimCall(p) ==
    /\ at[p] = "down"
    /\ Supervised => \A q \in Publishers : at[q] = "down"
    /\ Goto(p, IF file.exists THEN "open" ELSE "create")
    /\ UNCHANGED <<file, cleared, seen, faults>>

\* Mutant of Publish: no look at the room left.
Publish_Overwrites(p) ==
    /\ at[p] = "ready"
    /\ tail_publish < Len(Sizes)
    /\ file' = [file EXCEPT !.control["tail_publish"] = @ + 1]
    /\ UNCHANGED <<at, cleared, seen, faults>>

\* publish; on a full ring it returns false.
Publish(p) ==
    /\ at[p] = "ready"
    /\ tail_publish < Len(Sizes)
    /\ tail_publish - head_publish < Slots
    /\ file' = [file EXCEPT !.control["tail_publish"] = @ + 1]
    /\ UNCHANGED <<at, cleared, seen, faults>>

Publisher(p) ==
    /\ ClaimCall(p) \/ Create(p) \/ OpenExisting(p) \/ Publish(p) \/ CallFails(p) \/ Gone(p)
    /\ UNCHANGED <<pollVars, loopVars>>

-------------------------------------------------------------------------------
(* The subscriber *)

\* The constructor, which throws unless there is a file to open.
OpenCall ==
    /\ at[Sub] = "down"
    /\ Goto(Sub, "open")
    /\ UNCHANGED <<file, cleared, seen, faults>>

Construct ==
    /\ OpenCall \/ OpenExisting(Sub) \/ CallFails(Sub)
    /\ UNCHANGED <<pollVars, loopVars>>

\* start, and a new poll_loop with an empty buffer.
SubscriberStart ==
    /\ at[Sub] = "ready"
    /\ Start
    /\ buf' = <<>> /\ gotAny' = FALSE
    /\ UNCHANGED <<mappingVars, got, stopAt>>

SubscriberStop ==
    \/ StopCall /\ stopAt' = tail_publish /\ UNCHANGED <<mappingVars, buf, gotAny, got>>
    \/ Stop /\ UNCHANGED <<mappingVars, loopVars>>

\* The process dies, threads and all.
SubscriberDies ==
    /\ Gone(Sub)
    /\ running' = FALSE /\ joinable' = FALSE /\ owner' = "idle" /\ poller' = "none"
    /\ buf' = <<>> /\ gotAny' = FALSE /\ stopAt' = 0
    /\ UNCHANGED <<starts, got>>

\* Mutant of Received: the message is appended to what the buffer holds.
Received_Appends(n) == buf \o Message(n)

\* try_pop writes over the front of the buffer and grows it when it is too short.
Received(n) == Message(n) \o SubSeq(buf, Sizes[n] + 1, Len(buf))

\* try_pop in the loop that starts at `here`: a message, and `call` is next, or
\* none, and `none` is.
Pop(here, call, none) ==
    /\ poller = here
    /\ IF head_publish = tail_publish
       THEN poller' = none /\ UNCHANGED <<file, buf>>
       ELSE /\ file' = [file EXCEPT !.control["head_publish"] = @ + 1]
            /\ buf' = Received(head_publish + 1)
            /\ poller' = call
    /\ UNCHANGED <<at, cleared, seen, faults, running, joinable, owner, starts,
                   gotAny, got, stopAt>>

\* on_message_, with all of the buffer.
Callback(here, back) ==
    /\ poller = here
    /\ got' = Append(got, [n |-> head_publish, span |-> buf])
    /\ gotAny' = TRUE
    /\ poller' = back
    /\ UNCHANGED <<mappingVars, running, joinable, owner, starts, buf, stopAt>>

\* The end of the loop's body: it sleeps only when it popped nothing.
Drained ==
    /\ poller = "empty"
    /\ poller' = IF gotAny THEN "head" ELSE "wait"
    /\ gotAny' = FALSE
    /\ UNCHANGED <<mappingVars, running, joinable, owner, starts, buf, got, stopAt>>

\* Mutant of PollLoop: nothing is popped after running_ was found cleared.
PollLoop_NoFinalDrain ==
    \/ (PollHead("done") \/ PollLock \/ PollBlock) /\ UNCHANGED <<mappingVars, loopVars>>
    \/ Pop("work", "call", "empty") \/ Callback("call", "work") \/ Drained

PollLoop ==
    \/ (PollHead("drain") \/ PollLock \/ PollBlock) /\ UNCHANGED <<mappingVars, loopVars>>
    \/ Pop("work", "call", "empty") \/ Callback("call", "work") \/ Drained
    \/ Pop("drain", "drain_call", "done") \/ Callback("drain_call", "drain")

Timeout == PollTimeout /\ UNCHANGED <<mappingVars, loopVars>>

\* The destructor, after it has stopped the thread.
Destroy ==
    /\ at[Sub] = "ready"
    /\ owner = "idle" /\ ~ running
    /\ Throw(Sub)
    /\ UNCHANGED <<file, cleared, seen, faults, pollVars, loopVars>>

Subscriber ==
    Construct \/ SubscriberStart \/ SubscriberStop \/ SubscriberDies \/ Destroy

-------------------------------------------------------------------------------
Next == (\E p \in Publishers : Publisher(p)) \/ Subscriber \/ PollLoop \/ Timeout

\* Calls that were begun go on and the polling thread is scheduled.  Nobody has to
\* call, and the timeout of the wait is not fair.  mutex_, which the poller holds
\* for a moment in every round, goes to the owner some day (the strong fairness).
Spec ==
    /\ Init /\ [][Next]_vars
    /\ \A p \in Publishers :
        WF_vars((Create(p) \/ OpenExisting(p)) /\ UNCHANGED <<pollVars, loopVars>>)
    /\ WF_vars(OpenExisting(Sub) /\ UNCHANGED <<pollVars, loopVars>>)
    /\ SF_vars(StopStore /\ UNCHANGED <<mappingVars, loopVars>>)
    /\ WF_vars((StopNotify \/ StopJoin) /\ UNCHANGED <<mappingVars, loopVars>>)
    /\ WF_vars(PollLoop)

-------------------------------------------------------------------------------
\* Type invariant.
TypeOK ==
    /\ MappingTypeOK /\ PollTypeOK
    /\ buf \in Seq(1..Len(Sizes))
    /\ got \in Seq([n : 1..Len(Sizes), span : Seq(1..Len(Sizes))])
    /\ gotAny \in BOOLEAN /\ stopAt \in 0..Len(Sizes)
    /\ tail_publish <= Len(Sizes) /\ tail_publish - head_publish \in 0..Slots

StartsWith(span, n) ==
    Sizes[n] <= Len(span) /\ \A i \in 1..Sizes[n] : span[i] = Message(n)[i]

\* The message that was popped and not yet handed over.
InHand == IF poller \in {"call", "drain_call"} THEN 1 ELSE 0

\* "Invokes callback for every message (FIFO ordering preserved)"
\* (ipc_adapter.hpp:281): what the callback gets starts with a message newer than
\* all it got before, and a message is passed over only when the subscriber dies
\* between try_pop and the callback, at most one each time.
DeliveredInOrder ==
    /\ \A j \in 1..Len(got) : StartsWith(got[j].span, got[j].n)
    /\ \A i, j \in 1..Len(got) : i < j => got[i].n < got[j].n
    /\ head_publish - Len(got) - InHand \in 0..faults[Sub]

\* Whoever dies and whoever claims or opens the file again, no cursor goes back.
CursorsOnlyGrow ==
    [][\A c \in DOMAIN file.control : file.control[c] <= file'.control[c]]_vars

\* When stop has returned, the callback has been given everything that was published
\* before stop was called (the final drain of poll_loop).
StopDelivers ==
    at[Sub] = "ready" /\ owner = "idle" /\ ~ running => head_publish >= stopAt /\ InHand = 0

\* No cursor has moved as long as a creator may still store zeros.
CreationInv ==
    /\ \A p, q \in Publishers : at[p] # "down" /\ at[q] # "down" => p = q
    /\ at[Sub] \notin Making \cup {"create", "control"}
    /\ Missing # {} => file.control = ZeroControl
    /\ \A p \in Publishers : at[p] = "control" => file.control = ZeroControl

\* There is a polling thread from start to the end of stop, on an open file.
ThreadInv ==
    /\ joinable <=> poller # "none"
    /\ poller # "none" => at[Sub] = "ready"
    /\ owner = "idle" => (running <=> poller # "none")
    /\ owner # "idle" => poller # "none" /\ (running <=> owner = "store")
    /\ poller \in {"drain", "drain_call", "done"} => ~ running

\* The message in hand is the last that was popped, and what was published before
\* stop is popped before the thread ends.
DeliveryInv ==
    /\ stopAt <= tail_publish
    /\ poller = "done" \/ (owner = "idle" /\ ~ running) => stopAt <= head_publish
    /\ InHand = 1 => head_publish > 0 /\ StartsWith(buf, head_publish)
    /\ \A j \in 1..Len(got) : got[j].n <= head_publish - InHand
    /\ DeliveredInOrder

\* The inductive invariant of a supervised topic, which implies every invariant
\* above: the file is created once and opened whole, and the cursors, the polling
\* thread and the callback agree on what was delivered.
TopicInv == TypeOK /\ MappingInv /\ CreationInv /\ ThreadInv /\ DeliveryInv

\* A published message reaches the callback while the subscriber runs, even when
\* the publisher has died since: the poll interval is what wakes the thread.
PublishedIsDelivered ==
    WF_vars(Timeout) =>
        \A n \in 1..Len(Sizes) :
            (tail_publish >= n /\ running) ~> (~ running \/ (head_publish >= n /\ InHand = 0))
===============================================================================
