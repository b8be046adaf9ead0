------------------------------ MODULE PollThread ------------------------------
(***************************************************************************)
(* The polling thread of a subscriber (ipc_adapter.hpp): the start, stop   *)
(* and timed wait that SharedLatestSubscriber, SpscSubscriber and          *)
(* SpscByteSubscriber have in common.  One thread owns the subscriber and  *)
(* calls start and stop; the destructor is one more call of stop.          *)
(*                                                                         *)
(* mutex_ is held by the owner for the single store to running_, and by    *)
(* the poller from its look at running_ to the moment it sleeps, that is,  *)
(* while poller = "blocking".                                              *)
(***************************************************************************)
EXTENDS Integers

CONSTANT MaxStarts      \* bound: calls of start

ASSUME StartsAssumption == MaxStarts \in Nat

VARIABLES
    running,    \* running_
    joinable,   \* thread_.joinable()
    owner,      \* the owner's next statement
    poller,     \* the polling thread's next statement, "none" without a thread
    starts      \* history: calls of start

pollVars == <<running, joinable, owner, poller, starts>>

PollInit ==
    /\ running = FALSE /\ joinable = FALSE
    /\ owner = "idle" /\ poller = "none" /\ starts = 0

-------------------------------------------------------------------------------
(* The owner *)

\* start(), which returns at once when the thread is running.
Start ==
    /\ owner = "idle"
    /\ ~ running
    /\ starts < MaxStarts
    /\ starts' = starts + 1
    /\ running' = TRUE /\ joinable' = TRUE /\ poller' = "head"
    /\ UNCHANGED owner

\* stop(), which returns at once when the thread is not running.
StopCall ==
    /\ owner = "idle"
    /\ running
    /\ owner' = "store"
    /\ UNCHANGED <<running, joinable, poller, starts>>

\* Mutant of StopStore: running_ is cleared without mutex_.
StopStore_NoLock ==
    /\ owner = "store"
    /\ running' = FALSE
    /\ owner' = "notify"
    /\ UNCHANGED <<joinable, poller, starts>>

\* running_ is cleared under mutex_.
StopStore ==
    /\ owner = "store"
    /\ poller # "blocking"
    /\ running' = FALSE
    /\ owner' = "notify"
    /\ UNCHANGED <<joinable, poller, starts>>

\* Mutant of StopNotify: stop does not wait for the thread.
StopNotify_NoJoin ==
    /\ owner = "notify"
    /\ poller' = IF poller = "asleep" THEN "head" ELSE poller
    /\ owner' = "idle"
    /\ UNCHANGED <<running, joinable, starts>>

\* cv_.notify_one().
StopNotify ==
    /\ owner = "notify"
    /\ poller' = IF poller = "asleep" THEN "head" ELSE poller
    /\ owner' = "join"
    /\ UNCHANGED <<running, joinable, starts>>

\* thread_.join(), and stop returns.
StopJoin ==
    /\ owner = "join"
    /\ poller = "done"
    /\ joinable' = FALSE /\ poller' = "none" /\ owner' = "idle"
    /\ UNCHANGED <<running, starts>>

Stop == StopStore \/ StopNotify \/ StopJoin

-------------------------------------------------------------------------------
(* The polling thread: the loop's condition and cv_.wait_for *)

\* while (running_); `exit` is what follows the loop.
PollHead(exit) ==
    /\ poller = "head"
    /\ poller' = IF running THEN "work" ELSE exit
    /\ UNCHANGED <<running, joinable, owner, starts>>

\* The lock is taken and the predicate looked at.
PollLock ==
    /\ poller = "wait"
    /\ poller' = IF running THEN "blocking" ELSE "head"
    /\ UNCHANGED <<running, joinable, owner, starts>>

\* The thread sleeps and the lock is free, in one step.
PollBlock ==
    /\ poller = "blocking"
    /\ poller' = "asleep"
    /\ UNCHANGED <<running, joinable, owner, starts>>

\* Mutant of PollTimeout: wait instead of wait_for.
PollTimeout_NoTimeout ==
    /\ poller = "asleep"
    /\ ~ running
    /\ poller' = "head"
    /\ UNCHANGED <<running, joinable, owner, starts>>

\* poll_interval is over.
PollTimeout ==
    /\ poller = "asleep"
    /\ poller' = "head"
    /\ UNCHANGED <<running, joinable, owner, starts>>

-------------------------------------------------------------------------------
PollTypeOK ==
    /\ running \in BOOLEAN /\ joinable \in BOOLEAN
    /\ owner \in {"idle", "store", "notify", "join"}
    /\ poller \in {"none", "head", "work", "reading", "call", "wait", "blocking",
                   "asleep", "drain", "drain_call", "empty", "done"}
    /\ starts \in 0..MaxStarts

\* "Stop the polling thread (blocks until joined)" (ipc_adapter.hpp:171): when no
\* call of stop is under way, a subscriber that is not running has no thread, so
\* no callback runs after stop returned, and neither the next start nor the
\* destructor meets a std::thread that was not joined (std::terminate).
StoppedIsJoined ==
    owner = "idle" /\ ~ running => ~ joinable /\ poller = "none"

\* stop returns, although the callbacks it waits for may be about to sleep when it
\* clears running_: no timeout is needed to wake the thread.
StopReturns == (owner # "idle") ~> (owner = "idle")
===============================================================================
