----------------------------- MODULE SharedLatest -----------------------------
(***************************************************************************)
(* SharedLatest<T> (shared_latest.hpp, futex.hpp): a seqlock in shared     *)
(* memory for one writer and many readers, with a heartbeat by which       *)
(* readers and the next writer recognise a writer that died in the middle  *)
(* of a write, and a futex word on which readers wait for the next write.  *)
(* The control block's cursors have other jobs here: head_reserve is the   *)
(* heartbeat and tail_publish the notification counter.                    *)
(*                                                                         *)
(* T takes Parts memory words, which memcpy and memset access one by one.  *)
(* The k-th value ever written is the number k.                            *)
(***************************************************************************)
EXTENDS Integers, Sequences

CONSTANTS
    Writers,        \* processes that claim the slot and write
    Readers,        \* processes that wait for updates and read
    Parts,          \* words memcpy copies one after the other
    Calls,          \* which of write and write_and_notify writers call
    Modes,          \* which try_read readers call: the plain or the status one
    Launch,         \* when a process may start to claim: at any time ("any"), when
                    \* the others are dead or recovering ("race"), or when they
                    \* are dead ("one")
    StoresReorder,  \* the machine lets memcpy's stores overtake the odd seq
    DeadThreshold,  \* dead_threshold, in ticks
    MaxRetries,     \* max_retries
    SpinCheck,      \* the heartbeat is checked every SpinCheck rounds (64)
    MaxTime,        \* bound: ticks of the clock
    MaxWrite,       \* bound: values written
    MaxCrash        \* bound: deaths of writers

ASSUME PartsAssumption == Parts \in Nat \ {0}
ASSUME RetriesAssumption == MaxRetries \in Nat \ {0} /\ SpinCheck \in 1..MaxRetries
ASSUME BoundsAssumption == {DeadThreshold, MaxTime, MaxWrite, MaxCrash} \subseteq Nat
ASSUME CallersAssumption ==
    /\ Calls \subseteq {"write", "write_and_notify"}
    /\ Modes \subseteq {"plain", "status"}
    /\ Launch \in {"any", "race", "one"} /\ StoresReorder \in BOOLEAN

VARIABLES
    exists, seq, heartbeat, notify, cells,   \* the file
    now,      \* steady_clock
    wr,       \* per writer: next statement, `s`, `old_hb`, the clock it read, words
              \* copied or cleared, value; history: recoveries when its claim began
    rd,       \* per reader: next statement, overload, `i`, `s1`, `hb`, words copied,
              \* `last_seen`; and of its last call: the value committed and the
              \* recoveries when it began, whether the writer was long dead then,
              \* how it ended
    written,    \* history: number of values written, committed or not
    committed,  \* history: the value last committed, 0 after a recovery
    resets,     \* history: number of recoveries
    deaths,     \* history: number of deaths of writers
    diedAt      \* history: time of the last of them

fileVars == <<exists, seq, heartbeat, notify, cells>>
historyVars == <<written, committed, resets, deaths, diedAt>>
slotVars == <<fileVars, now, wr, rd, historyVars>>

Whole(v) == [i \in 1..Parts |-> v]
NoReturn == [result |-> "none", value |-> <<>>]
Down == [pc |-> "down", s |-> 0, hb |-> 0, now |-> 0, done |-> 0, value |-> 0,
         era |-> 0]

SlotInit ==
    /\ exists = FALSE
    /\ seq = 0 /\ heartbeat = 0 /\ notify = 0 /\ now = 1
    /\ cells = Whole(0)
    /\ wr = [w \in Writers |-> Down]
    /\ rd = [r \in Readers |->
                [pc |-> "snapshot", mode |-> "plain", i |-> 0, s |-> 0, hb |-> 0,
                 out |-> <<>>, last |-> 0, floor |-> 0, resets |-> 0,
                 orphan |-> FALSE, ret |-> NoReturn]]
    /\ written = 0 /\ committed = 0 /\ resets = 0 /\ deaths = 0 /\ diedAt = 0

Odd(s) == s % 2 = 1

-------------------------------------------------------------------------------
(* claim *)

\* Whoever starts the writers keeps to Launch.
Launched ==
    \/ Launch = "any"
    \/ Launch = "race" /\ \A v \in Writers :
           wr[v].pc \in {"down", "claim_load", "claim_cas", "clear"}
    \/ Launch = "one" /\ \A v \in Writers : wr[v].pc = "down"

\* Without a file claim creates one and is done; otherwise it loads seq, whose
\* parity tells a clean exit from a death in the middle of a write.
ClaimStart(w) ==
    /\ wr[w].pc = "down"
    /\ Launched
    /\ exists' = TRUE
    /\ wr' = [wr EXCEPT ![w].pc = IF ~ exists THEN "idle"
                                  ELSE IF Odd(seq) THEN "claim_load" ELSE "claim_beat",
                        ![w].era = resets]
    /\ rd' = [r \in Readers |-> [rd[r] EXCEPT !.orphan = FALSE]]
    /\ UNCHANGED <<seq, heartbeat, notify, cells, historyVars>>

\* The clock is read before the heartbeat is stored, in claim and in write.
Clock(w) ==
    /\ wr[w].pc \in {"claim_beat", "beat"}
    /\ wr' = [wr EXCEPT ![w].pc = IF @ = "beat" THEN "store_beat" ELSE "store_claim",
                        ![w].now = now]
    /\ UNCHANGED <<fileVars, rd, historyVars>>

\* kResumed.
ClaimBeat(w) ==
    /\ wr[w].pc = "store_claim"
    /\ heartbeat' = wr[w].now
    /\ wr' = [wr EXCEPT ![w] = [Down EXCEPT !.pc = "idle"]]
    /\ UNCHANGED <<exists, seq, notify, cells, rd, historyVars>>

Fresh(hb) == hb # 0 /\ now - hb < DeadThreshold

\* A fresh heartbeat makes claim throw.  (Load and clock are one step: a heartbeat
\* that changes in between makes the CAS fail, and claim throws as well.)
ClaimLoad(w) ==
    /\ wr[w].pc = "claim_load"
    /\ wr' = [wr EXCEPT ![w] = IF Fresh(heartbeat) THEN Down
                               ELSE [@ EXCEPT !.pc = "claim_cas", !.hb = heartbeat,
                                              !.now = now]]
    /\ UNCHANGED <<fileVars, rd, historyVars>>

\* Mutant of ClaimCas: the heartbeat is stored without comparing.
ClaimCas_PlainStore(w) ==
    /\ wr[w].pc = "claim_cas"
    /\ heartbeat' = wr[w].now
    /\ wr' = [wr EXCEPT ![w].pc = "clear", ![w].done = 0]
    /\ UNCHANGED <<exists, seq, notify, cells, rd, historyVars>>

\* A CAS that fails makes claim throw: another process won the recovery.
ClaimCas(w) ==
    /\ wr[w].pc = "claim_cas"
    /\ IF heartbeat = wr[w].hb
       THEN /\ heartbeat' = wr[w].now
            /\ wr' = [wr EXCEPT ![w].pc = "clear", ![w].done = 0]
       ELSE /\ wr' = [wr EXCEPT ![w] = Down]
            /\ UNCHANGED heartbeat
    /\ UNCHANGED <<exists, seq, notify, cells, rd, historyVars>>

\* memset over the torn value.
ClaimClear(w) ==
    /\ wr[w].pc = "clear"
    /\ wr[w].done < Parts
    /\ cells' = [cells EXCEPT ![wr[w].done + 1] = 0]
    /\ wr' = [wr EXCEPT ![w].done = @ + 1]
    /\ UNCHANGED <<exists, seq, heartbeat, notify, rd, historyVars>>

\* Readers find the slot empty from here on; then the waiters are woken, as
\* after a write (kRecovered).
ClaimReset(w) ==
    /\ wr[w].pc = "clear"
    /\ wr[w].done = Parts
    /\ seq' = 0
    /\ committed' = 0
    /\ resets' = resets + 1
    /\ wr' = [wr EXCEPT ![w] = [Down EXCEPT !.pc = "notify"]]
    /\ UNCHANGED <<exists, heartbeat, notify, cells, rd, written, deaths, diedAt>>

Claim(w) ==
    \/ ClaimStart(w) \/ Clock(w) \/ ClaimBeat(w) \/ ClaimLoad(w) \/ ClaimCas(w)
    \/ ClaimClear(w) \/ ClaimReset(w)

-------------------------------------------------------------------------------
(* write and write_and_notify *)

WriteCall(w) ==
    /\ wr[w].pc = "idle"
    /\ written < MaxWrite
    /\ written' = written + 1
    /\ wr' = [wr EXCEPT ![w] = [Down EXCEPT !.pc = "odd", !.s = seq,
                                           !.value = written + 1]]
    /\ UNCHANGED <<fileVars, rd, committed, resets, deaths, diedAt>>

WriteOdd(w) ==
    /\ wr[w].pc = "odd"
    /\ seq' = wr[w].s + 1
    /\ wr' = [wr EXCEPT ![w].pc = "copy"]
    /\ UNCHANGED <<exists, heartbeat, notify, cells, rd, historyVars>>

\* memcpy.  The store of the odd seq is a release store, which does not keep the
\* stores behind it from becoming visible first.
WriteCopy(w) ==
    /\ wr[w].pc = "copy" \/ (StoresReorder /\ wr[w].pc = "odd")
    /\ wr[w].done < Parts
    /\ cells' = [cells EXCEPT ![wr[w].done + 1] = wr[w].value]
    /\ wr' = [wr EXCEPT ![w].done = @ + 1]
    /\ UNCHANGED <<exists, seq, heartbeat, notify, rd, historyVars>>

WriteEven(w) ==
    /\ wr[w].pc = "copy"
    /\ wr[w].done = Parts
    /\ seq' = wr[w].s + 2
    /\ committed' = wr[w].value
    /\ wr' = [wr EXCEPT ![w].pc = "beat"]
    /\ UNCHANGED <<exists, heartbeat, notify, cells, rd, written, resets, deaths, diedAt>>

\* The heartbeat; write is done, write_and_notify goes on.
WriteBeat(w) ==
    /\ wr[w].pc = "store_beat"
    /\ heartbeat' = wr[w].now
    /\ \E call \in Calls :
        wr' = [wr EXCEPT ![w] =
                 [Down EXCEPT !.pc = IF call = "write" THEN "idle" ELSE "notify"]]
    /\ UNCHANGED <<exists, seq, notify, cells, rd, historyVars>>

\* Mutant of Notify: the counter is not incremented before the wake.
Notify_WakeOnly(w) ==
    /\ wr[w].pc = "notify"
    /\ wr' = [wr EXCEPT ![w].pc = "wake"]
    /\ UNCHANGED <<fileVars, rd, historyVars>>

\* notify.fetch_add, after a write and after a recovery.
Notify(w) ==
    /\ wr[w].pc = "notify"
    /\ notify' = notify + 1
    /\ wr' = [wr EXCEPT ![w].pc = "wake"]
    /\ UNCHANGED <<exists, seq, heartbeat, cells, rd, historyVars>>

\* futex_wake_all: whoever sleeps in futex_wait returns.
Wake(w) ==
    /\ wr[w].pc = "wake"
    /\ wr' = [wr EXCEPT ![w].pc = "idle"]
    /\ rd' = [r \in Readers |->
                IF rd[r].pc = "asleep" THEN [rd[r] EXCEPT !.pc = "snapshot"] ELSE rd[r]]
    /\ UNCHANGED <<fileVars, historyVars>>

WriteStep(w) ==
    \/ WriteOdd(w) \/ WriteCopy(w) \/ WriteEven(w) \/ Clock(w) \/ WriteBeat(w)
    \/ Notify(w) \/ Wake(w)

\* A writer's process dies or exits, inside a call or between two.
WriterDies(w) ==
    /\ wr[w].pc # "down"
    /\ deaths < MaxCrash
    /\ deaths' = deaths + 1
    /\ diedAt' = now
    /\ wr' = [wr EXCEPT ![w] = Down]
    /\ UNCHANGED <<fileVars, rd, written, committed, resets>>

-------------------------------------------------------------------------------
(* A reader: notify_counter, try_read, wait_for_update, and round again. *)

\* notify_counter().
Snapshot(r) ==
    /\ rd[r].pc = "snapshot"
    /\ exists
    /\ rd' = [rd EXCEPT ![r].pc = "read", ![r].last = notify]

Orphaned == /\ \A w \in Writers : wr[w].pc = "down"
            /\ now - diedAt > DeadThreshold

Returned(call, result, value) ==
    [call EXCEPT !.pc = "wait", !.i = 0, !.s = 0, !.hb = 0, !.out = <<>>,
                 !.ret = [result |-> result, value |-> value]]

\* A call of either overload; the status one first looks whether seq is 0.
Called(r, mode) ==
    LET call == [rd[r] EXCEPT !.pc = "seq", !.mode = mode, !.floor = committed,
                              !.resets = resets, !.orphan = Orphaned, !.ret = NoReturn]
    IN  IF mode = "status" /\ seq = 0 THEN Returned(call, "kEmpty", <<>>) ELSE call

ReadCall(r, mode) ==
    /\ rd[r].pc = "read"
    /\ rd' = [rd EXCEPT ![r] = Called(r, mode)]

\* The next round of the loop; without one left, the call fails.
NextRound(call) ==
    IF call.i + 1 < MaxRetries
    THEN [call EXCEPT !.pc = "seq", !.i = @ + 1, !.s = 0, !.hb = 0, !.out = <<>>]
    ELSE Returned(call, "kContended", <<>>)

\* Mutant of ReadSeq: the heartbeat is looked at one round too late.
ReadSeq_LateCheck(r) ==
    /\ rd[r].pc = "seq"
    /\ rd' = [rd EXCEPT ![r] =
                IF ~ Odd(seq) THEN [@ EXCEPT !.pc = "copy", !.s = seq]
                ELSE IF @.mode = "status" /\ (@.i + 1) % (SpinCheck + 1) = 0
                     THEN [@ EXCEPT !.pc = "beat"]
                     ELSE NextRound(@)]

\* s1: even, or odd and the round is wasted, after a look at the heartbeat now
\* and then.
ReadSeq(r) ==
    /\ rd[r].pc = "seq"
    /\ rd' = [rd EXCEPT ![r] =
                IF ~ Odd(seq) THEN [@ EXCEPT !.pc = "copy", !.s = seq]
                ELSE IF @.mode = "status" /\ (@.i + 1) % SpinCheck = 0
                     THEN [@ EXCEPT !.pc = "beat"]
                     ELSE NextRound(@)]

ReadBeat(r) ==
    /\ rd[r].pc = "beat"
    /\ rd' = [rd EXCEPT ![r].pc = "clock", ![r].hb = heartbeat]

\* An old heartbeat ends the call.
ReadClock(r) ==
    /\ rd[r].pc = "clock"
    /\ rd' = [rd EXCEPT ![r] =
                IF @.hb # 0 /\ now - @.hb > DeadThreshold
                THEN Returned(@, "kWriterDead", <<>>) ELSE NextRound(@)]

ReadCopy(r) ==
    /\ rd[r].pc = "copy"
    /\ Len(rd[r].out) < Parts
    /\ rd' = [rd EXCEPT ![r].out = Append(@, cells[Len(@) + 1])]

\* Mutant of ReadCheck: s2 only has to be even.
ReadCheck_Even(r) ==
    /\ rd[r].pc = "copy"
    /\ Len(rd[r].out) = Parts
    /\ rd' = [rd EXCEPT ![r] = IF ~ Odd(seq) THEN Returned(@, "kSuccess", @.out)
                                             ELSE NextRound(@)]

\* s1 == s2.
ReadCheck(r) ==
    /\ rd[r].pc = "copy"
    /\ Len(rd[r].out) = Parts
    /\ rd' = [rd EXCEPT ![r] = IF seq = @.s THEN Returned(@, "kSuccess", @.out)
                                            ELSE NextRound(@)]

\* FUTEX_WAIT: the kernel compares the word and puts the caller to sleep in one
\* step; a word that changed makes it return at once (EAGAIN).
Wait(r) ==
    /\ rd[r].pc = "wait"
    /\ rd' = [rd EXCEPT ![r].pc = IF notify = rd[r].last THEN "asleep" ELSE "snapshot"]

\* A timeout (ETIMEDOUT) or a signal (EINTR).
WaitEnds(r) ==
    /\ rd[r].pc = "asleep"
    /\ rd' = [rd EXCEPT ![r].pc = "snapshot"]

\* The steps of a call of try_read.
ReadBody(r) == ReadSeq(r) \/ ReadBeat(r) \/ ReadClock(r) \/ ReadCopy(r) \/ ReadCheck(r)

ReadStep(r) ==
    \/ Snapshot(r) \/ (\E mode \in Modes : ReadCall(r, mode)) \/ ReadBody(r) \/ Wait(r)

Tick ==
    /\ now < MaxTime
    /\ now' = now + 1
    /\ UNCHANGED <<fileVars, wr, rd, historyVars>>

Write(w) == (Claim(w) \/ WriteCall(w) \/ WriteStep(w) \/ WriterDies(w)) /\ UNCHANGED now
Read(r) == (ReadStep(r) \/ WaitEnds(r)) /\ UNCHANGED <<fileVars, now, wr, historyVars>>

SlotNext == (\E w \in Writers : Write(w)) \/ (\E r \in Readers : Read(r)) \/ Tick

SlotSpec == SlotInit /\ [][SlotNext]_slotVars

\* Writers inside a write and readers are scheduled.  In the code a timeout ends
\* a wait some day; without fairness on WaitEnds nothing here relies on that.
SlotFairSpec ==
    /\ SlotSpec
    /\ \A w \in Writers : WF_slotVars(WriteStep(w) /\ UNCHANGED now)
    /\ \A r \in Readers :
        WF_slotVars(ReadStep(r) /\ UNCHANGED <<fileVars, now, wr, historyVars>>)

-------------------------------------------------------------------------------
WriterLocals ==
    [pc : {"down", "claim_beat", "claim_load", "claim_cas", "clear", "store_claim",
           "idle", "odd", "copy", "beat", "store_beat", "notify", "wake"},
     s : Nat, hb : Nat, now : Nat, done : 0..Parts, value : 0..MaxWrite, era : Nat]

Results == {"none", "kSuccess", "kEmpty", "kContended", "kWriterDead"}

ReaderLocals ==
    [pc : {"snapshot", "read", "seq", "beat", "clock", "copy", "wait", "asleep"},
     mode : {"plain", "status"}, i : 0..(MaxRetries - 1), s : Nat, hb : Nat,
     out : Seq(0..MaxWrite), last : Nat, floor : Nat, resets : Nat,
     orphan : BOOLEAN, ret : [result : Results, value : Seq(0..MaxWrite)]]

\* The types of the file, of the clock and of the history.
FileTypeOK ==
    /\ exists \in BOOLEAN
    /\ seq \in Nat /\ heartbeat \in Nat /\ notify \in Nat /\ now \in Nat
    /\ cells \in [1..Parts -> 0..MaxWrite]
    /\ written \in 0..MaxWrite /\ committed \in 0..MaxWrite
    /\ resets \in Nat /\ deaths \in 0..MaxCrash /\ diedAt \in Nat

\* Type invariant.
SlotTypeOK ==
    /\ FileTypeOK
    /\ wr \in [Writers -> WriterLocals]
    /\ rd \in [Readers -> ReaderLocals]
    /\ \A r \in Readers : Len(rd[r].out) <= Parts

Ended(r, result) == rd[r].ret.result = result

SnapshotOf(r) ==
    Ended(r, "kSuccess") /\ rd[r].resets = resets =>
        \E v \in rd[r].floor..committed : rd[r].ret.value = Whole(v)

\* try_read's snapshot is one whole value whose write was complete, and none that
\* was already replaced when the call began: unless a recovery reset seq during
\* the call, s1 == s2 shows that no word of it was stored in between.
SnapshotIsCurrent == \A r \in Readers : SnapshotOf(r)

\* What the call of r returned is not newer than what its next call may return.
NotNewer(r) ==
    \A v \in 0..MaxWrite :
        /\ rd[r].pc = "read" /\ rd'[r].pc # "read"
        /\ Ended(r, "kSuccess") /\ rd[r].ret.value = Whole(v) /\ rd[r].resets = resets
        => v <= rd'[r].floor

\* A reader never goes back: a call of try_read that follows a successful one
\* cannot return an older value (its snapshot is not older than its `floor`),
\* unless a recovery emptied the slot.
ReadsNeverGoBack == [][\A r \in Readers : NotNewer(r)]_slotVars

\* "Readers never see torn payloads (they retry until they observe a stable even
\* seq)" (shared_latest.hpp:42).
NoTornRead ==
    \A r \in Readers :
        Ended(r, "kSuccess") => \E v \in 0..MaxWrite : rd[r].ret.value = Whole(v)

\* A status read that begins longer than the threshold after the writer died in
\* the middle of a write says so, unless that writer never completed one (then
\* the heartbeat is still 0).
DeathIsSeen ==
    \A r \in Readers :
        Ended(r, "kContended") /\ rd[r].mode = "status" /\ rd[r].orphan =>
            heartbeat = 0

\* "if the writer process dies mid-write, readers get kWriterDead instead of
\* silently spinning" (README.md:118).
EveryDeathIsSeen ==
    \A r \in Readers :
        ~ (Ended(r, "kContended") /\ rd[r].mode = "status" /\ rd[r].orphan)

\* The heartbeat is there "to distinguish "writer is mid-write" from "writer is
\* dead."" (shared_latest.hpp:45): a live writer is not reported dead.
LiveIsNotDead ==
    [][\A r \in Readers : Ended(r, "kWriterDead")' /\ ~ Ended(r, "kWriterDead") =>
         \A w \in Writers : wr[w].pc \notin {"copy", "beat", "store_beat"}]_slotVars

\* Two processes recover the slot from the same death at the same time only when
\* the first of them has been at it for the threshold ("Prevents two processes
\* from recovering the same slot simultaneously", shared_latest.hpp:105).
RecoveryIsExclusive ==
    \A v, w \in {u \in Writers : wr[u].pc = "clear" /\ wr[u].era = resets} : v # w =>
        \/ wr[w].now - wr[v].now >= DeadThreshold
        \/ wr[v].now - wr[w].now >= DeadThreshold

\* "After claim() succeeds, the caller is the sole writer" (shared_latest.hpp:70).
SoleWriter ==
    \A v, w \in {u \in Writers : wr[u].pc \in {"idle", "odd", "copy", "beat",
                                                "store_beat", "notify", "wake"}} : v = w

(***************************************************************************)
(* The inductive invariants.  RecoveryInv needs that a process claims only *)
(* when the others are dead or recovering, SeqlockInv that it does when    *)
(* they are dead and that the stores of a write are seen in order;         *)
(* DeathInv needs neither.                                                 *)
(***************************************************************************)

Recovering(w) == wr[w].pc \in {"claim_load", "claim_cas", "clear"}

\* As long as the recovery a claim began with is under way, nobody writes: only
\* the CAS of another claim, which found the heartbeat too old, can change it.
RecoveryOf(w) ==
    /\ wr[w].era <= resets
    /\ Recovering(w) /\ wr[w].era = resets =>
        Odd(seq) /\ \A v \in Writers : Recovering(v) \/ wr[v].pc = "down"
    /\ wr[w].pc = "claim_cas" => wr[w].hb = 0 \/ wr[w].now - wr[w].hb >= DeadThreshold
    /\ wr[w].pc \in {"claim_cas", "clear"} => wr[w].now > 0
    /\ wr[w].pc = "clear" /\ wr[w].era = resets => wr[w].now <= heartbeat

RecoveryInv ==
    /\ now > 0
    /\ ~ exists => \A w \in Writers : wr[w].pc = "down"
    /\ \A w \in Writers : RecoveryOf(w)
    /\ RecoveryIsExclusive

\* seq is odd from the first word of a write to the last, and what is copied or
\* cleared by then is in the cells.
WriterAt(w) ==
    /\ Recovering(w) \/ wr[w].pc = "copy" \/ wr[w].pc = "down" \/ ~ Odd(seq)
    /\ Recovering(w) \/ wr[w].pc = "copy" => Odd(seq)
    /\ wr[w].pc = "odd" => wr[w].s = seq /\ wr[w].done = 0
    /\ wr[w].pc = "copy" => wr[w].s + 1 = seq
    /\ wr[w].pc \in {"odd", "copy"} => wr[w].value = written
    /\ wr[w].pc = "copy" => \A i \in 1..wr[w].done : cells[i] = wr[w].value
    /\ wr[w].pc = "clear" => \A i \in 1..wr[w].done : cells[i] = 0

\* One process at a time writes, and an even seq means one whole value.
WritersInv ==
    /\ \A v, w \in Writers : v = w \/ wr[v].pc = "down" \/ wr[w].pc = "down"
    /\ ~ exists => seq = 0 /\ \A w \in Writers : wr[w].pc = "down"
    /\ committed <= written
    /\ Odd(seq) \/ cells = Whole(committed)
    /\ \A w \in Writers : WriterAt(w)

\* What r copied is the value of the seq it started from, as long as that is the
\* seq of the slot and no recovery has started the numbers again.
ReaderAt(r) ==
    /\ rd[r].pc # "copy" => rd[r].out = <<>>
    /\ rd[r].resets <= resets
    /\ rd[r].resets = resets => rd[r].floor <= committed
    /\ rd[r].resets = resets /\ rd[r].pc = "copy" =>
        /\ rd[r].s <= seq /\ ~ Odd(rd[r].s)
        /\ rd[r].s = seq => \A i \in 1..Len(rd[r].out) : rd[r].out[i] = committed

SeqlockInv ==
    /\ WritersInv
    /\ \A r \in Readers : ReaderAt(r)
    /\ SnapshotIsCurrent

\* A call that began when the writer was long dead finds the heartbeat too old the
\* first time it looks, in the round SpinCheck at the latest.
DeadFor(r) ==
    /\ \A w \in Writers : wr[w].pc = "down"
    /\ now - diedAt > DeadThreshold
    /\ rd[r].mode = "status" /\ heartbeat # 0 =>
        /\ rd[r].i < SpinCheck
        /\ rd[r].pc \in {"beat", "clock"} => rd[r].i + 1 = SpinCheck
        /\ rd[r].pc = "clock" => rd[r].hb = heartbeat
        /\ rd[r].pc = "copy" => rd[r].s = seq
        /\ ~ Ended(r, "kContended")

\* Between two calls the round is 0, and so it is when one begins.
RoundOf(r) ==
    /\ rd[r].pc \in {"snapshot", "read", "wait", "asleep"} => rd[r].i = 0
    /\ rd[r].orphan => DeadFor(r)

DeathInv ==
    /\ heartbeat <= now /\ diedAt <= now
    /\ \A w \in Writers : wr[w].now <= now
    /\ (\A w \in Writers : wr[w].pc \in {"down", "claim_load", "claim_cas"}) =>
        heartbeat <= diedAt
    /\ \A r \in Readers : RoundOf(r)

\* No wakeup is lost: a reader that takes notify_counter() before it reads, and
\* waits on it, reads every value that write_and_notify stored, or a later one,
\* although no timeout ever ends its wait.
UpdateIsRead ==
    \A r \in Readers : \A n \in 1..MaxWrite :
        (committed = n) ~> (\E v \in n..MaxWrite : rd[r].ret.value = Whole(v))
===============================================================================
