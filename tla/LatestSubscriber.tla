--------------------------- MODULE LatestSubscriber ---------------------------
(***************************************************************************)
(* A topic of ipc_adapter.hpp for the latest value: SharedLatestPublisher, *)
(* whose publish is write, and SharedLatestSubscriber, whose thread polls  *)
(* try_read and calls back when the sequence number has changed since.     *)
(***************************************************************************)
EXTENDS SharedLatest, PollThread

CONSTANT SubReader      \* the reader that is the subscriber's polling thread

ASSUME SubAssumption == SubReader \in Readers

VARIABLES
    lastSeq,     \* last_seq
    shown,       \* history: what on_message_ was given last
    overtaken,   \* history: a write or a recovery came between try_read and
                 \* raw_sequence when lastSeq was stored
    told         \* history: on_death_ was called since a writer last claimed

viewVars == <<lastSeq, shown, overtaken, told>>
latestVars == <<slotVars, pollVars, viewVars>>

LatestInit ==
    /\ SlotInit /\ PollInit
    /\ lastSeq = 0 /\ shown = <<>> /\ overtaken = FALSE /\ told = FALSE

\* Mutant of LatestStart: last_seq starts with the sequence number found.
LatestStart_SkipsCurrent ==
    /\ exists
    /\ Start
    /\ lastSeq' = seq
    /\ UNCHANGED <<slotVars, shown, overtaken, told>>

\* start; the constructor before it has opened the file.
LatestStart ==
    /\ exists
    /\ Start
    /\ lastSeq' = 0 /\ overtaken' = FALSE
    /\ UNCHANGED <<slotVars, shown, told>>

\* try_read of the status kind.
PollCall ==
    /\ poller = "work"
    /\ poller' = "reading"
    /\ rd' = [rd EXCEPT ![SubReader] = Called(SubReader, "status")]
    /\ UNCHANGED <<fileVars, now, wr, historyVars, running, joinable, owner, starts,
                   viewVars>>

PollRead ==
    /\ poller = "reading"
    /\ ReadBody(SubReader)
    /\ UNCHANGED <<fileVars, now, wr, historyVars, pollVars, viewVars>>

\* The switch: raw_sequence loads seq again, after try_read has returned.
PollResult ==
    /\ poller = "reading"
    /\ rd[SubReader].pc = "wait"
    /\ IF Ended(SubReader, "kSuccess") /\ seq # lastSeq
       THEN /\ lastSeq' = seq
            /\ shown' = rd[SubReader].ret.value
            /\ overtaken' = (Odd(seq) \/ rd[SubReader].ret.value # Whole(committed))
       ELSE UNCHANGED <<lastSeq, shown, overtaken>>
    /\ told' = (told \/ Ended(SubReader, "kWriterDead"))
    /\ poller' = "wait"
    /\ UNCHANGED <<slotVars, running, joinable, owner, starts>>

LatestLoop ==
    \/ PollCall \/ PollRead \/ PollResult
    \/ (PollHead("done") \/ PollLock \/ PollBlock) /\ UNCHANGED <<slotVars, viewVars>>

LatestTimeout == PollTimeout /\ UNCHANGED <<slotVars, viewVars>>

\* The publishers' side.
Publishing ==
    /\ \/ Tick /\ UNCHANGED told
       \/ \E w \in Writers : Write(w) /\ told' = (told /\ wr'[w].pc = "down")
    /\ UNCHANGED <<pollVars, lastSeq, shown, overtaken>>

LatestNext ==
    \/ Publishing
    \/ LatestStart
    \/ (StopCall \/ Stop) /\ UNCHANGED <<slotVars, viewVars>>
    \/ LatestLoop \/ LatestTimeout

\* Time passes, a write that was begun goes on, the polling thread is scheduled and
\* its wait times out.
LatestSpec ==
    /\ LatestInit /\ [][LatestNext]_latestVars
    /\ WF_latestVars(Tick /\ UNCHANGED <<pollVars, viewVars>>)
    /\ \A w \in Writers :
        WF_latestVars(WriteStep(w) /\ UNCHANGED <<now, pollVars, viewVars>>)
    /\ WF_latestVars(LatestLoop) /\ WF_latestVars(LatestTimeout)

-------------------------------------------------------------------------------
\* Type invariant.
LatestTypeOK ==
    /\ SlotTypeOK /\ PollTypeOK
    /\ lastSeq \in Nat /\ shown \in Seq(0..MaxWrite)
    /\ overtaken \in BOOLEAN /\ told \in BOOLEAN

\* The subscriber is a reader of SharedLatest like any other, and starting and
\* stopping it in the middle of a read takes nothing from the seqlock: every
\* snapshot is one whole value that was current during the call.
ReaderSafe == LatestTypeOK /\ SnapshotIsCurrent

Remembered == seq = lastSeq /\ seq # 0 /\ ~ Odd(seq)

\* The subscriber skips a value only when it has shown it: as long as seq is the
\* last_seq it remembers, the value in the slot is the one the callback was given,
\* unless seq moved between try_read and raw_sequence or a recovery started the
\* numbers again.
SkippedIsShown ==
    running /\ Remembered => shown = Whole(committed) \/ overtaken \/ resets > 0

\* There is a thread from start to the end of stop, and a try_read under way only
\* while the thread is in it.
PollingInv ==
    /\ joinable <=> poller # "none"
    /\ owner = "idle" => (running <=> poller # "none")
    /\ owner # "idle" => poller # "none" /\ (running <=> owner = "store")
    /\ poller = "reading" \/ rd[SubReader].pc \in {"snapshot", "wait"}

\* Until a recovery starts the numbers again last_seq is not ahead of seq, so no
\* later value can meet it.
MemoryInv ==
    resets > 0 \/ (/\ lastSeq <= seq
                   /\ Remembered => shown = Whole(committed) \/ overtaken)

\* The inductive invariant of a topic, which implies every invariant above.
LatestInv == LatestTypeOK /\ SeqlockInv /\ DeathInv /\ PollingInv /\ MemoryInv

\* "Invokes a user callback whenever a new value is read (detected via sequence
\* number change)" (ipc_adapter.hpp:128).
EveryNewValueIsShown == running /\ Remembered => shown = Whole(committed)

IsWriterAlive == heartbeat # 0 /\ now - heartbeat < DeadThreshold

\* No writer, and the clock's bound leaves time to notice.
Deserted ==
    /\ \A w \in Writers : wr[w].pc = "down"
    /\ heartbeat # 0 /\ heartbeat + DeadThreshold < MaxTime

\* When the writer is gone for good, the death callback is called if it died in the
\* middle of a write; after a death between two writes is_writer_alive, at least,
\* turns false.
DeathShows ==
    (running /\ Deserted) ~>
        (told \/ (~ Odd(seq) /\ ~ IsWriterAlive) \/ ~ running \/ ~ Deserted)

\* "Optionally invokes a death callback when the writer dies" (ipc_adapter.hpp:129).
DeathIsTold == (running /\ Deserted) ~> (told \/ ~ running \/ ~ Deserted)
===============================================================================
