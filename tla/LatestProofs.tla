----------------------------- MODULE LatestProofs -----------------------------
(***************************************************************************)
(* SharedLatest and its subscriber, for every number of writers, readers,  *)
(* deaths and values.  DeathInv needs nothing, RecoveryInv that a process  *)
(* claims the slot when the others are dead or recovering, SeqlockInv that *)
(* it does when they are dead and that stores are seen in order.           *)
(***************************************************************************)
EXTENDS LatestSubscriber, TLAPS

\* Time for the large leaves.
USE SMTT(30), ZenonT(30)

(* SharedLatest: types. *)

\* The types of the locals of a writer.
LEMMA WriterFields ==
    ASSUME wr \in [Writers -> WriterLocals], NEW w \in Writers
    PROVE  /\ wr[w] \in WriterLocals
           /\ wr[w].pc \in {"down", "claim_beat", "claim_load", "claim_cas", "clear",
                            "store_claim", "idle", "odd", "copy", "beat", "store_beat",
                            "notify", "wake"}
           /\ wr[w].s \in Nat /\ wr[w].hb \in Nat /\ wr[w].now \in Nat
           /\ wr[w].done \in 0..Parts /\ wr[w].value \in 0..MaxWrite /\ wr[w].era \in Nat
           /\ DOMAIN wr = Writers
  BY Zenon DEF WriterLocals

\* What is assumed of the constants.
LEMMA Constants ==
    /\ Parts \in Nat /\ Parts > 0 /\ MaxWrite \in Nat /\ DeadThreshold \in Nat
    /\ MaxCrash \in Nat /\ MaxTime \in Nat
    /\ MaxRetries \in Nat /\ MaxRetries > 0 /\ SpinCheck \in 1..MaxRetries
  BY PartsAssumption, BoundsAssumption, RetriesAssumption

LEMMA DownType == Down \in WriterLocals
  BY Constants DEF Down, WriterLocals

\* A step of a writer changes the locals of no other, and keeps the types.
LEMMA WriterTypeStep ==
    ASSUME FileTypeOK, wr \in [Writers -> WriterLocals], NEW w \in Writers, Write(w)
    PROVE  /\ FileTypeOK' /\ wr' \in [Writers -> WriterLocals]
           /\ \A v \in Writers : v # w => wr'[v] = wr[v]
  <1> DEFINE Goal == /\ wr' \in [Writers -> WriterLocals]
                     /\ \A v \in Writers : v # w => wr'[v] = wr[v]
  <1>0. ASSUME NEW x \in WriterLocals, wr' = [wr EXCEPT ![w] = x]
        PROVE  Goal
    BY Zenon, <1>0
  <1>1. /\ wr[w] \in WriterLocals /\ DOMAIN wr = Writers
        /\ wr[w].done \in 0..Parts /\ wr[w].value \in 0..MaxWrite /\ wr[w].s \in Nat
        /\ wr[w].now \in Nat
    BY Zenon, WriterFields
  <1>2. now' = now /\ now \in Nat /\ resets \in Nat
    BY Zenon DEF Write, FileTypeOK
  <1> HIDE DEF Goal
  <1> USE DEF WriterLocals
  <1>3. CASE ClaimStart(w)
    <2> DEFINE x == [wr[w] EXCEPT
                   !.pc = IF ~ exists THEN "idle"
                          ELSE IF Odd(seq) THEN "claim_load" ELSE "claim_beat",
                   !.era = resets]
    <2>1. wr' = [wr EXCEPT ![w] = x]
      BY Zenon, <1>1, <1>3 DEF ClaimStart
    <2>2. x \in WriterLocals
      BY Zenon, <1>1, <1>2, DownType
    <2> HIDE DEF x
    <2>3. Goal
      BY Zenon, <1>0, <2>1, <2>2
    <2>4. /\ exists' = TRUE
          /\ UNCHANGED <<seq, heartbeat, notify, now, cells, written, committed, resets,
                         deaths, diedAt>>
      BY Zenon, <1>2, <1>3 DEF ClaimStart, fileVars, historyVars
    <2>5. FileTypeOK'
      BY Zenon, <1>1, <2>4, Constants DEF FileTypeOK
    <2> QED BY Zenon, <2>3, <2>5 DEF Goal
  <1>4. CASE Clock(w)
    <2> DEFINE x == [wr[w] EXCEPT
                   !.pc = IF wr[w].pc = "beat" THEN "store_beat" ELSE "store_claim",
                   !.now = now]
    <2>1. wr' = [wr EXCEPT ![w] = x]
      BY Zenon, <1>1, <1>4 DEF Clock
    <2>2. x \in WriterLocals
      BY Zenon, <1>1, <1>2, DownType
    <2> HIDE DEF x
    <2>3. Goal
      BY Zenon, <1>0, <2>1, <2>2
    <2>4. UNCHANGED <<exists, seq, heartbeat, notify, now, cells, written, committed,
                      resets, deaths, diedAt>>
      BY Zenon, <1>2, <1>4 DEF Clock, fileVars, historyVars
    <2>5. FileTypeOK'
      BY Zenon, <2>4, Constants DEF FileTypeOK
    <2> QED BY <2>3, <2>5 DEF Goal
  <1>5. CASE ClaimBeat(w)
    <2> DEFINE x == [Down EXCEPT !.pc = "idle"]
    <2>1. wr' = [wr EXCEPT ![w] = x]
      BY Zenon, <1>1, <1>5 DEF ClaimBeat
    <2>2. x \in WriterLocals
      BY Zenon, <1>1, <1>2, DownType
    <2> HIDE DEF x
    <2>3. Goal
      BY Zenon, <1>0, <2>1, <2>2
    <2>4. /\ heartbeat' = wr[w].now
          /\ UNCHANGED <<exists, seq, notify, now, cells, written, committed, resets,
                         deaths, diedAt>>
      BY Zenon, <1>2, <1>5 DEF ClaimBeat, fileVars, historyVars
    <2>5. FileTypeOK'
      BY Zenon, <1>1, <2>4, Constants DEF FileTypeOK
    <2> QED BY <2>3, <2>5 DEF Goal
  <1>6. CASE ClaimLoad(w)
    <2> DEFINE x == IF Fresh(heartbeat) THEN Down
                   ELSE [wr[w] EXCEPT !.pc = "claim_cas", !.hb = heartbeat, !.now = now]
    <2>1. wr' = [wr EXCEPT ![w] = x]
      BY Zenon, <1>1, <1>6 DEF ClaimLoad
    <2>2. x \in WriterLocals
      BY Zenon, <1>1, <1>2, DownType DEF FileTypeOK
    <2> HIDE DEF x
    <2>3. Goal
      BY Zenon, <1>0, <2>1, <2>2
    <2>4. UNCHANGED <<exists, seq, heartbeat, notify, now, cells, written, committed,
                      resets, deaths, diedAt>>
      BY Zenon, <1>2, <1>6 DEF ClaimLoad, fileVars, historyVars
    <2>5. FileTypeOK'
      BY <2>4, Constants DEF FileTypeOK
    <2> QED BY <2>3, <2>5 DEF Goal
  <1>7. CASE ClaimCas(w)
    <2>z. 0 \in 0..Parts
      BY Constants
    <2> DEFINE x == IF heartbeat = wr[w].hb
                   THEN [wr[w] EXCEPT !.pc = "clear", !.done = 0] ELSE Down
    <2>1. wr' = [wr EXCEPT ![w] = x]
      BY Zenon, <1>1, <1>7 DEF ClaimCas
    <2>2. x \in WriterLocals
      BY Zenon, <1>1, <2>z, DownType
    <2> HIDE DEF x
    <2>3. Goal
      BY Zenon, <1>0, <2>1, <2>2
    <2>4. /\ heartbeat' \in {heartbeat, wr[w].now}
          /\ UNCHANGED <<exists, seq, notify, now, cells, written, committed, resets,
                         deaths, diedAt>>
      BY Zenon, <1>2, <1>7 DEF ClaimCas, fileVars, historyVars
    <2>5. FileTypeOK'
      BY Zenon, <1>1, <2>4, Constants DEF FileTypeOK
    <2> QED BY <2>3, <2>5 DEF Goal
  <1>8. CASE ClaimClear(w)
    <2>0. wr[w].done < Parts
      BY Zenon, <1>8 DEF ClaimClear
    <2> DEFINE x == [wr[w] EXCEPT !.done = wr[w].done + 1]
    <2>1. wr' = [wr EXCEPT ![w] = x]
      BY Zenon, <1>1, <1>8 DEF ClaimClear
    <2>2. x \in WriterLocals
      BY <1>1, <2>0, Constants
    <2> HIDE DEF x
    <2>3. Goal
      BY Zenon, <1>0, <2>1, <2>2
    <2>4. /\ cells' = [cells EXCEPT ![wr[w].done + 1] = 0]
          /\ UNCHANGED <<exists, seq, heartbeat, notify, now, written, committed,
                         resets, deaths, diedAt>>
      BY Zenon, <1>2, <1>8 DEF ClaimClear, fileVars, historyVars
    <2>5. FileTypeOK'
      BY <1>1, <2>0, <2>4, Constants DEF FileTypeOK
    <2> QED BY <2>3, <2>5 DEF Goal
  <1>9. CASE ClaimReset(w)
    <2> DEFINE x == [Down EXCEPT !.pc = "notify"]
    <2>1. wr' = [wr EXCEPT ![w] = x]
      BY Zenon, <1>1, <1>9 DEF ClaimReset
    <2>2. x \in WriterLocals
      BY Zenon, <1>1, <1>2, DownType
    <2> HIDE DEF x
    <2>3. Goal
      BY Zenon, <1>0, <2>1, <2>2
    <2>4. /\ seq' = 0 /\ committed' = 0 /\ resets' = resets + 1
          /\ UNCHANGED <<exists, heartbeat, notify, now, cells, written, deaths,
                         diedAt>>
      BY Zenon, <1>2, <1>9 DEF ClaimReset, fileVars, historyVars
    <2>5. FileTypeOK'
      BY <1>1, <2>4, Constants DEF FileTypeOK
    <2> QED BY <2>3, <2>5 DEF Goal
  <1>10. CASE WriteCall(w)
    <2>0. written < MaxWrite
      BY Zenon, <1>10 DEF WriteCall
    <2>z. seq \in Nat /\ written + 1 \in 0..MaxWrite
      BY <2>0, Constants DEF FileTypeOK
    <2> DEFINE x == [Down EXCEPT !.pc = "odd", !.s = seq, !.value = written + 1]
    <2>1. wr' = [wr EXCEPT ![w] = x]
      BY Zenon, <1>1, <1>10 DEF WriteCall
    <2>2. x \in WriterLocals
      BY Zenon, <2>z, DownType
    <2> HIDE DEF x
    <2>3. Goal
      BY Zenon, <1>0, <2>1, <2>2
    <2>4. /\ written < MaxWrite /\ written' = written + 1
          /\ UNCHANGED <<exists, seq, heartbeat, notify, now, cells, committed, resets,
                         deaths, diedAt>>
      BY Zenon, <1>2, <1>10 DEF WriteCall, fileVars, historyVars
    <2>5. FileTypeOK'
      BY <1>1, <2>0, <2>4, Constants DEF FileTypeOK
    <2> QED BY <2>3, <2>5 DEF Goal
  <1>11. CASE WriteOdd(w)
    <2> DEFINE x == [wr[w] EXCEPT !.pc = "copy"]
    <2>1. wr' = [wr EXCEPT ![w] = x]
      BY Zenon, <1>1, <1>11 DEF WriteOdd
    <2>2. x \in WriterLocals
      BY Zenon, <1>1, <1>2, DownType
    <2> HIDE DEF x
    <2>3. Goal
      BY Zenon, <1>0, <2>1, <2>2
    <2>4. /\ seq' = wr[w].s + 1
          /\ UNCHANGED <<exists, heartbeat, notify, now, cells, written, committed,
                         resets, deaths, diedAt>>
      BY Zenon, <1>2, <1>11 DEF WriteOdd, fileVars, historyVars
    <2>5. FileTypeOK'
      BY <1>1, <2>4, Constants DEF FileTypeOK
    <2> QED BY <2>3, <2>5 DEF Goal
  <1>12. CASE WriteCopy(w)
    <2>0. wr[w].done < Parts
      BY Zenon, <1>12 DEF WriteCopy
    <2> DEFINE x == [wr[w] EXCEPT !.done = wr[w].done + 1]
    <2>1. wr' = [wr EXCEPT ![w] = x]
      BY Zenon, <1>1, <1>12 DEF WriteCopy
    <2>2. x \in WriterLocals
      BY <1>1, <2>0, Constants
    <2> HIDE DEF x
    <2>3. Goal
      BY Zenon, <1>0, <2>1, <2>2
    <2>4. /\ cells' = [cells EXCEPT ![wr[w].done + 1] = wr[w].value]
          /\ UNCHANGED <<exists, seq, heartbeat, notify, now, written, committed,
                         resets, deaths, diedAt>>
      BY Zenon, <1>2, <1>12 DEF WriteCopy, fileVars, historyVars
    <2>5. FileTypeOK'
      BY Zenon, <1>1, <2>0, <2>4, Constants DEF FileTypeOK
    <2> QED BY <2>3, <2>5 DEF Goal
  <1>13. CASE WriteEven(w)
    <2> DEFINE x == [wr[w] EXCEPT !.pc = "beat"]
    <2>1. wr' = [wr EXCEPT ![w] = x]
      BY Zenon, <1>1, <1>13 DEF WriteEven
    <2>2. x \in WriterLocals
      BY Zenon, <1>1, <1>2, DownType
    <2> HIDE DEF x
    <2>3. Goal
      BY Zenon, <1>0, <2>1, <2>2
    <2>4. /\ seq' = wr[w].s + 2 /\ committed' = wr[w].value
          /\ UNCHANGED <<exists, heartbeat, notify, now, cells, written, resets, deaths,
                         diedAt>>
      BY Zenon, <1>2, <1>13 DEF WriteEven, fileVars, historyVars
    <2>5. FileTypeOK'
      BY <1>1, <2>4, Constants DEF FileTypeOK
    <2> QED BY <2>3, <2>5 DEF Goal
  <1>14. CASE WriteBeat(w)
    <2>0. PICK call \in Calls : wr' = [wr EXCEPT ![w] =
                 [Down EXCEPT !.pc = IF call = "write" THEN "idle" ELSE "notify"]]
      BY Zenon, <1>14 DEF WriteBeat
    <2> DEFINE x == [Down EXCEPT !.pc = IF call = "write" THEN "idle" ELSE "notify"]
    <2>1. wr' = [wr EXCEPT ![w] = x]
      BY Zenon, <2>0
    <2>2. x \in WriterLocals
      BY Zenon, DownType
    <2> HIDE DEF x
    <2>3. Goal
      BY Zenon, <1>0, <2>1, <2>2
    <2>4. /\ heartbeat' = wr[w].now
          /\ UNCHANGED <<exists, seq, notify, now, cells, written, committed, resets,
                         deaths, diedAt>>
      BY Zenon, <1>2, <1>14 DEF WriteBeat, fileVars, historyVars
    <2>5. FileTypeOK'
      BY Zenon, <1>1, <2>4, Constants DEF FileTypeOK
    <2> QED BY Zenon, <2>3, <2>5 DEF Goal
  <1>15. CASE Notify(w)
    <2> DEFINE x == [wr[w] EXCEPT !.pc = "wake"]
    <2>1. wr' = [wr EXCEPT ![w] = x]
      BY Zenon, <1>1, <1>15 DEF Notify
    <2>2. x \in WriterLocals
      BY Zenon, <1>1, <1>2, DownType
    <2> HIDE DEF x
    <2>3. Goal
      BY Zenon, <1>0, <2>1, <2>2
    <2>4. /\ notify' = notify + 1
          /\ UNCHANGED <<exists, seq, heartbeat, now, cells, written, committed, resets,
                         deaths, diedAt>>
      BY Zenon, <1>2, <1>15 DEF Notify, fileVars, historyVars
    <2>5. FileTypeOK'
      BY <1>1, <2>4, Constants DEF FileTypeOK
    <2> QED BY <2>3, <2>5 DEF Goal
  <1>16. CASE Wake(w)
    <2> DEFINE x == [wr[w] EXCEPT !.pc = "idle"]
    <2>1. wr' = [wr EXCEPT ![w] = x]
      BY Zenon, <1>1, <1>16 DEF Wake
    <2>2. x \in WriterLocals
      BY Zenon, <1>1, <1>2, DownType
    <2> HIDE DEF x
    <2>3. Goal
      BY Zenon, <1>0, <2>1, <2>2
    <2>4. UNCHANGED <<exists, seq, heartbeat, notify, now, cells, written, committed,
                      resets, deaths, diedAt>>
      BY Zenon, <1>2, <1>16 DEF Wake, fileVars, historyVars
    <2>5. FileTypeOK'
      BY <2>4, Constants DEF FileTypeOK
    <2> QED BY <2>3, <2>5 DEF Goal
  <1>17. CASE WriterDies(w)
    <2> DEFINE x == Down
    <2>1. wr' = [wr EXCEPT ![w] = x]
      BY Zenon, <1>1, <1>17 DEF WriterDies
    <2>2. x \in WriterLocals
      BY Zenon, <1>1, <1>2, DownType
    <2> HIDE DEF x
    <2>3. Goal
      BY Zenon, <1>0, <2>1, <2>2
    <2>4. /\ deaths < MaxCrash /\ deaths' = deaths + 1 /\ diedAt' = now
          /\ UNCHANGED <<exists, seq, heartbeat, notify, now, cells, written, committed,
                         resets>>
      BY Zenon, <1>2, <1>17 DEF WriterDies, fileVars, historyVars
    <2>5. FileTypeOK'
      BY <1>1, <2>4, Constants DEF FileTypeOK
    <2> QED BY <2>3, <2>5 DEF Goal
  <1> QED BY Zenon, <1>3, <1>4, <1>5, <1>6, <1>7, <1>8, <1>9, <1>10, <1>11,
             <1>12, <1>13, <1>14, <1>15, <1>16, <1>17
          DEF Write, Claim, WriteStep

-------------------------------------------------------------------------------
(* SharedLatest: one recovery at a time. *)

\* A step of a process that has claimed the slot, or of a writer that dies: none of
\* its locals matters to a recovery any more.
LEMMA RecoveryApart ==
    ASSUME FileTypeOK, wr \in [Writers -> WriterLocals], RecoveryInv, NEW w \in Writers,
           \A v \in Writers : v # w => wr'[v] = wr[v],
           ~ Recovering(w)', wr'[w].era <= resets, UNCHANGED <<now, exists, resets>>,
           exists \/ wr'[w].pc = "down",
           \/ wr[w].pc # "down" /\ ~ Recovering(w)
           \/ wr'[w].pc = "down" /\ UNCHANGED <<seq, heartbeat>>
    PROVE  RecoveryInv'
  <1>1. \A v \in Writers : RecoveryOf(v)
    BY Zenon DEF RecoveryInv
  <1>2. \A v \in Writers : Recovering(v)' => Recovering(v) /\ v # w /\ wr'[v] = wr[v]
    BY Zenon DEF Recovering
  <1>3. ASSUME NEW v \in Writers, Recovering(v)', wr'[v].era = resets
        PROVE  /\ UNCHANGED <<seq, heartbeat>> /\ Odd(seq)
               /\ \A u \in Writers : Recovering(u)' \/ wr'[u].pc = "down"
    <2>1. Recovering(v) /\ wr[v].era = resets
      BY Zenon, <1>2, <1>3
    <2>2. Odd(seq) /\ \A u \in Writers : Recovering(u) \/ wr[u].pc = "down"
      BY Zenon, <1>1, <2>1 DEF RecoveryOf
    <2>3. UNCHANGED <<seq, heartbeat>> /\ wr'[w].pc = "down"
      BY Zenon, <2>2
    <2> QED BY Zenon, <2>2, <2>3 DEF Recovering
  <1>4. ASSUME NEW v \in Writers PROVE RecoveryOf(v)'
    <2>1. CASE v = w
      BY Zenon, <2>1 DEF RecoveryOf, Recovering
    <2>2. CASE v # w
      BY Zenon, <1>1, <1>3, <2>2 DEF RecoveryOf, Recovering, Odd
    <2> QED BY Zenon, <2>1, <2>2
  <1>5. RecoveryIsExclusive'
    BY Zenon, <1>2 DEF RecoveryInv, RecoveryIsExclusive, Recovering
  <1>6. now' > 0 /\ (~ exists' => \A v \in Writers : wr'[v].pc = "down")
    BY Zenon DEF RecoveryInv
  <1> QED BY Zenon, <1>4, <1>5, <1>6 DEF RecoveryInv

\* A recovery that is over makes every other one an old one.
LEMMA RecoveryOver ==
    ASSUME FileTypeOK, wr \in [Writers -> WriterLocals], RecoveryInv, NEW w \in Writers,
           \A v \in Writers : v # w => wr'[v] = wr[v],
           ~ Recovering(w)', wr'[w].era = 0, UNCHANGED <<now, exists, heartbeat>>,
           wr[w].pc # "down", resets' = resets + 1
    PROVE  RecoveryInv'
  <1>1. resets \in Nat /\ \A v \in Writers : wr[v].era \in Nat
    BY Zenon, WriterFields DEF FileTypeOK
  <1>2. \A v \in Writers : wr'[v].era < resets' /\ wr'[v].era \in Nat
    BY <1>1 DEF RecoveryInv, RecoveryOf
  <1>3. \A v \in Writers : RecoveryOf(v)'
    BY <1>1, <1>2 DEF RecoveryInv, RecoveryOf, Recovering
  <1>4. RecoveryIsExclusive'
    BY <1>1, <1>2 DEF RecoveryIsExclusive
  <1> QED BY Zenon, <1>3, <1>4 DEF RecoveryInv

\* A claim that starts.
LEMMA RecoveryStarts ==
    ASSUME FileTypeOK, wr \in [Writers -> WriterLocals], RecoveryInv, Launch # "any",
           NEW w \in Writers, ClaimStart(w), now' = now,
           \A v \in Writers : v # w => wr'[v] = wr[v]
    PROVE  RecoveryInv'
  <1>0. DOMAIN wr = Writers /\ wr[w] \in WriterLocals
    BY Zenon, WriterFields
  <1>1. /\ wr[w].pc = "down" /\ wr'[w].era = resets /\ exists' = TRUE
        /\ wr'[w].pc = IF ~ exists THEN "idle"
                       ELSE IF Odd(seq) THEN "claim_load" ELSE "claim_beat"
        /\ UNCHANGED <<seq, heartbeat, resets>>
    BY Zenon, <1>0 DEF ClaimStart, historyVars, WriterLocals
  <1>2. \A v \in Writers : Recovering(v) \/ wr[v].pc = "down"
    BY Zenon, CallersAssumption DEF ClaimStart, Launched, Recovering
  <1>3. resets \in Nat
    BY Zenon DEF FileTypeOK
  <1>4. \A v \in Writers : RecoveryOf(v)
    BY Zenon DEF RecoveryInv
  <1>5. CASE exists /\ Odd(seq)
    <2>1. wr'[w].pc = "claim_load"
      BY Zenon, <1>1, <1>5
    <2>2. \A v \in Writers : Recovering(v)' \/ wr'[v].pc = "down"
      BY Zenon, <1>2, <2>1 DEF Recovering
    <2>3. \A v \in Writers : RecoveryOf(v)'
      BY <1>1, <1>3, <1>4, <1>5, <2>1, <2>2 DEF RecoveryOf, Recovering, Odd
    <2>4. RecoveryIsExclusive'
      BY <1>1, <2>1 DEF RecoveryInv, RecoveryIsExclusive
    <2> QED BY Zenon, <1>1, <2>3, <2>4 DEF RecoveryInv
  <1>6. CASE ~ (exists /\ Odd(seq))
    <2>1. wr'[w].pc \in {"idle", "claim_beat"}
      BY Zenon, <1>1, <1>6
    <2>2. \A v \in Writers : ~ (Recovering(v) /\ wr[v].era = resets)
      BY Zenon, <1>4, <1>6 DEF RecoveryOf, RecoveryInv, Recovering
    <2>3. \A v \in Writers : RecoveryOf(v)'
      BY <1>1, <1>3, <1>4, <2>1, <2>2 DEF RecoveryOf, Recovering
    <2>4. RecoveryIsExclusive'
      BY Zenon, <1>1, <2>1, <2>2 DEF RecoveryIsExclusive, Recovering
    <2> QED BY <1>1, <2>3, <2>4 DEF RecoveryInv
  <1> QED BY Zenon, <1>5, <1>6

\* The steps of a recovery itself: the heartbeat it found, if any, was too old, and
\* the CAS fails when the heartbeat has changed since.
LEMMA RecoveryGoesOn ==
    ASSUME FileTypeOK, wr \in [Writers -> WriterLocals], RecoveryInv, NEW w \in Writers,
           \A v \in Writers : v # w => wr'[v] = wr[v],
           Recovering(w), Recovering(w)', wr'[w].era = wr[w].era,
           UNCHANGED <<now, exists, resets, seq>>,
           \/ wr'[w].pc = wr[w].pc /\ wr'[w].now = wr[w].now /\ wr'[w].hb = wr[w].hb
              /\ heartbeat' = heartbeat
           \/ wr'[w].pc = "claim_cas" /\ wr'[w].now = now /\ wr'[w].hb = heartbeat
              /\ heartbeat' = heartbeat /\ ~ Fresh(heartbeat)
           \/ wr[w].pc = "claim_cas" /\ wr'[w].pc = "clear" /\ wr'[w].now = wr[w].now
              /\ heartbeat' = wr[w].now /\ heartbeat = wr[w].hb
    PROVE  RecoveryInv'
  <1>0. /\ heartbeat \in Nat /\ now \in Nat /\ DeadThreshold \in Nat /\ resets \in Nat
        /\ \A v \in Writers : wr[v].now \in Nat /\ wr[v].hb \in Nat
    BY Zenon, WriterFields, Constants DEF FileTypeOK
  <1>1. (\A v \in Writers : RecoveryOf(v)) /\ now > 0
    BY Zenon DEF RecoveryInv
  <1>2. \A v \in Writers :
            Recovering(v)' = Recovering(v) /\ (wr'[v].pc = "down" <=> wr[v].pc = "down")
    BY DEF Recovering
  <1>3. \A v \in Writers : Recovering(v) /\ wr[v].era = resets =>
            Odd(seq') /\ \A u \in Writers : Recovering(u)' \/ wr'[u].pc = "down"
    BY Zenon, <1>1, <1>2 DEF RecoveryOf, Odd
  <1>4. CASE wr'[w].pc = wr[w].pc /\ wr'[w].now = wr[w].now /\ wr'[w].hb = wr[w].hb
             /\ heartbeat' = heartbeat
    <2>1. \A v \in Writers : RecoveryOf(v)'
      BY <1>1, <1>2, <1>3, <1>4 DEF RecoveryOf
    <2>2. RecoveryIsExclusive'
      BY <1>4 DEF RecoveryInv, RecoveryIsExclusive
    <2> QED BY Zenon, <1>1, <2>1, <2>2 DEF RecoveryInv, Recovering
  <1>5. CASE wr'[w].pc = "claim_cas" /\ wr'[w].now = now /\ wr'[w].hb = heartbeat
             /\ heartbeat' = heartbeat /\ ~ Fresh(heartbeat)
    <2>0. heartbeat = 0 \/ now - heartbeat >= DeadThreshold
      BY <1>0, <1>5 DEF Fresh
    <2>1. \A v \in Writers : RecoveryOf(v)'
      BY Zenon, <1>1, <1>2, <1>3, <1>5, <2>0 DEF RecoveryOf
    <2>2. RecoveryIsExclusive'
      BY Zenon, <1>5 DEF RecoveryInv, RecoveryIsExclusive
    <2> QED BY <1>1, <2>1, <2>2 DEF RecoveryInv, Recovering
  <1>6. CASE wr[w].pc = "claim_cas" /\ wr'[w].pc = "clear" /\ wr'[w].now = wr[w].now
             /\ heartbeat' = wr[w].now /\ heartbeat = wr[w].hb
    <2>0. /\ wr[w].now > 0
          /\ wr[w].hb = 0 \/ wr[w].now - wr[w].hb >= DeadThreshold
      BY Zenon, <1>1, <1>6 DEF RecoveryOf
    <2>1. ASSUME NEW v \in Writers, wr[v].pc = "clear", wr[v].era = resets
          PROVE  wr[w].now - wr[v].now >= DeadThreshold /\ wr[v].now <= wr[w].now
      <3>1. wr[v].now <= wr[w].hb /\ wr[v].now > 0
        BY Zenon, <1>1, <1>6, <2>1 DEF RecoveryOf
      <3> QED BY <1>0, <2>0, <3>1
    <2>2. \A v \in Writers : RecoveryOf(v)'
      <3> SUFFICES ASSUME NEW v \in Writers PROVE RecoveryOf(v)'
        BY Zenon
      <3>1. CASE v = w
        BY <1>0, <1>1, <1>2, <1>3, <1>6, <2>0, <3>1 DEF RecoveryOf
      <3>2. CASE v # w
        BY Zenon, <1>1, <1>2, <1>3, <1>6, <2>1, <3>2 DEF RecoveryOf
      <3> QED BY Zenon, <3>1, <3>2
    <2>3. RecoveryIsExclusive'
      BY <1>6, <2>1 DEF RecoveryInv, RecoveryIsExclusive
    <2> QED BY <1>1, <2>2, <2>3 DEF RecoveryInv, Recovering
  <1> QED BY Zenon, <1>4, <1>5, <1>6

\* Every step of a writer.
LEMMA RecoveryWrite ==
    ASSUME FileTypeOK, wr \in [Writers -> WriterLocals], RecoveryInv, Launch # "any",
           NEW w \in Writers, Write(w)
    PROVE  RecoveryInv'
  <1>0. /\ DOMAIN wr = Writers /\ wr[w] \in WriterLocals /\ wr[w].era <= resets
        /\ resets \in Nat /\ 0 <= resets
    BY WriterFields DEF FileTypeOK, RecoveryInv, RecoveryOf
  <1>1. \A v \in Writers : v # w => wr'[v] = wr[v]
    BY Zenon, WriterTypeStep
  <1>2. now' = now
    BY Zenon DEF Write
  <1>3. wr[w].pc # "down" => exists
    BY Zenon DEF RecoveryInv
  <1>4. CASE ClaimStart(w)
    BY Zenon, <1>1, <1>2, <1>4, RecoveryStarts
  <1>5. CASE ClaimReset(w)
    <2>1. wr'[w].pc = "notify" /\ wr'[w].era = 0
      BY Zenon, <1>0, <1>5 DEF ClaimReset, Down
    <2> QED BY Zenon, <1>1, <1>2, <1>5, <2>1, RecoveryOver DEF ClaimReset, Recovering
  <1>6. CASE WriterDies(w)
    <2>1. wr'[w].pc = "down" /\ wr'[w].era = 0
      BY Zenon, <1>0, <1>6 DEF WriterDies, Down
    <2>2. UNCHANGED <<exists, resets, seq, heartbeat>>
      BY Zenon, <1>6 DEF WriterDies, fileVars
    <2> QED BY Zenon, <1>0, <1>1, <1>2, <2>1, <2>2, RecoveryApart DEF Recovering
  <1>7. CASE ClaimLoad(w)
    <2>1. UNCHANGED <<exists, resets, seq, heartbeat>> /\ wr[w].pc = "claim_load"
      BY Zenon, <1>7 DEF ClaimLoad, fileVars, historyVars
    <2>2. CASE Fresh(heartbeat)
      <3>1. wr'[w].pc = "down" /\ wr'[w].era = 0
        BY Zenon, <1>0, <1>7, <2>2 DEF ClaimLoad, Down
      <3> QED BY Zenon, <1>0, <1>1, <1>2, <2>1, <3>1, RecoveryApart DEF Recovering
    <2>3. CASE ~ Fresh(heartbeat)
      <3>1. /\ wr'[w].pc = "claim_cas" /\ wr'[w].era = wr[w].era
            /\ wr'[w].now = now /\ wr'[w].hb = heartbeat
        BY Zenon, <1>0, <1>7, <2>3 DEF ClaimLoad, WriterLocals
      <3>2. Recovering(w) /\ Recovering(w)'
        BY Zenon, <2>1, <3>1 DEF Recovering
      <3> QED BY Zenon, <1>1, <1>2, <2>1, <2>3, <3>1, <3>2, RecoveryGoesOn
    <2> QED BY Zenon, <2>2, <2>3
  <1>8. CASE ClaimCas(w)
    <2>1. UNCHANGED <<exists, resets, seq>> /\ wr[w].pc = "claim_cas"
      BY Zenon, <1>8 DEF ClaimCas, historyVars
    <2>2. CASE heartbeat # wr[w].hb
      <3>1. wr'[w].pc = "down" /\ wr'[w].era = 0 /\ heartbeat' = heartbeat
        BY <1>0, <1>8, <2>2 DEF ClaimCas, Down
      <3> QED BY Zenon, <1>0, <1>1, <1>2, <2>1, <3>1, RecoveryApart DEF Recovering
    <2>3. CASE heartbeat = wr[w].hb
      <3>1. /\ wr'[w].pc = "clear" /\ wr'[w].era = wr[w].era
            /\ wr'[w].now = wr[w].now /\ heartbeat' = wr[w].now
        BY <1>0, <1>8, <2>3 DEF ClaimCas, WriterLocals
      <3>2. Recovering(w) /\ Recovering(w)'
        BY Zenon, <2>1, <3>1 DEF Recovering
      <3> QED BY Zenon, <1>1, <1>2, <2>1, <2>3, <3>1, <3>2, RecoveryGoesOn
    <2> QED BY Zenon, <2>2, <2>3
  <1>9. CASE ClaimClear(w)
    <2>1. UNCHANGED <<exists, resets, seq, heartbeat>> /\ wr[w].pc = "clear"
      BY Zenon, <1>9 DEF ClaimClear, historyVars
    <2>2. /\ wr'[w].pc = wr[w].pc /\ wr'[w].era = wr[w].era
          /\ wr'[w].now = wr[w].now /\ wr'[w].hb = wr[w].hb
      BY Zenon, <1>0, <1>9 DEF ClaimClear, WriterLocals
    <2>3. Recovering(w) /\ Recovering(w)'
      BY Zenon, <2>1, <2>2 DEF Recovering
    <2> QED BY Zenon, <1>1, <1>2, <2>1, <2>2, <2>3, RecoveryGoesOn
  <1>10. ASSUME wr[w].pc # "down", ~ Recovering(w), ~ Recovering(w)', wr'[w].era <= resets,
                UNCHANGED <<exists, resets>>
         PROVE  RecoveryInv'
    BY Zenon, <1>1, <1>2, <1>3, <1>10, RecoveryApart
  <1>11. CASE Clock(w)
    <2>1. UNCHANGED <<exists, resets>> /\ wr[w].pc \in {"claim_beat", "beat"}
      BY Zenon, <1>11 DEF Clock, fileVars, historyVars
    <2>2. wr'[w].pc \in {"store_claim", "store_beat"} /\ wr'[w].era = wr[w].era
      BY Zenon, <1>0, <1>11 DEF Clock, WriterLocals
    <2> QED BY Zenon, <1>0, <1>10, <2>1, <2>2 DEF Recovering
  <1>12. CASE ClaimBeat(w) \/ WriteBeat(w)
    <2>1. UNCHANGED <<exists, resets>> /\ wr[w].pc \in {"store_claim", "store_beat"}
      BY Zenon, <1>12 DEF ClaimBeat, WriteBeat, historyVars
    <2>2. wr'[w].pc \in {"idle", "notify"} /\ wr'[w].era = 0
      BY Zenon, <1>0, <1>12 DEF ClaimBeat, WriteBeat, Down
    <2> QED BY Zenon, <1>0, <1>10, <2>1, <2>2 DEF Recovering
  <1>13. CASE WriteCall(w)
    <2>1. UNCHANGED <<exists, resets>> /\ wr[w].pc = "idle"
      BY Zenon, <1>13 DEF WriteCall, fileVars
    <2>2. wr'[w].pc = "odd" /\ wr'[w].era = 0
      BY Zenon, <1>0, <1>13 DEF WriteCall, Down
    <2> QED BY Zenon, <1>0, <1>10, <2>1, <2>2 DEF Recovering
  <1>14. CASE WriteOdd(w) \/ WriteCopy(w) \/ WriteEven(w)
    <2>1. UNCHANGED <<exists, resets>> /\ wr[w].pc \in {"odd", "copy"}
      BY Zenon, <1>14 DEF WriteOdd, WriteCopy, WriteEven, historyVars
    <2>2. wr'[w].pc \in {"odd", "copy", "beat"} /\ wr'[w].era = wr[w].era
      BY <1>0, <1>14 DEF WriteOdd, WriteCopy, WriteEven, WriterLocals
    <2> QED BY Zenon, <1>0, <1>10, <2>1, <2>2 DEF Recovering
  <1>15. CASE Notify(w) \/ Wake(w)
    <2>1. UNCHANGED <<exists, resets>> /\ wr[w].pc \in {"notify", "wake"}
      BY Zenon, <1>15 DEF Notify, Wake, fileVars, historyVars
    <2>2. wr'[w].pc \in {"idle", "wake"} /\ wr'[w].era = wr[w].era
      BY <1>0, <1>15 DEF Notify, Wake, WriterLocals
    <2> QED BY Zenon, <1>0, <1>10, <2>1, <2>2 DEF Recovering
  <1> QED BY Zenon, <1>4, <1>5, <1>6, <1>7, <1>8, <1>9, <1>11, <1>12, <1>13, <1>14, <1>15
          DEF Write, Claim, WriteStep

\* The state a writer's invariants are about.
writerState == <<exists, seq, heartbeat, wr, resets>>

\* No step of a reader, and no tick, touches a recovery.
LEMMA RecoveryElse ==
    ASSUME RecoveryInv, FileTypeOK, UNCHANGED writerState, now' \in {now, now + 1}
    PROVE  RecoveryInv'
  <1>1. now' > 0
    BY DEF RecoveryInv, FileTypeOK
  <1>2. \A v \in Writers : RecoveryOf(v)'
    BY Zenon DEF RecoveryInv, RecoveryOf, Recovering, Odd, writerState
  <1>3. RecoveryIsExclusive'
    BY Zenon DEF RecoveryInv, RecoveryIsExclusive, writerState
  <1> QED BY Zenon, <1>1, <1>2, <1>3 DEF RecoveryInv, writerState

\* The types and the initial state.
LEMMA WritersStart ==
    ASSUME SlotInit
    PROVE  FileTypeOK /\ wr \in [Writers -> WriterLocals] /\ RecoveryInv
  <1>1. FileTypeOK
    <2>1. 0 \in 0..MaxWrite /\ 0 \in 0..MaxCrash
      BY Constants
    <2>2. cells \in [1..Parts -> 0..MaxWrite]
      BY Zenon, <2>1 DEF SlotInit, Whole
    <2> QED BY Zenon, <2>1, <2>2 DEF SlotInit, FileTypeOK
  <1>2. wr \in [Writers -> WriterLocals] /\ \A w \in Writers : wr[w] = Down
    BY Zenon, DownType DEF SlotInit
  <1>3. \A w \in Writers : wr[w].pc = "down" /\ wr[w].era = 0
    <2>1. Down.pc = "down" /\ Down.era = 0
      BY DEF Down
    <2> QED BY Zenon, <1>2, <2>1
  <1>4. now > 0 /\ resets = 0
    BY DEF SlotInit
  <1>5. RecoveryInv
    BY <1>3, <1>4 DEF RecoveryInv, RecoveryOf, Recovering, RecoveryIsExclusive
  <1> QED BY Zenon, <1>1, <1>2, <1>5

\* A step of the system that is not one of a writer leaves the writers' state.
LEMMA OtherSteps ==
    ASSUME FileTypeOK, wr \in [Writers -> WriterLocals],
           \/ \E r \in Readers : Read(r)
           \/ Tick
           \/ UNCHANGED slotVars
    PROVE  /\ UNCHANGED writerState /\ now' \in {now, now + 1}
           /\ FileTypeOK' /\ wr' \in [Writers -> WriterLocals]
           /\ UNCHANGED <<fileVars, wr, historyVars>>
  <1>1. UNCHANGED <<fileVars, wr, historyVars>> /\ now' \in {now, now + 1}
    BY Zenon DEF Read, Tick, slotVars
  <1>2. UNCHANGED <<exists, seq, heartbeat, notify, cells, wr, written, committed, resets,
                    deaths, diedAt>>
    BY Zenon, <1>1 DEF fileVars, historyVars
  <1>3. FileTypeOK'
    BY <1>1, <1>2 DEF FileTypeOK
  <1> QED BY Zenon, <1>1, <1>2, <1>3 DEF writerState

\* "Prevents two processes from recovering the same slot simultaneously"
\* (shared_latest.hpp:105): for every number of processes that claim when the others
\* are dead or recovering, the CAS on the heartbeat keeps them apart until the first
\* has been at it for dead_threshold.
THEOREM OneRecovery == Launch # "any" => (SlotSpec => []RecoveryIsExclusive)
  <1> SUFFICES ASSUME Launch # "any" PROVE SlotSpec => []RecoveryIsExclusive
    BY Zenon
  <1> DEFINE Inv == FileTypeOK /\ wr \in [Writers -> WriterLocals] /\ RecoveryInv
  <1>1. SlotInit => Inv
    BY Zenon, WritersStart
  <1>2. Inv /\ [SlotNext]_slotVars => Inv'
    <2> SUFFICES ASSUME Inv, [SlotNext]_slotVars PROVE Inv'
      BY Zenon
    <2>1. ASSUME NEW w \in Writers, Write(w) PROVE Inv'
      BY Zenon, <2>1, WriterTypeStep, RecoveryWrite
    <2>2. CASE (\E r \in Readers : Read(r)) \/ Tick \/ UNCHANGED slotVars
      BY Zenon, <2>2, OtherSteps, RecoveryElse
    <2> QED BY Zenon, <2>1, <2>2 DEF SlotNext
  <1>3. Inv => RecoveryIsExclusive
    BY Zenon DEF RecoveryInv
  <1> QED BY <1>1, <1>2, <1>3, PTL DEF SlotSpec

-------------------------------------------------------------------------------
(* SharedLatest: the readers. *)

Returns == [result : Results, value : Seq(0..MaxWrite)]

ReaderPcs == {"snapshot", "read", "seq", "beat", "clock", "copy", "wait", "asleep"}

\* The types of the locals of a reader.
LEMMA ReaderFields ==
    ASSUME NEW c \in ReaderLocals
    PROVE  /\ c.pc \in ReaderPcs /\ c.mode \in {"plain", "status"}
           /\ c.i \in 0..(MaxRetries - 1) /\ c.s \in Nat /\ c.hb \in Nat
           /\ c.out \in Seq(0..MaxWrite) /\ c.last \in Nat /\ c.floor \in Nat
           /\ c.resets \in Nat /\ c.orphan \in BOOLEAN /\ c.ret \in Returns
  BY Zenon DEF ReaderLocals, ReaderPcs, Returns

\* The overload and the history of a call stay the same throughout it.
SameCall(x, c) ==
    /\ x.mode = c.mode /\ x.floor = c.floor /\ x.resets = c.resets
    /\ x.orphan = c.orphan /\ x.last = c.last

\* A call that returns.
HasReturned(x, c, result, value) ==
    /\ x \in ReaderLocals /\ SameCall(x, c)
    /\ x.pc = "wait" /\ x.i = 0 /\ x.out = <<>>
    /\ x.ret.result = result /\ x.ret.value = value

LEMMA ReturnedFacts ==
    ASSUME NEW c \in ReaderLocals, NEW value \in Seq(0..MaxWrite), NEW result \in Results
    PROVE  HasReturned(Returned(c, result, value), c, result, value)
  <1> DEFINE ret == [result |-> result, value |-> value]
             none == <<>>
  <1>1. ret \in Returns /\ ret.result = result /\ ret.value = value
    BY Zenon DEF Returns
  <1>2. none \in Seq(0..MaxWrite) /\ 0 \in 0..(MaxRetries - 1)
    BY Constants
  <1> HIDE DEF ret, none
  <1> DEFINE x == [c EXCEPT !.pc = "wait", !.i = 0, !.s = 0, !.hb = 0, !.out = none,
                            !.ret = ret]
  <1>3. /\ x \in ReaderLocals /\ SameCall(x, c) /\ x.pc = "wait" /\ x.i = 0
        /\ x.out = none /\ x.ret = ret
    BY Zenon, <1>1, <1>2 DEF ReaderLocals, Returns, SameCall
  <1> QED BY Zenon, <1>1, <1>3 DEF Returned, HasReturned, ret, none

\* The next round of a call: there is one, or the call fails.
GoesRound(x, c) ==
    /\ x \in ReaderLocals /\ SameCall(x, c) /\ x.out = <<>>
    /\ \/ c.i + 1 < MaxRetries /\ x.pc = "seq" /\ x.i = c.i + 1 /\ x.ret = c.ret
       \/ c.i + 1 >= MaxRetries /\ x.pc = "wait" /\ x.i = 0 /\ x.ret.result = "kContended"

LEMMA RoundFacts ==
    ASSUME NEW c \in ReaderLocals
    PROVE  GoesRound(NextRound(c), c)
  <1>0. c.i \in 0..(MaxRetries - 1) /\ MaxRetries \in Nat
    BY Zenon, ReaderFields, Constants
  <1>1. CASE c.i + 1 < MaxRetries
    <2> DEFINE none == <<>>
    <2>1. none \in Seq(0..MaxWrite) /\ c.i + 1 \in 0..(MaxRetries - 1)
      BY <1>0, <1>1
    <2> HIDE DEF none
    <2> DEFINE x == [c EXCEPT !.pc = "seq", !.i = c.i + 1, !.s = 0, !.hb = 0, !.out = none]
    <2>2. /\ x \in ReaderLocals /\ SameCall(x, c) /\ x.pc = "seq" /\ x.i = c.i + 1
          /\ x.out = none /\ x.ret = c.ret
      BY Zenon, <2>1 DEF ReaderLocals, Returns, SameCall
    <2>3. NextRound(c) = x
      BY Zenon, <1>1 DEF NextRound, none
    <2> QED BY Zenon, <1>1, <2>2, <2>3 DEF none, GoesRound
  <1>2. CASE ~ (c.i + 1 < MaxRetries)
    <2> DEFINE none == <<>>
               result == "kContended"
    <2>1. none \in Seq(0..MaxWrite) /\ result \in Results
      BY DEF Results
    <2>2. NextRound(c) = Returned(c, result, none) /\ c.i + 1 >= MaxRetries
      BY <1>0, <1>2 DEF NextRound
    <2> HIDE DEF none, result
    <2> DEFINE x == Returned(c, result, none)
    <2>3. HasReturned(x, c, result, none)
      BY Zenon, <2>1, ReturnedFacts
    <2> HIDE DEF x
    <2>4. NextRound(c) = x
      BY Zenon, <2>2 DEF x
    <2> QED BY Zenon, <2>2, <2>3, <2>4 DEF result, HasReturned, GoesRound
  <1> QED BY Zenon, <1>1, <1>2

\* A new call.
IsCalled(x, c, mode) ==
    /\ x \in ReaderLocals /\ x.mode = mode /\ x.floor = committed
    /\ x.resets = resets /\ x.orphan = Orphaned
    /\ \/ x.pc = "seq" /\ x.out = c.out /\ x.i = c.i /\ x.ret = NoReturn
       \/ x.pc = "wait" /\ x.out = <<>> /\ x.i = 0 /\ x.ret.result = "kEmpty"

LEMMA CalledFacts ==
    ASSUME SlotTypeOK, NEW r \in Readers, NEW mode \in {"plain", "status"}
    PROVE  IsCalled(Called(r, mode), rd[r], mode)
  <1> DEFINE o == Orphaned
             n == NoReturn
             none == <<>>
             empty == "kEmpty"
  <1>1. o \in BOOLEAN
    BY Zenon DEF Orphaned
  <1>2. /\ none \in Seq(0..MaxWrite) /\ n \in Returns
        /\ empty \in Results
    BY DEF NoReturn, Returns, Results
  <1>3. committed \in Nat /\ resets \in Nat /\ rd[r] \in ReaderLocals
    BY Constants DEF SlotTypeOK, FileTypeOK
  <1> HIDE DEF o, n, none, empty
  <1> DEFINE call == [rd[r] EXCEPT !.pc = "seq", !.mode = mode, !.floor = committed,
                              !.resets = resets, !.orphan = o, !.ret = n]
  <1>4. /\ call \in ReaderLocals /\ call.mode = mode /\ call.floor = committed
        /\ call.resets = resets /\ call.orphan = o /\ call.pc = "seq"
        /\ call.out = rd[r].out /\ call.i = rd[r].i /\ call.ret = n
    BY Zenon, <1>1, <1>2, <1>3 DEF ReaderLocals, Returns
  <1>5. Called(r, mode) = IF mode = "status" /\ seq = 0 THEN Returned(call, empty, none)
                                                        ELSE call
    BY Zenon DEF Called, o, n, none, empty
  <1> HIDE DEF call
  <1>6. CASE mode = "status" /\ seq = 0
    <2> DEFINE x == Returned(call, empty, none)
    <2>1. Called(r, mode) = x
      BY Zenon, <1>5, <1>6
    <2>2. HasReturned(x, call, empty, none)
      BY Zenon, <1>2, <1>4, ReturnedFacts
    <2> HIDE DEF x
    <2> QED BY Zenon, <1>4, <2>1, <2>2 DEF HasReturned, IsCalled, SameCall, o, empty
  <1>7. CASE ~ (mode = "status" /\ seq = 0)
    BY Zenon, <1>4, <1>5, <1>7 DEF IsCalled, o, n
  <1> QED BY Zenon, <1>6, <1>7

\* What a step of a call may do to the locals c of a reader.
Stores(c, x) ==
    \/ c.pc = "seq" /\ ~ Odd(seq) /\ x = [c EXCEPT !.pc = "copy", !.s = seq]
    \/ /\ c.pc = "seq" /\ Odd(seq) /\ c.mode = "status" /\ (c.i + 1) % SpinCheck = 0
       /\ x = [c EXCEPT !.pc = "beat"]
    \/ /\ c.pc = "seq" /\ Odd(seq) /\ ~ (c.mode = "status" /\ (c.i + 1) % SpinCheck = 0)
       /\ x = NextRound(c)
    \/ c.pc = "beat" /\ x = [c EXCEPT !.pc = "clock", !.hb = heartbeat]
    \/ c.pc = "clock" /\ x = Returned(c, "kWriterDead", <<>>)
    \/ /\ c.pc = "clock" /\ ~ (c.hb # 0 /\ now - c.hb > DeadThreshold)
       /\ x = NextRound(c)
    \/ c.pc = "copy" /\ Len(c.out) < Parts
       /\ x = [c EXCEPT !.out = Append(c.out, cells[Len(c.out) + 1])]
    \/ /\ c.pc = "copy" /\ Len(c.out) = Parts /\ seq = c.s
       /\ x = Returned(c, "kSuccess", c.out)
    \/ c.pc = "copy" /\ Len(c.out) = Parts /\ seq # c.s /\ x = NextRound(c)

\* Every step of a call stores one of these.
LEMMA BodyStores ==
    ASSUME SlotTypeOK, NEW r \in Readers, ReadBody(r)
    PROVE  \E x : rd' = [rd EXCEPT ![r] = x] /\ Stores(rd[r], x)
  <1>0. rd[r] \in ReaderLocals /\ DOMAIN rd = Readers
    BY Zenon DEF SlotTypeOK
  <1>1. CASE ReadSeq(r)
    <2>1. CASE ~ Odd(seq)
      BY Zenon, <1>0, <1>1, <2>1 DEF ReadSeq, Stores
    <2>2. CASE Odd(seq) /\ rd[r].mode = "status" /\ (rd[r].i + 1) % SpinCheck = 0
      BY Zenon, <1>0, <1>1, <2>2 DEF ReadSeq, Stores
    <2>3. CASE Odd(seq) /\ ~ (rd[r].mode = "status" /\ (rd[r].i + 1) % SpinCheck = 0)
      BY Zenon, <1>0, <1>1, <2>3 DEF ReadSeq, Stores
    <2> QED BY Zenon, <2>1, <2>2, <2>3
  <1>2. CASE ReadBeat(r)
    <2>1. rd' = [rd EXCEPT ![r] = [rd[r] EXCEPT !.pc = "clock", !.hb = heartbeat]]
      BY Zenon, <1>0, <1>2 DEF ReadBeat
    <2> QED BY Zenon, <1>2, <2>1 DEF ReadBeat, Stores
  <1>3. CASE ReadClock(r)
    BY Zenon, <1>0, <1>3 DEF ReadClock, Stores
  <1>4. CASE ReadCopy(r)
    <2>1. rd' = [rd EXCEPT ![r] = [rd[r] EXCEPT
                   !.out = Append(rd[r].out, cells[Len(rd[r].out) + 1])]]
      BY Zenon, <1>0, <1>4 DEF ReadCopy
    <2> QED BY Zenon, <1>4, <2>1 DEF ReadCopy, Stores
  <1>5. CASE ReadCheck(r)
    BY Zenon, <1>0, <1>5 DEF ReadCheck, Stores
  <1> QED BY Zenon, <1>1, <1>2, <1>3, <1>4, <1>5 DEF ReadBody

\* What that makes of the locals: the round goes on, the next one begins, or the
\* call returns.
Outcome(c, x) ==
    \/ /\ c.pc = "seq" /\ ~ Odd(seq) /\ x.pc = "copy" /\ x.s = seq
       /\ x.out = c.out /\ x.i = c.i /\ x.ret = c.ret
    \/ /\ c.pc = "seq" /\ Odd(seq) /\ c.mode = "status" /\ (c.i + 1) % SpinCheck = 0
       /\ x.pc = "beat" /\ x.out = c.out /\ x.i = c.i /\ x.ret = c.ret
    \/ /\ c.pc = "seq" /\ Odd(seq) /\ ~ (c.mode = "status" /\ (c.i + 1) % SpinCheck = 0)
       /\ GoesRound(x, c)
    \/ /\ c.pc = "beat" /\ x.pc = "clock" /\ x.hb = heartbeat
       /\ x.out = c.out /\ x.i = c.i /\ x.ret = c.ret
    \/ c.pc = "clock" /\ HasReturned(x, c, "kWriterDead", <<>>)
    \/ /\ c.pc = "clock" /\ ~ (c.hb # 0 /\ now - c.hb > DeadThreshold)
       /\ GoesRound(x, c)
    \/ /\ c.pc = "copy" /\ Len(c.out) < Parts /\ x.pc = "copy" /\ x.s = c.s
       /\ x.out = Append(c.out, cells[Len(c.out) + 1]) /\ x.i = c.i /\ x.ret = c.ret
    \/ /\ c.pc = "copy" /\ Len(c.out) = Parts /\ seq = c.s
       /\ HasReturned(x, c, "kSuccess", c.out)
    \/ c.pc = "copy" /\ Len(c.out) = Parts /\ seq # c.s /\ GoesRound(x, c)

LEMMA OutcomeOf ==
    ASSUME SlotTypeOK, NEW c \in ReaderLocals, Len(c.out) <= Parts, NEW x, Stores(c, x)
    PROVE  /\ x \in ReaderLocals /\ Len(x.out) <= Parts /\ SameCall(x, c)
           /\ Outcome(c, x)
  <1>0. /\ seq \in Nat /\ heartbeat \in Nat /\ Parts \in Nat /\ Parts > 0
        /\ c.out \in Seq(0..MaxWrite)
    BY Zenon, ReaderFields, Constants DEF SlotTypeOK, FileTypeOK
  <1>1. ASSUME x = NextRound(c)
        PROVE  /\ x \in ReaderLocals /\ SameCall(x, c) /\ Len(x.out) <= Parts
               /\ GoesRound(x, c)
    <2>1. GoesRound(x, c)
      BY Zenon, <1>1, RoundFacts
    <2>2. x \in ReaderLocals /\ SameCall(x, c) /\ x.out = <<>>
      BY Zenon, <2>1 DEF GoesRound
    <2> QED BY <1>0, <2>1, <2>2
  <1>2. ASSUME NEW result \in Results, NEW value \in Seq(0..MaxWrite),
               x = Returned(c, result, value)
        PROVE  /\ x \in ReaderLocals /\ SameCall(x, c) /\ Len(x.out) <= Parts
               /\ HasReturned(x, c, result, value)
    <2>1. HasReturned(x, c, result, value)
      BY Zenon, <1>2, ReturnedFacts
    <2>2. x \in ReaderLocals /\ SameCall(x, c) /\ x.out = <<>>
      BY Zenon, <2>1 DEF HasReturned
    <2> QED BY <1>0, <2>1, <2>2
  <1>3. CASE c.pc = "seq" /\ ~ Odd(seq) /\ x = [c EXCEPT !.pc = "copy", !.s = seq]
    <2> DEFINE y == [c EXCEPT !.pc = "copy", !.s = seq]
    <2>1. /\ y \in ReaderLocals /\ SameCall(y, c) /\ y.out = c.out /\ y.i = c.i
          /\ y.ret = c.ret /\ y.pc = "copy" /\ y.s = seq
      BY Zenon, <1>0 DEF ReaderLocals, Returns, SameCall
    <2> QED BY Zenon, <1>3, <2>1 DEF Outcome
  <1>4. CASE /\ c.pc = "seq" /\ Odd(seq) /\ c.mode = "status"
             /\ (c.i + 1) % SpinCheck = 0
             /\ x = [c EXCEPT !.pc = "beat"]
    <2> DEFINE y == [c EXCEPT !.pc = "beat"]
    <2>1. /\ y \in ReaderLocals /\ SameCall(y, c) /\ y.out = c.out /\ y.i = c.i
          /\ y.ret = c.ret /\ y.pc = "beat"
      BY Zenon, <1>0 DEF ReaderLocals, Returns, SameCall
    <2> QED BY Zenon, <1>4, <2>1 DEF Outcome
  <1>5. CASE c.pc = "beat" /\ x = [c EXCEPT !.pc = "clock", !.hb = heartbeat]
    <2> DEFINE y == [c EXCEPT !.pc = "clock", !.hb = heartbeat]
    <2>1. /\ y \in ReaderLocals /\ SameCall(y, c) /\ y.out = c.out /\ y.i = c.i
          /\ y.ret = c.ret /\ y.pc = "clock" /\ y.hb = heartbeat
      BY Zenon, <1>0 DEF ReaderLocals, Returns, SameCall
    <2> QED BY Zenon, <1>5, <2>1 DEF Outcome
  <1>6. CASE /\ c.pc = "copy" /\ Len(c.out) < Parts
             /\ x = [c EXCEPT !.out = Append(c.out, cells[Len(c.out) + 1])]
    <2> DEFINE k == Len(c.out) + 1
               a == Append(c.out, cells[k])
    <2>1. k \in 1..Parts
      BY <1>0, <1>6
    <2>2. cells[k] \in 0..MaxWrite
      BY Zenon, <2>1 DEF SlotTypeOK, FileTypeOK
    <2>3. a \in Seq(0..MaxWrite) /\ Len(a) = k
      BY <1>0, <2>2
    <2> HIDE DEF k, a
    <2> DEFINE y == [c EXCEPT !.out = a]
    <2>4. x = y
      BY Zenon, <1>6 DEF k, a
    <2>5. /\ y \in ReaderLocals /\ SameCall(y, c) /\ y.out = a /\ y.pc = c.pc /\ y.s = c.s
          /\ y.i = c.i /\ y.ret = c.ret
      BY Zenon, <2>3 DEF ReaderLocals, Returns, SameCall
    <2> HIDE DEF y
    <2>6. Len(x.out) <= Parts
      BY <2>1, <2>3, <2>4, <2>5
    <2> QED BY Zenon, <1>6, <2>4, <2>5, <2>6 DEF Outcome, k, a
  <1>7. CASE c.pc = "clock" /\ x = Returned(c, "kWriterDead", <<>>)
    <2>1. <<>> \in Seq(0..MaxWrite) /\ "kWriterDead" \in Results
      BY DEF Results
    <2> QED BY Zenon, <1>2, <1>7, <2>1 DEF Outcome
  <1>8. CASE /\ c.pc = "copy" /\ Len(c.out) = Parts /\ seq = c.s
             /\ x = Returned(c, "kSuccess", c.out)
    <2>1. "kSuccess" \in Results
      BY Zenon DEF Results
    <2> QED BY Zenon, <1>0, <1>2, <1>8, <2>1 DEF Outcome
  <1>9. CASE /\ x = NextRound(c)
             /\ \/ c.pc = "seq" /\ Odd(seq)
                   /\ ~ (c.mode = "status" /\ (c.i + 1) % SpinCheck = 0)
                \/ c.pc = "clock" /\ ~ (c.hb # 0 /\ now - c.hb > DeadThreshold)
                \/ c.pc = "copy" /\ Len(c.out) = Parts /\ seq # c.s
    BY Zenon, <1>1, <1>9 DEF Outcome
  <1> QED BY Zenon, <1>3, <1>4, <1>5, <1>6, <1>7, <1>8, <1>9 DEF Stores

\* A step of a reader keeps the types and the locals of every other reader.
LEMMA ReaderTypeStep ==
    ASSUME SlotTypeOK, NEW r \in Readers, NEW x \in ReaderLocals, Len(x.out) <= Parts,
           rd' = [rd EXCEPT ![r] = x],
           UNCHANGED wr, FileTypeOK'
    PROVE  SlotTypeOK' /\ rd'[r] = x /\ \A q \in Readers : q # r => rd'[q] = rd[q]
  <1>1. /\ rd' \in [Readers -> ReaderLocals] /\ rd'[r] = x
        /\ \A q \in Readers : q # r => rd'[q] = rd[q]
    BY Zenon DEF SlotTypeOK
  <1>2. \A q \in Readers : Len(rd'[q].out) <= Parts
    BY Zenon, <1>1 DEF SlotTypeOK
  <1> QED BY Zenon, <1>1, <1>2 DEF SlotTypeOK

\* A sequence of n equal elements.
LEMMA EqualElements ==
    ASSUME NEW n \in Nat, NEW S, NEW q \in Seq(S), Len(q) = n, NEW e,
           \A i \in 1..n : q[i] = e
    PROVE  q = [i \in 1..n |-> e]
  OBVIOUS

\* A step of a call keeps what ReaderAt says of it, and a call that succeeds has
\* copied the value that is in the slot now.
LEMMA SnapshotStep ==
    ASSUME SlotTypeOK, WritersInv, NEW r \in Readers, ReaderAt(r), SnapshotOf(r),
           NEW x \in ReaderLocals, rd'[r] = x, SameCall(x, rd[r]), Outcome(rd[r], x),
           UNCHANGED <<fileVars, historyVars>>
    PROVE  ReaderAt(r)' /\ SnapshotOf(r)'
  <1> DEFINE c == rd[r]
  <1>1. /\ c \in ReaderLocals /\ c.out \in Seq(0..MaxWrite) /\ Len(c.out) <= Parts
        /\ c.resets \in Nat /\ c.floor \in Nat /\ c.s \in Nat
    BY Zenon, ReaderFields DEF SlotTypeOK
  <1>2. seq' = seq /\ committed' = committed /\ resets' = resets /\ written' = written
    BY Zenon DEF fileVars, historyVars
  <1>3. x.resets = c.resets /\ x.floor = c.floor
    BY Zenon DEF SameCall
  <1>4. /\ committed \in Nat /\ written \in Nat /\ committed <= written /\ seq \in Nat
        /\ Odd(seq) \/ cells = Whole(committed)
        /\ Parts \in Nat
    BY Constants DEF SlotTypeOK, FileTypeOK, WritersInv
  <1>5. /\ c.pc # "copy" => c.out = <<>>
        /\ c.resets <= resets
        /\ c.resets = resets => c.floor <= committed
        /\ c.resets = resets /\ c.pc = "copy" =>
             /\ c.s <= seq /\ ~ Odd(c.s)
             /\ c.s = seq => \A i \in 1..Len(c.out) : c.out[i] = committed
    BY Zenon DEF ReaderAt
  <1>6. c.ret.result = "kSuccess" /\ c.resets = resets =>
            \E v \in c.floor..committed : c.ret.value = Whole(v)
    BY Zenon DEF SnapshotOf, Ended
  <1> DEFINE At == /\ x.pc # "copy" => x.out = <<>>
                   /\ c.resets = resets /\ x.pc = "copy" =>
                        /\ x.s <= seq /\ ~ Odd(x.s)
                        /\ x.s = seq => \A i \in 1..Len(x.out) : x.out[i] = committed
             Snap == x.ret.result = "kSuccess" /\ c.resets = resets =>
                        \E v \in c.floor..committed : x.ret.value = Whole(v)
  <1>7. SUFFICES At /\ Snap
    <2>1. ASSUME At PROVE ReaderAt(r)'
      BY Zenon, <1>2, <1>3, <1>5, <2>1 DEF ReaderAt
    <2>2. ASSUME Snap PROVE SnapshotOf(r)'
      BY ZenonT(30), <1>2, <1>3, <2>2 DEF SnapshotOf, Ended, Whole
    <2> QED BY Zenon, <2>1, <2>2
  <1>8. ASSUME GoesRound(x, c) PROVE At /\ Snap
    BY Zenon, <1>6, <1>8 DEF GoesRound
  <1>9. CASE /\ c.pc = "seq" /\ ~ Odd(seq) /\ x.pc = "copy" /\ x.s = seq
             /\ x.out = c.out /\ x.i = c.i /\ x.ret = c.ret
    <2>1. x.out = <<>>
      BY Zenon, <1>5, <1>9
    <2> QED BY <1>4, <1>6, <1>9, <2>1
  <1>10. CASE /\ c.pc # "copy" /\ x.pc # "copy" /\ x.out = c.out /\ x.ret = c.ret
    BY Zenon, <1>5, <1>6, <1>10
  <1>11. CASE /\ c.pc = "copy" /\ Len(c.out) < Parts /\ x.pc = "copy" /\ x.s = c.s
              /\ x.out = Append(c.out, cells[Len(c.out) + 1]) /\ x.i = c.i
              /\ x.ret = c.ret
    <2>1. ASSUME c.resets = resets, c.s = seq
          PROVE  \A i \in 1..Len(x.out) : x.out[i] = committed
      <3>1. cells[Len(c.out) + 1] = committed
        BY <1>1, <1>4, <1>5, <1>11, <2>1 DEF Whole
      <3>2. \A i \in 1..Len(c.out) : c.out[i] = committed
        BY Zenon, <1>5, <1>11, <2>1
      <3> QED BY <1>1, <1>11, <3>1, <3>2
    <2> QED BY Zenon, <1>5, <1>6, <1>11, <2>1
  <1>12. CASE /\ c.pc = "copy" /\ Len(c.out) = Parts /\ seq = c.s
              /\ HasReturned(x, c, "kSuccess", c.out)
    <2>1. x.pc = "wait" /\ x.out = <<>> /\ x.ret.value = c.out
      BY Zenon, <1>12 DEF HasReturned
    <2>2. ASSUME c.resets = resets PROVE c.out = Whole(committed)
      <3>1. \A i \in 1..Parts : c.out[i] = committed
        BY Zenon, <1>5, <1>12, <2>2
      <3> QED BY <1>1, <1>4, <1>12, <3>1, EqualElements DEF Whole
    <2>3. ASSUME c.resets = resets PROVE committed \in c.floor..committed
      BY <1>1, <1>4, <1>5, <2>3
    <2> QED BY Zenon, <2>1, <2>2, <2>3
  <1>13. CASE HasReturned(x, c, "kWriterDead", <<>>)
    BY Zenon, <1>13 DEF HasReturned
  <1> QED BY Zenon, <1>8, <1>9, <1>10, <1>11, <1>12, <1>13 DEF Outcome

\* A call that begins.
LEMMA SnapshotCalled ==
    ASSUME SlotTypeOK, WritersInv, NEW r \in Readers, rd[r].out = <<>>,
           NEW mode, NEW x \in ReaderLocals, rd'[r] = x, IsCalled(x, rd[r], mode),
           UNCHANGED <<fileVars, historyVars>>
    PROVE  ReaderAt(r)' /\ SnapshotOf(r)'
  <1>1. seq' = seq /\ committed' = committed /\ resets' = resets /\ written' = written
    BY Zenon DEF fileVars, historyVars
  <1>2. /\ x.pc # "copy" /\ x.out = <<>> /\ x.resets = resets /\ x.floor = committed
        /\ x.ret.result # "kSuccess"
    BY DEF IsCalled, NoReturn
  <1>3. committed \in Nat /\ resets \in Nat
    BY Constants DEF SlotTypeOK, FileTypeOK
  <1> QED BY <1>1, <1>2, <1>3 DEF ReaderAt, SnapshotOf, Ended

\* What a reader may do between two calls: it takes notify_counter, waits, wakes.
Rests(x, c) ==
    /\ x \in ReaderLocals /\ c.pc \notin {"seq", "beat", "clock", "copy"}
    /\ x.pc \notin {"seq", "beat", "clock", "copy"}
    /\ x.mode = c.mode /\ x.floor = c.floor /\ x.resets = c.resets
    /\ x.orphan = c.orphan /\ x.out = c.out /\ x.i = c.i /\ x.ret = c.ret

\* Whoever does not touch the slot keeps what the reader knows of it.
LEMMA SnapshotRests ==
    ASSUME SlotTypeOK, NEW r \in Readers, ReaderAt(r), SnapshotOf(r),
           NEW x, rd'[r] = x, Rests(x, rd[r]) \/ x = rd[r],
           UNCHANGED <<fileVars, historyVars>>
    PROVE  ReaderAt(r)' /\ SnapshotOf(r)'
  <1>1. seq' = seq /\ committed' = committed /\ resets' = resets /\ written' = written
    BY Zenon DEF fileVars, historyVars
  <1>2. CASE x = rd[r]
    <2>1. rd'[r] = rd[r]
      BY Zenon, <1>2
    <2>2. ReaderAt(r)'
      BY Zenon, <1>1, <2>1 DEF ReaderAt
    <2>3. SnapshotOf(r)'
      BY ZenonT(30), <1>1, <2>1 DEF SnapshotOf, Ended, Whole
    <2> QED BY Zenon, <2>2, <2>3
  <1>3. CASE Rests(x, rd[r])
    <2>1. /\ x.pc # "copy" /\ rd[r].pc # "copy" /\ x.out = rd[r].out
          /\ x.resets = rd[r].resets /\ x.floor = rd[r].floor /\ x.ret = rd[r].ret
      BY ZenonT(30), <1>3 DEF Rests
    <2> QED BY ZenonT(30), <1>1, <2>1 DEF ReaderAt, SnapshotOf, Ended, Whole
  <1> QED BY Zenon, <1>2, <1>3

\* What a step of a writer may do to a reader: wake it, or tell the history that a
\* writer has claimed.
Kept(x, c) ==
    /\ x \in ReaderLocals
    /\ x.pc = c.pc \/ (c.pc = "asleep" /\ x.pc = "snapshot")
    /\ x.orphan => c.orphan
    /\ x.mode = c.mode /\ x.i = c.i /\ x.s = c.s /\ x.hb = c.hb /\ x.out = c.out
    /\ x.floor = c.floor /\ x.resets = c.resets /\ x.ret = c.ret

LEMMA ReadersKept ==
    ASSUME SlotTypeOK, NEW w \in Writers, Write(w)
    PROVE  /\ rd' \in [Readers -> ReaderLocals]
           /\ \A r \in Readers : Kept(rd'[r], rd[r])
           /\ ClaimStart(w) => \A r \in Readers : ~ rd'[r].orphan
  <1>0. rd \in [Readers -> ReaderLocals]
    BY Zenon DEF SlotTypeOK
  <1>1. CASE ClaimStart(w)
    <2>1. rd' = [r \in Readers |-> [rd[r] EXCEPT !.orphan = FALSE]]
      BY Zenon, <1>1 DEF ClaimStart
    <2>2. ASSUME NEW c \in ReaderLocals
          PROVE  /\ [c EXCEPT !.orphan = FALSE] \in ReaderLocals
                 /\ Kept([c EXCEPT !.orphan = FALSE], c)
                 /\ ~ [c EXCEPT !.orphan = FALSE].orphan
      <3> DEFINE y == [c EXCEPT !.orphan = FALSE]
      <3>1. /\ y \in ReaderLocals /\ y.pc = c.pc /\ ~ y.orphan /\ y.mode = c.mode
            /\ y.i = c.i /\ y.s = c.s /\ y.hb = c.hb /\ y.out = c.out
            /\ y.floor = c.floor /\ y.resets = c.resets /\ y.ret = c.ret
        BY Zenon DEF ReaderLocals
      <3> HIDE DEF y
      <3>2. Kept(y, c)
        BY Zenon, <3>1 DEF Kept
      <3> QED BY Zenon, <3>1, <3>2 DEF y
    <2>3. \A r \in Readers :
            rd[r] \in ReaderLocals /\ rd'[r] = [rd[r] EXCEPT !.orphan = FALSE]
      BY Zenon, <1>0, <2>1
    <2>4. \A r \in Readers :
            rd'[r] \in ReaderLocals /\ Kept(rd'[r], rd[r]) /\ ~ rd'[r].orphan
      BY Zenon, <2>2, <2>3
    <2>5. rd' \in [Readers -> ReaderLocals]
      BY Zenon, <2>1, <2>4
    <2> QED BY Zenon, <2>4, <2>5
  <1>2. CASE Wake(w)
    <2>1. rd' = [r \in Readers |->
                   IF rd[r].pc = "asleep" THEN [rd[r] EXCEPT !.pc = "snapshot"] ELSE rd[r]]
      BY Zenon, <1>2 DEF Wake
    <2>2. ASSUME NEW c \in ReaderLocals, c.pc = "asleep"
          PROVE  Kept([c EXCEPT !.pc = "snapshot"], c)
      <3> DEFINE y == [c EXCEPT !.pc = "snapshot"]
      <3>1. /\ y \in ReaderLocals /\ y.pc = "snapshot" /\ y.orphan = c.orphan
            /\ y.mode = c.mode
            /\ y.i = c.i /\ y.s = c.s /\ y.hb = c.hb /\ y.out = c.out
            /\ y.floor = c.floor /\ y.resets = c.resets /\ y.ret = c.ret
        BY Zenon DEF ReaderLocals
      <3> HIDE DEF y
      <3>2. Kept(y, c)
        BY Zenon, <2>2, <3>1 DEF Kept
      <3> QED BY Zenon, <3>2 DEF y
    <2>3. \A c \in ReaderLocals : Kept(c, c)
      BY Zenon DEF Kept
    <2>4. ASSUME NEW r \in Readers
          PROVE  Kept(rd'[r], rd[r])
      <3>1. rd[r] \in ReaderLocals
        BY Zenon, <1>0
      <3>2. CASE rd[r].pc = "asleep"
        <4>1. rd'[r] = [rd[r] EXCEPT !.pc = "snapshot"]
          BY Zenon, <2>1, <3>2
        <4> QED BY Zenon, <2>2, <3>1, <3>2, <4>1
      <3>3. CASE rd[r].pc # "asleep"
        <4>1. rd'[r] = rd[r]
          BY Zenon, <2>1, <3>3
        <4> QED BY Zenon, <2>3, <3>1, <4>1
      <3> QED BY Zenon, <3>2, <3>3
    <2>5. \A r \in Readers : rd'[r] \in ReaderLocals
      BY Zenon, <2>4 DEF Kept
    <2>6. rd' \in [Readers -> ReaderLocals]
      BY Zenon, <2>1, <2>5
    <2>7. ~ ClaimStart(w)
      BY Zenon, <1>2 DEF Wake, ClaimStart
    <2> QED BY Zenon, <2>4, <2>6, <2>7
  <1>3. CASE ~ ClaimStart(w) /\ ~ Wake(w)
    <2>1. rd' = rd
      BY Zenon, <1>3
      DEF Write, Claim, WriteStep, Clock, ClaimBeat, ClaimLoad, ClaimCas, ClaimClear,
          ClaimReset, WriteCall, WriteOdd, WriteCopy, WriteEven, WriteBeat, Notify,
          WriterDies
    <2>2. \A r \in Readers : rd[r] \in ReaderLocals
      BY Zenon, <1>0
    <2> QED BY Zenon, <1>0, <1>3, <2>1, <2>2 DEF Kept
  <1> QED BY Zenon, <1>1, <1>2, <1>3

\* The types, after a step of a writer.
LEMMA WriteKeepsTypes ==
    ASSUME SlotTypeOK, NEW w \in Writers, Write(w)
    PROVE  SlotTypeOK'
  <1>1. FileTypeOK' /\ wr' \in [Writers -> WriterLocals]
    BY Zenon, WriterTypeStep DEF SlotTypeOK
  <1>2. \A r \in Readers : rd'[r].out = rd[r].out
    BY Zenon, ReadersKept DEF Kept
  <1> QED BY Zenon, <1>1, <1>2, ReadersKept DEF SlotTypeOK

\* What a writer does to the slot as a reader sees it: nothing, a new value and a
\* larger seq, or a recovery.
SlotMoves ==
    /\ written <= written'
    /\ \/ UNCHANGED <<seq, committed, resets>>
       \/ seq < seq' /\ committed <= committed' /\ UNCHANGED resets
       \/ resets' = resets + 1

LEMMA SnapshotKept ==
    ASSUME SlotTypeOK, FileTypeOK', NEW r \in Readers, ReaderAt(r), SnapshotOf(r),
           Kept(rd'[r], rd[r]), SlotMoves
    PROVE  ReaderAt(r)' /\ SnapshotOf(r)'
  <1> DEFINE c == rd[r]
             x == rd'[r]
  <1>1. /\ c.resets \in Nat /\ c.floor \in Nat /\ c.s \in Nat
    BY Zenon, ReaderFields DEF SlotTypeOK
  <1>2. /\ seq \in Nat /\ seq' \in Nat /\ committed \in Nat /\ committed' \in Nat
        /\ written \in Nat /\ written' \in Nat /\ written <= written' /\ resets \in Nat
    BY Constants DEF SlotTypeOK, FileTypeOK, SlotMoves
  <1>3. /\ x.pc = "copy" <=> c.pc = "copy"
        /\ x.out = c.out /\ x.resets = c.resets /\ x.floor = c.floor /\ x.s = c.s
        /\ x.ret = c.ret
    BY Zenon DEF Kept
  <1>0. ASSUME resets' = resets PROVE SnapshotOf(r)'
    <2>1. SUFFICES ASSUME x.ret.result = "kSuccess", x.resets = resets
                   PROVE  \E v \in x.floor..committed' : x.ret.value = Whole(v)
      BY ZenonT(30), <1>0 DEF SnapshotOf, Ended, Whole
    <2>2. PICK v \in c.floor..committed : c.ret.value = Whole(v)
      BY Zenon, <1>3, <2>1 DEF SnapshotOf, Ended
    <2>3. committed <= committed'
      BY <1>0, <1>2 DEF SlotMoves
    <2>4. v \in x.floor..committed' /\ x.ret.value = Whole(v)
      BY <1>1, <1>2, <1>3, <2>2, <2>3
    <2> QED BY Zenon, <2>4
  <1>4. CASE UNCHANGED <<seq, committed, resets>>
    <2>1. ReaderAt(r)'
      BY Zenon, <1>3, <1>4 DEF ReaderAt
    <2> QED BY Zenon, <1>0, <1>4, <2>1
  <1>5. CASE seq < seq' /\ committed <= committed' /\ UNCHANGED resets
    <2>1. ReaderAt(r)'
      BY <1>1, <1>2, <1>3, <1>5 DEF ReaderAt
    <2> QED BY Zenon, <1>0, <1>5, <2>1
  <1>6. CASE resets' = resets + 1
    <2>1. c.resets < resets'
      BY <1>1, <1>2, <1>6 DEF ReaderAt
    <2> QED BY <1>1, <1>2, <1>3, <2>1, <1>6 DEF ReaderAt, SnapshotOf
  <1> QED BY Zenon, <1>4, <1>5, <1>6 DEF SlotMoves

LEMMA Parity ==
    ASSUME NEW n \in Nat
    PROVE  (Odd(n + 1) <=> ~ Odd(n)) /\ (Odd(n + 2) <=> Odd(n)) /\ ~ Odd(0)
  BY DEF Odd

\* When only w is alive, what is to be shown of the writers is shown of w.
LEMMA AloneStep ==
    ASSUME NEW w \in Writers,
           \A v \in Writers : v # w => wr[v].pc = "down" /\ wr'[v] = wr[v],
           WriterAt(w)', committed' <= written', exists' \/ wr'[w].pc = "down",
           exists' \/ seq' = 0,
           Odd(seq') \/ cells' = Whole(committed')
    PROVE  WritersInv'
  <1>1. \A v \in Writers : v # w => wr'[v].pc = "down"
    BY Zenon
  <1>2. \A v \in Writers : WriterAt(v)'
    BY Zenon, <1>1 DEF WriterAt, Recovering
  <1>3. \A u, v \in Writers : u = v \/ wr'[u].pc = "down" \/ wr'[v].pc = "down"
    BY Zenon, <1>1
  <1> QED BY Zenon, <1>2, <1>3 DEF WritersInv, Odd, Whole

\* Every step of a writer, when processes claim one after the other and stores are
\* seen in order.
LEMMA SeqlockWrite ==
    ASSUME SlotTypeOK, WritersInv, Launch = "one", ~ StoresReorder,
           NEW w \in Writers, Write(w)
    PROVE  WritersInv' /\ SlotMoves
  <1>0. /\ DOMAIN wr = Writers /\ wr[w] \in WriterLocals /\ wr[w].s \in Nat
        /\ wr[w].done \in 0..Parts /\ wr[w].value \in 0..MaxWrite
        /\ seq \in Nat /\ committed \in Nat /\ written \in Nat /\ resets \in Nat
        /\ cells \in [1..Parts -> 0..MaxWrite] /\ Parts \in Nat /\ Parts > 0
    BY WriterFields, Constants DEF SlotTypeOK, FileTypeOK
  <1>1. \A v \in Writers : v # w => wr'[v] = wr[v]
    BY Zenon, WriterTypeStep DEF SlotTypeOK
  <1>2. /\ ~ exists => seq = 0 /\ wr[w].pc = "down"
        /\ committed <= written
        /\ Odd(seq) \/ cells = Whole(committed)
        /\ WriterAt(w)
    BY ZenonT(30) DEF WritersInv
  <1>3. \A v \in Writers : v # w => wr[v].pc = "down"
    <2>1. CASE wr[w].pc # "down"
      BY Zenon, <2>1 DEF WritersInv
    <2>2. CASE wr[w].pc = "down"
      BY Zenon, <2>2 DEF Write, Claim, WriteStep, ClaimStart, Launched, Clock, ClaimBeat,
                  ClaimLoad, ClaimCas, ClaimClear, ClaimReset, WriteCall, WriteOdd,
                  WriteCopy, WriteEven, WriteBeat, Notify, Wake, WriterDies
    <2> QED BY Zenon, <2>1, <2>2
  <1>4. ASSUME WriterAt(w)', committed' <= written', exists',
               Odd(seq') \/ cells' = Whole(committed')
        PROVE  WritersInv'
    BY Zenon, <1>1, <1>3, <1>4, AloneStep
  <1>5. ASSUME wr[w].pc # "down",
               UNCHANGED <<exists, seq, cells, committed, written, resets>>,
               \/ wr'[w].pc = "down"
               \/ /\ ~ Odd(seq)
                  /\ wr'[w].pc \in {"claim_beat", "store_claim", "idle", "beat",
                                    "store_beat", "notify", "wake"}
        PROVE  WritersInv' /\ SlotMoves
    <2>1. WriterAt(w)'
      BY Zenon, <1>5 DEF WriterAt, Recovering, Odd
    <2> QED BY <1>0, <1>2, <1>4, <1>5, <2>1 DEF SlotMoves
  <1>6. CASE ClaimStart(w)
    <2>1. /\ wr[w].pc = "down" /\ exists' = TRUE
          /\ wr'[w].pc = IF ~ exists THEN "idle"
                         ELSE IF Odd(seq) THEN "claim_load" ELSE "claim_beat"
          /\ UNCHANGED <<seq, cells, committed, written, resets>>
      BY Zenon, <1>0, <1>6 DEF ClaimStart, historyVars, WriterLocals
    <2>2. WriterAt(w)'
      BY Zenon, <1>0, <1>2, <2>1, Parity DEF WriterAt, Recovering
    <2> QED BY <1>0, <1>2, <1>4, <2>1, <2>2 DEF SlotMoves
  <1>7. CASE Clock(w) \/ ClaimBeat(w) \/ WriteBeat(w) \/ Notify(w) \/ Wake(w)
    <2>1. /\ UNCHANGED <<exists, seq, cells, committed, written, resets>>
          /\ wr[w].pc \in {"claim_beat", "beat", "store_claim", "store_beat", "notify",
                           "wake"}
      BY Zenon, <1>7 DEF Clock, ClaimBeat, WriteBeat, Notify, Wake, fileVars, historyVars
    <2>2. wr'[w].pc \in {"store_claim", "store_beat", "idle", "notify", "wake"}
      BY <1>0, <1>7 DEF Clock, ClaimBeat, WriteBeat, Notify, Wake, WriterLocals, Down
    <2>3. ~ Odd(seq)
      BY Zenon, <1>2, <2>1 DEF WriterAt, Recovering
    <2> QED BY Zenon, <1>5, <2>1, <2>2, <2>3
  <1>8. CASE WriterDies(w)
    <2>1. /\ UNCHANGED <<exists, seq, cells, committed, written, resets>>
          /\ wr[w].pc # "down"
      BY Zenon, <1>8 DEF WriterDies, fileVars
    <2>2. wr'[w].pc = "down"
      BY Zenon, <1>0, <1>8 DEF WriterDies, Down
    <2> QED BY Zenon, <1>5, <2>1, <2>2
  <1>9. CASE ClaimLoad(w)
    <2>1. UNCHANGED <<exists, seq, cells, committed, written, resets>>
      BY Zenon, <1>9 DEF ClaimLoad, fileVars, historyVars
    <2>2. wr[w].pc = "claim_load" /\ wr'[w].pc \in {"down", "claim_cas"}
      BY Zenon, <1>0, <1>9 DEF ClaimLoad, Down, WriterLocals
    <2>3. CASE wr'[w].pc = "claim_cas"
      <3>1. WriterAt(w)'
        BY Zenon, <1>2, <2>1, <2>2, <2>3 DEF WriterAt, Recovering, Odd
      <3> QED BY <1>0, <1>2, <1>4, <2>1, <2>2, <3>1 DEF SlotMoves
    <2> QED BY Zenon, <1>5, <2>1, <2>2, <2>3
  <1>10. CASE ClaimCas(w)
    <2>1. UNCHANGED <<exists, seq, cells, committed, written, resets>>
      BY Zenon, <1>10 DEF ClaimCas, historyVars
    <2>2. wr[w].pc = "claim_cas"
      BY Zenon, <1>10 DEF ClaimCas
    <2>3. wr'[w].pc = "down" \/ (wr'[w].pc = "clear" /\ wr'[w].done = 0)
      BY <1>0, <1>10 DEF ClaimCas, Down, WriterLocals
    <2>4. CASE wr'[w].pc = "clear" /\ wr'[w].done = 0
      <3>1. WriterAt(w)'
        BY <1>2, <2>1, <2>2, <2>4 DEF WriterAt, Recovering, Odd
      <3> QED BY <1>0, <1>2, <1>4, <2>1, <2>2, <3>1 DEF SlotMoves
    <2> QED BY Zenon, <1>5, <2>1, <2>2, <2>3, <2>4
  <1>11. CASE ClaimClear(w)
    <2>1. /\ UNCHANGED <<exists, seq, committed, written, resets>> /\ wr[w].pc = "clear"
          /\ cells' = [cells EXCEPT ![wr[w].done + 1] = 0] /\ wr[w].done < Parts
      BY Zenon, <1>11 DEF ClaimClear, historyVars
    <2>2. wr'[w].pc = "clear" /\ wr'[w].done = wr[w].done + 1
      BY Zenon, <1>0, <1>11 DEF ClaimClear, WriterLocals
    <2>3. Odd(seq) /\ \A i \in 1..wr[w].done : cells[i] = 0
      BY Zenon, <1>2, <2>1 DEF WriterAt, Recovering
    <2>4. \A i \in 1..wr'[w].done : cells'[i] = 0
      BY <1>0, <2>1, <2>2, <2>3
    <2>5. WriterAt(w)'
      BY Zenon, <2>1, <2>2, <2>3, <2>4 DEF WriterAt, Recovering, Odd
    <2> QED BY <1>0, <1>2, <1>4, <2>1, <2>3, <2>5 DEF SlotMoves
  <1>12. CASE ClaimReset(w)
    <2>1. /\ UNCHANGED <<exists, cells, written>> /\ wr[w].pc = "clear"
          /\ wr[w].done = Parts /\ seq' = 0 /\ committed' = 0 /\ resets' = resets + 1
      BY Zenon, <1>12 DEF ClaimReset
    <2>2. wr'[w].pc = "notify"
      BY Zenon, <1>0, <1>12 DEF ClaimReset, Down
    <2>3. \A i \in 1..Parts : cells[i] = 0
      BY Zenon, <1>2, <2>1 DEF WriterAt
    <2>4. cells' = Whole(committed')
      BY Zenon, <1>0, <2>1, <2>3 DEF Whole
    <2>5. WriterAt(w)'
      BY Zenon, <1>0, <2>1, <2>2, Parity DEF WriterAt, Recovering
    <2> QED BY <1>0, <1>2, <1>4, <2>1, <2>4, <2>5 DEF SlotMoves
  <1>13. CASE WriteCall(w)
    <2>1. /\ UNCHANGED <<exists, seq, cells, committed, resets>> /\ wr[w].pc = "idle"
          /\ written' = written + 1
      BY Zenon, <1>13 DEF WriteCall, fileVars
    <2>2. /\ wr'[w].pc = "odd" /\ wr'[w].s = seq /\ wr'[w].done = 0
          /\ wr'[w].value = written + 1
      BY Zenon, <1>0, <1>13 DEF WriteCall, Down
    <2>3. ~ Odd(seq)
      BY Zenon, <1>2, <2>1 DEF WriterAt, Recovering
    <2>4. WriterAt(w)'
      BY Zenon, <2>1, <2>2, <2>3 DEF WriterAt, Recovering, Odd
    <2> QED BY <1>0, <1>2, <1>4, <2>1, <2>4 DEF SlotMoves
  <1>14. CASE WriteOdd(w)
    <2>1. /\ UNCHANGED <<exists, cells, committed, written, resets>> /\ wr[w].pc = "odd"
          /\ seq' = wr[w].s + 1
      BY Zenon, <1>14 DEF WriteOdd, historyVars
    <2>2. /\ wr'[w].pc = "copy" /\ wr'[w].s = wr[w].s /\ wr'[w].done = wr[w].done
          /\ wr'[w].value = wr[w].value
      BY Zenon, <1>0, <1>14 DEF WriteOdd, WriterLocals
    <2>3. wr[w].s = seq /\ wr[w].done = 0 /\ wr[w].value = written /\ ~ Odd(seq)
      BY Zenon, <1>2, <2>1 DEF WriterAt, Recovering
    <2>4. Odd(seq')
      BY Zenon, <1>0, <1>2, <2>1, <2>3, Parity DEF WriterAt
    <2>5. WriterAt(w)'
      BY <2>1, <2>2, <2>3, <2>4 DEF WriterAt, Recovering, Odd
    <2> QED BY <1>0, <1>2, <1>4, <2>1, <2>3, <2>4, <2>5 DEF SlotMoves
  <1>15. CASE WriteCopy(w)
    <2>1. /\ UNCHANGED <<exists, seq, committed, written, resets>> /\ wr[w].pc = "copy"
          /\ cells' = [cells EXCEPT ![wr[w].done + 1] = wr[w].value] /\ wr[w].done < Parts
      BY Zenon, <1>15 DEF WriteCopy, historyVars
    <2>2. /\ wr'[w].pc = "copy" /\ wr'[w].done = wr[w].done + 1 /\ wr'[w].s = wr[w].s
          /\ wr'[w].value = wr[w].value
      BY Zenon, <1>0, <1>15, <2>1 DEF WriteCopy, WriterLocals
    <2>3. /\ Odd(seq) /\ wr[w].s + 1 = seq /\ wr[w].value = written
          /\ \A i \in 1..wr[w].done : cells[i] = wr[w].value
      BY Zenon, <1>2, <2>1 DEF WriterAt, Recovering
    <2>4. \A i \in 1..wr'[w].done : cells'[i] = wr'[w].value
      BY <1>0, <2>1, <2>2, <2>3
    <2>5. WriterAt(w)'
      BY Zenon, <2>1, <2>2, <2>3, <2>4 DEF WriterAt, Recovering, Odd
    <2> QED BY <1>0, <1>2, <1>4, <2>1, <2>3, <2>5 DEF SlotMoves
  <1>16. CASE WriteEven(w)
    <2>1. /\ UNCHANGED <<exists, cells, written, resets>> /\ wr[w].pc = "copy"
          /\ seq' = wr[w].s + 2 /\ committed' = wr[w].value /\ wr[w].done = Parts
      BY Zenon, <1>16 DEF WriteEven
    <2>2. wr'[w].pc = "beat"
      BY Zenon, <1>0, <1>16 DEF WriteEven, WriterLocals
    <2>3. /\ Odd(seq) /\ wr[w].s + 1 = seq /\ wr[w].value = written
          /\ \A i \in 1..Parts : cells[i] = wr[w].value
      BY Zenon, <1>2, <2>1 DEF WriterAt, Recovering
    <2>4. seq' = seq + 1 /\ ~ Odd(seq')
      <3>1. seq' = seq + 1
        BY <1>0, <2>1, <2>3
      <3> QED BY Zenon, <1>0, <2>3, <3>1, Parity
    <2>5. cells' = Whole(committed')
      BY Zenon, <1>0, <2>1, <2>3 DEF Whole
    <2>6. WriterAt(w)'
      BY Zenon, <2>2, <2>4 DEF WriterAt, Recovering
    <2> QED BY <1>0, <1>2, <1>4, <2>1, <2>3, <2>4, <2>5, <2>6 DEF SlotMoves
  <1> QED BY Zenon, <1>6, <1>7, <1>8, <1>9, <1>10, <1>11, <1>12, <1>13, <1>14, <1>15,
             <1>16 DEF Write, Claim, WriteStep
-------------------------------------------------------------------------------
(* SharedLatest: a death is seen. *)

\* The first positive multiple of m is m.
LEMMA FirstMultiple ==
    ASSUME NEW m \in Nat \ {0}, NEW n \in 1..m, n % m = 0
    PROVE  n = m
  <1> DEFINE q == n \div m
  <1>1. q \in Int /\ n = m * q
    OBVIOUS
  <1> HIDE DEF q
  <1>2. ~ (q >= 2) \/ m * q >= m * 2
    BY <1>1
  <1>3. q <= 0 => m * q <= 0
    BY <1>1
  <1> QED BY <1>1, <1>2, <1>3

\* A step of a call: no round is the last before the heartbeat was looked at, and
\* the heartbeat of a writer that is long dead is too old.
LEMMA RoundStep ==
    ASSUME SlotTypeOK, DeathInv, NEW r \in Readers,
           NEW x \in ReaderLocals, rd'[r] = x, SameCall(x, rd[r]), Outcome(rd[r], x),
           UNCHANGED <<fileVars, now, wr, historyVars>>
    PROVE  RoundOf(r)'
  <1> DEFINE c == rd[r]
  <1>1. /\ c.i \in Nat /\ c.hb \in Nat /\ now \in Nat /\ diedAt \in Nat /\ heartbeat \in Nat
        /\ SpinCheck \in Nat \ {0} /\ SpinCheck <= MaxRetries /\ MaxRetries \in Nat
        /\ DeadThreshold \in Nat /\ seq \in Nat
    <2>1. rd[r] \in ReaderLocals
      BY Zenon DEF SlotTypeOK
    <2>2. c.i \in 0..(MaxRetries - 1) /\ c.hb \in Nat
      BY Zenon, <2>1, ReaderFields
    <2> QED BY <2>2, Constants DEF SlotTypeOK, FileTypeOK
  <1>2. UNCHANGED <<seq, heartbeat, now, wr, diedAt>>
    BY Zenon DEF fileVars, historyVars
  <1>3. /\ x.mode = c.mode /\ x.orphan = c.orphan
    BY Zenon DEF SameCall
  <1>4. RoundOf(r) /\ heartbeat <= now /\ diedAt <= now
    BY Zenon DEF DeathInv
  <1>5. x.pc \in {"snapshot", "read", "wait", "asleep"} => x.i = 0
    BY Zenon DEF Outcome, GoesRound, HasReturned
  <1>6. ASSUME c.orphan, x.mode = "status", heartbeat # 0
        PROVE  /\ x.i < SpinCheck
               /\ x.pc \in {"beat", "clock"} => x.i + 1 = SpinCheck
               /\ x.pc = "clock" => x.hb = heartbeat
               /\ x.pc = "copy" => x.s = seq
               /\ x.ret.result # "kContended"
    <2>1. /\ \A w \in Writers : wr[w].pc = "down"
          /\ now - diedAt > DeadThreshold
          /\ c.i < SpinCheck
          /\ c.pc \in {"beat", "clock"} => c.i + 1 = SpinCheck
          /\ c.pc = "clock" => c.hb = heartbeat
          /\ c.pc = "copy" => c.s = seq
          /\ c.ret.result # "kContended"
      BY Zenon, <1>3, <1>4, <1>6 DEF RoundOf, DeadFor, Ended
    <2>2. heartbeat <= diedAt
      BY Zenon, <2>1 DEF DeathInv
    <2>3. now - heartbeat > DeadThreshold
      BY <1>1, <2>1, <2>2
    <2>4. ASSUME c.i + 1 # SpinCheck, GoesRound(x, c)
          PROVE  x.pc = "seq" /\ x.i = c.i + 1 /\ x.i < SpinCheck /\ x.ret = c.ret
      BY <1>1, <2>1, <2>4 DEF GoesRound
    <2>5. CASE /\ c.pc = "seq" /\ ~ Odd(seq) /\ x.pc = "copy" /\ x.s = seq
               /\ x.out = c.out /\ x.i = c.i /\ x.ret = c.ret
      BY Zenon, <2>1, <2>5
    <2>6. CASE /\ c.pc = "seq" /\ Odd(seq) /\ c.mode = "status"
               /\ (c.i + 1) % SpinCheck = 0
               /\ x.pc = "beat" /\ x.out = c.out /\ x.i = c.i /\ x.ret = c.ret
      <3>1. c.i + 1 \in 1..SpinCheck
        BY <1>1, <2>1
      <3>2. c.i + 1 = SpinCheck
        BY Zenon, <1>1, <2>6, <3>1, FirstMultiple
      <3> QED BY ZenonT(30), <2>1, <2>6, <3>2
    <2>7. CASE /\ c.pc = "seq" /\ Odd(seq)
               /\ ~ (c.mode = "status" /\ (c.i + 1) % SpinCheck = 0)
               /\ GoesRound(x, c)
      <3>1. SpinCheck % SpinCheck = 0
        BY <1>1
      <3>2. c.i + 1 # SpinCheck
        BY Zenon, <1>3, <1>6, <2>7, <3>1
      <3> QED BY ZenonT(30), <2>1, <2>4, <2>7, <3>2
    <2>8. CASE /\ c.pc = "beat" /\ x.pc = "clock" /\ x.hb = heartbeat
               /\ x.out = c.out /\ x.i = c.i /\ x.ret = c.ret
      BY Zenon, <2>1, <2>8
    <2>9. CASE \/ HasReturned(x, c, "kWriterDead", <<>>)
               \/ HasReturned(x, c, "kSuccess", c.out)
      BY <1>1, <2>9 DEF HasReturned
    <2>10. CASE /\ c.pc = "clock" /\ ~ (c.hb # 0 /\ now - c.hb > DeadThreshold)
                /\ GoesRound(x, c)
      BY Zenon, <1>6, <2>1, <2>3, <2>10
    <2>11. CASE /\ c.pc = "copy" /\ Len(c.out) < Parts /\ x.pc = "copy" /\ x.s = c.s
                /\ x.out = Append(c.out, cells[Len(c.out) + 1]) /\ x.i = c.i
                /\ x.ret = c.ret
      BY Zenon, <2>1, <2>11
    <2>12. CASE c.pc = "copy" /\ Len(c.out) = Parts /\ seq # c.s /\ GoesRound(x, c)
      BY Zenon, <2>1, <2>12
    <2> QED BY Zenon, <2>5, <2>6, <2>7, <2>8, <2>9, <2>10, <2>11, <2>12 DEF Outcome
  <1>7. c.orphan => (\A w \in Writers : wr[w].pc = "down") /\ now - diedAt > DeadThreshold
    BY Zenon, <1>4 DEF RoundOf, DeadFor
  <1>8. x.orphan => DeadFor(r)'
    BY ZenonT(30), <1>2, <1>3, <1>6, <1>7 DEF DeadFor, Ended
  <1> QED BY Zenon, <1>5, <1>8 DEF RoundOf

\* A call that begins.
LEMMA RoundCalled ==
    ASSUME SlotTypeOK, NEW r \in Readers, rd[r].i = 0,
           NEW mode, NEW x \in ReaderLocals, rd'[r] = x, IsCalled(x, rd[r], mode),
           UNCHANGED <<fileVars, now, wr, historyVars>>
    PROVE  RoundOf(r)'
  <1>1. UNCHANGED <<seq, heartbeat, now, wr, diedAt>>
    BY Zenon DEF fileVars, historyVars
  <1>2. /\ x.i = 0 /\ x.orphan = Orphaned /\ x.pc \notin {"beat", "clock", "copy"}
        /\ x.ret.result # "kContended"
    BY DEF IsCalled, NoReturn
  <1>3. 0 < SpinCheck
    BY Constants
  <1> QED BY Zenon, <1>1, <1>2, <1>3 DEF RoundOf, DeadFor, Ended, Orphaned

\* Whoever has nothing to do with a call leaves it as it is.
LEMMA RoundRests ==
    ASSUME NEW r \in Readers, RoundOf(r),
           Rests(rd'[r], rd[r]) \/ rd'[r] = rd[r],
           rd[r].i = 0 \/ rd'[r] = rd[r],
           UNCHANGED <<fileVars, now, wr, historyVars>>
    PROVE  RoundOf(r)'
  <1>1. UNCHANGED <<seq, heartbeat, now, wr, diedAt>>
    BY Zenon DEF fileVars, historyVars
  <1>2. CASE rd'[r] = rd[r]
    BY ZenonT(30), <1>1, <1>2 DEF RoundOf, DeadFor, Ended
  <1>3. CASE Rests(rd'[r], rd[r]) /\ rd[r].i = 0
    <2>1. /\ rd'[r].pc \notin {"beat", "clock", "copy"} /\ rd'[r].i = 0
          /\ rd'[r].orphan = rd[r].orphan /\ rd'[r].mode = rd[r].mode
          /\ rd'[r].ret = rd[r].ret
      BY ZenonT(30), <1>3 DEF Rests
    <2> QED BY ZenonT(30), <1>1, <1>3, <2>1 DEF RoundOf, DeadFor, Ended
  <1> QED BY Zenon, <1>2, <1>3

\* Time only makes the dead longer dead.
LEMMA DeathTick ==
    ASSUME SlotTypeOK, DeathInv, Tick
    PROVE  DeathInv'
  <1>1. now' = now + 1 /\ UNCHANGED <<seq, heartbeat, wr, rd, diedAt>>
    BY Zenon DEF Tick, fileVars, historyVars
  <1>2. now \in Nat /\ diedAt \in Nat /\ heartbeat \in Nat /\ DeadThreshold \in Nat
    BY Zenon, Constants DEF SlotTypeOK, FileTypeOK
  <1>3. \A w \in Writers : wr[w].now \in Nat
    BY Zenon, WriterFields DEF SlotTypeOK
  <1>4. heartbeat' <= now' /\ diedAt' <= now' /\ \A w \in Writers : wr'[w].now <= now'
    BY <1>1, <1>2, <1>3 DEF DeathInv
  <1>5. ASSUME NEW r \in Readers PROVE RoundOf(r)'
    <2>1. RoundOf(r) /\ (now - diedAt > DeadThreshold => now' - diedAt > DeadThreshold)
      BY <1>1, <1>2 DEF DeathInv
    <2> QED BY Zenon, <1>1, <2>1 DEF RoundOf, DeadFor, Ended
  <1> QED BY Zenon, <1>1, <1>4, <1>5 DEF DeathInv

\* Every step of a writer: with a writer that lives no call counts as begun after
\* its death, and the heartbeat a writer stores was read from the clock before.
LEMMA DeathWrite ==
    ASSUME SlotTypeOK, DeathInv, NEW w \in Writers, Write(w)
    PROVE  DeathInv'
  <1> DEFINE Absent == {"down", "claim_load", "claim_cas"}
  <1>0. /\ DOMAIN wr = Writers /\ wr[w] \in WriterLocals /\ wr[w].now \in Nat
        /\ now \in Nat /\ diedAt \in Nat /\ heartbeat \in Nat
    BY Zenon, WriterFields DEF SlotTypeOK, FileTypeOK
  <1>1. now' = now /\ \A v \in Writers : v # w => wr'[v] = wr[v]
    BY Zenon, WriterTypeStep DEF SlotTypeOK, Write
  <1>2. /\ heartbeat <= now /\ diedAt <= now /\ wr[w].now <= now
        /\ (\A v \in Writers : wr[v].pc \in Absent) => heartbeat <= diedAt
        /\ \A v \in Writers : wr[v].now <= now
    BY Zenon DEF DeathInv
  <1>3. ASSUME NEW r \in Readers PROVE RoundOf(r)'
    <2>1. Kept(rd'[r], rd[r]) /\ (ClaimStart(w) => ~ rd'[r].orphan)
      BY Zenon, ReadersKept
    <2>2. wr[w].pc # "down" \/ ClaimStart(w)
      BY Zenon DEF Write, Claim, WriteStep, Clock, ClaimBeat,
             ClaimLoad, ClaimCas, ClaimClear, ClaimReset, WriteCall, WriteOdd,
             WriteCopy, WriteEven, WriteBeat, Notify, Wake, WriterDies
    <2>3. ~ rd'[r].orphan
      BY ZenonT(30), <2>1, <2>2 DEF DeathInv, RoundOf, DeadFor, Kept
    <2> QED BY ZenonT(30), <2>1, <2>3 DEF DeathInv, RoundOf, Kept
  <1>4. SUFFICES /\ heartbeat' \in {heartbeat, wr[w].now} /\ diedAt' \in {diedAt, now}
                 /\ wr'[w].now \in {0, now, wr[w].now}
                 /\ \/ wr'[w].pc \notin Absent
                    \/ diedAt' = now
                    \/ wr[w].pc \in Absent /\ UNCHANGED <<heartbeat, diedAt>>
    <2>1. heartbeat' <= now /\ diedAt' <= now /\ wr'[w].now <= now
      BY <1>0, <1>2, <1>4
    <2>2. ASSUME \A v \in Writers : wr'[v].pc \in Absent PROVE heartbeat' <= diedAt'
      BY Zenon, <1>0, <1>1, <1>2, <1>4, <2>1, <2>2
    <2>3. \A v \in Writers : wr'[v].now <= now
      BY Zenon, <1>1, <1>2, <2>1
    <2> QED BY Zenon, <1>1, <1>3, <2>1, <2>2, <2>3 DEF DeathInv
  <1>5. CASE ClaimStart(w)
    <2>1. UNCHANGED <<heartbeat, diedAt>> /\ wr[w].pc = "down"
      BY Zenon, <1>5 DEF ClaimStart, historyVars
    <2>2. wr'[w].now = wr[w].now
      BY Zenon, <1>0, <1>5 DEF ClaimStart, WriterLocals
    <2> QED BY Zenon, <2>1, <2>2
  <1>6. CASE ClaimLoad(w)
    <2>1. UNCHANGED <<heartbeat, diedAt>> /\ wr[w].pc = "claim_load"
      BY Zenon, <1>6 DEF ClaimLoad, fileVars, historyVars
    <2>2. wr'[w].now \in {0, now}
      BY Zenon, <1>0, <1>6 DEF ClaimLoad, WriterLocals, Down
    <2> QED BY Zenon, <2>1, <2>2
  <1>7. CASE ClaimCas(w)
    <2>1. UNCHANGED diedAt /\ wr[w].pc = "claim_cas"
      BY Zenon, <1>7 DEF ClaimCas, historyVars
    <2>2. CASE heartbeat = wr[w].hb
      <3>1. wr'[w].pc = "clear" /\ wr'[w].now = wr[w].now /\ heartbeat' = wr[w].now
        BY Zenon, <1>0, <1>7, <2>2 DEF ClaimCas, WriterLocals
      <3> QED BY Zenon, <2>1, <3>1
    <2>3. CASE heartbeat # wr[w].hb
      <3>1. wr'[w].now = 0 /\ heartbeat' = heartbeat
        BY <1>0, <1>7, <2>3 DEF ClaimCas, Down
      <3> QED BY Zenon, <2>1, <3>1
    <2> QED BY Zenon, <2>2, <2>3
  <1>8. CASE WriterDies(w)
    <2>1. UNCHANGED heartbeat /\ diedAt' = now
      BY Zenon, <1>8 DEF WriterDies, fileVars
    <2>2. wr'[w].now = 0
      BY Zenon, <1>0, <1>8 DEF WriterDies, Down
    <2> QED BY Zenon, <2>1, <2>2
  <1>9. CASE Clock(w)
    <2>1. UNCHANGED <<heartbeat, diedAt>>
      BY Zenon, <1>9 DEF Clock, fileVars, historyVars
    <2>2. wr'[w].now = now /\ wr'[w].pc \in {"store_beat", "store_claim"}
      BY Zenon, <1>0, <1>9 DEF Clock, WriterLocals
    <2> QED BY Zenon, <2>1, <2>2
  <1>10. CASE ClaimBeat(w) \/ WriteBeat(w)
    <2>1. heartbeat' = wr[w].now /\ UNCHANGED diedAt
      BY Zenon, <1>10 DEF ClaimBeat, WriteBeat, historyVars
    <2>2. wr'[w].now = 0 /\ wr'[w].pc \in {"idle", "notify"}
      BY Zenon, <1>0, <1>10 DEF ClaimBeat, WriteBeat, Down
    <2> QED BY Zenon, <2>1, <2>2
  <1>11. CASE ClaimReset(w) \/ WriteCall(w)
    <2>1. UNCHANGED <<heartbeat, diedAt>>
      BY Zenon, <1>11 DEF ClaimReset, WriteCall, fileVars
    <2>2. wr'[w].now = 0 /\ wr'[w].pc \in {"odd", "notify"}
      BY ZenonT(30), <1>0, <1>11 DEF ClaimReset, WriteCall, Down
    <2> QED BY Zenon, <2>1, <2>2
  <1>12. CASE ClaimClear(w) \/ WriteOdd(w) \/ WriteCopy(w) \/ WriteEven(w) \/ Notify(w)
              \/ Wake(w)
    <2>1. UNCHANGED <<heartbeat, diedAt>>
      BY Zenon, <1>12 DEF ClaimClear, WriteOdd, WriteCopy, WriteEven, Notify, Wake,
                          fileVars, historyVars
    <2>2. CASE ClaimClear(w) \/ WriteCopy(w)
      <3>1. wr'[w].now = wr[w].now /\ wr'[w].pc \in {"clear", "odd", "copy"}
        BY Zenon, <1>0, <2>2 DEF ClaimClear, WriteCopy, WriterLocals
      <3> QED BY Zenon, <2>1, <3>1
    <2>3. CASE WriteOdd(w) \/ WriteEven(w) \/ Notify(w) \/ Wake(w)
      <3>1. wr'[w].now = wr[w].now /\ wr'[w].pc \in {"copy", "beat", "wake", "idle"}
        BY <1>0, <2>3 DEF WriteOdd, WriteEven, Notify, Wake, WriterLocals
      <3> QED BY Zenon, <2>1, <3>1
    <2> QED BY Zenon, <1>12, <2>2, <2>3
  <1> QED BY Zenon, <1>5, <1>6, <1>7, <1>8, <1>9, <1>10, <1>11, <1>12
          DEF Write, Claim, WriteStep
-------------------------------------------------------------------------------
(* SharedLatest: what holds of every behaviour. *)

\* What a reader may do: go on with a call, begin one, or rest.
ReaderMoves(x, c) ==
    \/ SameCall(x, c) /\ Outcome(c, x)
    \/ /\ c.pc \in {"snapshot", "read", "wait"}
       /\ \E mode \in {"plain", "status"} : IsCalled(x, c, mode)
    \/ Rests(x, c)

\* The steps between two calls.
LEMMA RestSteps ==
    ASSUME SlotTypeOK, NEW r \in Readers, Snapshot(r) \/ Wait(r) \/ WaitEnds(r)
    PROVE  \E x : rd' = [rd EXCEPT ![r] = x] /\ Rests(x, rd[r])
  <1> DEFINE c == rd[r]
  <1>1. c \in ReaderLocals /\ DOMAIN rd = Readers /\ notify \in Nat
    BY Zenon DEF SlotTypeOK, FileTypeOK
  <1>2. ASSUME NEW p \in {"read", "asleep", "snapshot"}, NEW n \in Nat,
               c.pc \in {"snapshot", "wait", "asleep"}
        PROVE  Rests([c EXCEPT !.pc = p, !.last = n], c)
    <2> DEFINE y == [c EXCEPT !.pc = p, !.last = n]
    <2>1. /\ y \in ReaderLocals /\ y.pc = p /\ y.mode = c.mode /\ y.floor = c.floor
          /\ y.resets = c.resets /\ y.orphan = c.orphan /\ y.out = c.out /\ y.i = c.i
          /\ y.ret = c.ret
      BY Zenon, <1>1 DEF ReaderLocals, Returns
    <2> HIDE DEF y
    <2>2. Rests(y, c)
      BY Zenon, <1>2, <2>1 DEF Rests
    <2> QED BY Zenon, <2>2 DEF y
  <1>3. CASE Snapshot(r)
    <2>1. rd' = [rd EXCEPT ![r] = [c EXCEPT !.pc = "read", !.last = notify]]
      BY Zenon, <1>1, <1>3 DEF Snapshot
    <2> QED BY Zenon, <1>1, <1>2, <1>3, <2>1 DEF Snapshot
  <1>4. CASE Wait(r) \/ WaitEnds(r)
    <2>1. PICK p \in {"asleep", "snapshot"} : rd' = [rd EXCEPT ![r] = [c EXCEPT !.pc = p]]
      BY Zenon, <1>1, <1>4 DEF Wait, WaitEnds
    <2>2. [c EXCEPT !.pc = p] = [c EXCEPT !.pc = p, !.last = c.last] /\ c.last \in Nat
      BY Zenon, <1>1 DEF ReaderLocals
    <2>3. c.pc \in {"wait", "asleep"}
      BY Zenon, <1>4 DEF Wait, WaitEnds
    <2> QED BY Zenon, <1>2, <2>1, <2>2, <2>3
  <1> QED BY Zenon, <1>3, <1>4

LEMMA BodyMoves ==
    ASSUME SlotTypeOK, NEW r \in Readers, ReadBody(r)
    PROVE  \E x \in ReaderLocals : /\ rd' = [rd EXCEPT ![r] = x] /\ Len(x.out) <= Parts
                                   /\ ReaderMoves(x, rd[r])
  <1>1. rd[r] \in ReaderLocals /\ Len(rd[r].out) <= Parts
    BY Zenon DEF SlotTypeOK
  <1>2. PICK x : rd' = [rd EXCEPT ![r] = x] /\ Stores(rd[r], x)
    BY Zenon, BodyStores
  <1>3. /\ x \in ReaderLocals /\ Len(x.out) <= Parts /\ SameCall(x, rd[r])
        /\ Outcome(rd[r], x)
    BY Zenon, <1>1, <1>2, OutcomeOf
  <1> QED BY Zenon, <1>2, <1>3 DEF ReaderMoves

LEMMA CallMoves ==
    ASSUME SlotTypeOK, NEW r \in Readers, NEW mode \in {"plain", "status"},
           rd[r].pc \in {"snapshot", "read", "wait"},
           rd' = [rd EXCEPT ![r] = Called(r, mode)]
    PROVE  \E x \in ReaderLocals : /\ rd' = [rd EXCEPT ![r] = x] /\ Len(x.out) <= Parts
                                   /\ ReaderMoves(x, rd[r])
  <1> DEFINE x == Called(r, mode)
  <1>1. IsCalled(x, rd[r], mode)
    BY Zenon, CalledFacts
  <1> HIDE DEF x
  <1>2. x \in ReaderLocals /\ (x.out = rd[r].out \/ x.out = <<>>)
    BY Zenon, <1>1 DEF IsCalled
  <1>3. Len(x.out) <= Parts
    BY <1>2, Constants DEF SlotTypeOK
  <1>4. rd' = [rd EXCEPT ![r] = x]
    BY Zenon DEF x
  <1> QED BY Zenon, <1>1, <1>2, <1>3, <1>4 DEF ReaderMoves

LEMMA ReadMoves ==
    ASSUME SlotTypeOK, NEW r \in Readers, Read(r)
    PROVE  \E x \in ReaderLocals : /\ rd' = [rd EXCEPT ![r] = x] /\ Len(x.out) <= Parts
                                   /\ ReaderMoves(x, rd[r])
  <1>1. CASE ReadBody(r)
    BY Zenon, <1>1, BodyMoves
  <1>2. CASE \E mode \in Modes : ReadCall(r, mode)
    <2>1. PICK mode \in Modes : ReadCall(r, mode)
      BY Zenon, <1>2
    <2>2. mode \in {"plain", "status"} /\ rd[r].pc = "read"
          /\ rd' = [rd EXCEPT ![r] = Called(r, mode)]
      BY Zenon, <2>1, CallersAssumption DEF ReadCall
    <2> QED BY Zenon, <2>2, CallMoves
  <1>3. CASE Snapshot(r) \/ Wait(r) \/ WaitEnds(r)
    <2>1. PICK x : rd' = [rd EXCEPT ![r] = x] /\ Rests(x, rd[r])
      BY Zenon, <1>3, RestSteps
    <2>2. x \in ReaderLocals /\ x.out = rd[r].out
      BY Zenon, <2>1 DEF Rests
    <2>3. Len(x.out) <= Parts
      BY Zenon, <2>2 DEF SlotTypeOK
    <2> QED BY Zenon, <2>1, <2>2, <2>3 DEF ReaderMoves
  <1> QED BY Zenon, <1>1, <1>2, <1>3 DEF Read, ReadStep

\* Every step of a reader keeps the types, what is known of the calls of a reader
\* when the writer is dead, and what is known of snapshots.
LEMMA ReaderStep ==
    ASSUME SlotTypeOK, NEW r \in Readers,
           \E x \in ReaderLocals : /\ rd' = [rd EXCEPT ![r] = x] /\ Len(x.out) <= Parts
                                   /\ ReaderMoves(x, rd[r]),
           UNCHANGED <<fileVars, now, wr, historyVars>>
    PROVE  SlotTypeOK' /\ (DeathInv => DeathInv')
           /\ (DeathInv /\ SeqlockInv => SeqlockInv')
  <1>1. PICK x \in ReaderLocals : /\ rd' = [rd EXCEPT ![r] = x] /\ Len(x.out) <= Parts
                                  /\ ReaderMoves(x, rd[r])
    BY Zenon
  <1>2. UNCHANGED <<exists, seq, heartbeat, notify, cells, wr, now, written, committed,
                    resets, deaths, diedAt>>
    BY Zenon DEF fileVars, historyVars
  <1>3. FileTypeOK'
    BY Zenon, <1>2 DEF SlotTypeOK, FileTypeOK
  <1>4. SlotTypeOK' /\ rd'[r] = x /\ \A q \in Readers : q # r => rd'[q] = rd[q]
    BY ZenonT(30), <1>1, <1>2, <1>3, ReaderTypeStep
  <1>5. UNCHANGED <<fileVars, historyVars>>
    BY Zenon
  <1>6. ASSUME DeathInv PROVE DeathInv'
    <2>1. RoundOf(r)'
      <3>1. RoundOf(r)
        BY Zenon, <1>6 DEF DeathInv
      <3>2. CASE SameCall(x, rd[r]) /\ Outcome(rd[r], x)
        BY Zenon, <1>4, <1>6, <3>2, RoundStep
      <3>3. CASE /\ rd[r].pc \in {"snapshot", "read", "wait"}
                 /\ \E mode \in {"plain", "status"} : IsCalled(x, rd[r], mode)
        <4>1. rd[r].i = 0
          BY Zenon, <3>1, <3>3 DEF RoundOf
        <4> QED BY Zenon, <1>4, <3>3, <4>1, RoundCalled
      <3>4. CASE Rests(x, rd[r])
        <4>1. rd[r].pc \in {"snapshot", "read", "wait", "asleep"}
          BY Zenon, <3>4, ReaderFields DEF Rests, SlotTypeOK, ReaderPcs
        <4>2. rd[r].i = 0
          BY Zenon, <3>1, <4>1 DEF RoundOf
        <4> QED BY Zenon, <1>4, <3>1, <3>4, <4>2, RoundRests
      <3> QED BY Zenon, <1>1, <3>2, <3>3, <3>4 DEF ReaderMoves
    <2>2. ASSUME NEW q \in Readers, q # r PROVE RoundOf(q)'
      <3>1. RoundOf(q) /\ rd'[q] = rd[q]
        BY Zenon, <1>4, <1>6, <2>2 DEF DeathInv
      <3> QED BY Zenon, <3>1, RoundRests
    <2>3. \A q \in Readers : RoundOf(q)'
      BY Zenon, <2>1, <2>2
    <2> QED BY Zenon, <1>2, <1>6, <2>3 DEF DeathInv
  <1>7. ASSUME DeathInv, SeqlockInv PROVE SeqlockInv'
    <2>0. WritersInv /\ \A q \in Readers : ReaderAt(q) /\ SnapshotOf(q)
      BY Zenon, <1>7 DEF SeqlockInv, SnapshotIsCurrent
    <2>1. ReaderAt(r)' /\ SnapshotOf(r)'
      <3>1. CASE SameCall(x, rd[r]) /\ Outcome(rd[r], x)
        BY Zenon, <1>4, <1>5, <2>0, <3>1, SnapshotStep
      <3>2. CASE /\ rd[r].pc \in {"snapshot", "read", "wait"}
                 /\ \E mode \in {"plain", "status"} : IsCalled(x, rd[r], mode)
        <4>1. rd[r].out = <<>>
          BY Zenon, <2>0, <3>2 DEF ReaderAt
        <4> QED BY Zenon, <1>4, <1>5, <2>0, <3>2, <4>1, SnapshotCalled
      <3>3. CASE Rests(x, rd[r])
        BY Zenon, <1>4, <1>5, <2>0, <3>3, SnapshotRests
      <3> QED BY Zenon, <1>1, <3>1, <3>2, <3>3 DEF ReaderMoves
    <2>2. ASSUME NEW q \in Readers, q # r PROVE ReaderAt(q)' /\ SnapshotOf(q)'
      BY Zenon, <1>4, <1>5, <2>0, <2>2, SnapshotRests
    <2>3. WritersInv'
      BY ZenonT(30), <1>2, <2>0 DEF WritersInv, WriterAt, Recovering, Odd, Whole
    <2> QED BY Zenon, <2>1, <2>2, <2>3 DEF SeqlockInv, SnapshotIsCurrent
  <1> QED BY Zenon, <1>4, <1>6, <1>7

\* The initial state.
LEMMA SlotStarts ==
    ASSUME SlotInit
    PROVE  SlotTypeOK /\ DeathInv /\ SeqlockInv
  <1> DEFINE none == <<>>
             n == NoReturn
             c == [pc |-> "snapshot", mode |-> "plain", i |-> 0, s |-> 0, hb |-> 0,
                   out |-> none, last |-> 0, floor |-> 0, resets |-> 0,
                   orphan |-> FALSE, ret |-> n]
  <1>1. none \in Seq(0..MaxWrite) /\ Len(none) = 0 /\ n \in Returns /\ n.result = "none"
    BY DEF NoReturn, Returns, Results
  <1>2. rd = [r \in Readers |-> c]
    BY Zenon DEF SlotInit
  <1> HIDE DEF none, n
  <1>3. /\ c \in ReaderLocals /\ c.pc = "snapshot" /\ c.i = 0 /\ c.out = none
        /\ c.orphan = FALSE /\ c.ret = n /\ c.floor = 0 /\ c.resets = 0
    BY <1>1, Constants DEF ReaderLocals, Returns
  <1> HIDE DEF c
  <1>4. rd \in [Readers -> ReaderLocals] /\ \A r \in Readers : rd[r] = c
    BY Zenon, <1>2, <1>3
  <1>5. SlotTypeOK
    <2>1. FileTypeOK /\ wr \in [Writers -> WriterLocals]
      BY Zenon, WritersStart
    <2>2. \A r \in Readers : Len(rd[r].out) <= Parts
      BY <1>1, <1>3, <1>4, Constants
    <2> QED BY Zenon, <1>4, <2>1, <2>2 DEF SlotTypeOK
  <1>6. \A w \in Writers : wr[w].pc = "down" /\ wr[w].now = 0
    BY Zenon DEF SlotInit, Down
  <1>7. \A r \in Readers : RoundOf(r)
    BY Zenon, <1>3, <1>4 DEF RoundOf
  <1>8. DeathInv
    BY <1>6, <1>7 DEF DeathInv, SlotInit
  <1>9. \A r \in Readers : ReaderAt(r) /\ SnapshotOf(r)
    BY <1>1, <1>3, <1>4 DEF ReaderAt, SnapshotOf, Ended, SlotInit, none
  <1>10. WritersInv
    <2>1. \A w \in Writers : WriterAt(w)
      BY Zenon, <1>6 DEF WriterAt, Recovering
    <2> QED BY <1>6, <2>1 DEF WritersInv, SlotInit
  <1> QED BY Zenon, <1>5, <1>8, <1>9, <1>10 DEF SeqlockInv, SnapshotIsCurrent

LEMMA SeqlockKept ==
    ASSUME SlotTypeOK, SeqlockInv, Launch = "one", ~ StoresReorder,
           NEW w \in Writers, Write(w)
    PROVE  SeqlockInv' /\ SlotMoves
  <1>1. WritersInv' /\ SlotMoves
    BY Zenon, SeqlockWrite DEF SeqlockInv
  <1>2. FileTypeOK' /\ \A r \in Readers : Kept(rd'[r], rd[r])
    BY Zenon, WriteKeepsTypes, ReadersKept DEF SlotTypeOK
  <1>3. \A r \in Readers : ReaderAt(r)' /\ SnapshotOf(r)'
    BY Zenon, <1>1, <1>2, SnapshotKept DEF SeqlockInv, SnapshotIsCurrent
  <1> QED BY Zenon, <1>1, <1>3 DEF SeqlockInv, SnapshotIsCurrent

\* A step that leaves the slot, its writers and its readers alone.
LEMMA SlotRests ==
    ASSUME SlotTypeOK, UNCHANGED slotVars
    PROVE  SlotTypeOK' /\ (DeathInv => DeathInv') /\ (SeqlockInv => SeqlockInv')
  <1>1. UNCHANGED <<exists, seq, heartbeat, notify, cells, wr, rd, now, written, committed,
                    resets, deaths, diedAt>>
    BY Zenon DEF slotVars, fileVars, historyVars
  <1>2. SlotTypeOK'
    BY Zenon, <1>1 DEF SlotTypeOK, FileTypeOK
  <1>3. ASSUME DeathInv PROVE DeathInv'
    BY Zenon, <1>1, <1>3 DEF DeathInv, RoundOf, DeadFor, Ended
  <1>4. ASSUME SeqlockInv PROVE SeqlockInv'
    <2>1. WritersInv'
      BY Zenon, <1>1, <1>4 DEF SeqlockInv, WritersInv, WriterAt, Recovering, Odd, Whole
    <2>2. UNCHANGED <<fileVars, historyVars>> /\ \A r \in Readers : rd'[r] = rd[r]
      BY Zenon, <1>1 DEF fileVars, historyVars
    <2>3. \A r \in Readers : ReaderAt(r)' /\ SnapshotOf(r)'
      BY Zenon, <1>4, <2>2, SnapshotRests DEF SeqlockInv, SnapshotIsCurrent
    <2> QED BY Zenon, <2>1, <2>3 DEF SeqlockInv, SnapshotIsCurrent
  <1> QED BY Zenon, <1>2, <1>3, <1>4

\* The steps of the clock.
LEMMA SlotTick ==
    ASSUME SlotTypeOK, Tick
    PROVE  SlotTypeOK' /\ (DeathInv => DeathInv') /\ (SeqlockInv => SeqlockInv')
  <1>1. /\ now' = now + 1
        /\ UNCHANGED <<exists, seq, heartbeat, notify, cells, wr, rd, written, committed,
                       resets, deaths, diedAt>>
    BY Zenon DEF Tick, fileVars, historyVars
  <1>2. SlotTypeOK'
    BY <1>1 DEF SlotTypeOK, FileTypeOK
  <1>3. ASSUME SeqlockInv PROVE SeqlockInv'
    <2>1. WritersInv'
      BY Zenon, <1>1, <1>3 DEF SeqlockInv, WritersInv, WriterAt, Recovering, Odd, Whole
    <2>2. UNCHANGED <<fileVars, historyVars>> /\ \A r \in Readers : rd'[r] = rd[r]
      BY Zenon, <1>1 DEF fileVars, historyVars
    <2>3. \A r \in Readers : ReaderAt(r)' /\ SnapshotOf(r)'
      BY Zenon, <1>3, <2>2, SnapshotRests DEF SeqlockInv, SnapshotIsCurrent
    <2> QED BY Zenon, <2>1, <2>3 DEF SeqlockInv, SnapshotIsCurrent
  <1> QED BY Zenon, <1>2, <1>3, DeathTick

\* An orphaned call that has ended in kContended found no heartbeat.
LEMMA DeathSeen == DeathInv => DeathIsSeen
  BY Zenon DEF DeathInv, RoundOf, DeadFor, DeathIsSeen

\* DeathIsSeen for any number of writers and readers, whenever they are started, and
\* whatever order stores are seen in: try_read looks at the heartbeat before its
\* retries run out, and a writer never stores a heartbeat from after its death.
THEOREM DeathSeenBySlot == SlotSpec => []DeathIsSeen
  <1> DEFINE Inv == SlotTypeOK /\ DeathInv
  <1>1. SlotInit => Inv
    BY Zenon, SlotStarts
  <1>2. Inv /\ [SlotNext]_slotVars => Inv'
    <2> SUFFICES ASSUME Inv, [SlotNext]_slotVars PROVE Inv'
      BY Zenon
    <2>1. ASSUME NEW w \in Writers, Write(w) PROVE Inv'
      BY Zenon, <2>1, WriteKeepsTypes, DeathWrite
    <2>2. ASSUME NEW r \in Readers, Read(r) PROVE Inv'
      <3>1. UNCHANGED <<fileVars, now, wr, historyVars>>
        BY Zenon, <2>2 DEF Read
      <3> QED BY Zenon, <2>2, <3>1, ReadMoves, ReaderStep
    <2>3. CASE Tick
      BY Zenon, <2>3, SlotTick
    <2>4. CASE UNCHANGED slotVars
      BY Zenon, <2>4, SlotRests
    <2> QED BY Zenon, <2>1, <2>2, <2>3, <2>4 DEF SlotNext
  <1>3. Inv => DeathIsSeen
    BY Zenon, DeathSeen
  <1> QED BY <1>1, <1>2, <1>3, PTL DEF SlotSpec

\* Everything known of the slot when processes claim it one after the other and the
\* stores of a write are seen in order.
SlotInv == SlotTypeOK /\ DeathInv /\ SeqlockInv

LEMMA SlotInvariant == Launch = "one" /\ ~ StoresReorder => (SlotSpec => []SlotInv)
  <1> SUFFICES ASSUME Launch = "one", ~ StoresReorder
               PROVE  SlotSpec => []SlotInv
    BY Zenon
  <1>1. SlotInit => SlotInv
    BY Zenon, SlotStarts DEF SlotInv
  <1>2. SlotInv /\ [SlotNext]_slotVars => SlotInv'
    <2> SUFFICES ASSUME SlotTypeOK, DeathInv, SeqlockInv, [SlotNext]_slotVars
                 PROVE  SlotTypeOK' /\ DeathInv' /\ SeqlockInv'
      BY Zenon DEF SlotInv
    <2>1. ASSUME NEW w \in Writers, Write(w)
          PROVE  SlotTypeOK' /\ DeathInv' /\ SeqlockInv'
      BY Zenon, <2>1, WriteKeepsTypes, DeathWrite, SeqlockKept
    <2>2. ASSUME NEW r \in Readers, Read(r)
          PROVE  SlotTypeOK' /\ DeathInv' /\ SeqlockInv'
      <3>1. UNCHANGED <<fileVars, now, wr, historyVars>>
        BY Zenon, <2>2 DEF Read
      <3> QED BY Zenon, <2>2, <3>1, ReadMoves, ReaderStep
    <2>3. CASE Tick
      BY Zenon, <2>3, SlotTick
    <2>4. CASE UNCHANGED slotVars
      BY Zenon, <2>4, SlotRests
    <2> QED BY Zenon, <2>1, <2>2, <2>3, <2>4 DEF SlotNext
  <1> QED BY <1>1, <1>2, PTL DEF SlotSpec

\* try_read's snapshots (shared_latest.hpp:42) for any number of readers, size of T
\* and number of writes, deaths and recoveries: one whole value that was current
\* during the call, unless a recovery fell into it, when processes claim the slot one
\* after the other and the stores of a write are seen in order.
THEOREM WholeSnapshots ==
    Launch = "one" /\ ~ StoresReorder => (SlotSpec => []SnapshotIsCurrent)
  <1>1. SlotInv => SnapshotIsCurrent
    BY Zenon DEF SlotInv, SeqlockInv
  <1> QED BY <1>1, SlotInvariant, PTL

\* A value has at least one word, so that snapshots of it tell it.
LEMMA WholeDiffers ==
    ASSUME NEW u, NEW v, Whole(u) = Whole(v)
    PROVE  u = v
  <1>1. 1 \in 1..Parts
    BY PartsAssumption
  <1>2. Whole(u)[1] = u /\ Whole(v)[1] = v
    BY Zenon, <1>1 DEF Whole
  <1> QED BY Zenon, <1>2

\* Under the same conditions a reader that polls the slot (shared_latest.hpp:184)
\* never goes back to an older value: what a call returned was committed by then, and
\* the next call returns nothing older than what is committed when it begins.
THEOREM PollsForward ==
    Launch = "one" /\ ~ StoresReorder => (SlotSpec => ReadsNeverGoBack)
  <1>1. ASSUME SlotInv, [SlotNext]_slotVars, NEW r \in Readers, NEW v \in 0..MaxWrite,
               rd[r].pc = "read", rd'[r].pc # "read", Ended(r, "kSuccess"),
               rd[r].ret.value = Whole(v), rd[r].resets = resets
        PROVE  v <= rd'[r].floor
    <2>0. SlotTypeOK /\ SnapshotOf(r)
      BY Zenon, <1>1 DEF SlotInv, SeqlockInv, SnapshotIsCurrent
    <2>1. v <= committed
      <3>1. PICK u \in rd[r].floor..committed : rd[r].ret.value = Whole(u)
        BY Zenon, <1>1, <2>0 DEF SnapshotOf
      <3>2. u = v
        BY Zenon, <1>1, <3>1, WholeDiffers
      <3>3. committed \in Nat /\ rd[r].floor \in Nat
        BY <2>0, ReaderFields, Constants DEF SlotTypeOK, FileTypeOK
      <3> QED BY <3>1, <3>2, <3>3
    <2>2. ASSUME NEW w \in Writers, Write(w) PROVE rd'[r].pc = "read"
      BY Zenon, <1>1, <2>0, <2>2, ReadersKept DEF Kept
    <2>3. ASSUME NEW q \in Readers, Read(q) PROVE rd'[r].floor = committed
      <3>1. PICK x : rd' = [rd EXCEPT ![q] = x]
        BY Zenon, <2>0, <2>3, ReadMoves
      <3>2. q = r
        BY Zenon, <1>1, <2>0, <3>1 DEF SlotTypeOK
      <3>3. PICK mode \in Modes : ReadCall(r, mode)
        BY Zenon, <1>1, <2>3, <3>2
           DEF Read, ReadStep, ReadBody, ReadSeq, ReadBeat, ReadClock, ReadCopy,
               ReadCheck, Snapshot, Wait, WaitEnds
      <3>4. rd'[r] = Called(r, mode) /\ mode \in {"plain", "status"}
        BY Zenon, <2>0, <3>3, CallersAssumption DEF ReadCall, SlotTypeOK
      <3> QED BY ZenonT(30), <2>0, <3>4, CalledFacts DEF IsCalled
    <2>4. ASSUME Tick \/ UNCHANGED slotVars PROVE rd'[r].pc = "read"
      BY Zenon, <1>1, <2>4 DEF Tick, slotVars
    <2> QED BY Zenon, <1>1, <2>1, <2>2, <2>3, <2>4 DEF SlotNext
  <1>2. SlotInv /\ [SlotNext]_slotVars => [\A r \in Readers : NotNewer(r)]_slotVars
    BY Zenon, <1>1 DEF NotNewer
  <1> QED BY <1>2, SlotInvariant, PTL DEF SlotSpec, ReadsNeverGoBack

-------------------------------------------------------------------------------
(* The subscriber of the latest value. *)

\* The types and the thread, in every step: the thread reads only inside try_read, and
\* begins a call only when the one before has returned.
LEMMA SubscriberStarts ==
    ASSUME LatestInit
    PROVE  LatestTypeOK /\ DeathInv /\ SeqlockInv /\ PollingInv /\ MemoryInv
  <1>1. SlotTypeOK /\ DeathInv /\ SeqlockInv
    BY Zenon, SlotStarts DEF LatestInit
  <1>2. LatestTypeOK
    <2>1. PollTypeOK
      <3>1. starts \in 0..MaxStarts
        BY StartsAssumption DEF LatestInit, PollInit
      <3> QED BY Zenon, <3>1 DEF LatestInit, PollInit, PollTypeOK
    <2>2. lastSeq \in Nat /\ shown \in Seq(0..MaxWrite)
      BY DEF LatestInit
    <2>3. overtaken \in BOOLEAN /\ told \in BOOLEAN
      BY Zenon DEF LatestInit
    <2> QED BY Zenon, <1>1, <2>1, <2>2, <2>3 DEF LatestTypeOK
  <1>3. rd[SubReader].pc = "snapshot"
    BY Zenon, SubAssumption DEF LatestInit, SlotInit
  <1>4. PollingInv
    BY Zenon, <1>3 DEF LatestInit, PollInit, PollingInv
  <1>5. MemoryInv
    BY DEF LatestInit, SlotInit, MemoryInv, Remembered
  <1> QED BY Zenon, <1>1, <1>2, <1>4, <1>5

\* start, stop and the wait: what they do to the thread.
LEMMA ThreadSteps ==
    ASSUME PollTypeOK, PollingInv, rd' = rd,
           \/ Start \/ StopCall \/ Stop \/ PollHead("done") \/ PollLock \/ PollBlock
           \/ PollTimeout
    PROVE  PollTypeOK' /\ PollingInv'
  <1> USE DEF PollTypeOK, PollingInv
  <1>0. rd'[SubReader].pc = rd[SubReader].pc
    BY Zenon
  <1>1. CASE Start
    BY <1>0, <1>1, StartsAssumption DEF Start
  <1>2. CASE StopCall
    BY Zenon, <1>0, <1>2 DEF StopCall
  <1>3. CASE StopStore
    BY ZenonT(30), <1>0, <1>3 DEF StopStore
  <1>4. CASE StopNotify
    BY Zenon, <1>0, <1>4 DEF StopNotify
  <1>5. CASE StopJoin
    BY Zenon, <1>0, <1>5 DEF StopJoin
  <1>6. CASE PollHead("done")
    BY Zenon, <1>0, <1>6 DEF PollHead
  <1>7. CASE PollLock \/ PollBlock \/ PollTimeout
    BY <1>0, <1>7 DEF PollLock, PollBlock, PollTimeout
  <1> QED BY ZenonT(30), <1>1, <1>2, <1>3, <1>4, <1>5, <1>6, <1>7 DEF Stop

\* Every step of a topic: what it does to the slot, and what becomes of the thread.
LEMMA LatestStep ==
    ASSUME LatestTypeOK, DeathInv, PollingInv, [LatestNext]_latestVars
    PROVE  LatestTypeOK' /\ DeathInv' /\ PollingInv'
  <1>0. /\ SlotTypeOK /\ PollTypeOK /\ lastSeq \in Nat /\ shown \in Seq(0..MaxWrite)
        /\ overtaken \in BOOLEAN /\ told \in BOOLEAN /\ SubReader \in Readers
    BY Zenon, SubAssumption DEF LatestTypeOK
  <1>1. ASSUME SlotTypeOK', PollTypeOK', UNCHANGED <<lastSeq, shown, overtaken>>,
               told' \in BOOLEAN
        PROVE  LatestTypeOK'
    BY Zenon, <1>0, <1>1 DEF LatestTypeOK
  <1>2. ASSUME UNCHANGED pollVars,
               rd'[SubReader].pc = rd[SubReader].pc \/ poller = "reading"
        PROVE  PollTypeOK' /\ PollingInv'
    BY Zenon, <1>0, <1>2 DEF PollTypeOK, PollingInv, pollVars
  <1>3. CASE Tick /\ UNCHANGED <<told, pollVars, lastSeq, shown, overtaken>>
    <2>1. SlotTypeOK' /\ DeathInv' /\ rd' = rd
      BY Zenon, <1>0, <1>3, SlotTick DEF Tick
    <2> QED BY Zenon, <1>0, <1>1, <1>2, <1>3, <2>1
  <1>4. ASSUME NEW w \in Writers, Write(w), told' = (told /\ wr'[w].pc = "down"),
               UNCHANGED <<pollVars, lastSeq, shown, overtaken>>
        PROVE  LatestTypeOK' /\ DeathInv' /\ PollingInv'
    <2>1. SlotTypeOK' /\ DeathInv'
      BY Zenon, <1>0, <1>4, WriteKeepsTypes, DeathWrite
    <2>2. Kept(rd'[SubReader], rd[SubReader])
      BY Zenon, <1>0, <1>4, ReadersKept
    <2>3. rd'[SubReader].pc = rd[SubReader].pc \/ poller = "reading"
      BY Zenon, <2>2 DEF Kept, PollingInv
    <2>4. told' \in BOOLEAN
      BY Zenon, <1>4
    <2> QED BY Zenon, <1>1, <1>2, <1>4, <2>1, <2>3, <2>4
  <1>5. CASE LatestStart
    <2>1. /\ Start /\ UNCHANGED slotVars /\ lastSeq' = 0 /\ overtaken' = FALSE
          /\ UNCHANGED <<shown, told>>
      BY Zenon, <1>5 DEF LatestStart
    <2>2. SlotTypeOK' /\ DeathInv' /\ rd' = rd
      BY Zenon, <1>0, <2>1, SlotRests DEF slotVars
    <2>3. PollTypeOK' /\ PollingInv'
      BY Zenon, <1>0, <2>1, <2>2, ThreadSteps
    <2> QED BY Zenon, <1>0, <2>1, <2>2, <2>3 DEF LatestTypeOK
  <1>6. CASE /\ StopCall \/ Stop \/ PollHead("done") \/ PollLock \/ PollBlock \/ PollTimeout
             /\ UNCHANGED <<slotVars, viewVars>>
    <2>1. SlotTypeOK' /\ DeathInv' /\ rd' = rd
      BY Zenon, <1>0, <1>6, SlotRests DEF slotVars
    <2>2. PollTypeOK' /\ PollingInv'
      BY Zenon, <1>0, <1>6, <2>1, ThreadSteps
    <2> QED BY Zenon, <1>0, <1>1, <1>6, <2>1, <2>2 DEF viewVars
  <1>7. CASE PollCall
    <2>1. /\ poller = "work" /\ poller' = "reading"
          /\ rd' = [rd EXCEPT ![SubReader] = Called(SubReader, "status")]
          /\ UNCHANGED <<fileVars, now, wr, historyVars>>
          /\ UNCHANGED <<running, joinable, owner, starts>> /\ UNCHANGED viewVars
      BY Zenon, <1>7 DEF PollCall
    <2>2. rd[SubReader].pc \in {"snapshot", "read", "wait"}
      BY Zenon, <2>1 DEF PollingInv
    <2>3. SlotTypeOK' /\ DeathInv'
      BY Zenon, <1>0, <2>1, <2>2, CallMoves, ReaderStep
    <2>4. PollTypeOK' /\ PollingInv'
      BY Zenon, <1>0, <2>1 DEF PollTypeOK, PollingInv
    <2> QED BY Zenon, <1>0, <1>1, <2>1, <2>3, <2>4 DEF viewVars
  <1>8. CASE PollRead
    <2>1. /\ poller = "reading" /\ ReadBody(SubReader)
          /\ UNCHANGED <<fileVars, now, wr, historyVars>>
          /\ UNCHANGED pollVars /\ UNCHANGED viewVars
      BY Zenon, <1>8 DEF PollRead
    <2>2. SlotTypeOK' /\ DeathInv'
      BY Zenon, <1>0, <2>1, BodyMoves, ReaderStep
    <2> QED BY Zenon, <1>0, <1>1, <1>2, <2>1, <2>2 DEF viewVars
  <1>9. CASE PollResult
    <2>1. /\ poller = "reading" /\ poller' = "wait" /\ rd[SubReader].pc = "wait"
          /\ UNCHANGED slotVars /\ UNCHANGED <<running, joinable, owner, starts>>
      BY Zenon, <1>9 DEF PollResult
    <2>2. SlotTypeOK' /\ DeathInv' /\ rd' = rd
      BY Zenon, <1>0, <2>1, SlotRests DEF slotVars
    <2>3. PollTypeOK' /\ PollingInv'
      BY Zenon, <1>0, <2>1, <2>2 DEF PollTypeOK, PollingInv
    <2>4. rd[SubReader].ret.value \in Seq(0..MaxWrite) /\ seq \in Nat
      <3>1. rd[SubReader].ret \in Returns
        BY Zenon, <1>0, ReaderFields DEF SlotTypeOK
      <3> QED BY Zenon, <1>0, <3>1 DEF Returns, SlotTypeOK, FileTypeOK
    <2>5. told' \in BOOLEAN /\ overtaken' \in BOOLEAN
      BY Zenon, <1>0, <1>9 DEF PollResult
    <2>6. lastSeq' \in Nat /\ shown' \in Seq(0..MaxWrite)
      BY ZenonT(30), <1>0, <1>9, <2>4 DEF PollResult
    <2> QED BY Zenon, <2>2, <2>3, <2>5, <2>6 DEF LatestTypeOK
  <1>10. CASE UNCHANGED latestVars
    <2>1. UNCHANGED slotVars /\ UNCHANGED pollVars /\ UNCHANGED viewVars
      BY Zenon, <1>10 DEF latestVars
    <2>2. SlotTypeOK' /\ DeathInv' /\ rd' = rd
      BY Zenon, <1>0, <2>1, SlotRests DEF slotVars
    <2> QED BY Zenon, <1>0, <1>1, <1>2, <2>1, <2>2 DEF viewVars
  <1> QED BY Zenon, <1>3, <1>4, <1>5, <1>6, <1>7, <1>8, <1>9, <1>10
          DEF LatestNext, Publishing, LatestLoop, LatestTimeout

\* Every step of a topic, for the seqlock and what the subscriber remembers of it.
LEMMA MemoryStep ==
    ASSUME LatestInv, Launch = "one", ~ StoresReorder, [LatestNext]_latestVars
    PROVE  SeqlockInv' /\ MemoryInv'
  <1>0. /\ SlotTypeOK /\ DeathInv /\ SeqlockInv /\ MemoryInv /\ PollingInv
        /\ SubReader \in Readers /\ lastSeq \in Nat /\ seq \in Nat /\ resets \in Nat
    BY Zenon, SubAssumption DEF LatestInv, LatestTypeOK, SlotTypeOK, FileTypeOK
  <1>1. ASSUME UNCHANGED <<seq, committed, resets>>, UNCHANGED <<lastSeq, shown, overtaken>>
        PROVE  MemoryInv'
    BY Zenon, <1>0, <1>1 DEF MemoryInv, Remembered, Whole, Odd
  <1>2. CASE Tick /\ UNCHANGED <<told, pollVars, lastSeq, shown, overtaken>>
    BY Zenon, <1>0, <1>1, <1>2, SlotTick DEF Tick, fileVars, historyVars
  <1>3. ASSUME NEW w \in Writers, Write(w), UNCHANGED <<lastSeq, shown, overtaken>>
        PROVE  SeqlockInv' /\ MemoryInv'
    <2>1. SeqlockInv' /\ SlotMoves
      BY Zenon, <1>0, <1>3, SeqlockKept
    <2>2. seq' \in Nat
      BY Zenon, <1>0, <1>3, WriteKeepsTypes DEF SlotTypeOK, FileTypeOK
    <2>3. CASE seq < seq' /\ UNCHANGED resets
      BY <1>0, <1>3, <2>1, <2>2, <2>3 DEF MemoryInv, Remembered
    <2>4. CASE resets' = resets + 1
      BY <1>0, <2>1, <2>4 DEF MemoryInv
    <2> QED BY Zenon, <1>1, <1>3, <2>1, <2>3, <2>4 DEF SlotMoves
  <1>4. ASSUME UNCHANGED slotVars
        PROVE  SeqlockInv' /\ UNCHANGED <<seq, committed, resets>>
    BY Zenon, <1>0, <1>4, SlotRests DEF slotVars, fileVars, historyVars
  <1>5. CASE LatestStart
    <2>1. UNCHANGED slotVars /\ lastSeq' = 0
      BY Zenon, <1>5 DEF LatestStart
    <2>2. MemoryInv'
      BY <1>0, <1>4, <2>1 DEF MemoryInv, Remembered
    <2> QED BY Zenon, <1>4, <2>1, <2>2
  <1>6. CASE UNCHANGED <<slotVars, viewVars>>
    BY Zenon, <1>1, <1>4, <1>6 DEF viewVars
  <1>7. ASSUME UNCHANGED <<fileVars, now, wr, historyVars>>, UNCHANGED viewVars,
               \E x \in ReaderLocals :
                   /\ rd' = [rd EXCEPT ![SubReader] = x] /\ Len(x.out) <= Parts
                   /\ ReaderMoves(x, rd[SubReader])
        PROVE  SeqlockInv' /\ MemoryInv'
    <2>1. SeqlockInv'
      BY Zenon, <1>0, <1>7, ReaderStep
    <2>2. MemoryInv'
      BY Zenon, <1>1, <1>7 DEF fileVars, historyVars, viewVars
    <2> QED BY Zenon, <2>1, <2>2
  <1>8. CASE PollCall
    <2>1. /\ poller = "work"
          /\ rd' = [rd EXCEPT ![SubReader] = Called(SubReader, "status")]
          /\ UNCHANGED <<fileVars, now, wr, historyVars>> /\ UNCHANGED viewVars
      BY Zenon, <1>8 DEF PollCall
    <2>2. rd[SubReader].pc \in {"snapshot", "read", "wait"}
      BY Zenon, <1>0, <2>1 DEF PollingInv
    <2> QED BY Zenon, <1>0, <1>7, <2>1, <2>2, CallMoves
  <1>9. CASE PollRead
    BY Zenon, <1>0, <1>7, <1>9, BodyMoves DEF PollRead
  <1>10. CASE PollResult
    <2>1. UNCHANGED slotVars
      BY Zenon, <1>10 DEF PollResult
    <2>2. CASE Ended(SubReader, "kSuccess") /\ seq # lastSeq
      <3>1. /\ lastSeq' = seq /\ shown' = rd[SubReader].ret.value
            /\ overtaken' = (Odd(seq) \/ rd[SubReader].ret.value # Whole(committed))
        BY Zenon, <1>10, <2>2 DEF PollResult
      <3>2. Odd(seq) \/ shown' = Whole(committed) \/ overtaken'
        BY Zenon, <3>1
      <3>3. MemoryInv'
        BY <1>0, <1>4, <2>1, <3>1, <3>2 DEF MemoryInv, Remembered, Odd, Whole
      <3> QED BY Zenon, <1>4, <2>1, <3>3
    <2>3. CASE ~ (Ended(SubReader, "kSuccess") /\ seq # lastSeq)
      <3>1. UNCHANGED <<lastSeq, shown, overtaken>>
        BY Zenon, <1>10, <2>3 DEF PollResult
      <3> QED BY Zenon, <1>1, <1>4, <2>1, <3>1
    <2> QED BY Zenon, <2>2, <2>3
  <1> QED BY Zenon, <1>2, <1>3, <1>5, <1>6, <1>8, <1>9, <1>10
          DEF LatestNext, Publishing, LatestLoop, LatestTimeout, latestVars

\* DeathIsSeen for a topic: starting and stopping the subscriber at any moment makes it
\* miss no death that a try_read of its own would have seen.
THEOREM DeathSeenByTopic == LatestSpec => []DeathIsSeen
  <1> DEFINE Inv == LatestTypeOK /\ DeathInv /\ PollingInv
  <1>1. LatestInit => Inv
    BY Zenon, SubscriberStarts
  <1>2. Inv /\ [LatestNext]_latestVars => Inv'
    BY Zenon, LatestStep
  <1>3. Inv => DeathIsSeen
    BY Zenon, DeathSeen
  <1> QED BY <1>1, <1>2, <1>3, PTL DEF LatestSpec

\* "Stop the polling thread (blocks until joined)" (ipc_adapter.hpp:171), for this
\* subscriber as well.
THEOREM LatestStopJoins == LatestSpec => []StoppedIsJoined
  <1> DEFINE Inv == LatestTypeOK /\ DeathInv /\ PollingInv
  <1>1. LatestInit => Inv
    BY SubscriberStarts
  <1>2. Inv /\ [LatestNext]_latestVars => Inv'
    BY LatestStep
  <1>3. Inv => StoppedIsJoined
    BY Zenon DEF PollingInv, StoppedIsJoined
  <1> QED BY <1>1, <1>2, <1>3, PTL DEF LatestSpec

\* The inductive invariant of a topic for any number of writers, writes, deaths and
\* calls of start: publishers take the slot one after the other (SharedLatestPublisher's
\* constructor claims it) and the stores of a write are seen in order.
THEOREM LatestInvariant == Launch = "one" /\ ~ StoresReorder => (LatestSpec => []LatestInv)
  <1> SUFFICES ASSUME Launch = "one", ~ StoresReorder PROVE LatestSpec => []LatestInv
    OBVIOUS
  <1>1. LatestInit => LatestInv
    BY Zenon, SubscriberStarts DEF LatestInv
  <1>2. LatestInv /\ [LatestNext]_latestVars => LatestInv'
    <2> SUFFICES ASSUME LatestInv, [LatestNext]_latestVars PROVE LatestInv'
      BY Zenon
    <2>1. LatestTypeOK' /\ DeathInv' /\ PollingInv'
      BY Zenon, LatestStep DEF LatestInv
    <2>2. SeqlockInv' /\ MemoryInv'
      BY Zenon, MemoryStep
    <2> QED BY Zenon, <2>1, <2>2 DEF LatestInv
  <1> QED BY <1>1, <1>2, PTL DEF LatestSpec

\* ReaderSafe for every topic: no callback is ever given a torn value, or one that was
\* already replaced when try_read was called, unless a recovery came in between.
THEOREM SubscriberReadsWhole ==
    Launch = "one" /\ ~ StoresReorder => (LatestSpec => []ReaderSafe)
  <1>1. LatestInv => ReaderSafe
    BY Zenon DEF LatestInv, SeqlockInv, ReaderSafe
  <1> QED BY <1>1, LatestInvariant, PTL

\* SkippedIsShown for every topic: poll_loop's comparison of raw_sequence with last_seq
\* drops only values the callback has been given, until a recovery or a write that
\* comes between try_read and raw_sequence.
THEOREM SkipsOnlyShown ==
    Launch = "one" /\ ~ StoresReorder => (LatestSpec => []SkippedIsShown)
  <1>1. LatestInv => SkippedIsShown
    <2> SUFFICES ASSUME LatestInv PROVE SkippedIsShown
      BY Zenon
    <2>1. MemoryInv
      BY Zenon DEF LatestInv
    <2> QED BY Zenon, <2>1 DEF MemoryInv, SkippedIsShown
  <1> QED BY <1>1, LatestInvariant, PTL
================================================================================
